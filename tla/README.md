# A TLA+ model of mileage-core

mileage-core is an HTTP service (Go, Echo) that keeps miles for users: they sign
up, are granted miles, redeem them, look at balance and history, and report
achievements. MySQL holds users, accounts, transactions and achievement events;
Redis caches balances. This directory models the parts of the service whose
correctness depends on how concurrent requests, failures, retries and time
interleave, checks the models with TLC and proves their main properties with
TLAPS.

## The system

| component | state | operations | talks to |
|---|---|---|---|
| grant, redeem (`usecase/grant.go`, `redeem.go`) | per request: account object, expected version, transaction id, loop counter | idempotency lookup, then up to `maxRetries` transactions: read account, domain operation, insert row, update balance; after the commit DEL of the cached balance | repository, transaction manager, cache |
| account aggregate (`domain/mileage`) | balance, version (int64) | `Grant`, `Redeem` | – |
| repository, transactions, pool (`infra/mysql`) | `mileage_accounts`, `mileage_transactions`, `users`; 25 connections | statements inside or outside a transaction (`GetQuerier`), `RunInTx` | MySQL |
| balance query, cache (`usecase/balance.go`, `infra/redis`) | Redis key per user with TTL 5 min | GET, else load and SET; DEL by writers | Redis, repository |
| sign-up, login (`usecase/auth.go`) | per request: user id, hash | find by email, hash, insert user, insert account, token | repository |
| history (`usecase/transactions.go`) | – | page of rows below a cursor | repository |
| achievements (`usecase/achievement.go`) | `achievement_events`, which refers to `users` | one INSERT | repository |
| middleware (`server/middleware`, `router.go`) | one token bucket, `http_requests_total`; the user of the context | request id, log, metrics, rate limit, CORS, JWT | `x/time/rate`, the handlers |
| configuration (`config/config.go`) | lifetime of tokens, limits, addresses | read once from the environment | middleware, use cases |
| process (`cmd/api/main.go`) | – | wiring, signal handler | all |

Every request is a goroutine; requests share MySQL, Redis, the connection pool,
the token bucket and the counters. After a restart the tables, Redis and the
tokens in the clients' hands are all there is.

What makes it hard:

- the idempotency lookup and the insert are in different transactions, so any
  number of duplicates can be between the two;
- balances are computed in memory from a snapshot and written as absolute
  values, guarded by `version` alone;
- a transaction is retried as a whole, with a new id and a new object;
- COMMIT can fail without an answer, the process can end between any two
  statements, the client can go away (which cancels the context);
- Redis is written by readers and deleted by writers with no order between them;
- transactions hold a connection of a bounded pool while they wait for row locks;
- sign-up writes two tables without a transaction, and a login in between gives
  out a token for a user without account;
- an achievement carries an idempotency key that nothing looks at;
- pages of the history are cut by id and sorted by time while rows are added;
- the limiter reads the clock before it takes its lock, tokens are compared with
  a clock cut to seconds, and numbers from the environment are not checked.

`PROJECT.json`, "hazards", lists each of these at its line with the properties
that are about it.

## Modules

| module | content |
|---|---|
| `MileageDomain` | accounts, `Grant`, `Redeem`, int64 addition, rows, equality of idempotency keys |
| `MileageLedger` | abstract specification: accounts that open once, one atomic booking per key; what makes its books balance |
| `GrantRedeem` | the two write requests, statement by statement, with all failures |
| `GrantRedeemInvariant` | its inductive invariant `IInv` |
| `DocumentedClaims` | what documents say of granting and redeeming and TLC refutes |
| `MileageService` | `GrantRedeem` composed with balance requests, Redis and the shared pool |
| `AddressBook` | abstract specification: addresses taken at one instant and for good, accounts and tokens for their owners |
| `Signup` | sign-up and login |
| `MileageSystem` | `MileageService` composed with `Signup`: one process, database and pool, and the tokens that let clients in |
| `Achievements` | reports of achievements composed with `Signup` |
| `History` | the pages of the transaction list |
| `Config` | the numbers the process takes from its environment |
| `Gateway` | the chain of middleware: limiter, routes, tokens, counters, with time |
| `MileageLedger_proofs`, `GrantRedeem_proofs`, `MileageService_proofs`, `Signup_proofs`, `MileageSystem_proofs`, `Achievements_proofs`, `History_proofs`, `Gateway_proofs` | invariants and proofs about the module of that name |
| `MCGrantRedeem`, `MCMileageService`, `MCSignup`, `MCMileageSystem`, `MCAchievements`, `MCHistory`, `MCGateway` | instances for TLC |

    MileageDomain <- GrantRedeem <- MileageService <- MileageSystem
    MileageLedger <-(implements)- GrantRedeem, MileageService, MileageSystem
    AddressBook <-(implements)- Signup, Achievements, MileageSystem
    Signup <- Achievements;  Signup, MileageService <-(implements)- MileageSystem
    Config <- Gateway;  History

### GrantRedeem

`pc[r]` is the statement request `r` executes next:

| action | code |
|---|---|
| `Accept`, `Refuse` | validation in the handler and at the top of `Execute` |
| `FindTransactionByIdempotencyKey` | the lookup, on a connection of its own |
| `Replay` | the answer to a known key: stored id, account read now |
| `BeginTx` | `BeginTxx`: takes a connection, waits for one if all are out |
| `GetAccount` | the read that fixes the snapshot, then `Grant` or `Redeem` on the object, then the new id |
| `InsertTransaction` | INSERT under `uk_transactions_idempotency` |
| `UpdateBalance` | `UPDATE ... WHERE version = ?` |
| `Commit`, `Rollback` | the end of `RunInTx`; `Rollback` also decides on the retry |
| `InvalidateBalance` | DEL, then the response |
| `StatementFails`, `CommitFails`, `InvalidateFails` | an error from MySQL or Redis at that statement |
| `Crash`, `Shutdown` | the process ends, by itself or by the signal handler |
| `OpenAccount` | the account of a user appears: the second INSERT of a sign-up |

`grant.go` and `redeem.go` are the same but for the domain operation, so one set
of actions, with `Apply` and `Covers`, serves both; each `map` entry names one of
the two places. Local computation between two statements belongs to the statement
before it: it touches nothing another request can see.

`Wants(r)` is what the next statement needs beside what `r` has: a connection
outside a transaction (`GetQuerier`), a key, an account. `WaitsFor(r, q)` says who
keeps it from `r`, and a statement is enabled if nobody does (`Granted`): the
guards of the actions and the property about circles are about the same thing.

Accounts start as `NoAccount` and open at any time. Here that is free; in
`MileageSystem` it is the step of a sign-up and nothing else.

What is assumed of MySQL and Redis (all other behaviour of them is left out):

- REPEATABLE READ: `GetAccount` inside the transaction reads the committed state;
  UPDATE reads the latest committed row, locks it whether or not the version
  matched, and keeps the lock until the transaction ends (`held`, "account");
- INSERT fails on a committed row with the same key. If the row is not committed
  it asks for a shared lock on it (`held`, "share") and waits for the transaction
  that wrote it (`held`, "row"). If that one commits, the waiters get the duplicate
  key error. If it rolls back they all have the shared lock, each has to wait for
  the others before it can insert, and InnoDB rolls one of two back with error
  1213 (`Deadlocked`, the last disjunct of `InsertTransaction`) until one is left.
  Keys are compared under the collation of the column (`Collate`), the lookup's
  WHERE clause likewise;
- MySQL rolls back when the connection is lost. A failed `Rollback()` therefore
  ends like a successful one, and its error still wraps the original one with %w;
- a shared lock is on its key alone. InnoDB locks the gap it lies in as well, so
  an insert of a neighbouring key may also wait, and be a victim, without need: to
  the client that is an error of the statement like a lock wait timeout,
  `StatementFails`;
- a failed COMMIT may have taken effect, a failed DEL too.

A client that sends a request again is another element of `Requests` with the
same content. `past` and `arrived` are history variables: every committed state
of an account, and the version it had when the request came. `txid` values are
`<<request, attempt>>`: a ULID is fresh for each attempt. Go's zero for an output
that is never assigned is `NoAccount` / `NoTx`.

### MileageService

`EXTENDS GrantRedeem` and adds readers: `GetBalance`, `LoadAccount`, `SetBalance`
are the three statements of `BalanceUsecase.Execute`; `GetFails`, `LoadFails`,
`SetFails` their errors (a failed GET is a miss, a failed SET is logged).
`CacheExpire` is the TTL, an eviction or a restart of Redis. Readers and writers
compete for `ConnFree`; a reader's own query is one step, so it only needs a
connection to be free. A crash ends readers and writers together. `late` is a
history variable: the last SET of the key wrote an account that had been replaced
since it was loaded.

### Signup

One action per statement, each committed by itself (`GetQuerier` finds no
transaction in the context). The hash between lookup and insert belongs to the
lookup; it refuses passwords longer than 72 bytes. Addresses stand for what the
collation compares, of a password matters whether it is too short, too long for
bcrypt or neither; a short one may be empty, which a login refuses
(`Refusable`). A sign-up names the user it makes. The INSERT of the account and
the response are one step: a process that ends between the two leaves the row of
`CreateAccountFails`. Two inserts of one address that wait for a third can
deadlock as two of one key can (above); the victim's 500 is that of
`CreateFails`.

`AddressBook` is what all this comes to for somebody who sees the tables and the
tokens only: `Take` an address nobody has, `Open` the account of its owner, `LogIn`
for a token of the owner. It knows no check before the insert, no loser of a
race, no failure and no end of the process. The refinement maps `owner` to the
user registered under each address and `wanted` to the address of each request;
`accounts` and `token` are the same in both.

### MileageSystem

`EXTENDS MileageService` and instantiates `Signup` with its `Signups` as the
`Users` here and its `accounts` as `Members`, the users whose row of
`mileage_accounts` is there. So

- `Register` is a step of `Signup`; if it is the INSERT of an account it is
  `OpenAccount` for the requests, else nothing for them;
- every statement of a sign-up or login needs `ConnFree`: none keeps a
  connection between statements, bookings do;
- a request or reader can begin only when `Authenticated`: some sign-up or login
  was answered with a token for its user (`middleware/auth.go`). Without one the
  answer is 401 and nothing happens, which is no step;
- `SystemExit` ends requests, readers and sign-ups together. Failures of sign-ups
  (`mishaps`) are counted apart from the others (`faults`), each up to
  `MaxFaults`.

Expired tokens are in `Gateway`: here a request that is let in has passed.

### Achievements

`EXTENDS Signup`. A report is what a client wants recorded under one key, a send
an HTTP request with it. `Send` asks for a token of the author and for an action
type; `Insert` is the only statement, with the length of the column and the
foreign key to `users` as its conditions (`Fits`); `InsertFails` may leave the
row behind; `AchievementExit` ends the process with MySQL still executing what it
has received. The next send of a report goes out when the one before was answered
500, got no response, or is still worked on (`early` records those). A client
that has its 201 or 400 does not send again; one that does records a second event
on purpose.

### History

A client fetches page after page, following `next_cursor` (`Fetch`), while rows
are added (`Book`) and time passes (`Tick`). `rows` holds the ids in the order of
`created_at`, which is the order of the commits: a booking reads the version its
predecessor committed, so the bookings of one account do not overlap
(`GrantRedeem_proofs!BookingsDoNotOverlap`). Ids are ULIDs: they follow that order except
within a millisecond. Several servers whose clocks differ would widen the
"millisecond", no more. A page is a set of positions: `Listed` is the WHERE
clause, `Rank` the ORDER BY, `Items` the rows shown, `Extra` row limit + 1. A
client keeps its limit from page to page; a page that fails changes nothing.

### Config and Gateway

`Config!Load` reads three numbers: what `strconv.Atoi` refuses counts as not
set, what it accepts is taken as it is. `Gateway` follows a request through
`Metrics`, `RateLimit` and, on private routes, `Auth` to a handler that answers;
what handlers do is in the other modules. `clock` counts ticks; `Second` and
`Hour` are their lengths in ticks and need not fit each other.

- `Arrive`: `Limiter.Allow` calls `time.Now()`; `Admit`, `TooMany`: it takes the
  lock and works with that reading. In between other requests overtake, so a
  reading can be older than the bucket's `last`, which then goes back.
  `Refilled` and `Admits` are `advance` and `reserveN` of
  `golang.org/x/time/rate`, which is not in the repository: external. Tokens are
  counted in `1/Second` of one, so the bucket holds integers.
- `Login`: `exp` is cut to whole seconds (`Unix`). `Auth`: a token is good while
  the clock is before `exp`. All that is wrong with a token but its age (none,
  no `Bearer`, wrong signature) is `NoToken`.
- `Open`: `/health`, `/metrics`; for a path or method outside `/v1` that it does
  not know echo returns an error (404 and 405 are one here). Below `/v1` such a
  request goes through the middleware of the group, so `Auth` answers 401 or
  echo's error follows ("unlisted").
- `Metrics`: counts after the handler. An error that comes back has not been
  written yet, so the status is still 200 (`Label`).

`served`, `late` and `issuedAt` are history variables: requests admitted since
each tick, how late their readings were, and when a token was made. The model is
one life of the process; a restart fills the bucket.

## Runs

| run | bounds | what it shows |
|---|---|---|
| `grant_redeem` | 3 requests, 1 user, 3 keys of which 2 collate, 8 contents with amounts 0..3 and `MaxInt64` 3, `maxRetries` 2, 3 connections, 1 failure | types (balances stay in int64), one row per key, version = number of rows, balance = sum of rows modulo 2^64, every 200 is booked, every refusal is not, refusals are justified, shown balances were committed, no overdraft, giving up needs `maxRetries` bookings of others; requests that wait for each other in a circle are two inserts of one key, which InnoDB rolls one back of; `IInv` holds; `MileageLedger` is implemented |
| `system_safety` | 2 users, 2 requests, 1 reader, 1 login, 2 addresses, 2 connections, 1 failure on each side | what is cached was committed; without failures the only staleness beyond the DEL is the late fill; nobody is served before a token for a user in the table was given out; a 201 gives an account for good |
| `system_liveness` | 1 user, 2 requests, 2 keys, 1 reader, 1 login, 2 connections, 1 failure on each side | every request is answered, every read and sign-up ends, the cache converges |
| `achievements_safety` | 2 sign-ups, 1 login, 2 addresses and none, all passwords, 1 report sent up to 3 times, 1 failure | one user per address and one winner per race, 201 is complete, refusals leave nothing; a 201 has its event, a 400 has none, without failures 500 is for the content; an event that is there twice was sent again by a client without 201; `AddressBook` is implemented |
| `history_paging` | 6 rows in 3 milliseconds of 3 ids, limits 0, 1, 2, 3 with a maximum of 2 | only rows that became a cursor are missed, or share its millisecond; nothing else is missed or shown twice; cursors descend and the client comes to an end |
| `gateway` | 1 login, 3 calls, 5 environments (defaults, garbage, tight, zero and negative numbers), 2 ticks a second and an hour, 4 readings of the clock | what is admitted is bounded by burst and rate, a refusal is earned, tokens last as configured, the counters agree with limiter and answers, except that what echo does not find counts as 200 |
| `claim_*` | as small as shows it | see "Divergences" |

Why the bounds are enough. A conflict is between two requests; a third is needed
for a duplicate that meets the outcome of a race between two others, for losing
twice (`maxRetries` 2), for waiting behind a waiter and for a deadlock, which
takes two inserts that waited for a third, all in transactions: three connections.
The pool is a bottleneck in the system, where bookings, readers and sign-ups share
two. `MaxInt64` 3 with amounts 2 and 3 makes
two grants overflow. One failure per behaviour covers each statement failing at
each point of each interleaving, the ambiguous COMMIT, and a crash with the other
requests arriving after it (idle requests survive: they are the restarted
server's). In the system two requests suffice, since `grant_redeem` has three;
two users show that nothing leaks between users, and the one login, with either
address, may fall anywhere in a sign-up. Three sends are two repetitions, one of
which may be answered while the other is under way. Six rows are three pages of
the largest size, with rows of one millisecond on both sides of a cut. Three
calls exceed the bursts 1 and 2 and leave one to arrive late; two ticks to the
second make a request come between two whole seconds, and half a token be
gained. What the bounds leave open for the safety properties is closed by the
proofs.

The named bounds that are no constants of the code are `MaxFaults`, `MaxSends`,
in `History` `MaxBookings` and `MaxMs`, and in `Gateway` `MaxClock`; versions,
ids and attempts grow with the number of requests alone.

Deadlock checking is on everywhere: `Finished` (`ServiceFinished`,
`SystemFinished`, `AchievementFinished`, `GatewayFinished`) is enabled only when
every request that came has been dealt with, so a state in which all wait for
each other would be reported. Symmetry is used in runs of safety properties only;
no action or property tells the permuted values apart.

### Mutants

A definition named `Mut...` is an action or operator as a plausible bug would
leave it: no unique index, an INSERT outside the transaction, an UPDATE without
`version`, an amount or balance not compared, a retry too few or too many, a
failed COMMIT reported as a conflict, a DEL of nothing, the cache written before
the commit, a read inside the transaction that asks for a second connection, a
limiter in front of the counter, an INSERT repeated by the use case, routes without Auth, a bucket
without a cap, and so on. They are in no specification. `PROJECT.json`,
"mutants", names for every property of a passing run the mutant that breaks it
when it replaces the original; a property that survives its mutant would say
nothing.

### Fairness

`FairSystemSpec` assumes weak fairness of the next statement of each request,
reader, sign-up and login that has arrived, and of the expiry of each key. The
former holds because a goroutine that can run is run, `database/sql` hands out
connections in the order they were asked for, and InnoDB grants locks in the
order of the waits. Weak fairness is enough, as a request that waits for a lock
or a connection is enabled for good once the holder is done and nobody else
comes; with finitely many requests no request can be overtaken for ever. The
latter is the TTL of five minutes in `SetBalance`. Nothing is assumed of
failures, and no client is assumed to send anything: the properties are about
requests that have come. `History!FairSpec` assumes of the client that it asks
for the next page as long as it is told of one.

## Divergences

Runs with `expect: violation`; each is a statement of the repository the code
does not keep (lines and quotations in `PROJECT.json`, "findings"):

- `claim_duplicate_is_replayed`: a duplicate that passes the lookup before its
  twin commits is answered 500, not with the original result; if it is a
  redemption it may instead be refused as INSUFFICIENT_BALANCE for the miles its
  twin has just taken.
- `claim_grant_raises_balance`: two accepted grants wrap the balance around.
- `claim_cache_follows_writes`: a reader that loaded before a commit writes the
  old balance to Redis after the DEL; it stays until the TTL.
- `claim_users_have_accounts`: a sign-up whose second INSERT fails, or whose
  process ends between the two, leaves a user who can log in, has no account, and
  cannot sign up again.
- `claim_every_row_is_shown`: the row whose id becomes `next_cursor` is on no page.
- `claim_clients_are_limited_apart`: the limit is one for all clients, not per IP.

Others that are in the model as the code has them and need no run to be seen: the
limiter is behind request id, log and metrics (`router.go:29-32`), so that what it
refuses is counted as 429 (`CountersAddUp`), where `docs/processing_flow.md:16-19`
has it first ("① RateLimit", "② RequestID", "③ Logger", "④ Metrics"), and nobody
would count it: that order is the mutant `MutTooManyUncounted`; a replay shows the present balance, not the one first answered (`Replay`); the
reason is not part of the content compared (`FindTransactionByIdempotencyKey`);
keys that differ in case are one key (`Collate`); `Shutdown` waits for nobody; the
loser of a race for an address is answered 500 (`Create`), as is an action type
too long for its column (`Insert`); the idempotency key of an achievement is
stored and never used (`DuplicatesAreTheClients` says whose fault a duplicate
is); a path that does not exist is counted, and logged, as 200
(`CountersAddUp`); a limit of zero or less stops all traffic after the
first burst, a burst of zero all of it, health checks included (`Admits`); a late
reading turns the limiter's clock back, so that a little more is admitted than
configured (`late` in `AdmissionBounded`).

## Proofs

Theorems hold for any number of users, keys, requests, sends, rows, retries,
connections and failures, any limits and environments. Assumptions are the named
ASSUMEs: `MileageDomain` (keys have a collation, sentinels are no values of the
types), `GrantRedeem` (`MaxRetries` and `MaxOpenConns` positive, inputs well
formed), `Signup`, `MileageSystem`, `Achievements`, `History`, `Config` and
`Gateway` (sentinels and kinds of requests are apart, lengths positive). That the
sets of requests are finite is assumed nowhere; `CountersAlwaysAddUp` and
`AddressesHaveOneWinner` count finite subsets and show them to be finite.

| module | proved |
|---|---|
| `MileageLedger_proofs` | the books of the abstract ledger balance, and it never overdraws |
| `GrantRedeem_proofs` | every safety property; `GrantRedeem` implements `MileageLedger`; bookings on one account do not overlap; a request takes a bounded number of statements |
| `MileageService_proofs` | the same invariant and refinement with readers and cache; `ServiceTypeOK`, `BalancesWereCommitted`, `StaleOnlyUntilInvalidated` |
| `Signup_proofs` | all safety properties; `Signup` implements `AddressBook` |
| `MileageSystem_proofs` | the system implements `MileageService`, `Signup`, `MileageLedger` and `AddressBook`, so has all their safety properties; `OnlyMembersAreServed`, `MembersHaveAccounts`; every request takes a bounded number of statements, and the pool never seizes up |
| `Achievements_proofs` | all safety properties, those of sign-up among them; `AddressBook` is implemented |
| `History_proofs` | all safety properties |
| `Gateway_proofs` | all safety properties |

**The ledger.** `BooksBalance` is about a sum over a set, `Net`, which the
community modules compute row by row in an order nobody knows. The induction
theorems of the library take an operator as a parameter, which the provers cannot
instantiate; two facts replace them: a set of naturals that is not empty has a least member (`LeastNumber`), so
a property of finite sets that fails has a smallest counterexample
(`SmallestSet`). From these follow that a function which sums up subsets exists
and is unique (`SumExists`, `SumIsUnique`), that `Net` unfolds by any row
(`NetUnfolds`), is an integer, and grows by the signed amount of a new row
(`NetAddsRow`). The invariant says that balance and sum differ by k * 2^64 for
some k (`Differ`): a booking changes both by the amount and, if it wraps, k by
one (`BookingKeepsDifference`). That the set of rows is finite is part of the
invariant.

What is proved of the ledger holds of whatever implements it
(`LedgerTheoremsApply`): `BalanceIsNet`, `VersionCountsRows` and `NoOverdraft` of
`GrantRedeem`, of `MileageService` and of `MileageSystem` come from there and
from the refinement, with no second induction over statements.

**Bookings.** The refinement and the other properties are about answers and rows,
the danger is a transaction committing something computed from an account that is
no longer current. `IInv` therefore says of each place in the loop what the
request holds and knows:

- `History`: `past` has one state per version, the present one is the newest;
- `Locks`, `Pending`: who is past INSERT holds the key and nobody can have
  committed it, who is past UPDATE holds the account, and locks exclude;
- `Memory`: the object in memory is `Apply` of a committed state with version
  `expected`, which covered the amount; at COMMIT that state is the present one;
- `Rows`, `Answers`, `Grounds`: rows belong to the request their id names, and
  what was answered stays true;
- `Headway`: each failed attempt was overtaken by one booking (`attempt` against
  `arrived`), from which `ConflictNeedsCommits` follows at the last attempt;
- `Control`: errors, counter and validation fit the place.

From `Memory` at "commit" the commit step *is* `MileageLedger!Book` (lemma
`StepImplementsLedger`), `OpenAccount` is `Open`, and every other step leaves both
tables alone. `CommitFacts` collects what a commit, certain or not, does;
`SettledStep`, `OneMoves` and `DbGrows` say how far one step can reach, so that
each conjunct of `IInv` needs only look at the request that moved. `BookingsAreSafe`
lists what follows from `IInv` in any one state; the compositions cite it.

**Waiting.** `AllAnswered` itself needs fairness and stays with TLC. Its two
halves that do not are proved. `CirclesAreOfOneKey`: in any set of requests each
of which waits for one of the set there are two that insert one key and wait for
each other, a circle InnoDB sees and breaks by a rollback. The order is
connection, key, account: who waits for a connection holds nothing, who waits for
a key does not hold an account yet, who waits for an account waits for somebody
at COMMIT or ROLLBACK, which wait for nothing (`WaitersAreBehind`). So a circle
stays among waiters for keys, and there nobody has written the key: they are at
its shared lock. The pool, where nobody would see a circle, is in none: a
transaction never asks for a second connection. `RequestsTakeBoundedSteps`: each
statement lowers `Left`, at most `10 * maxRetries + 10`, and no step of another
request raises it. In `MileageSystem` the same holds of balance requests and
sign-ups (`SystemTakesBoundedSteps`), and while all connections are out one of the
transactions that have them waits for nobody or is a victim (`PoolNeverSeizesUp`).
What is left to fairness is that somebody who waits for nobody takes a step.

`BookingsDoNotOverlap` is the fact `History` rests on: a booking on an account
makes every attempt that has read it outdated, so ids that become rows of one
account were made in the order of the commits, up to the clock.

**Compositions.** A step of `MileageService` is a step of `GrantRedeem` or one of
a reader that leaves the database alone (`WriterOrReader`); `IInv` mentions the
cache in `TypeOK` only. A step of `MileageSystem` is at once a step of
`MileageService` and one of `Signup`, one of them possibly stuttering
(`SystemStepIsServiceStep`, `SystemStepIsSignupStep`); for the second one needs
that bookings neither open nor close accounts (`OthersKeepMembers`). Both
invariants then hold in the composition, with all that follows from them
(`SystemIsSafe`, `SystemBooksBalance`, `SystemSignupsAreSafe`), and `Admitted` (whoever is past its
first step has a token, rows are such requests') gives what neither part can say.

**Sign-up.** `SignupInv` says of each place what rows and answer there are;
`RaceInv`, for behaviours without failures, that a user who is through was
answered 201 and that a rival who is through leaves somebody with the address: so
when all rivals are through one has won, and by the unique index only one.
`StepImplementsAddressBook` matches steps: the INSERT of the user, answered or
not, is `Take`, that of the account is `Open` (with the token if it is answered),
a successful login is `LogIn`. It needs of the invariant that whoever is past the
handler has named an address (`Addressed`) and that an address that is taken
keeps its user (`OwnersStay`).

**Achievements.** `Truth` ties reply and row of each send, `Sequence` says that a
send after one that is under way, or has its 201, was early. The count in
`DuplicatesAreTheClients` follows by an injection: of the sends answered 201 each
but the last has a successor that was early. The failure of a report is the only
step that is none of sign-up, and only counts (`StepOfSignupOrReport`), so
invariants and refinement of sign-up carry over.

**History.** `RankLeavesNoGap` is the lemma on pages: if some row is beyond the
page there is a row of rank limit + 1, and all rows of the page rank before it.
`InTime` says milliseconds follow positions, `Walk` what the cursor is, `Local`
that what was shown and what is still to come lie on their sides of the cursor up
to a millisecond, `Exact` (for `Ordered` rows) that they do so exactly and only
cursors are lost.

**Gateway.** `Bounded`: what was admitted since a moment, and what could be
admitted now, are within burst and gain since then; since each late reading gives
back at most its lateness, the sum over the admissions, `late`, pays for it.
`Funded` is the converse: there is a moment since which admissions account for
all that is missing from the bucket; it yields the witness of `RefusalsAreEarned`.
`CountInv` equates each counter with the set of the requests that are through,
`AdmitInv` what the limiter admitted with those it let in; the sets are matched
up in `AdmittedAreCounted`.

Only model-checked: the liveness properties `AllAnswered`, `EveryReadEnds`,
`CacheConverges`, `EverySignupEnds`, `PagingEnds` (fairness and ENABLED are out
of the prover's reach).

## Not modelled

Request ids, log lines, the latency histogram, CORS, pprof, JSON bodies, panics
(`Recover`): no state a property could be about. Opening the connections and the
remaining configuration (addresses, passwords, pool sizes are read once). Numbers of the environment beyond int64 (`Atoi` refuses them, so they count as not
set) and durations that overflow for more than two and a half million
`JWT_EXPIRY_HOURS`: `Config` takes every integer as it is. Lengths of columns
other than the action type (VARCHAR(64) keys) and SQL modes: an over-long value is
an error of the statement. InnoDB's gap locks beyond the key they were taken for. k6, bruno, monitoring, compose files: tools around the service.

## Plan

Done: bookings, balance query and cache, sign-up and login, their composition;
history; achievements; configuration and middleware; proofs of all safety
properties and of the three refinements.

1. An abstract specification of the cache (what a balance request may be told)
   that `MileageService` implements.
2. `History` composed with bookings instead of taking `Book` by itself, on the
   strength of `BookingsDoNotOverlap`.
