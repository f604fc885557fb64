------------------------------ MODULE GrantRedeem ------------------------------
(***************************************************************************)
(* POST /v1/mileage/grant and /v1/mileage/redeem: the handlers of          *)
(* internal/server/handler/mileage.go, the use cases grant.go and          *)
(* redeem.go, the repository and transaction manager below them, and what  *)
(* those rely on in MySQL (REPEATABLE READ, InnoDB row locks, the unique   *)
(* index) and in Redis (the balance key).                                  *)
(*                                                                         *)
(* A request is a process.  Its pc names the statement it executes next,   *)
(* so any other request, a failure or the end of the server process can    *)
(* come between two statements.  The two use cases differ only in the      *)
(* domain operation (MileageDomain!Apply), so one set of actions serves    *)
(* both.  A client that retries is another request with the same content.  *)
(***************************************************************************)
EXTENDS MileageDomain, FiniteSets, FiniteSetsExt

CONSTANTS
  Requests,       \* the HTTP requests
  Inputs,         \* the contents they may have
  NoKey,          \* the Idempotency-Key header is missing
  NoTx,           \* no transaction id yet
  NoEntry,        \* the balance key does not exist in Redis
  MaxRetries,     \* maxRetries in grant.go, 3
  MaxOpenConns,   \* SetMaxOpenConns in db.go, 25
  MaxFaults       \* bounds the failures of one behaviour

Input == [user : Users, type : Types, key : Keys \cup {NoKey},
          amount : Int64, reason : Reasons]

TxIds == Requests \X Nat    \* one fresh ULID per attempt

ASSUME GrantRedeemAssumption ==
  /\ Inputs \subseteq Input
  /\ NoKey \notin Keys
  /\ NoTx \notin TxIds
  /\ NoEntry \notin Account
  /\ MaxRetries \in Nat \ {0}
  /\ MaxOpenConns \in Nat \ {0}
  /\ MaxFaults \in Nat

VARIABLES
  account,    \* mileage_accounts, committed
  ledger,     \* mileage_transactions, committed
  cache,      \* Redis: user |-> balance and version, or NoEntry
  pc,         \* request |-> the statement it executes next
  input,      \* request |-> its content
  attempt,    \* request |-> the loop counter of Execute
  acct,       \* request |-> the MileageAccount object in its memory
  expected,   \* request |-> expectedVersion of executeInTx
  err,        \* request |-> the error it carries
  txid,       \* request |-> the transaction id it will answer with
  held,       \* request |-> its uncommitted writes and the locks on them
  faults,     \* failures so far
  past,       \* history: user |-> every committed state of the account
  arrived     \* history: request |-> version of the account on arrival

vars == <<account, ledger, cache, pc, input, attempt, acct, expected, err,
          txid, held, faults, past, arrived>>

Labels == {"idle", "lookup", "replay", "begin", "read", "insert", "update",
           "commit", "rollback", "invalidate", "done"}

Errors == {"nil", "missing_key", "ErrInvalidAmount",
           "ErrInsufficientBalance", "ErrOptimisticLock",
           "ErrIdempotencyConflict", "ErrAlreadyProcessed", "error",
           "crashed", "closed"}

\* its own index entry, the shared lock on the entry of another, the account
LockKinds == {"row", "share", "account"}

\* handleMileageError; a server that crashed or closed sends no response
Status(e) ==
  CASE e = "nil"                    -> "OK"
    [] e \in {"crashed", "closed"}  -> "NO_RESPONSE"
    [] e \in {"missing_key", "ErrInvalidAmount"} -> "BAD_REQUEST"
    [] e = "ErrInsufficientBalance" -> "INSUFFICIENT_BALANCE"
    [] e = "ErrOptimisticLock"      -> "OPTIMISTIC_LOCK_CONFLICT"
    [] e = "ErrIdempotencyConflict" -> "IDEMPOTENCY_CONFLICT"
    [] OTHER                        -> "INTERNAL_ERROR"

Refusals == {"BAD_REQUEST", "INSUFFICIENT_BALANCE", "IDEMPOTENCY_CONFLICT",
             "OPTIMISTIC_LOCK_CONFLICT"}

Answered(r, status) == pc[r] = "done" /\ Status(err[r]) = status

-------------------------------------------------------------------------------
User(r) == input[r].user

\* the connection pool: a transaction keeps its connection until it ends
InTx(r)  == pc[r] \in {"read", "insert", "update", "commit", "rollback"}
ConnFree == Cardinality({r \in Requests : InTx(r)}) < MaxOpenConns

\* the row or the shared lock of q is on the key that r inserts
Pends(q, r)  == q # r /\ "row" \in held[q] /\ SameKey(input[q], input[r])
Shares(q, r) == q # r /\ "share" \in held[q] /\ SameKey(input[q], input[r])
Exists(r)    == \E row \in ledger : SameKey(row, input[r])

\* mutant: GetAccount is given ctx, not txCtx, inside the transaction
MutWants(r) ==
  CASE pc[r] \in {"lookup", "replay", "begin", "read"} -> "connection"
    [] pc[r] = "insert"                                -> "key"
    [] pc[r] = "update"                                -> "account"
    [] OTHER                                           -> "nothing"

\* what the next statement needs beside the locks and the connection that r
\* has: GetQuerier asks the pool unless the context carries a transaction
Wants(r) ==
  CASE pc[r] \in {"lookup", "replay", "begin"} -> "connection"
    [] pc[r] = "insert"                        -> "key"
    [] pc[r] = "update"                        -> "account"
    [] OTHER                                   -> "nothing"

\* q keeps it from r: all connections are out and q has one; q has written the
\* key, or keeps a shared lock where nothing is written any more; or q has
\* the lock on the account
WaitsFor(r, q) ==
  \/ Wants(r) = "connection" /\ ~ ConnFree /\ InTx(q)
  \/ Wants(r) = "key" /\ Pends(q, r)
  \/ /\ Wants(r) = "key" /\ Shares(q, r)
     /\ ~ Exists(r) /\ \A p \in Requests : ~ Pends(p, r)
  \/ /\ Wants(r) = "account" /\ q # r
     /\ "account" \in held[q] /\ User(q) = User(r)

Granted(r) == \A q \in Requests : ~ WaitsFor(r, q)

\* a circle that InnoDB sees: two inserts of one key
Deadlocked(q, r) ==
  /\ Wants(q) = "key" /\ Wants(r) = "key"
  /\ WaitsFor(q, r) /\ WaitsFor(r, q)

RowOf(r) == [id |-> txid[r], user |-> User(r), type |-> input[r].type,
             key |-> input[r].key, amount |-> input[r].amount,
             reason |-> input[r].reason]

Goto(r, label) == pc' = [pc EXCEPT ![r] = label]
Return(r, e)   == Goto(r, "done") /\ err' = [err EXCEPT ![r] = e]
Abort(r, e)    == Goto(r, "rollback") /\ err' = [err EXCEPT ![r] = e]
Retry(r)       == Goto(r, "begin") /\ err' = [err EXCEPT ![r] = "nil"]

\* what executeInTx assigned is gone once it returns an error
Forget(r) == /\ acct' = [acct EXCEPT ![r] = NoAccount]
             /\ expected' = [expected EXCEPT ![r] = 0]
             /\ txid' = [txid EXCEPT ![r] = NoTx]

txVars   == <<attempt, acct, expected, txid, held>>
dbVars   == <<account, ledger, past>>
restVars == <<input, faults>>

Init ==
  /\ account = [u \in Users |-> NoAccount]
  /\ ledger = {}
  /\ cache = [u \in Users |-> NoEntry]
  /\ pc = [r \in Requests |-> "idle"]
  /\ input \in [Requests -> Inputs]
  /\ attempt = [r \in Requests |-> 0]
  /\ acct = [r \in Requests |-> NoAccount]
  /\ expected = [r \in Requests |-> 0]
  /\ err = [r \in Requests |-> "nil"]
  /\ txid = [r \in Requests |-> NoTx]
  /\ held = [r \in Requests |-> {}]
  /\ faults = 0
  /\ past = [u \in Users |-> {}]
  /\ arrived = [r \in Requests |-> 0]

-------------------------------------------------------------------------------
(***************************************************************************)
(* Mutants: actions below as a plausible bug would leave them; the runs    *)
(* must notice each of them (README.md, "Mutants").                        *)
(***************************************************************************)
\* existing.Amount is not compared
MutFindIgnoresAmount(r) ==
  /\ pc[r] = "lookup" /\ Granted(r)
  /\ \/ /\ \A row \in ledger : ~ SameKey(row, input[r])
        /\ Goto(r, "begin")
        /\ UNCHANGED txid
     \/ \E existing \in ledger :
          /\ SameKey(existing, input[r])
          /\ Goto(r, "replay")
          /\ txid' = [txid EXCEPT ![r] = existing.id]
  /\ UNCHANGED <<dbVars, cache, attempt, acct, expected, err, held, arrived,
                 restVars>>

\* the table has no unique index
MutInsertNoIndex(r) ==
  /\ pc[r] = "insert"
  /\ held' = [held EXCEPT ![r] = @ \cup {"row"}]
  /\ Goto(r, "update")
  /\ UNCHANGED <<dbVars, cache, attempt, acct, expected, txid, err, arrived,
                 restVars>>

\* InsertTransaction is given ctx, not txCtx: the row is committed at once
MutInsertOutsideTx(r) ==
  /\ pc[r] = "insert"
  /\ \/ /\ \E row \in ledger : SameKey(row, input[r])
        /\ Abort(r, "ErrAlreadyProcessed")
        /\ UNCHANGED <<held, ledger>>
     \/ /\ \A row \in ledger : ~ SameKey(row, input[r])
        /\ held' = [held EXCEPT ![r] = @ \cup {"row"}]
        /\ ledger' = ledger \cup {RowOf(r)}
        /\ Goto(r, "update")
        /\ UNCHANGED err
  /\ UNCHANGED <<account, past, cache, attempt, acct, expected, txid, arrived,
                 restVars>>

\* UPDATE without AND version = ?
MutUpdateAnyVersion(r) ==
  /\ pc[r] = "update" /\ Granted(r)
  /\ held' = [held EXCEPT ![r] = @ \cup {"account"}]
  /\ Goto(r, "commit")
  /\ UNCHANGED <<dbVars, cache, attempt, acct, expected, txid, err, arrived,
                 restVars>>

\* the new balance is written to Redis before the commit
MutUpdateWritesCache(r) ==
  /\ pc[r] = "update" /\ Granted(r)
  /\ held' = [held EXCEPT ![r] = @ \cup {"account"}]
  /\ \/ /\ account[User(r)].version = expected[r]
        /\ cache' = [cache EXCEPT ![User(r)] = acct[r]]
        /\ Goto(r, "commit")
        /\ UNCHANGED err
     \/ /\ account[User(r)].version # expected[r]
        /\ Abort(r, "ErrOptimisticLock")
        /\ UNCHANGED cache
  /\ UNCHANGED <<dbVars, attempt, acct, expected, txid, arrived, restVars>>

\* attempt < maxRetries - 1
MutRollbackGivesUpEarly(r) ==
  /\ pc[r] = "rollback"
  /\ held' = [held EXCEPT ![r] = {}]
  /\ Forget(r)
  /\ attempt' = [attempt EXCEPT ![r] = @ + 1]
  /\ \/ /\ err[r] = "ErrOptimisticLock" /\ attempt'[r] < MaxRetries - 1
        /\ Retry(r)
     \/ /\ err[r] # "ErrOptimisticLock" \/ attempt'[r] >= MaxRetries - 1
        /\ Return(r, err[r])
  /\ UNCHANGED <<dbVars, cache, arrived, restVars>>

\* ErrAlreadyProcessed is retried as well, and not counted
MutRollbackRetriesAll(r) ==
  /\ pc[r] = "rollback"
  /\ held' = [held EXCEPT ![r] = {}]
  /\ Forget(r)
  /\ \/ err[r] \in {"ErrOptimisticLock", "ErrAlreadyProcessed"} /\ Retry(r)
     \/ /\ err[r] \notin {"ErrOptimisticLock", "ErrAlreadyProcessed"}
        /\ Return(r, err[r])
  /\ UNCHANGED <<dbVars, cache, attempt, arrived, restVars>>

\* DEL of another key
MutInvalidateNothing(r) ==
  /\ pc[r] = "invalidate"
  /\ Return(r, "nil")
  /\ UNCHANGED <<dbVars, cache, txVars, arrived, restVars>>

-------------------------------------------------------------------------------
\* validation in the handler, repeated in the use case
Valid(in) == in.key # NoKey /\ in.amount > 0

Accept(r) ==
  /\ pc[r] = "idle" /\ Valid(input[r])
  /\ Goto(r, "lookup")
  /\ arrived' = [arrived EXCEPT ![r] =
       IF account[User(r)] = NoAccount THEN 0 ELSE account[User(r)].version]
  /\ UNCHANGED <<dbVars, cache, txVars, err, restVars>>

Refuse(r) ==
  /\ pc[r] = "idle"
  /\ \/ input[r].key = NoKey /\ Return(r, "missing_key")
     \/ /\ input[r].key # NoKey /\ input[r].amount <= 0
        /\ Return(r, "ErrInvalidAmount")
  /\ UNCHANGED <<dbVars, cache, txVars, arrived, restVars>>

\* the idempotency check, a query of its own outside the transaction
FindTransactionByIdempotencyKey(r) ==
  /\ pc[r] = "lookup" /\ Granted(r)
  /\ \/ /\ \A row \in ledger : ~ SameKey(row, input[r])
        /\ Goto(r, "begin")
        /\ UNCHANGED <<txid, err>>
     \/ \E existing \in ledger :
          /\ SameKey(existing, input[r])
          /\ \/ /\ existing.amount = input[r].amount
                /\ Goto(r, "replay")
                /\ txid' = [txid EXCEPT ![r] = existing.id]
                /\ UNCHANGED err
             \/ /\ existing.amount # input[r].amount
                /\ Return(r, "ErrIdempotencyConflict")
                /\ UNCHANGED txid
  /\ UNCHANGED <<dbVars, cache, attempt, acct, expected, held, arrived,
                 restVars>>

\* the answer to a repeated request: the old id with today's balance.  The code
\* does not look whether there is an account: ShownIsCommitted says there is
Replay(r) ==
  /\ pc[r] = "replay" /\ Granted(r)
  /\ acct' = [acct EXCEPT ![r] = account[User(r)]]
  /\ Return(r, "nil")
  /\ UNCHANGED <<dbVars, cache, attempt, expected, txid, held, arrived,
                 restVars>>

BeginTx(r) ==
  /\ pc[r] = "begin" /\ Granted(r)
  /\ Goto(r, "read")
  /\ UNCHANGED <<dbVars, cache, txVars, err, arrived, restVars>>

\* the first read of the transaction fixes its snapshot; the domain operation
\* works on the object that was read
GetAccount(r) ==
  /\ pc[r] = "read" /\ Granted(r)
  /\ LET in == input[r]
         a  == account[in.user]
     IN \/ /\ a = NoAccount
           /\ Abort(r, "error")
           /\ UNCHANGED <<acct, expected, txid>>
        \/ /\ a # NoAccount /\ ~ Covers(in.type, a, in.amount)
           /\ Abort(r, "ErrInsufficientBalance")
           /\ UNCHANGED <<acct, expected, txid>>
        \/ /\ a # NoAccount /\ Covers(in.type, a, in.amount)
           /\ acct' = [acct EXCEPT ![r] = Apply(in.type, a, in.amount)]
           /\ expected' = [expected EXCEPT ![r] = a.version]
           /\ txid' = [txid EXCEPT ![r] = <<r, attempt[r]>>]
           /\ Goto(r, "insert")
           /\ UNCHANGED err
  /\ UNCHANGED <<dbVars, cache, attempt, held, arrived, restVars>>

\* the unique index is checked under a shared lock if the key is there: at
\* once against a committed row; an uncommitted one makes the statement wait,
\* its request standing, for the transaction that wrote it.  If that one rolls
\* back all who waited have the shared lock, and each must wait for the others
\* before it can insert: InnoDB then rolls one of two back, its locks are gone
\* and it gets error 1213.  Nobody else can insert meanwhile
InsertTransaction(r) ==
  /\ pc[r] = "insert"
  /\ \/ /\ \E q \in Requests : Pends(q, r)
        /\ "share" \notin held[r]
        /\ held' = [held EXCEPT ![r] = @ \cup {"share"}]
        /\ UNCHANGED <<pc, err>>
     \/ /\ Granted(r) /\ Exists(r)
        /\ Abort(r, "ErrAlreadyProcessed")
        /\ UNCHANGED held
     \/ /\ Granted(r) /\ ~ Exists(r)
        /\ held' = [held EXCEPT ![r] = @ \cup {"row"}]
        /\ Goto(r, "update")
        /\ UNCHANGED err
     \/ /\ \E q \in Requests : Deadlocked(q, r)
        /\ held' = [held EXCEPT ![r] = {}]
        /\ Abort(r, "error")
  /\ UNCHANGED <<dbVars, cache, attempt, acct, expected, txid, arrived,
                 restVars>>

\* UPDATE ... WHERE version = ? locks the row and reads its latest committed
\* version, not the snapshot; the lock stays until the transaction ends
UpdateBalance(r) ==
  /\ pc[r] = "update" /\ Granted(r)
  /\ held' = [held EXCEPT ![r] = @ \cup {"account"}]
  /\ \/ /\ account[User(r)].version = expected[r]
        /\ Goto(r, "commit")
        /\ UNCHANGED err
     \/ /\ account[User(r)].version # expected[r]
        /\ Abort(r, "ErrOptimisticLock")
  /\ UNCHANGED <<dbVars, cache, attempt, acct, expected, txid, arrived,
                 restVars>>

\* the uncommitted writes of r become visible: SET balance = newBalance,
\* version = version + 1, and the inserted row
Publish(r) ==
  LET u   == User(r)
      new == [balance |-> acct[r].balance, version |-> account[u].version + 1]
  IN /\ account' = [account EXCEPT ![u] = new]
     /\ past' = [past EXCEPT ![u] = @ \cup {new}]
     /\ ledger' = ledger \cup {RowOf(r)}

Commit(r) ==
  /\ pc[r] = "commit"
  /\ Publish(r)
  /\ held' = [held EXCEPT ![r] = {}]
  /\ Goto(r, "invalidate")
  /\ UNCHANGED <<cache, attempt, acct, expected, txid, err, arrived, restVars>>

Rollback(r) ==
  /\ pc[r] = "rollback"
  /\ held' = [held EXCEPT ![r] = {}]
  /\ Forget(r)
  /\ \/ /\ err[r] # "ErrOptimisticLock"
        /\ Return(r, err[r])
        /\ UNCHANGED attempt
     \/ /\ err[r] = "ErrOptimisticLock"
        /\ attempt' = [attempt EXCEPT ![r] = @ + 1]
        /\ \/ attempt'[r] < MaxRetries /\ Retry(r)
           \/ attempt'[r] >= MaxRetries /\ Return(r, err[r])
  /\ UNCHANGED <<dbVars, cache, arrived, restVars>>

\* DEL of the balance key, after the commit and before the response
InvalidateBalance(r) ==
  /\ pc[r] = "invalidate"
  /\ cache' = [cache EXCEPT ![User(r)] = NoEntry]
  /\ Return(r, "nil")
  /\ UNCHANGED <<dbVars, txVars, arrived, restVars>>

Step(r) ==
  \/ Accept(r) \/ Refuse(r)
  \/ FindTransactionByIdempotencyKey(r) \/ Replay(r)
  \/ BeginTx(r) \/ GetAccount(r) \/ InsertTransaction(r) \/ UpdateBalance(r)
  \/ Commit(r) \/ Rollback(r) \/ InvalidateBalance(r)

\* a sign-up inserts the account (Signup!CreateAccount): to the requests of the
\* user this can happen between any two statements
OpenAccount(u) ==
  /\ account[u] = NoAccount
  /\ account' = [account EXCEPT ![u] = NewAccount]
  /\ past' = [past EXCEPT ![u] = @ \cup {NewAccount}]
  /\ UNCHANGED <<ledger, cache, pc, err, txVars, arrived, restVars>>

-------------------------------------------------------------------------------
(***************************************************************************)
(* Failures: a lost connection, a lock wait timeout reported by MySQL, the *)
(* client going away (which cancels the request's context), an unreachable *)
(* Redis, the end of the server process.                                   *)
(***************************************************************************)
Fault == faults < MaxFaults /\ faults' = faults + 1

StatementFails(r) ==
  /\ Fault
  /\ \/ /\ pc[r] \in {"lookup", "replay", "begin"}
        /\ Forget(r)
        /\ Return(r, "error")
     \/ /\ pc[r] \in {"read", "insert", "update"}
        /\ Abort(r, "error")
        /\ UNCHANGED <<acct, expected, txid>>
  /\ UNCHANGED <<dbVars, cache, input, attempt, held, arrived>>

\* mutant: a failed commit is reported as a conflict
MutCommitFailsAsConflict(r) ==
  /\ Fault
  /\ pc[r] = "commit"
  /\ Publish(r) \/ UNCHANGED dbVars
  /\ held' = [held EXCEPT ![r] = {}]
  /\ Forget(r)
  /\ Return(r, "ErrOptimisticLock")
  /\ UNCHANGED <<cache, input, attempt, arrived>>

\* Commit returns an error: the database may or may not have committed
CommitFails(r) ==
  /\ Fault
  /\ pc[r] = "commit"
  /\ Publish(r) \/ UNCHANGED dbVars
  /\ held' = [held EXCEPT ![r] = {}]
  /\ Forget(r)
  /\ Return(r, "error")
  /\ UNCHANGED <<cache, input, attempt, arrived>>

\* the failure of DEL is logged and the request succeeds; the command may have
\* reached Redis and only its answer been lost
InvalidateFails(r) ==
  /\ Fault
  /\ pc[r] = "invalidate"
  /\ UNCHANGED cache \/ cache' = [cache EXCEPT ![User(r)] = NoEntry]
  /\ Return(r, "nil")
  /\ UNCHANGED <<dbVars, input, txVars, arrived>>

InFlight == {r \in Requests : pc[r] \notin {"idle", "done"}}

\* the process ends and MySQL rolls its open transactions back
ProcessExit(why) ==
  /\ pc' = [r \in Requests |-> IF r \in InFlight THEN "done" ELSE pc[r]]
  /\ err' = [r \in Requests |-> IF r \in InFlight THEN why ELSE err[r]]
  /\ held' = [r \in Requests |-> {}]
  /\ acct' = [r \in Requests |-> IF r \in InFlight THEN NoAccount ELSE acct[r]]
  /\ expected' = [r \in Requests |-> IF r \in InFlight THEN 0 ELSE expected[r]]
  /\ txid' = [r \in Requests |-> IF r \in InFlight THEN NoTx ELSE txid[r]]
  /\ UNCHANGED <<dbVars, cache, input, attempt, arrived>>

Crash == Fault /\ ProcessExit("crashed")

\* the signal handler calls e.Close(); Start returns at once and main ends
Shutdown == Fault /\ ProcessExit("closed")

Failure ==
  \/ \E r \in Requests : StatementFails(r) \/ CommitFails(r) \/ InvalidateFails(r)
  \/ Crash \/ Shutdown

\* every request has been dealt with
Finished == (\A r \in Requests : pc[r] = "done") /\ UNCHANGED vars

Next ==
  \/ \E r \in Requests : Step(r)
  \/ \E u \in Users : OpenAccount(u)
  \/ Failure
  \/ Finished

Spec == Init /\ [][Next]_vars

-------------------------------------------------------------------------------
RowsOf(u) == {row \in ledger : row.user = u}

\* Type invariant: what grant.go, redeem.go and mileage_repository.go can hold.
TypeOK ==
  /\ account \in [Users -> Account \cup {NoAccount}]
  /\ ledger \subseteq Row(TxIds)
  /\ cache \in [Users -> Account \cup {NoEntry}]
  /\ pc \in [Requests -> Labels]
  /\ input \in [Requests -> Inputs]
  /\ attempt \in [Requests -> 0 .. MaxRetries]
  /\ acct \in [Requests -> Account \cup {NoAccount}]
  /\ expected \in [Requests -> Nat]
  /\ err \in [Requests -> Errors]
  /\ txid \in [Requests -> TxIds \cup {NoTx}]
  /\ held \in [Requests -> SUBSET LockKinds]
  /\ faults \in 0 .. MaxFaults
  /\ past \in [Users -> SUBSET Account]
  /\ arrived \in [Requests -> Nat]

(***************************************************************************)
(* No miles are granted or redeemed twice for one idempotency key, though  *)
(* the check (grant.go:63) and the insert (grant.go:147) are in different  *)
(* transactions and any number of duplicates may be between the two.       *)
(***************************************************************************)
UniqueKeys == \A x, y \in ledger : SameKey(x, y) => x = y

(***************************************************************************)
(* Every booking moved its account by one version and every move of an     *)
(* account has its row: nothing is lost between InsertTransaction and      *)
(* UpdateBalance, nor by two transactions that read the same version.      *)
(***************************************************************************)
VersionCountsRows ==
  \A u \in Users :
    IF account[u] = NoAccount
    THEN RowsOf(u) = {}
    ELSE account[u].version = Cardinality(RowsOf(u))

(***************************************************************************)
(* The balance is the sum of the rows, up to the wrap-around of int64      *)
(* (grant.go:155 writes a balance computed from an earlier read).          *)
(***************************************************************************)
BalanceIsNet ==
  \A u \in Users : account[u] # NoAccount =>
    (account[u].balance - MapThenSumSet(Signed, RowsOf(u)))
      % (2 * (MaxInt64 + 1)) = 0

(***************************************************************************)
(* A 200 names a row that is in the table and says what was asked for: not *)
(* the id of an attempt that was rolled back (grant.go:137 makes a new id  *)
(* on every attempt), not a row of another user, type, key or amount.      *)
(***************************************************************************)
OkMeansBooked ==
  \A r \in Requests : Answered(r, "OK") =>
    \E row \in ledger : /\ row.id = txid[r]
                        /\ SameKey(row, input[r])
                        /\ row.amount = input[r].amount

(***************************************************************************)
(* A 400 or 409 means that this request booked nothing, in no attempt; a   *)
(* client may change the request and send it again.  (A 500 or a closed    *)
(* connection says nothing: see CommitFails.)                              *)
(***************************************************************************)
RefusedMeansUnbooked ==
  \A r \in Requests : \A row \in ledger :
    row.id[1] = r => ~ \E s \in Refusals : Answered(r, s)

(***************************************************************************)
(* The balance and version of a 200 are those of one committed state of    *)
(* the account, and a version number names one balance: the output is made *)
(* from the object in memory (grant.go:159), not read back.                *)
(***************************************************************************)
ShownIsCommitted ==
  /\ \A u \in Users : \A a, b \in past[u] : a.version = b.version => a = b
  /\ \A r \in Requests : Answered(r, "OK") => acct[r] \in past[User(r)]

(***************************************************************************)
(* INSUFFICIENT_BALANCE is answered only if the balance really was below   *)
(* the amount at some time since the request arrived, IDEMPOTENCY_CONFLICT *)
(* only if the key is in the table with another amount.                    *)
(***************************************************************************)
RefusalJustified ==
  \A r \in Requests :
    /\ Answered(r, "INSUFFICIENT_BALANCE") =>
         \E a \in past[User(r)] : /\ a.version >= arrived[r]
                                 /\ a.balance < input[r].amount
    /\ Answered(r, "IDEMPOTENCY_CONFLICT") =>
         \E row \in ledger : /\ SameKey(row, input[r])
                             /\ row.amount # input[r].amount

(***************************************************************************)
(* A request gives up with OPTIMISTIC_LOCK_CONFLICT only after maxRetries  *)
(* other bookings on the account succeeded since it arrived: conflicts are *)
(* never spurious, some request always wins, and up to maxRetries          *)
(* concurrent requests never see the error.                                *)
(***************************************************************************)
ConflictNeedsCommits ==
  \A r \in Requests : Answered(r, "OPTIMISTIC_LOCK_CONFLICT") =>
    account[User(r)].version >= arrived[r] + MaxRetries

(***************************************************************************)
(* Requests that wait for each other in a circle, through row locks and    *)
(* connections together, are two inserts of one key that both waited for a *)
(* third which rolled back (mileage_repository.go:115); InnoDB sees that   *)
(* one and ends it.  There is no circle through the lock on an account, as *)
(* all transactions take the index entry (grant.go:147) before it (:155),  *)
(* and none through the pool, where nobody would see it.                   *)
(***************************************************************************)
CirclesAreBroken ==
  \A R \in SUBSET Requests :
    R # {} /\ (\A r \in R : \E q \in R : WaitsFor(r, q)) =>
      \E q, r \in R : Deadlocked(q, r)

(***************************************************************************)
(* A redemption leaves the balance at zero or more, whatever was redeemed  *)
(* concurrently: the check of account.go:40 is made on a snapshot.         *)
(***************************************************************************)
NoOverdraft ==
  [][\A row \in ledger' \ ledger :
       row.type = "redeem" => account'[row.user].balance >= 0]_vars

(***************************************************************************)
(* Refinement: with its locks, retries and failures the service books like *)
(* the ledger that does it all in one step.                                *)
(***************************************************************************)
Ledger == INSTANCE MileageLedger WITH Ids <- Requests \X (0 .. MaxRetries - 1)

ImplementsLedger == Ledger!Spec
===============================================================================
