----------------------------- MODULE MileageService -----------------------------
(***************************************************************************)
(* GrantRedeem composed with GET /v1/mileage/balance: the use case of      *)
(* balance.go, which reads Redis first, falls back to MySQL and writes     *)
(* what it found to Redis, and the cache client of infra/redis/cache.go.   *)
(* Readers and writers meet in the balance key, in mileage_accounts and in *)
(* the connection pool.                                                    *)
(***************************************************************************)
EXTENDS GrantRedeem

CONSTANT Readers    \* the balance requests

VARIABLES
  at,       \* reader |-> the statement of Execute it runs next, or its outcome
  asker,    \* reader |-> the user of its token
  seen,     \* reader |-> the balance and version it has in memory
  late      \* history: user |-> the last SET wrote an account already replaced

readerVars  == <<at, asker, seen>>
serviceVars == <<vars, at, asker, seen, late>>

Places == {"get", "load", "set", "done", "failed"}

MoveTo(b, place) == at' = [at EXCEPT ![b] = place]

ServiceInit ==
  /\ Init
  /\ at = [b \in Readers |-> "get"]
  /\ asker \in [Readers -> Users]
  /\ seen = [b \in Readers |-> NoAccount]
  /\ late = [u \in Users |-> FALSE]

\* what a reader does not touch: everything of GrantRedeem but the cache
writerVars == <<account, ledger, pc, input, attempt, acct, expected, err, txid,
                held, past, arrived>>

(***************************************************************************)
(* Mutants of the actions below (README.md, "Mutants").                    *)
(***************************************************************************)
\* cached is not compared with nil
MutGetTakesAnything(b) ==
  /\ at[b] = "get"
  /\ seen' = [seen EXCEPT ![b] = cache[asker[b]]]
  /\ MoveTo(b, "done")
  /\ UNCHANGED <<writerVars, cache, faults, asker, late>>

\* the answer is read back from the cache
MutSetReadsAgain(b) ==
  /\ at[b] = "set"
  /\ cache' = [cache EXCEPT ![asker[b]] = seen[b]]
  /\ late' = [late EXCEPT ![asker[b]] = seen[b] # account[asker[b]]]
  /\ MoveTo(b, "get")
  /\ UNCHANGED <<writerVars, faults, asker, seen>>

\* SET without a TTL
MutNeverExpires(u) == FALSE

-------------------------------------------------------------------------------
\* GET of the balance key
GetBalance(b) ==
  /\ at[b] = "get"
  /\ LET entry == cache[asker[b]]
     IN \/ /\ entry # NoEntry
           /\ seen' = [seen EXCEPT ![b] = entry]
           /\ MoveTo(b, "done")
        \/ /\ entry = NoEntry
           /\ MoveTo(b, "load")
           /\ UNCHANGED seen
  /\ UNCHANGED <<writerVars, cache, faults, asker, late>>

\* the fallback, a query of its own
LoadAccount(b) ==
  /\ at[b] = "load" /\ ConnFree
  /\ LET a == account[asker[b]]
     IN \/ /\ a # NoAccount
           /\ seen' = [seen EXCEPT ![b] = a]
           /\ MoveTo(b, "set")
        \/ /\ a = NoAccount
           /\ MoveTo(b, "failed")
           /\ UNCHANGED seen
  /\ UNCHANGED <<writerVars, cache, faults, asker, late>>

\* SET of what was loaded, however long ago that was
SetBalance(b) ==
  /\ at[b] = "set"
  /\ LET u == asker[b]
     IN /\ cache' = [cache EXCEPT ![u] = seen[b]]
        /\ late' = [late EXCEPT ![u] = seen[b] # account[u]]
  /\ MoveTo(b, "done")
  /\ UNCHANGED <<writerVars, faults, asker, seen>>

Read(b) == GetBalance(b) \/ LoadAccount(b) \/ SetBalance(b)

\* every entry is written with a TTL; Redis may also evict it or restart
CacheExpire(u) ==
  /\ cache[u] # NoEntry
  /\ cache' = [cache EXCEPT ![u] = NoEntry]
  /\ UNCHANGED <<writerVars, faults, readerVars, late>>

-------------------------------------------------------------------------------
\* an unreachable Redis or an entry that does not parse counts as a miss
GetFails(b) ==
  /\ Fault
  /\ at[b] = "get"
  /\ MoveTo(b, "load")
  /\ UNCHANGED <<writerVars, cache, asker, seen, late>>

LoadFails(b) ==
  /\ Fault
  /\ at[b] = "load"
  /\ MoveTo(b, "failed")
  /\ UNCHANGED <<writerVars, cache, asker, seen, late>>

\* logged and answered all the same; if only the answer of Redis was lost the
\* step is SetBalance
SetFails(b) ==
  /\ Fault
  /\ at[b] = "set"
  /\ MoveTo(b, "done")
  /\ UNCHANGED <<writerVars, cache, asker, seen, late>>

\* the end of the process ends its readers as well
ServiceExit ==
  /\ Crash \/ Shutdown
  /\ at' = [b \in Readers |-> IF at[b] \in {"load", "set"} THEN "failed" ELSE at[b]]
  /\ UNCHANGED <<asker, seen, late>>

Write ==
  /\ \/ \E r \in Requests :
          Step(r) \/ StatementFails(r) \/ CommitFails(r) \/ InvalidateFails(r)
     \/ \E u \in Users : OpenAccount(u)
  /\ UNCHANGED <<readerVars, late>>

ReaderNext ==
  \/ \E b \in Readers : Read(b) \/ GetFails(b) \/ LoadFails(b) \/ SetFails(b)
  \/ \E u \in Users : CacheExpire(u)

ServiceFinished ==
  /\ Finished
  /\ \A b \in Readers : at[b] \in {"done", "failed"}
  /\ UNCHANGED <<readerVars, late>>

ServiceNext == Write \/ ReaderNext \/ ServiceExit \/ ServiceFinished

ServiceSpec == ServiceInit /\ [][ServiceNext]_serviceVars

-------------------------------------------------------------------------------
\* Type invariant of the readers (balance.go, cache.go).
ServiceTypeOK ==
  /\ at \in [Readers -> Places]
  /\ asker \in [Readers -> Users]
  /\ seen \in [Readers -> Account \cup {NoAccount}]
  /\ late \in [Users -> BOOLEAN]

(***************************************************************************)
(* A balance in Redis, or shown by GET /v1/mileage/balance, is a committed *)
(* one with its own version: never the balance of a transaction in flight  *)
(* or rolled back, never another user's, never balance and version of two  *)
(* states (balance.go:45 and 65, cache.go:70).                             *)
(***************************************************************************)
BalancesWereCommitted ==
  /\ \A u \in Users : cache[u] # NoEntry => cache[u] \in past[u]
  /\ \A b \in Readers : at[b] = "done" => seen[b] \in past[asker[b]]

(***************************************************************************)
(* Invalidation after the commit (grant.go:104) is enough for all but the  *)
(* late fill: without failures, an entry that was current when it was      *)
(* written and is not now belongs to a user one of whose bookings is       *)
(* between its commit and its DEL.                                         *)
(***************************************************************************)
StaleOnlyUntilInvalidated ==
  \A u \in Users :
    faults = 0 /\ ~ late[u] /\ cache[u] \notin {NoEntry, account[u]} =>
      \E r \in Requests : User(r) = u /\ pc[r] = "invalidate"

(***************************************************************************)
(* Liveness: every accepted request gets its answer; nobody waits for a    *)
(* connection, a row lock or an index entry forever (executeInTx passes    *)
(* txCtx, so that a transaction never asks the pool for a second           *)
(* connection), and no conflict is retried forever.                        *)
(***************************************************************************)
AllAnswered == \A r \in Requests : pc[r] = "lookup" ~> pc[r] = "done"

(***************************************************************************)
(* Liveness: every balance request that misses Redis ends, though it       *)
(* shares the connections of the pool with the transactions (db.go:19).    *)
(***************************************************************************)
EveryReadEnds ==
  \A b \in Readers : at[b] = "load" ~> at[b] \in {"done", "failed"}

(***************************************************************************)
(* Liveness: when the bookings are over Redis comes to agree with MySQL    *)
(* for good, whatever was left stale by a late fill, a failed DEL or a     *)
(* crash before it: this is what the TTL is for (cache.go:75).             *)
(***************************************************************************)
CacheConverges == \A u \in Users : <>[](cache[u] \in {NoEntry, account[u]})

(***************************************************************************)
(* "Redis cache (invalidated on write)" (README.md:155; "cache             *)
(* consistency: write completed, then Redis DEL", docs/processing_flow.md: *)
(* 277): without failures and with every write invalidated, the cached     *)
(* balance is the balance.  It is not when a reader loads the account      *)
(* before the commit (balance.go:52) and sets it after the DEL (:61).      *)
(* Refuted by TLC.                                                         *)
(***************************************************************************)
CacheFollowsWrites ==
  \A u \in Users :
    /\ faults = 0
    /\ \A r \in Requests : User(r) = u => pc[r] # "invalidate"
    => cache[u] \in {NoEntry, account[u]}
===============================================================================
