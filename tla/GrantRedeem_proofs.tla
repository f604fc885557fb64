--------------------------- MODULE GrantRedeem_proofs ---------------------------
(***************************************************************************)
(* Proofs about GrantRedeem, for every number of users, requests, keys,    *)
(* connections, retries and failures.  First what every step does to the   *)
(* tables and to the other requests; then, conjunct by conjunct, that a    *)
(* step preserves IInv; then the theorems.                                 *)
(***************************************************************************)
EXTENDS GrantRedeemInvariant, FiniteSetTheorems, TLAPS

LP == INSTANCE MileageLedger_proofs WITH Ids <- Requests \X (0 .. MaxRetries - 1)

(***************************************************************************)
(* The arithmetic of the aggregate: Grant and Redeem (account.go) turn an  *)
(* account into an account, in the range of an int64, one version later.   *)
(***************************************************************************)
LEMMA ApplyType ==
  ASSUME NEW a \in Account, NEW amount \in Amount, NEW type \in Types,
         Covers(type, a, amount)
  PROVE  /\ Apply(type, a, amount) \in Account
         /\ Apply(type, a, amount).version = a.version + 1
         /\ type = "redeem" => Apply(type, a, amount).balance >= 0
  <1> USE DomainAssumption
  <1>1. CASE type = "grant"
    BY <1>1 DEF Account, Amount, Int64, Apply, Grant, AddInt64
  <1>2. CASE type = "redeem"
    BY <1>2 DEF Account, Amount, Int64, Apply, Redeem, Covers
  <1> QED
    BY <1>1, <1>2 DEF Types

\* A request's content is well formed, and positive with a key once checked.
LEMMA InputType ==
  ASSUME TypeOK, NEW r \in Requests
  PROVE  /\ User(r) \in Users /\ input[r] \in Input
         /\ Valid(input[r]) => input[r].key \in Keys /\ input[r].amount \in Amount
  BY GrantRedeemAssumption, DomainAssumption
     DEF TypeOK, User, Input, Valid, Amount, Int64

\* The invariant holds when nothing has been booked or asked yet.
LEMMA InitEstablishesInvariant == Init => IInv
  <1> SUFFICES ASSUME Init PROVE IInv
    OBVIOUS
  <1> USE DomainAssumption, GrantRedeemAssumption
  <1>1. TypeOK
    BY DEF Init, TypeOK, Labels, Errors, Account, NewAccount, Int64
  <1>2. History
    BY DEF Init, History, Version, NewAccount, Account, Int64
  <1>3. Rows /\ UniqueKeys /\ Pending
    BY DEF Init, Rows, UniqueKeys, Pending
  <1>4. Locks /\ Memory /\ Control
    BY DEF Init, Locks, Memory, MemoryOf, Control, Loaded
  <1>5. Answers /\ Headway /\ Grounds
    BY DEF Init, Answers, AnswerOf, Headway, HeadwayOf, Grounds, GroundsOf,
           Booked, Answered, Loaded
  <1> QED
    BY <1>1, <1>2, <1>3, <1>4, <1>5 DEF IInv

(***************************************************************************)
(* A request that commits is right about the account: the object in its    *)
(* memory is the present state with the operation applied, and the row it  *)
(* adds is the first of its key and of its request.                        *)
(***************************************************************************)
LEMMA CommitFacts ==
  ASSUME IInv, NEW r \in Requests, pc[r] = "commit", Publish(r)
  PROVE  /\ User(r) \in Users /\ account[User(r)] \in Account
         /\ Covers(input[r].type, account[User(r)], input[r].amount)
         /\ acct[r] = Apply(input[r].type, account[User(r)], input[r].amount)
         /\ acct[r] \in Account
         /\ acct[r].version = Version(User(r)) + 1
         /\ input[r].type = "redeem" => acct[r].balance >= 0
         /\ account' = [account EXCEPT ![User(r)] = acct[r]]
         /\ past' = [past EXCEPT ![User(r)] = @ \cup {acct[r]}]
         /\ ledger' = ledger \cup {RowOf(r)}
         /\ RowOf(r) \in Row(TxIds) /\ txid[r] = <<r, attempt[r]>>
         /\ \A row \in ledger : ~ SameKey(row, RowOf(r)) /\ row.id[1] # r
  <1> USE DomainAssumption, GrantRedeemAssumption
  <1> DEFINE u == User(r)
  <1>1. /\ u \in Users /\ input[r] \in Input
        /\ input[r].key \in Keys /\ input[r].amount \in Amount
    BY InputType DEF IInv, Control
  <1>2. PICK a \in past[u] :
          /\ a.version = expected[r]
          /\ Covers(input[r].type, a, input[r].amount)
          /\ acct[r] = Apply(input[r].type, a, input[r].amount)
    BY DEF IInv, Memory, MemoryOf, Loaded
  <1>3. a = account[u] /\ account[u] \in Account
    BY <1>1, <1>2 DEF IInv, TypeOK, Memory, MemoryOf, Loaded, Version, History
  <1>4. /\ acct[r] \in Account
        /\ acct[r].version = Version(u) + 1
        /\ input[r].type = "redeem" => acct[r].balance >= 0
    BY <1>1, <1>2, <1>3, ApplyType DEF Input, Version
  <1>5. acct[r] = [balance |-> acct[r].balance, version |-> account[u].version + 1]
    BY <1>4 DEF Account, Version
  <1>6. /\ account' = [account EXCEPT ![u] = acct[r]]
        /\ past' = [past EXCEPT ![u] = @ \cup {acct[r]}]
        /\ ledger' = ledger \cup {RowOf(r)}
    BY <1>5 DEF Publish
  <1>7. RowOf(r) \in Row(TxIds) /\ txid[r] = <<r, attempt[r]>>
    <2>1. txid[r] = <<r, attempt[r]>> /\ attempt[r] \in Nat
      BY DEF IInv, TypeOK, Memory, MemoryOf, Loaded
    <2>2. txid[r] \in TxIds
      BY <2>1 DEF TxIds
    <2>3. input[r].type \in Types /\ input[r].reason \in Reasons
      BY <1>1 DEF Input
    <2> QED
      BY <1>1, <2>1, <2>2, <2>3 DEF RowOf, Row
  <1>8. \A row \in ledger : ~ SameKey(row, RowOf(r)) /\ row.id[1] # r
    BY DEF IInv, Rows, Locks, Pending, RowOf, SameKey, User
  <1> QED
    BY <1>1, <1>2, <1>3, <1>4, <1>6, <1>7, <1>8

\* Every step, a failure or the end of the process included, keeps the types.
LEMMA TypeStep == IInv /\ [Next]_vars => TypeOK'
  <1> SUFFICES ASSUME IInv, [Next]_vars PROVE TypeOK'
    OBVIOUS
  <1> USE DomainAssumption, GrantRedeemAssumption
  <1> USE DEF TypeOK, IInv, dbVars, restVars, txVars, Goto, Return, Abort, Retry, Forget, Labels, Errors
  <1>1. ASSUME NEW r \in Requests, Accept(r) PROVE TypeOK'
    BY <1>1, InputType DEF Accept, Account
  <1>2. ASSUME NEW r \in Requests, Refuse(r) PROVE TypeOK'
    BY <1>2 DEF Refuse
  <1>3. ASSUME NEW r \in Requests, FindTransactionByIdempotencyKey(r) PROVE TypeOK'
    BY <1>3 DEF FindTransactionByIdempotencyKey, Row
  <1>4. ASSUME NEW r \in Requests, Replay(r) PROVE TypeOK'
    BY <1>4, InputType DEF Replay
  <1>5. ASSUME NEW r \in Requests, BeginTx(r) PROVE TypeOK'
    BY <1>5 DEF BeginTx
  <1>6. ASSUME NEW r \in Requests, GetAccount(r) PROVE TypeOK'
    <2>1. /\ User(r) \in Users /\ input[r] \in Input
          /\ input[r].key \in Keys /\ input[r].amount \in Amount
      BY <1>6, InputType DEF Control, GetAccount
    <2> DEFINE a == account[User(r)]
    <2>2. CASE pc'[r] = "rollback"
      BY <1>6, <2>2 DEF GetAccount
    <2>3. CASE pc'[r] = "insert"
      <3>1. a \in Account /\ Covers(input[r].type, a, input[r].amount)
        BY <1>6, <2>1, <2>3 DEF GetAccount, User
      <3>2. Apply(input[r].type, a, input[r].amount) \in Account
        BY <2>1, <3>1, ApplyType DEF Input
      <3>3. a.version \in Nat /\ <<r, attempt[r]>> \in TxIds
        BY <3>1 DEF Account, TxIds
      <3>4. /\ acct' = [acct EXCEPT ![r] = Apply(input[r].type, a, input[r].amount)]
            /\ expected' = [expected EXCEPT ![r] = a.version]
            /\ txid' = [txid EXCEPT ![r] = <<r, attempt[r]>>]
        BY <1>6, <2>3 DEF GetAccount, User
      <3> QED
        BY <1>6, <3>2, <3>3, <3>4 DEF GetAccount
    <2> QED
      BY <1>6, <2>2, <2>3 DEF GetAccount
  <1>7. ASSUME NEW r \in Requests, InsertTransaction(r) PROVE TypeOK'
    BY <1>7 DEF InsertTransaction, LockKinds
  <1>8. ASSUME NEW r \in Requests, UpdateBalance(r) PROVE TypeOK'
    BY <1>8 DEF UpdateBalance, LockKinds
  <1>9. ASSUME NEW r \in Requests, Commit(r) PROVE TypeOK'
    BY <1>9, CommitFacts DEF Commit
  <1>10. ASSUME NEW r \in Requests, Rollback(r) PROVE TypeOK'
    BY <1>10 DEF Rollback, Control
  <1>11. ASSUME NEW r \in Requests, InvalidateBalance(r) PROVE TypeOK'
    BY <1>11 DEF InvalidateBalance
  <1>12. ASSUME NEW r \in Requests, StatementFails(r) PROVE TypeOK'
    BY <1>12 DEF StatementFails, Fault
  <1>13. ASSUME NEW r \in Requests, CommitFails(r) PROVE TypeOK'
    BY <1>13, CommitFacts DEF CommitFails, Fault
  <1>14. ASSUME NEW r \in Requests, InvalidateFails(r) PROVE TypeOK'
    BY <1>14, InputType DEF InvalidateFails, Fault
  <1>15. ASSUME NEW why \in {"crashed", "closed"}, ProcessExit(why), Fault PROVE TypeOK'
    BY <1>15 DEF ProcessExit, Fault
  <1>16. CASE UNCHANGED vars
    BY <1>16 DEF vars
  <1>17. ASSUME NEW u \in Users, OpenAccount(u) PROVE TypeOK'
    BY <1>17 DEF OpenAccount, NewAccount, Account, Int64
  <1> QED
    BY <1>1, <1>2, <1>3, <1>4, <1>5, <1>6, <1>7, <1>8, <1>9, <1>10, <1>11,
       <1>12, <1>13, <1>14, <1>15, <1>16, <1>17
       DEF Next, Step, Failure, Crash, Shutdown, Finished

(***************************************************************************)
(* The tables change only when a request commits or a user signs up.       *)
(***************************************************************************)
LEMMA DbStep ==
  ASSUME [Next]_vars
  PROVE  \/ UNCHANGED dbVars
         \/ \E r \in Requests :
              pc[r] = "commit" /\ Publish(r) /\ (Commit(r) \/ CommitFails(r))
         \/ \E u \in Users : OpenAccount(u)
  BY DEF Next, Step, Failure, Crash, Shutdown, Finished, vars, dbVars,
         Accept, Refuse, FindTransactionByIdempotencyKey, Replay, BeginTx,
         GetAccount, InsertTransaction, UpdateBalance, Commit, Rollback,
         InvalidateBalance, StatementFails, CommitFails, InvalidateFails,
         ProcessExit

(***************************************************************************)
(* Signing up adds an empty account where there was none, and its state to *)
(* the history; it concerns no request.                                    *)
(***************************************************************************)
LEMMA OpenFacts ==
  ASSUME TypeOK, NEW u \in Users, OpenAccount(u)
  PROVE  /\ account[u] = NoAccount /\ account'[u] = NewAccount
         /\ NewAccount \in Account /\ NewAccount.version = 0
         /\ past'[u] = past[u] \cup {NewAccount}
         /\ \A v \in Users \ {u} :
              account'[v] = account[v] /\ past'[v] = past[v]
         /\ UNCHANGED <<ledger, cache, pc, input, attempt, acct, expected, err,
                        txid, held, faults, arrived>>
  BY DomainAssumption
     DEF OpenAccount, TypeOK, NewAccount, Account, Int64, txVars, restVars

\* A request keeps its content.
LEMMA InputStep ==
  ASSUME [Next]_vars
  PROVE  input' = input
  BY DEF Next, Step, OpenAccount, Failure, Crash, Shutdown, Finished, vars, restVars,
         Accept, Refuse, FindTransactionByIdempotencyKey, Replay, BeginTx,
         GetAccount, InsertTransaction, UpdateBalance, Commit, Rollback,
         InvalidateBalance, StatementFails, CommitFails, InvalidateFails,
         ProcessExit

(***************************************************************************)
(* After its commit a request can only be answered, or lose the process;   *)
(* once it is done nothing about it changes.                               *)
(***************************************************************************)
LEMMA SettledStep ==
  ASSUME TypeOK, Control, [Next]_vars, NEW q \in Requests
  PROVE  /\ pc[q] = "done" =>
              /\ pc'[q] = "done" /\ err'[q] = err[q]
              /\ acct'[q] = acct[q] /\ txid'[q] = txid[q]
         /\ pc[q] = "invalidate" =>
              \/ /\ pc'[q] \in {"invalidate", "done"} /\ err'[q] = "nil"
                 /\ acct'[q] = acct[q] /\ txid'[q] = txid[q]
              \/ pc'[q] = "done" /\ err'[q] \in {"crashed", "closed"}
  <1> USE DEF TypeOK, dbVars, restVars, txVars, Goto, Return, Abort, Retry, Forget
  <1>0. pc[q] = "invalidate" => err[q] = "nil"
    BY DEF Control
  <1> DEFINE Goal ==
         /\ pc[q] = "done" =>
              /\ pc'[q] = "done" /\ err'[q] = err[q]
              /\ acct'[q] = acct[q] /\ txid'[q] = txid[q]
         /\ pc[q] = "invalidate" =>
              \/ /\ pc'[q] \in {"invalidate", "done"} /\ err'[q] = "nil"
                 /\ acct'[q] = acct[q] /\ txid'[q] = txid[q]
              \/ pc'[q] = "done" /\ err'[q] \in {"crashed", "closed"}
  <1>1. ASSUME NEW r \in Requests, Accept(r) PROVE Goal
    BY <1>0, <1>1 DEF Accept
  <1>2. ASSUME NEW r \in Requests, Refuse(r) PROVE Goal
    BY <1>0, <1>2 DEF Refuse
  <1>3. ASSUME NEW r \in Requests, FindTransactionByIdempotencyKey(r) PROVE Goal
    BY <1>0, <1>3 DEF FindTransactionByIdempotencyKey
  <1>4. ASSUME NEW r \in Requests, Replay(r) PROVE Goal
    BY <1>0, <1>4 DEF Replay
  <1>5. ASSUME NEW r \in Requests, BeginTx(r) PROVE Goal
    BY <1>0, <1>5 DEF BeginTx
  <1>6. ASSUME NEW r \in Requests, GetAccount(r) PROVE Goal
    BY <1>0, <1>6 DEF GetAccount
  <1>7. ASSUME NEW r \in Requests, InsertTransaction(r) PROVE Goal
    BY <1>0, <1>7 DEF InsertTransaction
  <1>8. ASSUME NEW r \in Requests, UpdateBalance(r) PROVE Goal
    BY <1>0, <1>8 DEF UpdateBalance
  <1>9. ASSUME NEW r \in Requests, Commit(r) PROVE Goal
    BY <1>0, <1>9 DEF Commit
  <1>10. ASSUME NEW r \in Requests, Rollback(r) PROVE Goal
    BY <1>0, <1>10 DEF Rollback
  <1>11. ASSUME NEW r \in Requests, InvalidateBalance(r) PROVE Goal
    BY <1>0, <1>11 DEF InvalidateBalance
  <1>12. ASSUME NEW r \in Requests, StatementFails(r) PROVE Goal
    BY <1>0, <1>12 DEF StatementFails
  <1>13. ASSUME NEW r \in Requests, CommitFails(r) PROVE Goal
    BY <1>0, <1>13 DEF CommitFails
  <1>14. ASSUME NEW r \in Requests, InvalidateFails(r) PROVE Goal
    BY <1>0, <1>14 DEF InvalidateFails
  <1>15. ASSUME NEW why \in {"crashed", "closed"}, ProcessExit(why) PROVE Goal
    BY <1>0, <1>15 DEF ProcessExit, InFlight
  <1>16. CASE UNCHANGED vars
    BY <1>0, <1>16 DEF vars, Control
  <1>17. ASSUME NEW u \in Users, OpenAccount(u) PROVE Goal
    BY <1>0, <1>17 DEF OpenAccount, Control
  <1> QED
    BY <1>1, <1>2, <1>3, <1>4, <1>5, <1>6, <1>7, <1>8, <1>9, <1>10, <1>11,
       <1>12, <1>13, <1>14, <1>15, <1>16, <1>17
       DEF Next, Step, Failure, Crash, Shutdown, Finished

\* what a step of another request leaves alone
Same(q) == /\ pc'[q] = pc[q] /\ err'[q] = err[q] /\ held'[q] = held[q]
           /\ attempt'[q] = attempt[q] /\ acct'[q] = acct[q]
           /\ expected'[q] = expected[q] /\ txid'[q] = txid[q]
           /\ arrived'[q] = arrived[q]

Moves(r) == Step(r) \/ StatementFails(r) \/ CommitFails(r) \/ InvalidateFails(r)

(***************************************************************************)
(* Only one request moves at a time, unless the server process ends, and   *)
(* none when a user signs up.                                              *)
(***************************************************************************)
LEMMA OneMoves ==
  ASSUME TypeOK, [Next]_vars
  PROVE  \/ \E r \in Requests : /\ Moves(r)
                               /\ \A q \in Requests \ {r} : Same(q)
         \/ \E why \in {"crashed", "closed"} : ProcessExit(why)
         \/ \E u \in Users : OpenAccount(u)
         \/ UNCHANGED vars
  <1> USE DEF TypeOK, dbVars, restVars, txVars, Goto, Return, Abort, Retry, Forget, Same
  <1> DEFINE Goal(r) == \A q \in Requests \ {r} : Same(q)
  <1>1. ASSUME NEW r \in Requests, Accept(r) PROVE Goal(r)
    BY <1>1 DEF Accept
  <1>2. ASSUME NEW r \in Requests, Refuse(r) PROVE Goal(r)
    BY <1>2 DEF Refuse
  <1>3. ASSUME NEW r \in Requests, FindTransactionByIdempotencyKey(r) PROVE Goal(r)
    BY <1>3 DEF FindTransactionByIdempotencyKey
  <1>4. ASSUME NEW r \in Requests, Replay(r) PROVE Goal(r)
    BY <1>4 DEF Replay
  <1>5. ASSUME NEW r \in Requests, BeginTx(r) PROVE Goal(r)
    BY <1>5 DEF BeginTx
  <1>6. ASSUME NEW r \in Requests, GetAccount(r) PROVE Goal(r)
    BY <1>6 DEF GetAccount
  <1>7. ASSUME NEW r \in Requests, InsertTransaction(r) PROVE Goal(r)
    BY <1>7 DEF InsertTransaction
  <1>8. ASSUME NEW r \in Requests, UpdateBalance(r) PROVE Goal(r)
    BY <1>8 DEF UpdateBalance
  <1>9. ASSUME NEW r \in Requests, Commit(r) PROVE Goal(r)
    BY <1>9 DEF Commit
  <1>10. ASSUME NEW r \in Requests, Rollback(r) PROVE Goal(r)
    BY <1>10 DEF Rollback
  <1>11. ASSUME NEW r \in Requests, InvalidateBalance(r) PROVE Goal(r)
    BY <1>11 DEF InvalidateBalance
  <1>12. ASSUME NEW r \in Requests, StatementFails(r) PROVE Goal(r)
    BY <1>12 DEF StatementFails
  <1>13. ASSUME NEW r \in Requests, CommitFails(r) PROVE Goal(r)
    BY <1>13 DEF CommitFails
  <1>14. ASSUME NEW r \in Requests, InvalidateFails(r) PROVE Goal(r)
    BY <1>14 DEF InvalidateFails
  <1> HIDE DEF Same
  <1>15. ASSUME NEW r \in Requests, Moves(r) PROVE Goal(r)
    BY <1>1, <1>2, <1>3, <1>4, <1>5, <1>6, <1>7, <1>8, <1>9, <1>10, <1>11,
       <1>12, <1>13, <1>14, <1>15 DEF Moves, Step
  <1> QED
    BY <1>15 DEF Next, Failure, Crash, Shutdown, Finished, Moves

(***************************************************************************)
(* The tables only grow, and a version number only rises.                  *)
(***************************************************************************)
LEMMA DbGrows ==
  ASSUME IInv, [Next]_vars
  PROVE  /\ ledger \subseteq ledger'
         /\ \A u \in Users :
              /\ past[u] \subseteq past'[u]
              /\ account'[u] = NoAccount => account[u] = NoAccount
              /\ account[u] = NoAccount /\ account'[u] # NoAccount => Version(u)' = 0
              /\ account[u] # NoAccount =>
                   /\ Version(u) \in Nat /\ Version(u)' \in Nat
                   /\ Version(u)' >= Version(u)
  <1> USE DomainAssumption
  <1>1. CASE UNCHANGED dbVars
    BY <1>1 DEF dbVars, Version, IInv, TypeOK, Account
  <1>2. ASSUME NEW r \in Requests, pc[r] = "commit", Publish(r)
        PROVE  /\ ledger \subseteq ledger'
               /\ \A u \in Users :
                    /\ past[u] \subseteq past'[u]
                    /\ account'[u] = NoAccount <=> account[u] = NoAccount
                    /\ account[u] # NoAccount =>
                         /\ Version(u) \in Nat /\ Version(u)' \in Nat
                         /\ Version(u)' >= Version(u)
    <2>1. /\ User(r) \in Users /\ account[User(r)] \in Account
          /\ acct[r] \in Account /\ acct[r].version = Version(User(r)) + 1
          /\ account' = [account EXCEPT ![User(r)] = acct[r]]
          /\ past' = [past EXCEPT ![User(r)] = @ \cup {acct[r]}]
          /\ ledger' = ledger \cup {RowOf(r)}
      BY <1>2, CommitFacts
    <2> QED
      BY <2>1 DEF IInv, TypeOK, Version, Account
  <1>3. CASE \E v \in Users : OpenAccount(v)
    BY <1>3, OpenFacts DEF IInv, TypeOK, Version, Account
  <1> QED
    BY <1>1, <1>2, <1>3, DbStep

\* A commit adds one newer state to its account's history and nothing else does.
LEMMA HistoryStep == IInv /\ [Next]_vars => History'
  <1> SUFFICES ASSUME IInv, [Next]_vars PROVE History'
    OBVIOUS
  <1>1. CASE UNCHANGED dbVars
    BY <1>1 DEF dbVars, IInv, History, Version
  <1>2. ASSUME NEW r \in Requests, pc[r] = "commit", Publish(r)
        PROVE  History'
    BY <1>2, CommitFacts, DomainAssumption DEF IInv, TypeOK, History, Version, Account
  <1>3. ASSUME NEW u \in Users, OpenAccount(u) PROVE History'
    BY <1>3, OpenFacts, DomainAssumption DEF IInv, TypeOK, History, Version
  <1> QED
    BY <1>1, <1>2, <1>3, DbStep

\* A row is added by the request its id names, in the step that commits it.
LEMMA RowsStep == IInv /\ [Next]_vars => Rows'
  <1> SUFFICES ASSUME IInv, [Next]_vars, NEW row \in ledger'
               PROVE  /\ account'[row.user] # NoAccount
                      /\ \/ pc'[row.id[1]] = "invalidate"
                         \/ /\ pc'[row.id[1]] = "done"
                            /\ err'[row.id[1]] \in {"nil", "error", "crashed", "closed"}
    BY DEF Rows
  <1>1. CASE row \in ledger
    <2>1. row.user \in Users /\ row.id[1] \in Requests
      BY <1>1 DEF IInv, TypeOK, Row, TxIds
    <2> QED
      BY <1>1, <2>1, DbGrows, SettledStep DEF IInv, Rows
  <1>2. CASE row \notin ledger
    <2>1. PICK r \in Requests :
            pc[r] = "commit" /\ Publish(r) /\ (Commit(r) \/ CommitFails(r))
      BY <1>2, DbStep DEF dbVars, OpenAccount
    <2>2. row = RowOf(r)
      BY <1>2, <2>1, CommitFacts
    <2>3. row.id[1] = r /\ row.user = User(r)
      BY <2>1, <2>2, CommitFacts DEF RowOf
    <2>4. account'[row.user] # NoAccount
      BY <2>1, <2>3, DomainAssumption, CommitFacts, DbGrows
    <2>5. \/ pc'[r] = "invalidate"
          \/ pc'[r] = "done" /\ err'[r] = "error"
      BY <2>1 DEF Commit, CommitFails, Goto, Return, IInv, TypeOK
    <2> QED
      BY <2>3, <2>4, <2>5
  <1> QED
    BY <1>1, <1>2

\* A commit adds no second row for a key: its pending row excluded all others.
LEMMA UniqueKeysStep == IInv /\ [Next]_vars => UniqueKeys'
  <1> SUFFICES ASSUME IInv, [Next]_vars PROVE UniqueKeys'
    OBVIOUS
  <1>1. CASE UNCHANGED dbVars
    BY <1>1 DEF dbVars, IInv, UniqueKeys
  <1>2. ASSUME NEW r \in Requests, pc[r] = "commit", Publish(r)
        PROVE  UniqueKeys'
    BY <1>2, CommitFacts DEF IInv, UniqueKeys, SameKey
  <1>3. CASE \E u \in Users : OpenAccount(u)
    BY <1>3 DEF OpenAccount, IInv, UniqueKeys
  <1> QED
    BY <1>1, <1>2, <1>3, DbStep

\* A statement that waits for nobody finds its key, or its account, unlocked.
LEMMA GrantedMeansFree ==
  ASSUME NEW r \in Requests, Granted(r)
  PROVE  /\ pc[r] = "insert" => \A q \in Requests : ~ Pends(q, r)
         /\ pc[r] = "update" =>
              \A q \in Requests : q # r /\ "account" \in held[q] => User(q) # User(r)
  BY DEF Granted, WaitsFor, Wants

\* Locks are taken only when free and released only at the end of a transaction.
LEMMA LocksStep == IInv /\ [Next]_vars => Locks'
  <1> SUFFICES ASSUME IInv, [Next]_vars PROVE Locks'
    OBVIOUS
  <1> USE DEF TypeOK, IInv, dbVars, restVars, txVars, Goto, Return, Abort, Retry, Forget
  <1> USE InputStep DEF Locks, User
  <1>1. ASSUME NEW r \in Requests, Accept(r) PROVE Locks'
    BY <1>1 DEF Accept
  <1>2. ASSUME NEW r \in Requests, Refuse(r) PROVE Locks'
    BY <1>2 DEF Refuse
  <1>3. ASSUME NEW r \in Requests, FindTransactionByIdempotencyKey(r) PROVE Locks'
    BY <1>3 DEF FindTransactionByIdempotencyKey
  <1>4. ASSUME NEW r \in Requests, Replay(r) PROVE Locks'
    BY <1>4 DEF Replay
  <1>5. ASSUME NEW r \in Requests, BeginTx(r) PROVE Locks'
    BY <1>5 DEF BeginTx
  <1>6. ASSUME NEW r \in Requests, GetAccount(r) PROVE Locks'
    BY <1>6 DEF GetAccount
  <1>7. ASSUME NEW r \in Requests, InsertTransaction(r) PROVE Locks'
    <2>1. CASE "row" \in held'[r]
      BY <1>7, <2>1, GrantedMeansFree DEF InsertTransaction, Pends, SameKey
    <2>2. CASE "row" \notin held'[r]
      BY <1>7, <2>2 DEF InsertTransaction
    <2> QED
      BY <2>1, <2>2
  <1>8. ASSUME NEW r \in Requests, UpdateBalance(r) PROVE Locks'
    BY <1>8, GrantedMeansFree DEF UpdateBalance
  <1>9. ASSUME NEW r \in Requests, Commit(r) PROVE Locks'
    BY <1>9 DEF Commit
  <1>10. ASSUME NEW r \in Requests, Rollback(r) PROVE Locks'
    BY <1>10 DEF Rollback
  <1>11. ASSUME NEW r \in Requests, InvalidateBalance(r) PROVE Locks'
    BY <1>11 DEF InvalidateBalance
  <1>12. ASSUME NEW r \in Requests, StatementFails(r) PROVE Locks'
    BY <1>12 DEF StatementFails
  <1>13. ASSUME NEW r \in Requests, CommitFails(r) PROVE Locks'
    BY <1>13 DEF CommitFails
  <1>14. ASSUME NEW r \in Requests, InvalidateFails(r) PROVE Locks'
    BY <1>14 DEF InvalidateFails
  <1>15. ASSUME NEW why \in {"crashed", "closed"}, ProcessExit(why) PROVE Locks'
    BY <1>15 DEF ProcessExit, InFlight
  <1>16. CASE UNCHANGED vars
    BY <1>16 DEF vars
  <1>17. ASSUME NEW u \in Users, OpenAccount(u) PROVE Locks'
    BY <1>17 DEF OpenAccount
  <1> QED
    BY <1>1, <1>2, <1>3, <1>4, <1>5, <1>6, <1>7, <1>8, <1>9, <1>10, <1>11,
       <1>12, <1>13, <1>14, <1>15, <1>16, <1>17
       DEF Next, Step, Failure, Crash, Shutdown, Finished

\* The loop of Execute keeps its counter, its error and its checked content.
LEMMA ControlStep == IInv /\ [Next]_vars => Control'
  <1> SUFFICES ASSUME IInv, [Next]_vars PROVE Control'
    OBVIOUS
  <1> USE GrantRedeemAssumption, InputStep
  <1> USE DEF TypeOK, IInv, dbVars, restVars, txVars, Goto, Return, Abort, Retry, Forget
  <1> USE DEF Control
  <1>1. ASSUME NEW r \in Requests, Accept(r) PROVE Control'
    BY <1>1 DEF Accept
  <1>2. ASSUME NEW r \in Requests, Refuse(r) PROVE Control'
    BY <1>2 DEF Refuse
  <1>3. ASSUME NEW r \in Requests, FindTransactionByIdempotencyKey(r) PROVE Control'
    BY <1>3 DEF FindTransactionByIdempotencyKey
  <1>4. ASSUME NEW r \in Requests, Replay(r) PROVE Control'
    BY <1>4 DEF Replay
  <1>5. ASSUME NEW r \in Requests, BeginTx(r) PROVE Control'
    BY <1>5 DEF BeginTx
  <1>6. ASSUME NEW r \in Requests, GetAccount(r) PROVE Control'
    BY <1>6 DEF GetAccount
  <1>7. ASSUME NEW r \in Requests, InsertTransaction(r) PROVE Control'
    BY <1>7 DEF InsertTransaction
  <1>8. ASSUME NEW r \in Requests, UpdateBalance(r) PROVE Control'
    BY <1>8 DEF UpdateBalance
  <1>9. ASSUME NEW r \in Requests, Commit(r) PROVE Control'
    BY <1>9 DEF Commit
  <1>10. ASSUME NEW r \in Requests, Rollback(r) PROVE Control'
    BY <1>10 DEF Rollback
  <1>11. ASSUME NEW r \in Requests, InvalidateBalance(r) PROVE Control'
    BY <1>11 DEF InvalidateBalance
  <1>12. ASSUME NEW r \in Requests, StatementFails(r) PROVE Control'
    BY <1>12 DEF StatementFails
  <1>13. ASSUME NEW r \in Requests, CommitFails(r) PROVE Control'
    BY <1>13 DEF CommitFails
  <1>14. ASSUME NEW r \in Requests, InvalidateFails(r) PROVE Control'
    BY <1>14 DEF InvalidateFails
  <1>15. ASSUME NEW why \in {"crashed", "closed"}, ProcessExit(why) PROVE Control'
    BY <1>15 DEF ProcessExit, InFlight
  <1>16. CASE UNCHANGED vars
    BY <1>16 DEF vars
  <1>17. ASSUME NEW u \in Users, OpenAccount(u) PROVE Control'
    BY <1>17 DEF OpenAccount
  <1> QED
    BY <1>1, <1>2, <1>3, <1>4, <1>5, <1>6, <1>7, <1>8, <1>9, <1>10, <1>11,
       <1>12, <1>13, <1>14, <1>15, <1>16, <1>17
       DEF Next, Step, Failure, Crash, Shutdown, Finished

\* While a row waits to be committed nobody else commits its key.
LEMMA PendingStep == IInv /\ [Next]_vars => Pending'
  <1> SUFFICES ASSUME IInv, [Next]_vars, NEW q \in Requests, "row" \in held'[q],
                      NEW row \in ledger'
               PROVE  ~ SameKey(row, input[q])
    BY InputStep DEF Pending
  <1> USE DEF TypeOK, IInv, dbVars, restVars, txVars, Goto, Return, Abort, Retry, Forget
  <1>1. CASE UNCHANGED dbVars /\ "row" \in held[q]
    BY <1>1 DEF Pending
  <1>2. CASE UNCHANGED dbVars /\ "row" \notin held[q]
    <2>1. InsertTransaction(q)
      BY <1>2 DEF Next, Step, Failure, Crash, Shutdown, Finished, vars, OpenAccount,
           Accept, Refuse, FindTransactionByIdempotencyKey, Replay, BeginTx,
           GetAccount, InsertTransaction, UpdateBalance, Commit, Rollback,
           InvalidateBalance, StatementFails, CommitFails, InvalidateFails,
           ProcessExit
    <2> QED
      BY <1>2, <2>1 DEF InsertTransaction, Exists
  <1>3. ASSUME NEW r \in Requests,
               pc[r] = "commit", Publish(r), Commit(r) \/ CommitFails(r)
        PROVE  ~ SameKey(row, input[q])
    <2>1. q # r /\ "row" \in held[q]
      BY <1>3 DEF Commit, CommitFails
    <2>2. CASE row \in ledger
      BY <2>1, <2>2 DEF Pending
    <2>3. CASE row = RowOf(r)
      BY <1>3, <2>1, <2>3 DEF Locks, RowOf, SameKey, User
    <2> QED
      BY <1>3, <2>2, <2>3 DEF Publish
  <1>4. CASE \E u \in Users : OpenAccount(u)
    BY <1>4 DEF OpenAccount, Pending
  <1> QED
    BY <1>1, <1>2, <1>3, <1>4, DbStep

\* A request's object stays the successor of a committed state of its account.
LEMMA MemoryStep == IInv /\ [Next]_vars => Memory'
  <1> SUFFICES ASSUME IInv, [Next]_vars, NEW q \in Requests PROVE MemoryOf(q)'
    BY DEF Memory
  <1> USE DEF TypeOK, IInv, dbVars, restVars, txVars, Goto, Return, Abort, Retry, Forget
  <1> USE InputStep DEF Memory, MemoryOf, Loaded, User, Version
  <1>1. ASSUME Accept(q) PROVE MemoryOf(q)'
    BY <1>1 DEF Accept
  <1>2. ASSUME Refuse(q) PROVE MemoryOf(q)'
    BY <1>2 DEF Refuse
  <1>3. ASSUME FindTransactionByIdempotencyKey(q) PROVE MemoryOf(q)'
    BY <1>3 DEF FindTransactionByIdempotencyKey
  <1>4. ASSUME Replay(q) PROVE MemoryOf(q)'
    BY <1>4 DEF Replay
  <1>5. ASSUME BeginTx(q) PROVE MemoryOf(q)'
    BY <1>5 DEF BeginTx
  <1>6. ASSUME GetAccount(q) PROVE MemoryOf(q)'
    <2>1. CASE pc'[q] # "insert"
      BY <1>6, <2>1 DEF GetAccount
    <2>2. CASE pc'[q] = "insert"
      <3> DEFINE a == account[input[q].user]
      <3>1. a # NoAccount /\ User(q) \in Users
        BY <1>6, <2>2, InputType DEF GetAccount
      <3>2. a \in past'[input[q].user]
        BY <1>6, <3>1, DbGrows DEF History
      <3>3. /\ txid'[q] = <<q, attempt'[q]>>
            /\ Covers(input[q].type, a, input[q].amount)
            /\ acct'[q] = Apply(input[q].type, a, input[q].amount)
            /\ expected'[q] = a.version
        BY <1>6, <2>2 DEF GetAccount
      <3> HIDE DEF a
      <3> QED
        BY <2>2, <3>2, <3>3
    <2> QED
      BY <2>1, <2>2
  <1>7. ASSUME InsertTransaction(q) PROVE MemoryOf(q)'
    BY <1>7 DEF InsertTransaction
  <1>8. ASSUME UpdateBalance(q) PROVE MemoryOf(q)'
    BY <1>8 DEF UpdateBalance
  <1>9. ASSUME Commit(q) PROVE MemoryOf(q)'
    BY <1>9 DEF Commit
  <1>10. ASSUME Rollback(q) PROVE MemoryOf(q)'
    BY <1>10 DEF Rollback
  <1>11. ASSUME InvalidateBalance(q) PROVE MemoryOf(q)'
    BY <1>11 DEF InvalidateBalance
  <1>12. ASSUME StatementFails(q) PROVE MemoryOf(q)'
    BY <1>12 DEF StatementFails
  <1>13. ASSUME CommitFails(q) PROVE MemoryOf(q)'
    BY <1>13 DEF CommitFails
  <1>14. ASSUME InvalidateFails(q) PROVE MemoryOf(q)'
    BY <1>14 DEF InvalidateFails
  <1>15. ASSUME NEW r \in Requests, Moves(r), r # q, Same(q) PROVE MemoryOf(q)'
    <2>1. User(q) \in Users /\ past[User(q)] \subseteq past'[User(q)]
      BY InputType, DbGrows
    <2>2. pc[q] = "commit" => Version(User(q))' = Version(User(q))
      <3>1. ASSUME NEW p \in Requests, pc[p] = "commit", Publish(p),
                   Commit(p) \/ CommitFails(p), pc[q] = "commit"
            PROVE  Version(User(q))' = Version(User(q))
        <4>1. p # q
          BY <1>15, <3>1 DEF Commit, CommitFails, Same
        <4> QED
          BY <3>1, <4>1, <2>1 DEF Publish, Locks
      <3>2. ASSUME NEW u \in Users, OpenAccount(u), pc[q] = "commit"
            PROVE  Version(User(q))' = Version(User(q))
        BY <2>1, <3>2, OpenFacts DEF History
      <3>3. UNCHANGED dbVars => Version(User(q))' = Version(User(q))
        BY InputStep
      <3> QED
        BY <3>1, <3>2, <3>3, DbStep
    <2> QED
      BY <1>15, <2>1, <2>2 DEF Same
  <1>16. ASSUME NEW why \in {"crashed", "closed"}, ProcessExit(why) PROVE MemoryOf(q)'
    BY <1>16 DEF ProcessExit, InFlight
  <1>17. CASE UNCHANGED vars
    BY <1>17 DEF vars
  <1>18. ASSUME NEW u \in Users, OpenAccount(u) PROVE MemoryOf(q)'
    <2>1. User(q) \in Users /\ past[User(q)] \subseteq past'[User(q)]
      BY InputType, DbGrows
    <2>2. pc[q] = "commit" => Version(User(q))' = Version(User(q))
      BY <1>18, <2>1, OpenFacts DEF History
    <2>3. UNCHANGED <<pc, acct, expected, txid, attempt>>
      BY <1>18, OpenFacts
    <2> QED
      BY <2>1, <2>2, <2>3
  <1> QED
    BY <1>1, <1>2, <1>3, <1>4, <1>5, <1>6, <1>7, <1>8, <1>9, <1>10, <1>11,
       <1>12, <1>13, <1>14, <1>15, <1>16, <1>17, <1>18, OneMoves DEF Moves, Step

\* What a finished request said stays true when others book.
LEMMA AnswersStep == IInv /\ [Next]_vars => Answers'
  <1> SUFFICES ASSUME IInv, [Next]_vars, NEW q \in Requests PROVE AnswerOf(q)'
    BY DEF Answers
  <1> USE DEF TypeOK, IInv, dbVars, restVars, txVars, Goto, Return, Abort, Retry, Forget
  <1>0. User(q) \in Users /\ past[User(q)] \subseteq past'[User(q)] /\ ledger \subseteq ledger'
    BY InputType, DbGrows
  <1> USE <1>0, InputStep DEF Answers, AnswerOf, Booked, Answered, Status, User
  <1>1. ASSUME Accept(q) PROVE AnswerOf(q)'
    BY <1>1 DEF Accept
  <1>2. ASSUME Refuse(q) PROVE AnswerOf(q)'
    BY <1>2 DEF Refuse
  <1>3. ASSUME FindTransactionByIdempotencyKey(q) PROVE AnswerOf(q)'
    BY <1>3 DEF FindTransactionByIdempotencyKey
  <1>4. ASSUME Replay(q) PROVE AnswerOf(q)'
    BY <1>4 DEF Replay, Rows, SameKey, History
  <1>5. ASSUME BeginTx(q) PROVE AnswerOf(q)'
    BY <1>5 DEF BeginTx
  <1>6. ASSUME GetAccount(q) PROVE AnswerOf(q)'
    BY <1>6 DEF GetAccount
  <1>7. ASSUME InsertTransaction(q) PROVE AnswerOf(q)'
    BY <1>7 DEF InsertTransaction
  <1>8. ASSUME UpdateBalance(q) PROVE AnswerOf(q)'
    BY <1>8 DEF UpdateBalance
  <1>9. ASSUME Commit(q) PROVE AnswerOf(q)'
    <2>1. /\ RowOf(q) \in ledger' /\ acct[q] \in past'[User(q)]
          /\ RowOf(q).id = txid[q] /\ SameKey(RowOf(q), input[q])
          /\ RowOf(q).amount = input[q].amount
      BY <1>9, CommitFacts DEF Commit, RowOf, SameKey
    <2> QED
      BY <1>9, <2>1 DEF Commit
  <1>10. ASSUME Rollback(q) PROVE AnswerOf(q)'
    BY <1>10 DEF Rollback, Control
  <1>11. ASSUME InvalidateBalance(q) PROVE AnswerOf(q)'
    BY <1>11 DEF InvalidateBalance
  <1>12. ASSUME StatementFails(q) PROVE AnswerOf(q)'
    BY <1>12 DEF StatementFails
  <1>13. ASSUME CommitFails(q) PROVE AnswerOf(q)'
    BY <1>13 DEF CommitFails
  <1>14. ASSUME InvalidateFails(q) PROVE AnswerOf(q)'
    BY <1>14 DEF InvalidateFails
  <1>15. ASSUME NEW r \in Requests, Moves(r), r # q, Same(q) PROVE AnswerOf(q)'
    BY <1>15 DEF Same
  <1>16. ASSUME NEW why \in {"crashed", "closed"}, ProcessExit(why) PROVE AnswerOf(q)'
    BY <1>16 DEF ProcessExit, InFlight
  <1>17. CASE UNCHANGED vars
    BY <1>17 DEF vars
  <1>18. ASSUME NEW u \in Users, OpenAccount(u) PROVE AnswerOf(q)'
    BY <1>18, OpenFacts
  <1> QED
    BY <1>1, <1>2, <1>3, <1>4, <1>5, <1>6, <1>7, <1>8, <1>9, <1>10, <1>11,
       <1>12, <1>13, <1>14, <1>15, <1>16, <1>17, <1>18, OneMoves DEF Moves, Step

\* Each failed attempt of a request is matched by a booking of another.
LEMMA HeadwayStep == IInv /\ [Next]_vars => Headway'
  <1> SUFFICES ASSUME IInv, [Next]_vars, NEW q \in Requests PROVE HeadwayOf(q)'
    BY DEF Headway
  <1> USE DEF TypeOK, IInv, dbVars, restVars, txVars, Goto, Return, Abort, Retry, Forget
  <1>0. /\ User(q) \in Users
        /\ account'[User(q)] = NoAccount => account[User(q)] = NoAccount
        /\ account[User(q)] = NoAccount /\ account'[User(q)] # NoAccount =>
             Version(User(q))' = 0
        /\ account[User(q)] # NoAccount =>
             /\ Version(User(q)) \in Nat /\ Version(User(q))' \in Nat
             /\ Version(User(q))' >= Version(User(q))
    BY InputType, DbGrows, InputStep DEF User, Version
  <1> USE <1>0, InputStep, GrantRedeemAssumption
      DEF Headway, HeadwayOf, Loaded, Answered, Status, User, Version
  <1>1. ASSUME Accept(q) PROVE HeadwayOf(q)'
    <2>1. attempt'[q] = 0 /\ account' = account /\ pc'[q] = "lookup" /\ err'[q] = "nil"
      BY <1>1 DEF Accept, Control
    <2>2. /\ account[User(q)] # NoAccount => arrived'[q] = Version(User(q))
          /\ account[User(q)] = NoAccount => arrived'[q] = 0
      BY <1>1 DEF Accept
    <2>3. account[User(q)] # NoAccount =>
            Version(User(q))' >= arrived'[q] + attempt'[q]
      <3> HIDE DEF TypeOK, IInv, HeadwayOf, User, Version
      <3> QED
        BY <2>1, <2>2
    <2> QED
      BY <2>1, <2>2, <2>3
  <1>2. ASSUME Refuse(q) PROVE HeadwayOf(q)'
    BY <1>2 DEF Refuse
  <1>3. ASSUME FindTransactionByIdempotencyKey(q) PROVE HeadwayOf(q)'
    BY <1>3 DEF FindTransactionByIdempotencyKey
  <1>4. ASSUME Replay(q) PROVE HeadwayOf(q)'
    BY <1>4 DEF Replay
  <1>5. ASSUME BeginTx(q) PROVE HeadwayOf(q)'
    BY <1>5 DEF BeginTx
  <1>6. ASSUME GetAccount(q) PROVE HeadwayOf(q)'
    BY <1>6 DEF GetAccount
  <1>7. ASSUME InsertTransaction(q) PROVE HeadwayOf(q)'
    BY <1>7 DEF InsertTransaction
  <1>8. ASSUME UpdateBalance(q) PROVE HeadwayOf(q)'
    <2>1. account[User(q)] # NoAccount /\ expected[q] <= Version(User(q))
      BY <1>8 DEF UpdateBalance, Memory, MemoryOf, History
    <2>2. expected[q] >= arrived[q] + attempt[q]
      BY <1>8 DEF UpdateBalance
    <2>3. /\ expected[q] \in Int /\ arrived[q] \in Int /\ attempt[q] \in Int
          /\ Version(User(q)) \in Int
      BY <2>1
    <2>4. /\ account' = account /\ attempt' = attempt /\ arrived' = arrived
          /\ expected' = expected
      BY <1>8 DEF UpdateBalance
    <2>5. CASE pc'[q] = "commit"
      BY <1>8, <2>1, <2>2, <2>3, <2>4, <2>5 DEF UpdateBalance
    <2>6. CASE pc'[q] = "rollback" /\ Version(User(q)) # expected[q]
      <3>1. Version(User(q)) > arrived[q] + attempt[q]
        <4> HIDE DEF TypeOK, IInv, HeadwayOf, User, Version
        <4> QED
          BY <2>1, <2>2, <2>3, <2>6
      <3> QED
        BY <2>1, <2>4, <2>6, <3>1
    <2> QED
      BY <1>8, <2>5, <2>6 DEF UpdateBalance
  <1>9. ASSUME Commit(q) PROVE HeadwayOf(q)'
    <2>1. account[User(q)] # NoAccount
      BY <1>9, CommitFacts, DomainAssumption DEF Commit
    <2> QED
      BY <1>9, <2>1 DEF Commit
  <1>10. ASSUME Rollback(q) PROVE HeadwayOf(q)'
    BY <1>10 DEF Rollback
  <1>11. ASSUME InvalidateBalance(q) PROVE HeadwayOf(q)'
    BY <1>11 DEF InvalidateBalance
  <1>12. ASSUME StatementFails(q) PROVE HeadwayOf(q)'
    BY <1>12 DEF StatementFails
  <1>13. ASSUME CommitFails(q) PROVE HeadwayOf(q)'
    BY <1>13 DEF CommitFails
  <1>14. ASSUME InvalidateFails(q) PROVE HeadwayOf(q)'
    BY <1>14 DEF InvalidateFails
  <1>15. ASSUME NEW r \in Requests, Moves(r), r # q, Same(q) PROVE HeadwayOf(q)'
    BY <1>15 DEF Same
  <1>16. ASSUME NEW why \in {"crashed", "closed"}, ProcessExit(why) PROVE HeadwayOf(q)'
    BY <1>16 DEF ProcessExit, InFlight
  <1>17. CASE UNCHANGED vars
    BY <1>17 DEF vars
  <1>18. ASSUME NEW u \in Users, OpenAccount(u) PROVE HeadwayOf(q)'
    BY <1>18, OpenFacts
  <1> QED
    BY <1>1, <1>2, <1>3, <1>4, <1>5, <1>6, <1>7, <1>8, <1>9, <1>10, <1>11,
       <1>12, <1>13, <1>14, <1>15, <1>16, <1>17, <1>18, OneMoves DEF Moves, Step

\* The state a refusal was decided on stays in the history.
LEMMA GroundsStep == IInv /\ [Next]_vars => Grounds'
  <1> SUFFICES ASSUME IInv, [Next]_vars, NEW q \in Requests PROVE GroundsOf(q)'
    BY DEF Grounds
  <1> USE DEF TypeOK, IInv, dbVars, restVars, txVars, Goto, Return, Abort, Retry, Forget
  <1>0. User(q) \in Users /\ past[User(q)] \subseteq past'[User(q)] /\ ledger \subseteq ledger'
    BY InputType, DbGrows
  <1> USE <1>0, InputStep DEF Grounds, GroundsOf, User
  <1>1. ASSUME Accept(q) PROVE GroundsOf(q)'
    BY <1>1 DEF Accept
  <1>2. ASSUME Refuse(q) PROVE GroundsOf(q)'
    BY <1>2 DEF Refuse
  <1>3. ASSUME FindTransactionByIdempotencyKey(q) PROVE GroundsOf(q)'
    BY <1>3 DEF FindTransactionByIdempotencyKey
  <1>4. ASSUME Replay(q) PROVE GroundsOf(q)'
    BY <1>4 DEF Replay
  <1>5. ASSUME BeginTx(q) PROVE GroundsOf(q)'
    BY <1>5 DEF BeginTx
  <1>6. ASSUME GetAccount(q) PROVE GroundsOf(q)'
    <2>1. CASE err'[q] = "ErrInsufficientBalance" /\ err[q] = "nil"
      <3>1. /\ account[User(q)] # NoAccount
            /\ account[User(q)].balance < input[q].amount
        BY <1>6, <2>1, InputType, DomainAssumption
           DEF GetAccount, Covers, Account, Int64, Input
      <3>2. account[User(q)].version >= arrived[q]
        BY <1>6, <3>1 DEF GetAccount, Headway, HeadwayOf, Version, Account
      <3>3. account[User(q)] \in past'[User(q)]
        BY <3>1 DEF History
      <3> QED
        BY <1>6, <2>1, <3>1, <3>2, <3>3 DEF GetAccount
    <2>2. CASE err'[q] # "ErrInsufficientBalance"
      BY <1>6, <2>2 DEF GetAccount
    <2> QED
      BY <1>6, <2>1, <2>2 DEF GetAccount, Control
  <1>7. ASSUME InsertTransaction(q) PROVE GroundsOf(q)'
    BY <1>7 DEF InsertTransaction
  <1>8. ASSUME UpdateBalance(q) PROVE GroundsOf(q)'
    BY <1>8 DEF UpdateBalance
  <1>9. ASSUME Commit(q) PROVE GroundsOf(q)'
    BY <1>9 DEF Commit
  <1>10. ASSUME Rollback(q) PROVE GroundsOf(q)'
    BY <1>10 DEF Rollback, Control
  <1>11. ASSUME InvalidateBalance(q) PROVE GroundsOf(q)'
    BY <1>11 DEF InvalidateBalance
  <1>12. ASSUME StatementFails(q) PROVE GroundsOf(q)'
    BY <1>12 DEF StatementFails
  <1>13. ASSUME CommitFails(q) PROVE GroundsOf(q)'
    BY <1>13 DEF CommitFails
  <1>14. ASSUME InvalidateFails(q) PROVE GroundsOf(q)'
    BY <1>14 DEF InvalidateFails
  <1>15. ASSUME NEW r \in Requests, Moves(r), r # q, Same(q) PROVE GroundsOf(q)'
    BY <1>15 DEF Same
  <1>16. ASSUME NEW why \in {"crashed", "closed"}, ProcessExit(why) PROVE GroundsOf(q)'
    BY <1>16 DEF ProcessExit, InFlight
  <1>17. CASE UNCHANGED vars
    BY <1>17 DEF vars
  <1>18. ASSUME NEW u \in Users, OpenAccount(u) PROVE GroundsOf(q)'
    BY <1>18, OpenFacts
  <1> QED
    BY <1>1, <1>2, <1>3, <1>4, <1>5, <1>6, <1>7, <1>8, <1>9, <1>10, <1>11,
       <1>12, <1>13, <1>14, <1>15, <1>16, <1>17, <1>18, OneMoves DEF Moves, Step

\* The invariant is inductive.
LEMMA NextKeepsIInv == IInv /\ [Next]_vars => IInv'
  BY TypeStep, HistoryStep, RowsStep, UniqueKeysStep, LocksStep, PendingStep,
     MemoryStep, ControlStep, AnswersStep, HeadwayStep, GroundsStep DEF IInv

(***************************************************************************)
(* IInv is an invariant: grant.go and redeem.go keep it at every statement, *)
(* for any number of users, requests, connections, retries and failures.   *)
(***************************************************************************)
THEOREM InvariantHolds == Spec => []IInv
  BY NextKeepsIInv, InitEstablishesInvariant, PTL DEF Spec

-------------------------------------------------------------------------------
(***************************************************************************)
(* What is waited for belongs to a request that is further on: one with    *)
(* the account lock waits for nothing, one with the index entry at most    *)
(* for the account lock, one with a connection at most for those.  Only a  *)
(* shared lock is kept by a request that waits for the same key; then that *)
(* one waits for a shared lock in turn, and two of them for each other.    *)
(***************************************************************************)
LEMMA WaitersAreBehind ==
  ASSUME Locks
  PROVE  CirclesAreBroken
  <1> SUFFICES ASSUME NEW R \in SUBSET Requests, R # {},
                      \A r \in R : \E q \in R : WaitsFor(r, q)
               PROVE  \E q, r \in R : Deadlocked(q, r)
    BY DEF CirclesAreBroken
  <1>1. \A r \in R : pc[r] \in {"insert", "update", "lookup", "replay", "begin"}
    BY DEF WaitsFor, Wants
  <1>2. \A r \in R : pc[r] # "update"
    BY <1>1 DEF WaitsFor, Wants, Locks
  <1>3. ASSUME NEW r \in R, NEW q \in R, pc[r] = "insert", WaitsFor(r, q)
        PROVE  /\ pc[q] = "insert" /\ Shares(q, r) /\ ~ Exists(r)
               /\ \A p \in Requests : ~ Pends(p, r)
    <2>1. pc[q] # "update" /\ ~ Pends(q, r) /\ Wants(r) = "key"
      BY <1>1, <1>2, <1>3 DEF Pends, Locks, Wants
    <2>2. /\ Shares(q, r) /\ ~ Exists(r)
          /\ \A p \in Requests : ~ Pends(p, r)
      BY <1>3, <2>1 DEF WaitsFor
    <2> QED
      BY <1>1, <2>1, <2>2 DEF Shares, Locks
  <1>4. PICK r \in R : pc[r] = "insert"
    BY <1>1, <1>2 DEF WaitsFor, Wants, InTx
  <1>5. PICK q \in R : WaitsFor(r, q)
    OBVIOUS
  <1>6. PICK p \in R : WaitsFor(q, p)
    OBVIOUS
  <1>7. pc[p] = "insert" /\ pc[q] = "insert" /\ Shares(q, r) /\ Shares(p, q)
    BY <1>3, <1>4, <1>5, <1>6
  <1>8. ~ Exists(p) /\ \A o \in Requests : ~ Pends(o, p)
    BY <1>3, <1>7
  <1>9. Shares(q, p)
    BY <1>7 DEF Shares, SameKey
  <1>10. WaitsFor(p, q)
    BY <1>7, <1>8, <1>9 DEF WaitsFor, Wants
  <1> QED
    BY <1>6, <1>7, <1>10 DEF Deadlocked, Wants

\* What the invariant says of the tables and the answers in any one state; the
\* compositions, which keep IInv, cite this as well.
LEMMA BookingsAreSafe ==
  IInv => /\ TypeOK /\ UniqueKeys /\ OkMeansBooked /\ RefusedMeansUnbooked
          /\ ShownIsCommitted /\ RefusalJustified /\ ConflictNeedsCommits
          /\ CirclesAreBroken
  <1> SUFFICES ASSUME IInv
               PROVE  /\ TypeOK /\ UniqueKeys /\ OkMeansBooked
                      /\ RefusedMeansUnbooked /\ ShownIsCommitted
                      /\ RefusalJustified /\ ConflictNeedsCommits
                      /\ CirclesAreBroken
    OBVIOUS
  <1>1. TypeOK /\ UniqueKeys
    BY DEF IInv
  <1>2. OkMeansBooked
    BY DEF IInv, OkMeansBooked, Answers, AnswerOf, Booked
  <1>3. RefusedMeansUnbooked
    BY DEF IInv, RefusedMeansUnbooked, Rows, Refusals, Answered, Status
  <1>4. ShownIsCommitted
    BY DEF IInv, ShownIsCommitted, History, Answers, AnswerOf, Booked
  <1>5. RefusalJustified
    BY DEF IInv, RefusalJustified, Control, Grounds, GroundsOf, Answered, Status,
           TypeOK, Errors
  <1>6. ConflictNeedsCommits
    BY DEF IInv, ConflictNeedsCommits, Headway, HeadwayOf, Version
  <1>7. CirclesAreBroken
    BY WaitersAreBehind DEF IInv
  <1> QED
    BY <1>1, <1>2, <1>3, <1>4, <1>5, <1>6, <1>7

(***************************************************************************)
(* Type correctness; in particular a balance stays an int64 (account.go).  *)
(***************************************************************************)
THEOREM TypeCorrect == Spec => []TypeOK
  BY BookingsAreSafe, InvariantHolds, PTL

(***************************************************************************)
(* No two rows share an idempotency key, although lookup (grant.go:63) and *)
(* insert (grant.go:147) are in different transactions.                    *)
(***************************************************************************)
THEOREM KeysAreUnique == Spec => []UniqueKeys
  BY BookingsAreSafe, InvariantHolds, PTL

(***************************************************************************)
(* A 200 answer of Grant or Redeem (handler/mileage.go) names its row.     *)
(***************************************************************************)
THEOREM OkAnswersAreBooked == Spec => []OkMeansBooked
  BY BookingsAreSafe, InvariantHolds, PTL

(***************************************************************************)
(* A 400 or 409 answer (handleMileageError) leaves no row of the request.  *)
(***************************************************************************)
THEOREM RefusedIsUnbooked == Spec => []RefusedMeansUnbooked
  BY BookingsAreSafe, InvariantHolds, PTL

(***************************************************************************)
(* The balance and version of a 200 (grant.go:159) were committed together, *)
(* and no version ever had two balances.                                   *)
(***************************************************************************)
THEOREM ShownAccountsAreCommitted == Spec => []ShownIsCommitted
  BY BookingsAreSafe, InvariantHolds, PTL

(***************************************************************************)
(* INSUFFICIENT_BALANCE and IDEMPOTENCY_CONFLICT (grant.go:81, redeem.go:  *)
(* 77 and 128) are answered for a reason that was true.                    *)
(***************************************************************************)
THEOREM RefusalsAreJustified == Spec => []RefusalJustified
  BY BookingsAreSafe, InvariantHolds, PTL

(***************************************************************************)
(* OPTIMISTIC_LOCK_CONFLICT costs maxRetries bookings of other requests    *)
(* (grant.go:86-100), whatever maxRetries and the number of requests are.  *)
(***************************************************************************)
THEOREM ConflictsNeedCommits == Spec => []ConflictNeedsCommits
  BY BookingsAreSafe, InvariantHolds, PTL

(***************************************************************************)
(* The only circle of waits is that of two inserts of one key after a      *)
(* rollback, for any number of requests and connections: with retries,     *)
(* failures and victims the locks are taken in one order (grant.go:122-155) *)
(* and a wait for a connection (db.go:19) comes before all of them.        *)
(***************************************************************************)
THEOREM CirclesAreOfOneKey == Spec => []CirclesAreBroken
  BY BookingsAreSafe, InvariantHolds, PTL

(***************************************************************************)
(* When all connections are out (db.go:19), one of the transactions that   *)
(* have them waits for nobody or is about to be rolled back by InnoDB: the *)
(* queue for connections, in which every statement outside a transaction   *)
(* stands as well, goes on.                                                *)
(***************************************************************************)
LEMMA SomeTransactionIsFree ==
  ASSUME IInv, ~ ConnFree
  PROVE  \E r \in Requests :
           InTx(r) /\ (Granted(r) \/ \E q \in Requests : Deadlocked(q, r))
  <1> DEFINE T == {r \in Requests : InTx(r)}
  <1>1. T # {}
    <2>1. Cardinality({}) = 0 /\ 0 < MaxOpenConns
      BY FS_EmptySet, GrantRedeemAssumption
    <2> QED
      BY <2>1 DEF ConnFree
  <1>2. CASE \E r \in T : \A q \in T : ~ WaitsFor(r, q)
    <2>1. PICK r \in T : \A q \in T : ~ WaitsFor(r, q)
      BY <1>2
    <2>2. \A q \in Requests : WaitsFor(r, q) => q \in T
      BY DEF WaitsFor, Pends, Shares, IInv, Locks, InTx
    <2> QED
      BY <2>1, <2>2 DEF Granted
  <1>3. CASE \A r \in T : \E q \in T : WaitsFor(r, q)
    <2>1. CirclesAreBroken
      BY BookingsAreSafe
    <2> QED
      BY <1>1, <1>3, <2>1 DEF CirclesAreBroken
  <1> QED
    BY <1>2, <1>3

(***************************************************************************)
(* A booking disqualifies every other attempt on its account that has read *)
(* already: it will fail at UPDATE ... WHERE version = ? (grant.go:155).   *)
(* So the transactions that book on one account follow one another.        *)
(***************************************************************************)
THEOREM BookingsDoNotOverlap ==
  Spec => [][\A q, r \in Requests :
               /\ q # r /\ User(q) = User(r) /\ Loaded(q)
               /\ RowOf(r) \in ledger' \ ledger
               => expected[q] < account'[User(q)].version]_vars
  <1>1. IInv /\ [Next]_vars =>
          [\A q, r \in Requests :
             /\ q # r /\ User(q) = User(r) /\ Loaded(q)
             /\ RowOf(r) \in ledger' \ ledger
             => expected[q] < account'[User(q)].version]_vars
    <2> SUFFICES ASSUME IInv, [Next]_vars, NEW q \in Requests, NEW r \in Requests,
                        User(q) = User(r), Loaded(q), RowOf(r) \in ledger' \ ledger
                 PROVE  expected[q] < account'[User(q)].version
      OBVIOUS
    <2>1. PICK p \in Requests : pc[p] = "commit" /\ Publish(p)
      BY DbStep DEF dbVars, OpenAccount
    <2>2. User(p) = User(q)
      <3>1. RowOf(r) = RowOf(p)
        BY <2>1 DEF Publish
      <3> QED
        BY <3>1 DEF RowOf
    <2>3. account'[User(q)].version = Version(User(q)) + 1
      BY <2>1, <2>2, CommitFacts DEF IInv, TypeOK
    <2>4. PICK a \in past[User(q)] : a.version = expected[q]
      BY DEF IInv, Memory, MemoryOf
    <2>5. a.version <= Version(User(q)) /\ Version(User(q)) \in Nat
      BY <2>1, <2>2, <2>4, CommitFacts DEF IInv, History, Version, Account
    <2> QED
      BY <2>3, <2>4, <2>5 DEF IInv, TypeOK
  <1> QED
    BY <1>1, InvariantHolds, PTL DEF Spec

(***************************************************************************)
(* What a request has still to do: of this attempt, and of those that are  *)
(* left to it.                                                             *)
(***************************************************************************)
Rank(label) ==
  CASE label = "done"                     -> 0
    [] label \in {"replay", "invalidate"} -> 1
    [] label = "rollback"                 -> 2
    [] label = "commit"                   -> 3
    [] label = "update"                   -> 4
    [] label = "insert"                   -> 5
    [] label = "read"                     -> 6
    [] label = "begin"                    -> 7
    [] label = "lookup"                   -> 8
    [] label = "idle"                     -> 9

\* asking for the shared lock is a step of InsertTransaction too
Ahead(r) == Rank(pc[r]) + (IF "share" \in held[r] THEN 0 ELSE 1)

Left(r) == 10 * (MaxRetries - attempt[r]) + Ahead(r)

\* Each statement of a request, failed or not, brings it nearer to its end, and
\* no step of anybody else sets it back.
LEMMA StepsBringNearer ==
  ASSUME IInv, [Next]_vars, NEW r \in Requests
  PROVE  /\ Left(r) \in 0 .. 10 * MaxRetries + 10
         /\ Left(r)' <= Left(r)
         /\ Moves(r) => Left(r)' < Left(r)
  <1>1. /\ attempt[r] \in 0 .. MaxRetries /\ attempt'[r] \in 0 .. MaxRetries
        /\ pc[r] \in Labels /\ pc'[r] \in Labels /\ MaxRetries \in Nat
    BY TypeStep, GrantRedeemAssumption DEF IInv, TypeOK
  <1>2. Moves(r) => \/ attempt'[r] = attempt[r] /\ Ahead(r)' < Ahead(r)
                    \/ attempt'[r] = attempt[r] + 1 /\ pc[r] = "rollback"
    <2> USE DEF IInv, TypeOK, dbVars, restVars, txVars, Goto, Return, Abort, Retry,
                Forget
    <2>1. Accept(r) \/ Refuse(r) => /\ pc[r] = "idle" /\ pc'[r] \in {"lookup", "done"}
                                    /\ attempt'[r] = attempt[r] /\ held'[r] = held[r]
      BY DEF Accept, Refuse
    <2>2. FindTransactionByIdempotencyKey(r) =>
            /\ pc[r] = "lookup" /\ pc'[r] \in {"begin", "replay", "done"}
            /\ attempt'[r] = attempt[r] /\ held'[r] = held[r]
      BY DEF FindTransactionByIdempotencyKey
    <2>3. Replay(r) \/ InvalidateBalance(r) \/ InvalidateFails(r) =>
            /\ pc[r] \in {"replay", "invalidate"} /\ pc'[r] = "done"
            /\ attempt'[r] = attempt[r] /\ held'[r] = held[r]
      BY DEF Replay, InvalidateBalance, InvalidateFails
    <2>4. BeginTx(r) => /\ pc[r] = "begin" /\ pc'[r] = "read"
                        /\ attempt'[r] = attempt[r] /\ held'[r] = held[r]
      BY DEF BeginTx
    <2>5. GetAccount(r) => /\ pc[r] = "read" /\ pc'[r] \in {"insert", "rollback"}
                           /\ attempt'[r] = attempt[r] /\ held'[r] = held[r]
      BY DEF GetAccount
    <2>6. InsertTransaction(r) =>
            /\ pc[r] = "insert" /\ attempt'[r] = attempt[r]
            /\ \/ /\ pc'[r] = "insert"
                  /\ "share" \notin held[r] /\ "share" \in held'[r]
               \/ /\ pc'[r] \in {"update", "rollback"}
                  /\ "share" \in held[r] => "share" \in held'[r] \/ pc'[r] = "rollback"
      BY DEF InsertTransaction
    <2>7. UpdateBalance(r) => /\ pc[r] = "update" /\ pc'[r] \in {"commit", "rollback"}
                              /\ attempt'[r] = attempt[r]
                              /\ "share" \in held[r] => "share" \in held'[r]
      BY DEF UpdateBalance
    <2>8. Commit(r) \/ CommitFails(r) =>
            /\ pc[r] = "commit" /\ pc'[r] \in {"invalidate", "done"}
            /\ attempt'[r] = attempt[r]
      BY DEF Commit, CommitFails
    <2>9. Rollback(r) => /\ pc[r] = "rollback"
                         /\ \/ attempt'[r] = attempt[r] /\ pc'[r] = "done"
                            \/ attempt'[r] = attempt[r] + 1
      BY DEF Rollback
    <2>10. StatementFails(r) =>
             /\ attempt'[r] = attempt[r] /\ held'[r] = held[r]
             /\ \/ pc[r] \in {"lookup", "replay", "begin"} /\ pc'[r] = "done"
                \/ pc[r] \in {"read", "insert", "update"} /\ pc'[r] = "rollback"
      BY DEF StatementFails
    <2> DEFINE Goal == \/ attempt'[r] = attempt[r] /\ Ahead(r)' < Ahead(r)
                       \/ attempt'[r] = attempt[r] + 1 /\ pc[r] = "rollback"
    <2>11. Accept(r) \/ Refuse(r) \/ FindTransactionByIdempotencyKey(r) => Goal
      BY <2>1, <2>2 DEF Ahead, Rank
    <2>12. Replay(r) \/ InvalidateBalance(r) \/ InvalidateFails(r) => Goal
      BY <2>3 DEF Ahead, Rank
    <2>13. BeginTx(r) \/ GetAccount(r) \/ StatementFails(r) => Goal
      BY <2>4, <2>5, <2>10 DEF Ahead, Rank
    <2>14. InsertTransaction(r) => Goal
      BY <2>6 DEF Ahead, Rank
    <2>15. UpdateBalance(r) => Goal
      BY <2>7 DEF Ahead, Rank
    <2>16. Commit(r) \/ CommitFails(r) \/ Rollback(r) => Goal
      BY <2>8, <2>9 DEF Ahead, Rank
    <2> QED
      BY <2>11, <2>12, <2>13, <2>14, <2>15, <2>16 DEF Moves, Step
  <1>3. ~ Moves(r) => attempt'[r] = attempt[r] /\ Ahead(r)' <= Ahead(r)
    <2>1. ASSUME NEW p \in Requests, Moves(p), p # r, Same(r)
          PROVE  attempt'[r] = attempt[r] /\ Ahead(r)' <= Ahead(r)
      BY <1>1, <2>1 DEF Same, Ahead, Rank, Labels
    <2>2. ASSUME NEW why, ProcessExit(why)
          PROVE  attempt'[r] = attempt[r] /\ Ahead(r)' <= Ahead(r)
      <3>1. /\ attempt'[r] = attempt[r] /\ held'[r] = {}
            /\ pc'[r] = IF r \in InFlight THEN "done" ELSE pc[r]
        BY <2>2 DEF ProcessExit
      <3>2. "share" \in held[r] => Rank(pc[r]) >= 2
        BY DEF IInv, Locks, Rank
      <3> QED
        BY <1>1, <3>1, <3>2 DEF InFlight, Ahead, Rank, Labels, IInv, Locks
    <2>3. ASSUME \/ \E u \in Users : OpenAccount(u)
                 \/ UNCHANGED vars
          PROVE  attempt'[r] = attempt[r] /\ Ahead(r)' <= Ahead(r)
      BY <1>1, <2>3 DEF OpenAccount, txVars, vars, Ahead, Rank, Labels
    <2> QED
      BY <2>1, <2>2, <2>3, OneMoves DEF IInv
  <1>4. /\ Ahead(r) \in 0 .. 10 /\ Ahead(r)' \in 0 .. 10
        /\ pc[r] = "rollback" => Ahead(r) >= 2
    BY <1>1 DEF Ahead, Rank, Labels
  <1> QED
    BY <1>1, <1>2, <1>3, <1>4 DEF Left

(***************************************************************************)
(* A request comes to its end in 10 * maxRetries + 10 statements at most:  *)
(* each of them brings it nearer, and nothing any other request, a sign-up *)
(* or a failure does sets it back (the loop of grant.go:86-100).           *)
(***************************************************************************)
THEOREM RequestsTakeBoundedSteps ==
  Spec => [][\A r \in Requests : /\ Left(r) \in 0 .. 10 * MaxRetries + 10
                                 /\ Left(r)' <= Left(r)
                                 /\ Moves(r) => Left(r)' < Left(r)]_vars
  <1>1. IInv /\ [Next]_vars =>
          [\A r \in Requests : /\ Left(r) \in 0 .. 10 * MaxRetries + 10
                               /\ Left(r)' <= Left(r)
                               /\ Moves(r) => Left(r)' < Left(r)]_vars
    BY StepsBringNearer
  <1> QED
    BY <1>1, InvariantHolds, PTL DEF Spec

\* A step is a step of MileageLedger or changes neither table.
LEMMA StepImplementsLedger == IInv /\ [Next]_vars => [Ledger!Next]_<<account, ledger>>
  <1> SUFFICES ASSUME IInv, [Next]_vars, ~ UNCHANGED <<account, ledger>>
               PROVE  Ledger!Next
    OBVIOUS
  <1>1. ASSUME NEW u \in Users, OpenAccount(u) PROVE Ledger!Next
    BY <1>1 DEF OpenAccount, Ledger!Next, Ledger!Open, NewAccount, Ledger!NewAccount
  <1>2. CASE ~ \E u \in Users : OpenAccount(u)
    <2>1. PICK r \in Requests : pc[r] = "commit" /\ Publish(r)
      BY <1>2, DbStep DEF dbVars
    <2> DEFINE row == RowOf(r)
    <2>2. /\ row.id = <<r, attempt[r]>> /\ row.user = User(r)
          /\ row.type = input[r].type /\ row.amount = input[r].amount
          /\ row \in Row(TxIds) /\ ledger' = ledger \cup {row}
          /\ \A old \in ledger : ~ SameKey(old, row) /\ old.id[1] # r
      BY <2>1, CommitFacts DEF RowOf
    <2> HIDE DEF row
    <2>3. row \in Ledger!Row(Requests \X (0 .. MaxRetries - 1))
      <3>1. attempt[r] \in 0 .. MaxRetries - 1
        BY <2>1, GrantRedeemAssumption DEF IInv, TypeOK, Control
      <3>2. row.id \in Requests \X (0 .. MaxRetries - 1)
        BY <2>2, <3>1
      <3> QED
        BY <2>2, <3>2
           DEF Row, Ledger!Row, Types, Ledger!Types, Amount, Ledger!Amount
    <2>4. Ledger!Book(row)
      <3>1. account[row.user] # NoAccount
        BY <2>1, <2>2, CommitFacts, DomainAssumption
      <3>2. \A old \in ledger : ~ Ledger!SameKey(old, row) /\ old.id # row.id
        BY <2>2 DEF SameKey, Ledger!SameKey
      <3>3. Ledger!Covers(row.type, account[row.user], row.amount)
        BY <2>1, <2>2, CommitFacts DEF Covers, Ledger!Covers
      <3>4. acct[r] = Ledger!Apply(row.type, account[row.user], row.amount)
        BY <2>1, <2>2, CommitFacts
           DEF Apply, Ledger!Apply, Grant, Ledger!Grant, Redeem,
               Ledger!Redeem, AddInt64, Ledger!AddInt64
      <3>5. /\ account' = [account EXCEPT ![row.user] = acct[r]]
            /\ ledger' = ledger \cup {row}
        BY <2>1, <2>2, CommitFacts
      <3> QED
        BY <3>1, <3>2, <3>3, <3>4, <3>5 DEF Ledger!Book
    <2> QED
      BY <2>3, <2>4 DEF Ledger!Next
  <1> QED
    BY <1>1, <1>2

(***************************************************************************)
(* Refinement: every step of the service is a booking of MileageLedger or  *)
(* changes neither table.  The booking is the commit (tx.go:39).           *)
(***************************************************************************)
THEOREM ServiceImplementsLedger == Spec => ImplementsLedger
  <1>1. Init => Ledger!Init
    BY DEF Init, Ledger!Init
  <1> QED
    BY <1>1, StepImplementsLedger, InvariantHolds, PTL DEF Spec, ImplementsLedger, Ledger!Spec

(***************************************************************************)
(* What was proved of MileageLedger, in terms of the tables; it holds of   *)
(* whatever implements the ledger, the compositions included.              *)
(***************************************************************************)
LEMMA LedgerTheoremsApply ==
  ImplementsLedger => []VersionCountsRows /\ []BalanceIsNet /\ NoOverdraft
  <1>1. Ledger!Init => LP!Init
    BY DEF Ledger!Init, LP!Init
  <1>2. [Ledger!Next]_<<account, ledger>> => [LP!Next]_<<account, ledger>>
    BY DEF Ledger!Next, LP!Next, Ledger!Open, LP!Open, Ledger!Book, LP!Book,
           Ledger!NewAccount, LP!NewAccount, Ledger!SameKey, LP!SameKey,
           Ledger!Covers, LP!Covers, Ledger!Apply, LP!Apply, Ledger!Grant,
           LP!Grant, Ledger!Redeem, LP!Redeem, Ledger!AddInt64, LP!AddInt64,
           Ledger!Row, LP!Row, Ledger!Types, LP!Types, Ledger!Amount, LP!Amount
  <1>3. LP!Spec => []LP!BooksBalance /\ LP!NoOverdraft
    BY LP!LedgerBalances, LP!LedgerIsCovered, DomainAssumption
       DEF Account, LP!Account, Int64, LP!Int64
  <1>4. LP!BooksBalance => VersionCountsRows
    BY DEF LP!BooksBalance, VersionCountsRows, LP!RowsOf, RowsOf, LP!Cardinality,
           Cardinality
  <1>5. LP!BooksBalance => BalanceIsNet
    BY DEF LP!BooksBalance, BalanceIsNet, LP!Net, LP!RowsOf, RowsOf,
           MapThenSumSet, LP!MapThenSumSet, MapThenFoldSet, LP!MapThenFoldSet,
           Signed, LP!Signed
  <1> DEFINE Covered == \A row \in ledger' \ ledger :
                          row.type = "redeem" => account'[row.user].balance >= 0
  <1>6. [Covered]_<<account, ledger>> => [Covered]_vars
    BY DEF vars
  <1> HIDE DEF Covered
  <1> QED
    BY <1>1, <1>2, <1>3, <1>4, <1>5, <1>6, PTL
       DEF ImplementsLedger, Ledger!Spec, LP!Spec, LP!NoOverdraft, NoOverdraft, Covered

(***************************************************************************)
(* An account has as many versions as rows: no booking is lost, none is    *)
(* half done (grant.go:147 and 155 commit together or not at all).         *)
(***************************************************************************)
THEOREM VersionsCountRows == Spec => []VersionCountsRows
  BY LedgerTheoremsApply, ServiceImplementsLedger, PTL

(***************************************************************************)
(* The balance is the sum of the rows (grant.go:147-155): an amount that   *)
(* went into the table went into the balance, once, through any number of  *)
(* concurrent bookings, retries, failures and restarts.                    *)
(***************************************************************************)
THEOREM BalancesAreNet == Spec => []BalanceIsNet
  BY LedgerTheoremsApply, ServiceImplementsLedger, PTL

(***************************************************************************)
(* No redemption overdraws the account: the check of account.go:40 was     *)
(* made on a snapshot, but on the version that the commit replaces.        *)
(***************************************************************************)
THEOREM RedemptionsAreCovered == Spec => NoOverdraft
  BY LedgerTheoremsApply, ServiceImplementsLedger, PTL
===============================================================================
