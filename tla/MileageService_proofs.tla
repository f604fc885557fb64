-------------------------- MODULE MileageService_proofs --------------------------
(***************************************************************************)
(* Proofs about MileageService.  A step of the service is a step of        *)
(* GrantRedeem or leaves everything but the cache and the fault counter    *)
(* alone, so IInv carries over; to it comes what the cache may hold.       *)
(***************************************************************************)
EXTENDS MileageService, GrantRedeem_proofs

\* what readers have in memory and Redis holds was committed
Committed ==
  /\ BalancesWereCommitted
  /\ \A b \in Readers : at[b] = "set" => seen[b] \in past[asker[b]]

(***************************************************************************)
(* The inductive invariant of the composition.                             *)
(***************************************************************************)
ServiceInv == IInv /\ ServiceTypeOK /\ Committed /\ StaleOnlyUntilInvalidated

\* A step of the service is one of GrantRedeem or one that leaves its database alone.
LEMMA WriterOrReader ==
  ASSUME [ServiceNext]_serviceVars
  PROVE  \/ [Next]_vars /\ UNCHANGED <<asker, seen, late>>
         \/ UNCHANGED writerVars /\ ReaderNext
  <1>1. CASE Write
    BY <1>1 DEF Write, Next, Failure, readerVars
  <1>2. CASE ReaderNext
    BY <1>2 DEF ReaderNext, Read, GetBalance, LoadAccount, SetBalance,
         GetFails, LoadFails, SetFails, CacheExpire, writerVars
  <1>3. CASE ServiceExit
    BY <1>3 DEF ServiceExit, Next, Failure
  <1>4. CASE ServiceFinished \/ UNCHANGED serviceVars
    BY <1>4 DEF ServiceFinished, Finished, serviceVars, readerVars
  <1> QED
    BY <1>1, <1>2, <1>3, <1>4 DEF ServiceNext

\* The invariant of the composition holds initially.
LEMMA ServiceInitEstablishesInvariant == ServiceInit => ServiceInv
  <1> SUFFICES ASSUME ServiceInit PROVE ServiceInv
    OBVIOUS
  <1>1. IInv
    BY InitEstablishesInvariant DEF ServiceInit
  <1>2. ServiceTypeOK
    BY DEF ServiceInit, ServiceTypeOK, Places
  <1>3. Committed /\ StaleOnlyUntilInvalidated
    BY DEF ServiceInit, Init, Committed, BalancesWereCommitted,
           StaleOnlyUntilInvalidated
  <1> QED
    BY <1>1, <1>2, <1>3 DEF ServiceInv

\* A reader's step keeps IInv, which mentions the cache only in TypeOK.
LEMMA ReaderKeepsIInv ==
  ASSUME ServiceInv, ReaderNext, UNCHANGED writerVars
  PROVE  IInv'
  <1>1. TypeOK'
    <2>1. cache' \in [Users -> Account \cup {NoEntry}]
      <3>1. CASE UNCHANGED cache
        BY <3>1 DEF ServiceInv, IInv, TypeOK
      <3>2. ASSUME NEW b \in Readers, SetBalance(b)
            PROVE  cache' \in [Users -> Account \cup {NoEntry}]
        <4>1. asker[b] \in Users /\ seen[b] \in Account
          BY <3>2 DEF SetBalance, ServiceInv, ServiceTypeOK, Committed, IInv, TypeOK
        <4> QED
          BY <3>2, <4>1 DEF SetBalance, ServiceInv, IInv, TypeOK
      <3>3. ASSUME NEW u \in Users, CacheExpire(u)
            PROVE  cache' \in [Users -> Account \cup {NoEntry}]
        BY <3>3 DEF CacheExpire, ServiceInv, IInv, TypeOK
      <3> QED
        BY <3>1, <3>2, <3>3 DEF ReaderNext, Read, GetBalance, LoadAccount,
             GetFails, LoadFails, SetFails
    <2>2. faults' \in 0 .. MaxFaults
      BY GrantRedeemAssumption
         DEF ReaderNext, Read, GetBalance, LoadAccount, SetBalance, GetFails,
             LoadFails, SetFails, CacheExpire, Fault, ServiceInv, IInv, TypeOK
    <2> QED
      BY <2>1, <2>2 DEF writerVars, ServiceInv, IInv, TypeOK
  <1>2. (History /\ Rows /\ UniqueKeys /\ Locks /\ Pending)'
    BY DEF ServiceInv, IInv, writerVars, History, Version, Rows, UniqueKeys, Locks,
           Pending, User
  <1>3. (Memory /\ Control)'
    BY DEF ServiceInv, IInv, writerVars, Memory, MemoryOf, Loaded, User, Version,
           Control
  <1>4. (Answers /\ Headway /\ Grounds)'
    BY DEF ServiceInv, IInv, writerVars, Answers, AnswerOf, Booked, Answered,
           Headway, HeadwayOf, Loaded, User, Version, Grounds, GroundsOf
  <1> QED
    BY <1>1, <1>2, <1>3, <1>4 DEF IInv

\* Every step keeps the types of the readers.
LEMMA ServiceTypeStep == ServiceInv /\ [ServiceNext]_serviceVars => ServiceTypeOK'
  <1> SUFFICES ASSUME ServiceInv, [ServiceNext]_serviceVars PROVE ServiceTypeOK'
    OBVIOUS
  <1> USE DEF ServiceInv, ServiceTypeOK, Places, MoveTo
  <1>1. CASE Write \/ ServiceFinished \/ UNCHANGED serviceVars
    BY <1>1 DEF Write, ServiceFinished, readerVars, serviceVars
  <1>2. ASSUME NEW b \in Readers, GetBalance(b) PROVE ServiceTypeOK'
    BY <1>2 DEF GetBalance, IInv, TypeOK
  <1>3. ASSUME NEW b \in Readers, LoadAccount(b) PROVE ServiceTypeOK'
    BY <1>3 DEF LoadAccount, IInv, TypeOK
  <1>4. ASSUME NEW b \in Readers, SetBalance(b) PROVE ServiceTypeOK'
    BY <1>4 DEF SetBalance
  <1>5. ASSUME NEW b \in Readers, GetFails(b) \/ LoadFails(b) \/ SetFails(b)
        PROVE  ServiceTypeOK'
    BY <1>5 DEF GetFails, LoadFails, SetFails
  <1>6. ASSUME NEW u \in Users, CacheExpire(u) PROVE ServiceTypeOK'
    BY <1>6 DEF CacheExpire, readerVars
  <1>7. CASE ServiceExit
    BY <1>7 DEF ServiceExit
  <1> QED
    BY <1>1, <1>2, <1>3, <1>4, <1>5, <1>6, <1>7 DEF ServiceNext, ReaderNext, Read

\* GET, SET and DEL move only committed balances.
LEMMA CommittedStep == ServiceInv /\ [ServiceNext]_serviceVars => Committed'
  <1> SUFFICES ASSUME ServiceInv, [ServiceNext]_serviceVars PROVE Committed'
    OBVIOUS
  <1> USE DEF ServiceInv, ServiceTypeOK, Committed, BalancesWereCommitted, MoveTo
  <1>0. \A u \in Users : past[u] \subseteq past'[u]
    BY WriterOrReader, DbGrows DEF writerVars
  <1>1. CASE Write \/ ServiceFinished \/ UNCHANGED serviceVars
    <2>1. /\ UNCHANGED <<at, asker, seen>>
          /\ \A u \in Users : cache'[u] \in {NoEntry, cache[u]}
      BY <1>1 DEF Write, ServiceFinished, Finished, readerVars, serviceVars, vars,
           Step, Accept, Refuse, FindTransactionByIdempotencyKey, Replay, BeginTx,
           GetAccount, InsertTransaction, UpdateBalance, Commit, Rollback,
           InvalidateBalance, StatementFails, CommitFails, InvalidateFails,
           OpenAccount, IInv, TypeOK
    <2> QED
      BY <1>0, <2>1
  <1>2. ASSUME NEW b \in Readers, GetBalance(b) PROVE Committed'
    BY <1>0, <1>2 DEF GetBalance
  <1>3. ASSUME NEW b \in Readers, LoadAccount(b) PROVE Committed'
    BY <1>0, <1>3 DEF LoadAccount, IInv, History
  <1>4. ASSUME NEW b \in Readers, SetBalance(b) PROVE Committed'
    BY <1>0, <1>4 DEF SetBalance, IInv, TypeOK
  <1>5. ASSUME NEW b \in Readers, GetFails(b) \/ LoadFails(b) \/ SetFails(b)
        PROVE  Committed'
    BY <1>0, <1>5 DEF GetFails, LoadFails, SetFails
  <1>6. ASSUME NEW u \in Users, CacheExpire(u) PROVE Committed'
    BY <1>0, <1>6 DEF CacheExpire, readerVars, IInv, TypeOK
  <1>7. CASE ServiceExit
    BY <1>0, <1>7 DEF ServiceExit, Crash, Shutdown, ProcessExit
  <1> QED
    BY <1>1, <1>2, <1>3, <1>4, <1>5, <1>6, <1>7 DEF ServiceNext, ReaderNext, Read

\* Without failures a stale entry has a late fill or a DEL on its way.
LEMMA StaleStep ==
  ServiceInv /\ [ServiceNext]_serviceVars => StaleOnlyUntilInvalidated'
  <1> SUFFICES ASSUME ServiceInv, [ServiceNext]_serviceVars,
                      NEW u \in Users, faults' = 0, ~ late'[u],
                      cache'[u] \notin {NoEntry, account'[u]}
               PROVE  \E r \in Requests : User(r)' = u /\ pc'[r] = "invalidate"
    BY DEF StaleOnlyUntilInvalidated
  <1>0. faults = 0 /\ ~ Fault
    BY GrantRedeemAssumption
       DEF ServiceInv, IInv, TypeOK, Fault, ServiceNext, Write, Step, ReaderNext,
           Read, GetBalance, LoadAccount, SetBalance, GetFails, LoadFails, SetFails,
           CacheExpire, ServiceExit, Crash, Shutdown, ServiceFinished, Finished,
           serviceVars, vars, restVars, OpenAccount, Accept, Refuse,
           FindTransactionByIdempotencyKey, Replay, BeginTx, GetAccount,
           InsertTransaction, UpdateBalance, Commit, Rollback, InvalidateBalance,
           StatementFails, CommitFails, InvalidateFails
  <1>1. CASE Write /\ ~ \E v \in Users : OpenAccount(v)
    <2>1. PICK r \in Requests : Step(r)
      BY <1>0, <1>1 DEF Write, StatementFails, CommitFails, InvalidateFails
    <2>2. input' = input /\ late' = late
      BY <1>1, InputStep DEF Write, Next, Failure
    <2>3. CASE Commit(r) /\ User(r) = u
      BY <2>2, <2>3 DEF Commit, Goto, ServiceInv, IInv, TypeOK, User
    <2>4. CASE Commit(r) /\ User(r) # u
      <3>1. account'[u] = account[u] /\ cache' = cache
        BY <2>4 DEF Commit, Publish, ServiceInv, IInv, TypeOK
      <3>2. PICK q \in Requests : User(q) = u /\ pc[q] = "invalidate"
        BY <1>0, <2>2, <3>1 DEF ServiceInv, StaleOnlyUntilInvalidated
      <3> QED
        BY <2>2, <2>4, <3>2 DEF Commit, Goto, User, ServiceInv, IInv, TypeOK
    <2>5. CASE InvalidateBalance(r)
      <3>1. User(r) # u /\ cache'[u] = cache[u] /\ account' = account
        BY <2>5 DEF InvalidateBalance, dbVars, ServiceInv, IInv, TypeOK
      <3>2. PICK q \in Requests : User(q) = u /\ pc[q] = "invalidate"
        BY <1>0, <2>2, <3>1 DEF ServiceInv, StaleOnlyUntilInvalidated
      <3> QED
        BY <2>2, <2>5, <3>1, <3>2
           DEF InvalidateBalance, Return, Goto, User, ServiceInv, IInv, TypeOK
    <2>6. CASE ~ Commit(r) /\ ~ InvalidateBalance(r)
      <3>1. account' = account /\ cache' = cache
        BY <2>1, <2>6 DEF Step, Accept, Refuse, FindTransactionByIdempotencyKey,
             Replay, BeginTx, GetAccount, InsertTransaction, UpdateBalance,
             Rollback, dbVars
      <3>2. PICK q \in Requests : User(q) = u /\ pc[q] = "invalidate"
        BY <1>0, <2>2, <3>1 DEF ServiceInv, StaleOnlyUntilInvalidated
      <3>3. pc'[q] = "invalidate"
        BY <2>1, <2>6, <3>2
           DEF Step, Accept, Refuse, FindTransactionByIdempotencyKey, Replay,
               BeginTx, GetAccount, InsertTransaction, UpdateBalance, Rollback,
               Goto, Return, Abort, Retry, ServiceInv, IInv, TypeOK
      <3> QED
        BY <2>2, <3>2, <3>3 DEF User
    <2> QED
      BY <2>3, <2>4, <2>5, <2>6
  <1>5. ASSUME NEW v \in Users, OpenAccount(v), late' = late
        PROVE  \E r \in Requests : User(r)' = u /\ pc'[r] = "invalidate"
    <2>1. u # v
      BY <1>5, OpenFacts
         DEF ServiceInv, Committed, BalancesWereCommitted, IInv, History
    <2>2. UNCHANGED <<cache, pc, input>> /\ account'[u] = account[u]
      BY <1>5, <2>1, OpenFacts DEF ServiceInv, IInv
    <2> QED
      BY <1>0, <1>5, <2>2 DEF User, ServiceInv, StaleOnlyUntilInvalidated
  <1>2. ASSUME NEW b \in Readers, SetBalance(b)
        PROVE  \E r \in Requests : User(r)' = u /\ pc'[r] = "invalidate"
    BY <1>0, <1>2 DEF SetBalance, writerVars, User, ServiceInv, ServiceTypeOK,
         StaleOnlyUntilInvalidated, IInv, TypeOK
  <1>3. CASE \/ \E b \in Readers : GetBalance(b) \/ LoadAccount(b)
             \/ ServiceFinished \/ UNCHANGED serviceVars
    BY <1>0, <1>3 DEF GetBalance, LoadAccount, writerVars, ServiceFinished, Finished,
         serviceVars, vars, User, ServiceInv, StaleOnlyUntilInvalidated
  <1>4. ASSUME NEW v \in Users, CacheExpire(v)
        PROVE  \E r \in Requests : User(r)' = u /\ pc'[r] = "invalidate"
    BY <1>0, <1>4 DEF CacheExpire, writerVars, User, ServiceInv,
         StaleOnlyUntilInvalidated, IInv, TypeOK
  <1> QED
    BY <1>0, <1>1, <1>2, <1>3, <1>4, <1>5
       DEF Write, ServiceNext, ReaderNext, Read, GetFails, LoadFails, SetFails, ServiceExit,
           Crash, Shutdown

(***************************************************************************)
(* ServiceInv is an invariant of the composition.                          *)
(***************************************************************************)
THEOREM ServiceInvariantHolds == ServiceSpec => []ServiceInv
  <1>1. ServiceInv /\ [ServiceNext]_serviceVars => IInv'
    BY WriterOrReader, NextKeepsIInv, ReaderKeepsIInv DEF ServiceInv
  <1>2. ServiceInv /\ [ServiceNext]_serviceVars => ServiceInv'
    BY <1>1, ServiceTypeStep, CommittedStep, StaleStep DEF ServiceInv
  <1> QED
    BY <1>2, ServiceInitEstablishesInvariant, PTL DEF ServiceSpec

(***************************************************************************)
(* The types of the readers, and so that only what an account can be is    *)
(* answered and cached (balance.go, cache.go).                             *)
(***************************************************************************)
THEOREM ServiceTypeCorrect == ServiceSpec => []ServiceTypeOK
  <1>1. ServiceInv => ServiceTypeOK
    BY DEF ServiceInv
  <1> QED
    BY <1>1, ServiceInvariantHolds, PTL

(***************************************************************************)
(* What GET /v1/mileage/balance shows and Redis holds was committed, for   *)
(* any interleaving of readers, writers, expiry and failures.              *)
(***************************************************************************)
THEOREM BalancesAreCommitted == ServiceSpec => []BalancesWereCommitted
  <1>1. ServiceInv => BalancesWereCommitted
    BY DEF ServiceInv, Committed
  <1> QED
    BY <1>1, ServiceInvariantHolds, PTL

(***************************************************************************)
(* Without failures only a late fill (balance.go:61) leaves a stale entry  *)
(* behind when every booking has done its DEL (grant.go:104).              *)
(***************************************************************************)
THEOREM StalenessIsExplained == ServiceSpec => []StaleOnlyUntilInvalidated
  <1>1. ServiceInv => StaleOnlyUntilInvalidated
    BY DEF ServiceInv
  <1> QED
    BY <1>1, ServiceInvariantHolds, PTL

(***************************************************************************)
(* With readers and the cache the service still books like MileageLedger.  *)
(***************************************************************************)
THEOREM ComposedServiceImplementsLedger == ServiceSpec => ImplementsLedger
  <1>1. ServiceInit => Ledger!Init
    BY DEF ServiceInit, Init, Ledger!Init
  <1>2. ServiceInv /\ [ServiceNext]_serviceVars
          => [Ledger!Next]_<<account, ledger>>
    BY WriterOrReader, StepImplementsLedger DEF ServiceInv, writerVars
  <1> QED
    BY <1>1, <1>2, ServiceInvariantHolds, PTL
       DEF ServiceSpec, ImplementsLedger, Ledger!Spec
===============================================================================
