-------------------------- MODULE MileageSystem_proofs --------------------------
(***************************************************************************)
(* Proofs about MileageSystem.  A step of the system is a step of          *)
(* MileageService and, at the same time, a step of Signup, each possibly a *)
(* stuttering one: the invariants of both parts hold in the composition,   *)
(* and together they give what neither part can say alone.                 *)
(***************************************************************************)
EXTENDS MileageSystem, MileageService_proofs

SP == INSTANCE Signup_proofs WITH
        Signups <- Users, accounts <- Members, pc <- stage, faults <- mishaps

\* To the requests and readers a sign-up is the opening of an account, or nothing.
LEMMA SystemStepIsServiceStep ==
  ASSUME [SystemNext]_systemVars
  PROVE  [ServiceNext]_serviceVars
  <1>1. CASE \E r \in S!People : Register(r) \/ RegisterFails(r)
    BY <1>1 DEF Register, RegisterFails, NoAccountOpens, AccountOpens, othersVars,
         ServiceNext, Write, serviceVars, vars, readerVars
  <1>2. CASE \E r \in Requests : Serve(r) \/ ServeFails(r)
    BY <1>2 DEF Serve, ServeFails, ServiceNext, Write
  <1>3. CASE \E b \in Readers : ServeRead(b) \/ ServeReadFails(b)
    BY <1>3 DEF ServeRead, ServeReadFails, ServiceNext, ReaderNext
  <1>4. CASE \E u \in Users : Expire(u)
    BY <1>4 DEF Expire, ServiceNext, ReaderNext
  <1>5. CASE SystemExit
    BY <1>5 DEF SystemExit, ServiceNext
  <1>6. CASE SystemFinished \/ UNCHANGED systemVars
    BY <1>6 DEF SystemFinished, systemVars
  <1> QED
    BY <1>1, <1>2, <1>3, <1>4, <1>5, <1>6 DEF SystemNext

(***************************************************************************)
(* The system implements MileageService: signing up, tokens and the wait   *)
(* for one add no behaviour to the requests.                               *)
(***************************************************************************)
THEOREM SystemImplementsService == SystemSpec => ServiceSpec
  <1>1. SystemInit => ServiceInit
    BY DEF SystemInit
  <1> QED
    BY <1>1, SystemStepIsServiceStep, PTL DEF SystemSpec, ServiceSpec

(***************************************************************************)
(* The system books like the ledger: its books balance and nobody          *)
(* overdraws, with sign-ups, readers and the end of the process in between. *)
(***************************************************************************)
THEOREM SystemImplementsLedger == SystemSpec => ImplementsLedger
  BY SystemImplementsService, ComposedServiceImplementsLedger, PTL

(***************************************************************************)
(* So the books of the system balance: a version counts the rows of its    *)
(* account, a balance is their sum, and a redemption is covered by it      *)
(* (grant.go:123-149, redeem.go).                                          *)
(***************************************************************************)
THEOREM SystemBooksBalance ==
  SystemSpec => []VersionCountsRows /\ []BalanceIsNet /\ NoOverdraft
  BY SystemImplementsLedger, LedgerTheoremsApply, PTL

(***************************************************************************)
(* What grant.go, redeem.go and balance.go promise in any one state they   *)
(* promise in the system: rows, answers and the cache.                     *)
(***************************************************************************)
THEOREM SystemIsSafe ==
  SystemSpec => [](/\ TypeOK /\ UniqueKeys /\ OkMeansBooked /\ RefusedMeansUnbooked
                   /\ ShownIsCommitted /\ RefusalJustified /\ ConflictNeedsCommits
                   /\ CirclesAreBroken
                   /\ ServiceTypeOK /\ BalancesWereCommitted
                   /\ StaleOnlyUntilInvalidated)
  <1>1. ServiceInv => /\ IInv /\ ServiceTypeOK /\ BalancesWereCommitted
                      /\ StaleOnlyUntilInvalidated
    BY DEF ServiceInv, Committed
  <1> QED
    BY <1>1, BookingsAreSafe, SystemImplementsService, ServiceInvariantHolds, PTL

\* Requests and readers open no accounts and close none.
LEMMA OthersKeepMembers ==
  ASSUME ServiceInv,
         \/ \E r \in Requests : Serve(r) \/ ServeFails(r)
         \/ \E b \in Readers : ServeRead(b) \/ ServeReadFails(b)
         \/ \E u \in Users : Expire(u)
         \/ SystemFinished
         \/ UNCHANGED systemVars
  PROVE  UNCHANGED S!vars
  <1>1. UNCHANGED signupVars
    BY DEF Serve, ServeFails, ServeRead, ServeReadFails, Expire, SystemFinished,
           systemVars
  <1>2. Members' = Members
    <2>1. ASSUME NEW r \in Requests, Commit(r) \/ CommitFails(r),
                 pc[r] = "commit", Publish(r)
          PROVE  Members' = Members
      <3>1. \A u \in Users : account'[u] = NoAccount <=> account[u] = NoAccount
        BY <2>1, CommitFacts, DomainAssumption DEF ServiceInv, IInv, TypeOK
      <3> QED
        BY <3>1 DEF Members
    <2>2. CASE UNCHANGED account
      BY <2>2 DEF Members
    <2>3. ASSUME NEW r \in Requests, Serve(r) \/ ServeFails(r), ~ UNCHANGED account
          PROVE  Members' = Members
      <3>1. (Commit(r) \/ CommitFails(r)) /\ pc[r] = "commit" /\ Publish(r)
        BY <2>3 DEF Serve, ServeFails, Step, Accept, Refuse,
             FindTransactionByIdempotencyKey, Replay, BeginTx, GetAccount,
             InsertTransaction, UpdateBalance, Commit, Rollback, InvalidateBalance,
             StatementFails, CommitFails, InvalidateFails, dbVars
      <3> QED
        BY <2>1, <3>1
    <2>4. \/ \E r \in Requests : Serve(r) \/ ServeFails(r)
          \/ UNCHANGED account
      BY DEF ServeRead, ServeReadFails, Read, GetBalance, LoadAccount, SetBalance,
             GetFails, LoadFails, SetFails, Expire, CacheExpire, writerVars,
             SystemFinished, systemVars, serviceVars, vars
    <2> QED
      BY <2>2, <2>3, <2>4
  <1> QED
    BY <1>1, <1>2 DEF signupVars, S!vars

\* To a sign-up the others' steps are nothing; the end of the process is its end.
LEMMA SystemStepIsSignupStep ==
  ASSUME ServiceInv, [SystemNext]_systemVars
  PROVE  [S!Next]_S!vars
  <1>1. CASE \E r \in S!People : Register(r) \/ RegisterFails(r)
    BY <1>1 DEF Register, RegisterFails, S!Next, S!Work
  <1>2. CASE SystemExit
    BY <1>2 DEF SystemExit, S!Next
  <1>3. CASE \/ \E r \in Requests : Serve(r) \/ ServeFails(r)
             \/ \E b \in Readers : ServeRead(b) \/ ServeReadFails(b)
             \/ \E u \in Users : Expire(u)
             \/ SystemFinished
             \/ UNCHANGED systemVars
    BY <1>3, OthersKeepMembers
  <1> QED
    BY <1>1, <1>2, <1>3 DEF SystemNext

(***************************************************************************)
(* The system implements Signup: what auth.go's part of it does is not     *)
(* touched by the requests, the cache or their failures.                   *)
(***************************************************************************)
THEOREM SystemImplementsSignup == SystemSpec => S!Spec
  <1>1. SystemInit => S!Init
    BY DEF SystemInit
  <1>2. SystemSpec => []ServiceInv
    BY SystemImplementsService, ServiceInvariantHolds
  <1> QED
    BY <1>1, <1>2, SystemStepIsSignupStep, PTL DEF SystemSpec, S!Spec

\* What is proved of Signup is proved under the names of SP.
LEMMA SystemImplementsProvedSignup == SystemSpec => SP!Spec
  <1>1. S!Init => SP!Init
    BY DEF S!Init, SP!Init, S!People, SP!People
  <1>2. [S!Next]_S!vars => [SP!Next]_SP!vars
    BY
       DEF S!Next, SP!Next, S!Work, SP!Work, S!Refuse, SP!Refuse, S!Accept,
           SP!Accept, S!FindFails, SP!FindFails, S!FindByEmail,
           SP!FindByEmail, S!Create, SP!Create, S!CreateAccount,
           SP!CreateAccount, S!CreateFails, SP!CreateFails,
           S!CreateAccountFails, SP!CreateAccountFails, S!Login,
           SP!Login, S!Exit, SP!Exit, S!Finished, SP!Finished,
           S!Fault, SP!Fault, S!Goto, SP!Goto, S!Reply, SP!Reply,
           S!Acceptable, SP!Acceptable, S!Refusable, SP!Refusable, S!EmailOf,
           SP!EmailOf,
           S!Registered, SP!Registered, S!vars, SP!vars, S!People,
           SP!People
  <1>3. S!Spec => SP!Spec
    BY <1>1, <1>2, PTL DEF S!Spec, SP!Spec
  <1> QED
    BY <1>3, SystemImplementsSignup, PTL

\* What Signup assumes of its constants is assumed of the system's.
LEMMA SignupConstants ==
  /\ Forms \subseteq SP!Form
  /\ NoEmail \notin Emails
  /\ NoUser \notin Users
  /\ Users \cap Logins = {}
  /\ MaxFaults \in Nat
  BY SystemAssumption, GrantRedeemAssumption
     DEF S!Form, SP!Form, S!Passwords, SP!Passwords

(***************************************************************************)
(* Everything proved of Signup (auth.go) holds of the system's sign-ups:   *)
(* its inductive invariant says what the place of a sign-up means for the  *)
(* user, the account and the token.                                        *)
(***************************************************************************)
THEOREM SignupInvariantHoldsInSystem == SystemSpec => []SP!SignupInv
  <1>1. SP!Spec => []SP!SignupInv
    BY SP!SignupInvariantHolds, SignupConstants
  <1> QED
    BY <1>1, SystemImplementsProvedSignup, PTL

(***************************************************************************)
(* With bookings, balance requests and the cache around it, auth.go gives  *)
(* an address one user, answers 201 for what is committed, leaves nothing  *)
(* of what it refuses and lets one sign-up win.                            *)
(***************************************************************************)
THEOREM SystemSignupsAreSafe ==
  SystemSpec => [](/\ S!OneUserPerEmail /\ S!CreatedIsComplete
                   /\ S!RefusedLeavesNothing /\ S!OneWinner)
  <1>1. SP!Spec => /\ []SP!OneUserPerEmail /\ []SP!CreatedIsComplete
                   /\ []SP!RefusedLeavesNothing /\ []SP!OneWinner
    BY SP!AddressesHaveOneUser, SP!CreatedUsersAreComplete,
       SP!RefusedSignupsLeaveNothing, SP!AddressesHaveOneWinner, SignupConstants
  <1>2. /\ SP!OneUserPerEmail => S!OneUserPerEmail
        /\ SP!CreatedIsComplete => S!CreatedIsComplete
        /\ SP!RefusedLeavesNothing => S!RefusedLeavesNothing
        /\ SP!OneWinner => S!OneWinner
    <2> USE DEF SP!EmailOf, S!EmailOf, SP!People, S!People, SP!Registered, S!Registered
    <2>1. SP!OneUserPerEmail => S!OneUserPerEmail
      BY DEF SP!OneUserPerEmail, S!OneUserPerEmail
    <2>2. SP!CreatedIsComplete => S!CreatedIsComplete
      BY DEF SP!CreatedIsComplete, S!CreatedIsComplete
    <2>3. SP!RefusedLeavesNothing => S!RefusedLeavesNothing
      BY DEF SP!RefusedLeavesNothing, S!RefusedLeavesNothing
    <2>4. SP!OneWinner => S!OneWinner
      BY DEF SP!OneWinner, S!OneWinner, SP!Cardinality, S!Cardinality
    <2> QED
      BY <2>1, <2>2, <2>3, <2>4
  <1> QED
    BY <1>1, <1>2, SystemImplementsProvedSignup, PTL

(***************************************************************************)
(* And the system implements the address book: nobody's address or account *)
(* changes hands while others book, read or stop.                          *)
(***************************************************************************)
THEOREM SystemImplementsAddressBook == SystemSpec => SP!ImplementsAddressBook
  <1>1. SP!Spec => SP!ImplementsAddressBook
    BY SP!SignupImplementsAddressBook, SignupConstants
  <1> QED
    BY <1>1, SystemImplementsProvedSignup, PTL

-------------------------------------------------------------------------------
(***************************************************************************)
(* All requests together.  Left says how far a booking is from its end;    *)
(* a balance request has three statements at most, a sign-up or login      *)
(* four, its arrival included.                                             *)
(***************************************************************************)
ToRead(b) ==
  CASE at[b] = "get"                -> 3
    [] at[b] = "load"               -> 2
    [] at[b] = "set"                -> 1
    [] at[b] \in {"done", "failed"} -> 0

ToSign(q) ==
  CASE stage[q] = "idle"    -> 4
    [] stage[q] = "find"    -> 3
    [] stage[q] = "create"  -> 2
    [] stage[q] = "account" -> 1
    [] stage[q] = "done"    -> 0

\* A balance request goes from GET to load to SET, and leaves out what it can.
LEMMA ReadsComeNearer ==
  ASSUME ServiceInv, [SystemNext]_systemVars, NEW b \in Readers
  PROVE  /\ ToRead(b) \in 0 .. 3 /\ ToRead(b)' <= ToRead(b)
         /\ ServeRead(b) \/ ServeReadFails(b) => ToRead(b)' < ToRead(b)
  <1>1. at \in [Readers -> Places] /\ at' \in [Readers -> Places]
    BY SystemStepIsServiceStep, ServiceTypeStep DEF ServiceInv, ServiceTypeOK
  <1>2. ASSUME NEW c \in Readers, ServeRead(c) \/ ServeReadFails(c)
        PROVE  /\ c # b => at'[b] = at[b]
               /\ ToRead(c)' < ToRead(c)
    BY <1>1, <1>2 DEF ServeRead, ServeReadFails, Read, GetBalance, LoadAccount,
         SetBalance, GetFails, LoadFails, SetFails, MoveTo, ToRead
  <1>3. ToRead(b) \in 0 .. 3 /\ ToRead(b)' \in 0 .. 3
    BY <1>1 DEF ToRead, Places
  <1>4. ASSUME at'[b] = at[b] PROVE ToRead(b)' = ToRead(b)
    BY <1>4 DEF ToRead
  <1>5. CASE SystemExit
    <2>1. at'[b] = at[b] \/ (at'[b] = "failed" /\ at[b] \in {"load", "set"})
      BY <1>1, <1>5 DEF SystemExit, ServiceExit
    <2>2. ToRead(b)' <= ToRead(b)
      <3>1. at'[b] = "failed" => ToRead(b)' = 0
        BY DEF ToRead
      <3> QED
        BY <1>3, <1>4, <2>1, <3>1
    <2> QED
      BY <1>2, <1>3, <2>2
  <1>6. CASE at' = at
    BY <1>2, <1>3, <1>4, <1>6
  <1>7. ASSUME NEW c \in Readers, ServeRead(c) \/ ServeReadFails(c)
        PROVE  ToRead(b)' <= ToRead(b)
    <2>1. CASE c = b
      BY <1>2, <1>3, <1>7, <2>1
    <2>2. CASE c # b
      BY <1>2, <1>3, <1>4, <1>7, <2>2
    <2> QED
      BY <2>1, <2>2
  <1>8. \/ at' = at \/ SystemExit
        \/ \E c \in Readers : ServeRead(c) \/ ServeReadFails(c)
    BY DEF SystemNext, Register, RegisterFails, othersVars, readerVars, Serve,
           ServeFails, Expire, CacheExpire, SystemFinished, systemVars, serviceVars
  <1> QED
    BY <1>2, <1>3, <1>5, <1>6, <1>7, <1>8

\* A sign-up or login goes from statement to statement and never back.
LEMMA SignupsComeNearer ==
  ASSUME ServiceInv, SP!SignupInv, [SystemNext]_systemVars, NEW q \in S!People
  PROVE  /\ ToSign(q) \in 0 .. 4 /\ ToSign(q)' <= ToSign(q)
         /\ Register(q) \/ RegisterFails(q) => ToSign(q)' < ToSign(q)
  <1> DEFINE Stages == {"idle", "find", "create", "account", "done"}
  <1>1. stage \in [S!People -> Stages]
    BY DEF SP!SignupInv, SP!TypeOK, SP!People, S!People
  <1>2. ASSUME NEW p \in S!People, Register(p) \/ RegisterFails(p)
        PROVE  /\ p # q => stage'[q] = stage[q]
               /\ ToSign(p)' \in 0 .. 4 /\ ToSign(p)' < ToSign(p)
    BY <1>1, <1>2
       DEF Register, RegisterFails, S!Refuse, S!Accept, S!FindFails, S!FindByEmail,
           S!Create, S!CreateAccount, S!CreateFails, S!CreateAccountFails, S!Login,
           S!Goto, S!Reply, ToSign
  <1>3. ToSign(q) \in 0 .. 4
    BY <1>1 DEF ToSign
  <1>4. ASSUME stage'[q] = stage[q] PROVE ToSign(q)' = ToSign(q)
    BY <1>4 DEF ToSign
  <1>5. CASE SystemExit
    <2>1. stage'[q] = stage[q] \/ stage'[q] = "done"
      BY <1>5 DEF SystemExit, S!Exit
    <2>2. ToSign(q)' <= ToSign(q)
      <3>1. stage'[q] = "done" => ToSign(q)' = 0
        BY DEF ToSign
      <3> QED
        BY <1>3, <1>4, <2>1, <3>1
    <2> QED
      BY <1>2, <1>3, <2>2
  <1>6. CASE stage' = stage
    BY <1>2, <1>3, <1>4, <1>6
  <1>7. ASSUME NEW p \in S!People, Register(p) \/ RegisterFails(p)
        PROVE  ToSign(q)' <= ToSign(q)
    <2>1. CASE p = q
      BY <1>2, <1>3, <1>7, <2>1
    <2>2. CASE p # q
      BY <1>2, <1>3, <1>4, <1>7, <2>2
    <2> QED
      BY <2>1, <2>2
  <1>8. \/ stage' = stage \/ SystemExit
        \/ \E p \in S!People : Register(p) \/ RegisterFails(p)
    BY DEF SystemNext, Serve, ServeFails, ServeRead, ServeReadFails, Expire,
           SystemFinished, systemVars, signupVars
  <1> QED
    BY <1>2, <1>3, <1>5, <1>6, <1>7, <1>8

\* A booking comes no further from its end by what goes on around it.
LEMMA BookingsComeNearer ==
  ASSUME ServiceInv, [SystemNext]_systemVars, NEW r \in Requests
  PROVE  /\ Left(r) \in 0 .. 10 * MaxRetries + 10 /\ Left(r)' <= Left(r)
         /\ Serve(r) \/ ServeFails(r) => Left(r)' < Left(r)
  <1>0. IInv
    BY DEF ServiceInv
  <1>1. Serve(r) \/ ServeFails(r) => Moves(r) /\ [Next]_vars
    BY DEF Serve, ServeFails, Moves, Next, Failure
  <1>2. CASE [Next]_vars
    BY <1>0, <1>1, <1>2, StepsBringNearer
  <1>3. CASE UNCHANGED writerVars
    <2>1. Left(r)' = Left(r)
      BY <1>3 DEF Left, Ahead, Rank, writerVars
    <2>2. Left(r) \in 0 .. 10 * MaxRetries + 10
      <3>1. /\ attempt[r] \in 0 .. MaxRetries /\ pc[r] \in Labels
            /\ MaxRetries \in Nat
        BY <1>0, GrantRedeemAssumption DEF IInv, TypeOK
      <3>2. Ahead(r) \in 0 .. 10
        BY <3>1 DEF Ahead, Rank, Labels
      <3> QED
        BY <3>1, <3>2 DEF Left
    <2> QED
      BY <1>0, <1>1, <2>1, <2>2, StepsBringNearer
  <1> QED
    BY <1>2, <1>3, SystemStepIsServiceStep, WriterOrReader

(***************************************************************************)
(* Nothing goes round in circles: each statement of a booking, a balance   *)
(* request, a sign-up or a login, failed or not, brings it nearer to its   *)
(* end, and neither others nor the end of the process set it back          *)
(* (router.go:58-70 and what is behind it).                                *)
(***************************************************************************)
THEOREM SystemTakesBoundedSteps ==
  SystemSpec =>
    [][/\ \A r \in Requests :
            /\ Left(r) \in 0 .. 10 * MaxRetries + 10 /\ Left(r)' <= Left(r)
            /\ Serve(r) \/ ServeFails(r) => Left(r)' < Left(r)
       /\ \A b \in Readers :
            /\ ToRead(b) \in 0 .. 3 /\ ToRead(b)' <= ToRead(b)
            /\ ServeRead(b) \/ ServeReadFails(b) => ToRead(b)' < ToRead(b)
       /\ \A q \in S!People :
            /\ ToSign(q) \in 0 .. 4 /\ ToSign(q)' <= ToSign(q)
            /\ Register(q) \/ RegisterFails(q) => ToSign(q)' < ToSign(q)]_systemVars
  <1> DEFINE Nearer ==
         /\ \A r \in Requests :
              /\ Left(r) \in 0 .. 10 * MaxRetries + 10 /\ Left(r)' <= Left(r)
              /\ Serve(r) \/ ServeFails(r) => Left(r)' < Left(r)
         /\ \A b \in Readers :
              /\ ToRead(b) \in 0 .. 3 /\ ToRead(b)' <= ToRead(b)
              /\ ServeRead(b) \/ ServeReadFails(b) => ToRead(b)' < ToRead(b)
         /\ \A q \in S!People :
              /\ ToSign(q) \in 0 .. 4 /\ ToSign(q)' <= ToSign(q)
              /\ Register(q) \/ RegisterFails(q) => ToSign(q)' < ToSign(q)
  <1>1. ServiceInv /\ SP!SignupInv /\ [SystemNext]_systemVars => Nearer
    BY ReadsComeNearer, SignupsComeNearer, BookingsComeNearer
  <1>2. SystemSpec => []ServiceInv
    BY SystemImplementsService, ServiceInvariantHolds
  <1>3. SystemSpec => [][Nearer]_systemVars
    <2> HIDE DEF Nearer
    <2> QED
      BY <1>1, <1>2, SignupInvariantHoldsInSystem, PTL DEF SystemSpec
  <1> QED
    BY <1>3 DEF Nearer

(***************************************************************************)
(* The pool of db.go:19 never seizes up: while all connections are out,    *)
(* one of the transactions that have them waits for no lock or is about to *)
(* be rolled back by InnoDB, so nobody else, sign-ups and balance requests *)
(* included, is kept waiting by a circle.                                  *)
(***************************************************************************)
THEOREM PoolNeverSeizesUp ==
  SystemSpec =>
    [](~ ConnFree =>
         \E r \in Requests :
           InTx(r) /\ (Granted(r) \/ \E q \in Requests : Deadlocked(q, r)))
  <1>1. ServiceInv => (~ ConnFree =>
          \E r \in Requests :
            InTx(r) /\ (Granted(r) \/ \E q \in Requests : Deadlocked(q, r)))
    BY SomeTransactionIsFree DEF ServiceInv
  <1> QED
    BY <1>1, SystemImplementsService, ServiceInvariantHolds, PTL

-------------------------------------------------------------------------------
HasToken(u) == u \in {token[q] : q \in S!People}

(***************************************************************************)
(* Whoever is past Auth has a token: every request that was accepted and   *)
(* every reader that has begun, and so every row.                          *)
(***************************************************************************)
Admitted ==
  /\ \A r \in Requests : pc[r] # "idle" => HasToken(User(r))
  /\ \A b \in Readers : at[b] # "get" => HasToken(asker[b])
  /\ \A row \in ledger : HasToken(row.user)

\* A token that was given stays given.
LEMMA TokensStay ==
  ASSUME SP!SignupInv, [SystemNext]_systemVars, NEW u \in Users, HasToken(u)
  PROVE  HasToken(u)'
  <1>1. PICK q \in S!People : token[q] = u
    BY DEF HasToken
  <1>2. token \in [S!People -> users \cup {NoUser}] /\ u # NoUser
    BY SystemAssumption DEF SP!SignupInv, SP!TypeOK, SP!People, S!People
  <1>3. stage[q] = "done"
    BY <1>1, <1>2 DEF SP!SignupInv, SP!Tokens, SP!People, S!People
  <1>4. token'[q] = u
    BY <1>1, <1>2, <1>3
       DEF SystemNext, Register, RegisterFails, Serve, ServeFails, ServeRead,
           ServeReadFails, Expire, SystemExit, SystemFinished, systemVars,
           signupVars, S!Refuse, S!Accept, S!FindFails, S!FindByEmail, S!Create,
           S!CreateAccount, S!CreateFails, S!CreateAccountFails, S!Login, S!Exit
  <1> QED
    BY <1>1, <1>4 DEF HasToken

\* Auth lets in who has a token, and nothing else lets anybody in.
LEMMA AdmittedStep ==
  ASSUME ServiceInv, SP!SignupInv, Admitted, [SystemNext]_systemVars
  PROVE  Admitted'
  <1>0. [Next]_vars \/ UNCHANGED writerVars
    BY SystemStepIsServiceStep, WriterOrReader
  <1>1. UNCHANGED <<input, asker>>
    BY <1>0, SystemStepIsServiceStep, WriterOrReader, InputStep
       DEF writerVars, ReaderNext, Read, GetBalance, LoadAccount, SetBalance,
           GetFails, LoadFails, SetFails, CacheExpire, readerVars
  <1>2. ASSUME NEW q \in Requests, pc'[q] # "idle"
        PROVE  HasToken(User(q))'
    <2>1. User(q)' = User(q) /\ User(q) \in Users
      BY <1>1, InputType DEF User, ServiceInv, IInv
    <2>2. pc[q] # "idle" \/ Authenticated(User(q))
      <3>1. ASSUME NEW r \in Requests, Serve(r) \/ ServeFails(r)
            PROVE  pc[q] # "idle" \/ Authenticated(User(q))
        <4>1. q # r => pc'[q] = pc[q]
          BY <3>1 DEF Serve, ServeFails, Step, Accept, Refuse,
               FindTransactionByIdempotencyKey, Replay, BeginTx, GetAccount,
               InsertTransaction, UpdateBalance, Commit, Rollback,
               InvalidateBalance, StatementFails, CommitFails, InvalidateFails,
               Goto, Return, Abort, Retry, ServiceInv, IInv, TypeOK
        <4>2. ServeFails(r) => pc[r] # "idle"
          BY DEF ServeFails, StatementFails, CommitFails, InvalidateFails
        <4> QED
          BY <1>2, <3>1, <4>1, <4>2 DEF Serve
      <3>2. CASE SystemExit
        BY <1>2, <3>2 DEF SystemExit, ServiceExit, Crash, Shutdown, ProcessExit,
             InFlight
      <3>3. CASE pc' = pc
        BY <1>2, <3>3
      <3> QED
        BY <3>1, <3>2, <3>3
           DEF SystemNext, Register, RegisterFails, othersVars, ServeRead,
               ServeReadFails, Read, GetBalance, LoadAccount, SetBalance, GetFails,
               LoadFails, SetFails, Expire, CacheExpire, writerVars, SystemFinished,
               systemVars, serviceVars, vars
    <2> QED
      BY <2>1, <2>2, TokensStay DEF Admitted, Authenticated, HasToken
  <1>3. ASSUME NEW b \in Readers, at'[b] # "get"
        PROVE  HasToken(asker[b])'
    <2>1. asker'[b] = asker[b] /\ asker[b] \in Users
      BY <1>1 DEF ServiceInv, ServiceTypeOK
    <2>2. at[b] # "get" \/ Authenticated(asker[b])
      <3>1. ASSUME NEW c \in Readers, ServeRead(c) \/ ServeReadFails(c)
            PROVE  at[b] # "get" \/ Authenticated(asker[b])
        <4>1. b # c => at'[b] = at[b]
          BY <3>1 DEF ServeRead, ServeReadFails, Read, GetBalance, LoadAccount,
               SetBalance, GetFails, LoadFails, SetFails, MoveTo, ServiceInv,
               ServiceTypeOK
        <4> QED
          BY <1>3, <3>1, <4>1 DEF ServeRead, ServeReadFails
      <3>2. CASE SystemExit
        BY <1>3, <3>2 DEF SystemExit, ServiceExit
      <3>3. CASE at' = at
        BY <1>3, <3>3
      <3> QED
        BY <3>1, <3>2, <3>3
           DEF SystemNext, Register, RegisterFails, othersVars, readerVars, Serve,
               ServeFails, Expire, CacheExpire, SystemFinished, systemVars,
               serviceVars
    <2> QED
      BY <2>1, <2>2, TokensStay DEF Admitted, Authenticated, HasToken
  <1>4. ASSUME NEW row \in ledger' PROVE HasToken(row.user)'
    <2>1. row.user \in Users
      <3>1. IInv'
        BY SystemStepIsServiceStep, WriterOrReader, NextKeepsIInv, ReaderKeepsIInv
           DEF ServiceInv
      <3> QED
        BY <3>1 DEF IInv, TypeOK, Row
    <2>2. CASE row \in ledger
      BY <2>1, <2>2, TokensStay DEF Admitted
    <2>3. CASE row \notin ledger
      <3>1. PICK r \in Requests : pc[r] = "commit" /\ Publish(r)
        BY <1>0, <2>3, DbStep DEF writerVars, dbVars, OpenAccount
      <3>2. row = RowOf(r)
        <4>1. ledger' = ledger \cup {RowOf(r)}
          BY <3>1 DEF Publish
        <4> QED
          BY <1>4, <2>3, <4>1
      <3>3. row.user = User(r) /\ pc[r] # "idle"
        BY <3>1, <3>2 DEF RowOf
      <3> QED
        BY <2>1, <3>3, TokensStay DEF Admitted
    <2> QED
      BY <2>2, <2>3
  <1> QED
    BY <1>2, <1>3, <1>4 DEF Admitted

(***************************************************************************)
(* No miles move and no balance is shown for a user without a token        *)
(* (router.go:51), for any number of users, requests and failures.         *)
(***************************************************************************)
THEOREM ServedUsersAreMembers == SystemSpec => []OnlyMembersAreServed
  <1> DEFINE Inv == ServiceInv /\ SP!SignupInv
  <1>1. SystemSpec => []Inv
    BY SystemImplementsService, ServiceInvariantHolds,
       SignupInvariantHoldsInSystem, PTL
  <1>2. SystemInit => Admitted
    BY DEF SystemInit, ServiceInit, Init, Admitted
  <1>3. Inv /\ Admitted /\ [SystemNext]_systemVars => Admitted'
    BY AdmittedStep
  <1>4. Inv /\ Admitted => OnlyMembersAreServed
    <2> SUFFICES ASSUME SP!SignupInv, Admitted, ServiceInv
                 PROVE  OnlyMembersAreServed
      OBVIOUS
    <2>1. \A u \in Users : HasToken(u) => u \in users
      BY SystemAssumption DEF HasToken, SP!SignupInv, SP!TypeOK, SP!People, S!People
    <2>2. \A row \in ledger : row.user \in Users
      BY DEF ServiceInv, IInv, TypeOK, Row
    <2>3. \A b \in Readers : asker[b] \in Users
      BY DEF ServiceInv, ServiceTypeOK
    <2> QED
      BY <2>1, <2>2, <2>3 DEF Admitted, HasToken, OnlyMembersAreServed
  <1> HIDE DEF Inv
  <1> QED
    BY <1>1, <1>2, <1>3, <1>4, PTL DEF SystemSpec

(***************************************************************************)
(* A 201 is a promise: from then on grant.go:123 and balance.go:56 find    *)
(* the account, whatever failed before and whatever fails later.           *)
(***************************************************************************)
THEOREM CreatedMembersHaveAccounts == SystemSpec => MembersHaveAccounts
  <1> DEFINE Inv == ServiceInv /\ SP!SignupInv
  <1>1. SystemSpec => []Inv
    BY SystemImplementsService, ServiceInvariantHolds,
       SignupInvariantHoldsInSystem, PTL
  <1> DEFINE Found ==
         /\ \A r \in Requests :
              pc[r] = "read" /\ err'[r] = "error" /\ faults' = faults =>
                answer[User(r)] # "CREATED"
         /\ \A b \in Readers :
              at[b] = "load" /\ at'[b] = "failed" /\ faults' = faults =>
                answer[asker[b]] # "CREATED"
  <1>2. Inv /\ [SystemNext]_systemVars => [Found]_systemVars
    <2> SUFFICES ASSUME ServiceInv, SP!SignupInv, SystemNext
                 PROVE  Found
      OBVIOUS
    <2>0. /\ \A u \in Users : answer[u] = "CREATED" => account[u] # NoAccount
          /\ faults \in Nat
      BY GrantRedeemAssumption
         DEF SP!SignupInv, SP!Progress, Members, ServiceInv, IInv, TypeOK
    <2>1. ASSUME NEW r \in Requests, pc[r] = "read", err'[r] = "error",
                 faults' = faults
          PROVE  account[User(r)] = NoAccount
      <3>1. err[r] = "nil"
        BY <2>1 DEF ServiceInv, IInv, Control
      <3>2. ~ Fault
        BY <2>0, <2>1 DEF Fault
      <3>3. PICK q \in Requests : Step(q)
        <4>1. err' # err
          BY <2>1, <3>1
        <4> QED
          BY <2>1, <3>2, <4>1
             DEF SystemNext, Register, RegisterFails, othersVars, Serve, ServeFails,
                 StatementFails, CommitFails, InvalidateFails, ServeRead,
                 ServeReadFails, Read, GetBalance, LoadAccount, SetBalance, GetFails,
                 LoadFails, SetFails, Expire, CacheExpire, writerVars, SystemExit,
                 ServiceExit, Crash, Shutdown, SystemFinished, systemVars,
                 serviceVars, vars
      <3>4. GetAccount(r)
        BY <2>1, <3>1, <3>3
           DEF Step, Accept, Refuse, FindTransactionByIdempotencyKey, Replay,
               BeginTx, GetAccount, InsertTransaction, UpdateBalance, Commit,
               Rollback, InvalidateBalance, Goto, Return, Abort, Retry, ServiceInv,
               IInv, TypeOK
      <3> QED
        BY <2>1, <3>1, <3>4 DEF GetAccount, Abort, User, ServiceInv, IInv, TypeOK
    <2>2. ASSUME NEW b \in Readers, at[b] = "load", at'[b] = "failed",
                 faults' = faults
          PROVE  account[asker[b]] = NoAccount
      <3>1. ~ Fault
        BY <2>0, <2>2 DEF Fault
      <3>2. LoadAccount(b)
        BY <2>2, <3>1
           DEF SystemNext, Register, RegisterFails, othersVars, readerVars, Serve,
               ServeFails, ServeRead, ServeReadFails, Read, GetBalance, LoadAccount,
               SetBalance, GetFails, LoadFails, SetFails, MoveTo, Expire,
               CacheExpire, SystemExit, ServiceExit, Crash, Shutdown,
               SystemFinished, systemVars, serviceVars, ServiceInv, ServiceTypeOK
      <3> QED
        BY <2>2, <3>2 DEF LoadAccount, MoveTo, ServiceInv, ServiceTypeOK
    <2> QED
      BY <2>0, <2>1, <2>2, InputType DEF ServiceInv, IInv, ServiceTypeOK
  <1> HIDE DEF Inv, Found
  <1>3. [][Found]_systemVars => MembersHaveAccounts
    BY DEF Found, MembersHaveAccounts
  <1> QED
    BY <1>1, <1>2, <1>3, PTL DEF SystemSpec
===============================================================================
