----------------------------- MODULE Signup_proofs -----------------------------
(***************************************************************************)
(* The safety properties of Signup for any number of requests, addresses   *)
(* and failures.                                                           *)
(***************************************************************************)
EXTENDS Signup, FiniteSetTheorems, TLAPS

(***************************************************************************)
(* What the place of a sign-up says about its rows and its answer.         *)
(***************************************************************************)
Progress(r) ==
  /\ pc[r] \in {"idle", "find", "create"} => r \notin users
  /\ pc[r] = "account" => r \in users /\ r \notin accounts
  /\ pc[r] # "done" => answer[r] = "none" /\ token[r] = NoUser
  /\ pc[r] = "done" /\ r \in users /\ r \notin accounts => faults > 0
  /\ answer[r] = "CREATED" => r \in accounts
  /\ answer[r] \in {"BAD_REQUEST", "EMAIL_CONFLICT"} => r \notin users
  /\ answer[r] = "EMAIL_CONFLICT" => Registered(EmailOf(r)) # {}

\* Tokens are for the user of the address, and are the last thing a request does.
Tokens ==
  \A r \in People :
    token[r] # NoUser => pc[r] = "done" /\ EmailOf(token[r]) = EmailOf(r)

\* The unique index on the address.
UniqueEmails == \A u, v \in users : EmailOf(u) = EmailOf(v) => u = v

\* Whoever got past the handler has named an address.
Addressed ==
  /\ \A r \in People : pc[r] \in {"find", "create", "account"} => EmailOf(r) \in Emails
  /\ \A u \in users : EmailOf(u) \in Emails

(***************************************************************************)
(* The inductive invariant: TypeOK holds because accounts and tokens are   *)
(* only given to users who are in the table, which is what the place of a  *)
(* request says.                                                           *)
(***************************************************************************)
SignupInv ==
  /\ TypeOK /\ UniqueEmails /\ Tokens /\ Addressed
  /\ \A r \in Signups : Progress(r)

\* The invariant holds before the first request.
LEMMA InitEstablishesInvariant == Init => SignupInv
  BY SignupAssumption
     DEF Init, SignupInv, TypeOK, UniqueEmails, Tokens, Addressed, Progress, Codes, People

\* A request keeps its content.
LEMMA FormStays ==
  ASSUME [Next]_vars
  PROVE  form' = form
  BY DEF Next, Work, vars, Refuse, Accept, FindByEmail, Create, CreateAccount, Login,
         FindFails, CreateFails, CreateAccountFails, Exit, Finished

\* The invariant is inductive.
LEMMA NextKeepsInvariant == SignupInv /\ [Next]_vars => SignupInv'
  <1> SUFFICES ASSUME SignupInv, [Next]_vars PROVE SignupInv'
    OBVIOUS
  <1> USE SignupAssumption DEF SignupInv, TypeOK, Codes, People, Addressed, EmailOf
  <1>0. form' = form
    BY FormStays
  <1>1. ASSUME NEW r \in People, Refuse(r) \/ Accept(r) \/ FindFails(r)
        PROVE  SignupInv'
    BY <1>1, <1>0 DEF Refuse, Accept, FindFails, Fault, Goto, Reply, Progress, Tokens,
         UniqueEmails, Registered, Acceptable, Form
  <1>2. ASSUME NEW r \in Signups, FindByEmail(r) PROVE SignupInv'
    BY <1>2, <1>0 DEF FindByEmail, Goto, Reply, Progress, Tokens, UniqueEmails,
         Registered
  <1>3. ASSUME NEW r \in Signups, Create(r) \/ CreateFails(r) PROVE SignupInv'
    BY <1>3, <1>0 DEF Create, CreateFails, Fault, Goto, Reply, Progress, Tokens,
         UniqueEmails, Registered
  <1>4. ASSUME NEW r \in Signups, CreateAccount(r) \/ CreateAccountFails(r)
        PROVE  SignupInv'
    BY <1>4, <1>0 DEF CreateAccount, CreateAccountFails, Fault, Goto, Reply,
         Progress, Tokens, UniqueEmails, Registered
  <1>5. ASSUME NEW r \in Logins, Login(r) PROVE SignupInv'
    BY <1>5, <1>0 DEF Login, Goto, Reply, Progress, Tokens, UniqueEmails,
         Registered
  <1>6. CASE Exit
    BY <1>6, <1>0 DEF Exit, Fault, Progress, Tokens, UniqueEmails, Registered
  <1>7. CASE Finished \/ UNCHANGED vars
    BY <1>7 DEF Finished, vars, Progress, Tokens, UniqueEmails, Registered
  <1> QED
    BY <1>1, <1>2, <1>3, <1>4, <1>5, <1>6, <1>7 DEF Next, Work

(***************************************************************************)
(* The invariant holds in every reachable state of auth.go.                *)
(***************************************************************************)
THEOREM SignupInvariantHolds == Spec => []SignupInv
  BY InitEstablishesInvariant, NextKeepsInvariant, PTL DEF Spec

(***************************************************************************)
(* The tables, answers and tokens of sign-up keep their types; accounts    *)
(* and tokens belong to users in the table.                                *)
(***************************************************************************)
THEOREM SignupTypeCorrect == Spec => []TypeOK
  <1>1. SignupInv => TypeOK
    BY DEF SignupInv
  <1> QED
    BY <1>1, SignupInvariantHolds, PTL

\* What the invariant says of users, accounts, answers and tokens in any one
\* state; the compositions, which keep it, cite this as well.
LEMMA SignupIsSafe ==
  SignupInv => OneUserPerEmail /\ CreatedIsComplete /\ RefusedLeavesNothing
  <1> SUFFICES ASSUME SignupInv
               PROVE  OneUserPerEmail /\ CreatedIsComplete /\ RefusedLeavesNothing
    OBVIOUS
  <1>1. OneUserPerEmail
    <2>1. \A r \in People : token[r] # NoUser => token[r] \in users
      BY DEF SignupInv, TypeOK
    <2> QED
      BY <2>1 DEF SignupInv, UniqueEmails, Tokens, OneUserPerEmail
  <1>2. CreatedIsComplete
    BY DEF SignupInv, TypeOK, Progress, CreatedIsComplete, People
  <1>3. RefusedLeavesNothing
    BY DEF SignupInv, Progress, RefusedLeavesNothing
  <1> QED
    BY <1>1, <1>2, <1>3

(***************************************************************************)
(* However many sign-ups for one address pass the check of auth.go:58      *)
(* together, the address has one user and its tokens name that user.       *)
(***************************************************************************)
THEOREM AddressesHaveOneUser == Spec => []OneUserPerEmail
  BY SignupIsSafe, SignupInvariantHolds, PTL

(***************************************************************************)
(* A 201 of auth.go:97 stands for a committed user and account, and only   *)
(* failures leave a user without account when its sign-up is over.         *)
(***************************************************************************)
THEOREM CreatedUsersAreComplete == Spec => []CreatedIsComplete
  BY SignupIsSafe, SignupInvariantHolds, PTL

(***************************************************************************)
(* A refused sign-up has left no user in the table.                        *)
(***************************************************************************)
THEOREM RefusedSignupsLeaveNothing == Spec => []RefusedLeavesNothing
  BY SignupIsSafe, SignupInvariantHolds, PTL

-------------------------------------------------------------------------------
\* The user of an address that is taken, whichever way it is looked up.
LEMMA OwnersAreUsers ==
  ASSUME UniqueEmails, NEW u \in users
  PROVE  OwnerOf(EmailOf(u)) = u
  <1>1. Registered(EmailOf(u)) # {}
    BY DEF Registered
  <1> QED
    BY <1>1 DEF OwnerOf, UniqueEmails

\* An address changes only when a sign-up takes it.
LEMMA OwnersStay ==
  ASSUME UniqueEmails, UniqueEmails', users \subseteq users', form' = form,
         NEW e, Registered(e) # {} \/ Registered(e)' = {}
  PROVE  OwnerOf(e)' = OwnerOf(e)
  <1>1. CASE Registered(e)' = {}
    BY <1>1 DEF OwnerOf, Registered, EmailOf
  <1>2. CASE Registered(e) # {}
    <2>1. PICK u \in users : EmailOf(u) = e
      BY <1>2 DEF Registered
    <2>2. OwnerOf(e) = u
      BY <2>1, OwnersAreUsers
    <2>3. u \in users' /\ EmailOf(u)' = e
      BY <2>1 DEF EmailOf
    <2>4. OwnerOf(e)' = u
      BY <2>3 DEF OwnerOf, Registered, UniqueEmails
    <2> QED
      BY <2>2, <2>4
  <1> QED
    BY <1>1, <1>2

owner == [e \in Emails |-> OwnerOf(e)]
wanted == [r \in People |-> EmailOf(r)]

(***************************************************************************)
(* A step takes an address, opens an account, gives a token by a login, or *)
(* changes none of the three.                                              *)
(***************************************************************************)
LEMMA StepImplementsAddressBook ==
  ASSUME SignupInv, [Next]_vars
  PROVE  [Addresses!Next]_<<wanted, owner, accounts, token>>
  <1> USE SignupAssumption DEF SignupInv, TypeOK, People
  <1>0. SignupInv' /\ form' = form /\ wanted' = wanted
    BY NextKeepsInvariant, FormStays DEF wanted, EmailOf
  <1> USE DEF Goto, Reply, Fault
  <1>1. ASSUME users' = users, accounts' = accounts, token' = token
        PROVE  UNCHANGED <<wanted, owner, accounts, token>>
    BY <1>0, <1>1, OwnersStay DEF owner, Registered, EmailOf
  <1>2. ASSUME NEW r \in Signups, pc[r] = "create", users' = users \cup {r},
               Registered(EmailOf(r)) = {}, UNCHANGED <<accounts, token>>
        PROVE  Addresses!Take(r)
    <2>1. wanted[r] = EmailOf(r) /\ EmailOf(r) \in Emails
      BY <1>2 DEF Addressed, wanted
    <2>2. owner[EmailOf(r)] = NoUser
      BY <1>2, <2>1 DEF owner, OwnerOf
    <2>3. OwnerOf(EmailOf(r))' = r
      BY <1>0, <1>2 DEF OwnerOf, Registered, UniqueEmails, EmailOf
    <2>4. \A e \in Emails \ {EmailOf(r)} : OwnerOf(e)' = OwnerOf(e)
      BY <1>0, <1>2, OwnersStay DEF Registered, EmailOf
    <2>5. owner' = [owner EXCEPT ![EmailOf(r)] = r]
      BY <1>0, <2>1, <2>3, <2>4 DEF owner, EmailOf
    <2> QED
      BY <1>0, <1>2, <2>1, <2>2, <2>5 DEF Addresses!Take, owner, wanted
  <1>3. ASSUME NEW r \in Signups, pc[r] = "account", users' = users,
               accounts' = accounts \cup {r},
               token' = token \/ token' = [token EXCEPT ![r] = r]
        PROVE  Addresses!Open(r)
    <2>1. r \in users /\ r \notin accounts /\ token[r] = NoUser
      BY <1>3 DEF Progress
    <2>2. wanted[r] = EmailOf(r) /\ EmailOf(r) \in Emails /\ owner[EmailOf(r)] = r
      BY <2>1, OwnersAreUsers DEF Addressed, wanted, owner
    <2>3. owner' = owner
      BY <1>0, <1>3, OwnersStay DEF owner, Registered, EmailOf
    <2> QED
      BY <1>0, <1>3, <2>1, <2>2, <2>3 DEF Addresses!Open, owner, wanted
  <1>4. ASSUME NEW r \in Logins, pc[r] = "find", NEW u \in Registered(EmailOf(r)),
               UNCHANGED <<users, accounts>>, token' = [token EXCEPT ![r] = u]
        PROVE  Addresses!LogIn(r)
    <2>1. u \in users /\ EmailOf(u) = EmailOf(r) /\ token[r] = NoUser
      BY <1>4 DEF Registered, Tokens
    <2>2. wanted[r] = EmailOf(r) /\ EmailOf(r) \in Emails /\ owner[EmailOf(r)] = u
      BY <2>1, OwnersAreUsers DEF Addressed, wanted, owner
    <2>3. owner' = owner
      BY <1>0, <1>4, OwnersStay DEF owner, Registered, EmailOf
    <2> QED
      BY <1>0, <1>4, <2>1, <2>2, <2>3 DEF Addresses!LogIn, owner, wanted
  <1>5. ASSUME NEW r \in Signups,
               \/ Create(r) \/ CreateFails(r)
               \/ CreateAccount(r) \/ CreateAccountFails(r)
        PROVE  \/ Addresses!Take(r) \/ Addresses!Open(r)
               \/ UNCHANGED <<wanted, owner, accounts, token>>
    BY <1>1, <1>2, <1>3, <1>5
       DEF Create, CreateFails, CreateAccount, CreateAccountFails
  <1>6. ASSUME NEW r \in Logins, Login(r)
        PROVE  Addresses!LogIn(r) \/ UNCHANGED <<wanted, owner, accounts, token>>
    BY <1>1, <1>4, <1>6 DEF Login
  <1>7. ASSUME \/ Exit \/ Finished \/ UNCHANGED vars
               \/ \E r \in People : Refuse(r) \/ Accept(r) \/ FindFails(r)
               \/ \E r \in Signups : FindByEmail(r)
        PROVE  UNCHANGED <<wanted, owner, accounts, token>>
    BY <1>1, <1>7 DEF Exit, Finished, vars, Refuse, Accept, FindFails, FindByEmail
  <1> QED
    BY <1>5, <1>6, <1>7 DEF Next, Work, Addresses!Next

(***************************************************************************)
(* The check, the hash and the two INSERTs of auth.go:58-92, with whatever *)
(* fails between them, come to addresses that are taken at one instant and *)
(* for good, accounts for those who have one, and tokens for the owner.    *)
(***************************************************************************)
THEOREM SignupImplementsAddressBook == Spec => ImplementsAddressBook
  <1>1. Init => Addresses!Init
    BY DEF Init, Addresses!Init, OwnerOf, Registered
  <1>2. SignupInv /\ [Next]_vars => [Addresses!Next]_<<wanted, owner, accounts, token>>
    BY StepImplementsAddressBook
  <1> QED
    BY <1>1, <1>2, SignupInvariantHolds, PTL
       DEF Spec, ImplementsAddressBook, Addresses!Spec, wanted, owner

-------------------------------------------------------------------------------
(***************************************************************************)
(* Who wins an address when nothing fails.  The users are the sign-ups     *)
(* that got through Create, with passwords that were long enough and not   *)
(* too long; for every rival that is through somebody has the address.     *)
(***************************************************************************)
Race(r) ==
  /\ pc[r] \in {"find", "create", "account"} => Acceptable(r)
  /\ pc[r] \in {"create", "account"} => form[r].password # "long"
  /\ r \in users => pc[r] \in {"account", "done"} /\ form[r].password = "fit"
  /\ pc[r] = "done" /\ r \in users => answer[r] = "CREATED"
  /\ pc[r] = "done" /\ Acceptable(r) /\ form[r].password = "fit" =>
       Registered(EmailOf(r)) # {}

RaceInv == faults = 0 => \A r \in Signups : Race(r)

\* Nobody has an address before the first request.
LEMMA InitStartsRace == Init => RaceInv
  BY SignupAssumption DEF Init, RaceInv, Race, People

\* Every step keeps what Race says, as long as it is no failure.
LEMMA NextKeepsRace == SignupInv /\ RaceInv /\ [Next]_vars => RaceInv'
  <1> SUFFICES ASSUME SignupInv, RaceInv, [Next]_vars, faults' = 0 PROVE RaceInv'
    BY DEF RaceInv
  <1> USE SignupAssumption DEF SignupInv, TypeOK, Codes, People, RaceInv
  <1>0. form' = form
    BY FormStays
  <1>1. ASSUME NEW r \in People, Refuse(r) \/ Accept(r) PROVE RaceInv'
    BY <1>1, <1>0 DEF Refuse, Accept, Goto, Reply, Race, Progress, Registered,
         EmailOf, Acceptable, Refusable
  <1>2. ASSUME NEW r \in Signups, FindByEmail(r) PROVE RaceInv'
    BY <1>2, <1>0 DEF FindByEmail, Goto, Reply, Race, Progress, Registered, EmailOf,
         Acceptable
  <1>3. ASSUME NEW r \in Signups, Create(r) PROVE RaceInv'
    BY <1>3, <1>0 DEF Create, Goto, Reply, Race, Progress, Registered, EmailOf,
         Acceptable, Form, Passwords
  <1>4. ASSUME NEW r \in Signups, CreateAccount(r) PROVE RaceInv'
    BY <1>4, <1>0 DEF CreateAccount, Goto, Reply, Race, Progress, Registered,
         EmailOf, Acceptable
  <1>5. ASSUME NEW r \in Logins, Login(r) PROVE RaceInv'
    BY <1>5, <1>0 DEF Login, Goto, Reply, Race, Registered, EmailOf, Acceptable
  <1>6. ASSUME NEW r \in People,
               FindFails(r) \/ CreateFails(r) \/ CreateAccountFails(r)
        PROVE  FALSE
    BY <1>6 DEF FindFails, CreateFails, CreateAccountFails, Fault
  <1>7. CASE Exit
    BY <1>7 DEF Exit, Fault
  <1>8. CASE Finished \/ UNCHANGED vars
    BY <1>8 DEF Finished, vars, Race, Registered, EmailOf, Acceptable
  <1> QED
    BY <1>1, <1>2, <1>3, <1>4, <1>5, <1>6, <1>7, <1>8 DEF Next, Work

\* Who has the address is the one who was answered 201.
LEMMA RaceHasOneWinner == SignupInv /\ RaceInv => OneWinner
  <1> SUFFICES ASSUME SignupInv, RaceInv, faults = 0, NEW e \in Emails,
                      {r \in Signups : EmailOf(r) = e /\ form[r].password = "fit"} # {},
                      \A r \in Signups :
                        EmailOf(r) = e /\ form[r].password = "fit" => pc[r] = "done"
               PROVE  Cardinality({r \in {q \in Signups : EmailOf(q) = e
                                              /\ form[q].password = "fit"} :
                                     answer[r] = "CREATED"}) = 1
    BY DEF OneWinner
  <1> DEFINE Rivals  == {r \in Signups : EmailOf(r) = e /\ form[r].password = "fit"}
             Winners == {r \in Rivals : answer[r] = "CREATED"}
  <1>1. PICK r \in Rivals : TRUE
    OBVIOUS
  <1>2. Acceptable(r)
    BY <1>1, SignupAssumption DEF Acceptable
  <1>3. PICK u \in users : EmailOf(u) = e
    BY <1>1, <1>2 DEF RaceInv, Race, Registered
  <1>4. u \in Winners
    BY <1>3 DEF RaceInv, Race, SignupInv, TypeOK
  <1>5. \A w \in Winners : w = u
    BY <1>3 DEF SignupInv, Progress, TypeOK, UniqueEmails
  <1>6. Winners = {u}
    BY <1>4, <1>5
  <1> QED
    BY <1>6, FS_Singleton

(***************************************************************************)
(* Of the acceptable sign-ups for one address exactly one is answered 201  *)
(* (auth.go:58-97) when all are through and nothing failed.                *)
(***************************************************************************)
THEOREM AddressesHaveOneWinner == Spec => []OneWinner
  BY RaceHasOneWinner, InitEstablishesInvariant, NextKeepsInvariant, InitStartsRace,
     NextKeepsRace, PTL DEF Spec
===============================================================================
