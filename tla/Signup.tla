--------------------------------- MODULE Signup ---------------------------------
(***************************************************************************)
(* POST /v1/auth/signup and /v1/auth/login: the handlers of                *)
(* internal/server/handler/auth.go, the use cases of usecase/auth.go and   *)
(* the two repositories below them.  Sign-up looks for the address, hashes *)
(* the password, inserts the user and inserts the account: four steps,     *)
(* each statement committed by itself.  A sign-up that is cut off leaves a *)
(* user without account; MileageSystem shows the bookings what is left.    *)
(***************************************************************************)
EXTENDS Integers, FiniteSets

CONSTANTS
  Signups,      \* sign-up requests; each names the user it makes (a new ULID)
  Logins,       \* login requests
  Emails,       \* addresses, as the collation of users.email compares them
  NoEmail,      \* the field is empty
  Forms,        \* the contents a request may have
  NoUser,       \* no token
  MaxFaults     \* bounds the failures of one behaviour

\* shorter than 8 bytes, empty perhaps; longer than bcrypt's 72; neither
Passwords == {"short", "long", "fit"}

Form == [email : Emails \cup {NoEmail}, password : Passwords]

ASSUME SignupAssumption ==
  /\ Forms \subseteq Form
  /\ NoEmail \notin Emails
  /\ NoUser \notin Signups
  /\ Signups \cap Logins = {}
  /\ MaxFaults \in Nat

VARIABLES
  users,      \* the rows of users, by id
  accounts,   \* the rows of mileage_accounts, by user_id
  form,       \* request |-> its email and password
  pc,         \* request |-> the statement it executes next
  answer,     \* request |-> code of the response
  token,      \* request |-> the user the JWT in the response is for
  faults      \* failures so far

vars == <<users, accounts, form, pc, answer, token, faults>>

People == Signups \cup Logins

Codes == {"none", "CREATED", "OK", "BAD_REQUEST", "EMAIL_CONFLICT",
          "INVALID_CREDENTIALS", "INTERNAL_ERROR"}

EmailOf(r)   == form[r].email
Registered(e) == {u \in users : EmailOf(u) = e}

Goto(r, label) == pc' = [pc EXCEPT ![r] = label]
Reply(r, code) == Goto(r, "done") /\ answer' = [answer EXCEPT ![r] = code]

Init ==
  /\ users = {}
  /\ accounts = {}
  /\ form \in [People -> Forms]
  /\ pc = [r \in People |-> "idle"]
  /\ answer = [r \in People |-> "none"]
  /\ token = [r \in People |-> NoUser]
  /\ faults = 0

-------------------------------------------------------------------------------
(***************************************************************************)
(* Mutants of the actions below (README.md, "Mutants").                    *)
(***************************************************************************)
\* users has no unique index on the address
MutCreateNoIndex(r) ==
  /\ pc[r] = "create"
  /\ users' = users \cup {r}
  /\ Goto(r, "account")
  /\ UNCHANGED <<accounts, form, answer, token, faults>>

\* the error of Create is not looked at
MutCreateGoesOn(r) ==
  /\ pc[r] = "create"
  /\ \/ /\ Registered(EmailOf(r)) = {}
        /\ users' = users \cup {r}
     \/ /\ Registered(EmailOf(r)) # {}
        /\ UNCHANGED users
  /\ Goto(r, "account")
  /\ UNCHANGED <<accounts, form, answer, token, faults>>

\* the user is created before the password is hashed
MutFindCreatesFirst(r) ==
  /\ pc[r] = "find"
  /\ \/ /\ Registered(EmailOf(r)) # {}
        /\ Reply(r, "EMAIL_CONFLICT")
        /\ UNCHANGED users
     \/ /\ Registered(EmailOf(r)) = {} /\ form[r].password = "long"
        /\ Reply(r, "INTERNAL_ERROR")
        /\ users' = users \cup {r}
     \/ /\ Registered(EmailOf(r)) = {} /\ form[r].password # "long"
        /\ Goto(r, "create")
        /\ UNCHANGED <<answer, users>>
  /\ UNCHANGED <<accounts, form, token, faults>>

\* every error of Create is taken for a duplicate
MutCreateFailsAsConflict(r) ==
  /\ faults < MaxFaults /\ faults' = faults + 1
  /\ pc[r] = "create"
  /\ UNCHANGED users \/ (Registered(EmailOf(r)) = {} /\ users' = users \cup {r})
  /\ Reply(r, "EMAIL_CONFLICT")
  /\ UNCHANGED <<accounts, form, token>>

\* the error of CreateAccount is logged only
MutCreateAccountFailsUnseen(r) ==
  /\ faults < MaxFaults /\ faults' = faults + 1
  /\ pc[r] = "account"
  /\ UNCHANGED accounts \/ accounts' = accounts \cup {r}
  /\ Reply(r, "CREATED")
  /\ token' = [token EXCEPT ![r] = r]
  /\ UNCHANGED <<users, form>>

\* a user who is not there yet is looked for again
MutLoginWaits(r) ==
  /\ pc[r] = "find"
  /\ \/ \E u \in Registered(EmailOf(r)) :
          /\ form[u].password = form[r].password
          /\ Reply(r, "OK")
          /\ token' = [token EXCEPT ![r] = u]
     \/ /\ \A u \in Registered(EmailOf(r)) : form[u].password # form[r].password
        /\ Goto(r, "find")
        /\ UNCHANGED <<token, answer>>
  /\ UNCHANGED <<users, accounts, form, faults>>

-------------------------------------------------------------------------------
Acceptable(r) ==
  EmailOf(r) # NoEmail /\ (r \in Signups => form[r].password # "short")

\* a short password is too short for a sign-up; a login refuses an empty one
Refusable(r) == EmailOf(r) = NoEmail \/ form[r].password = "short"

Refuse(r) ==
  /\ pc[r] = "idle" /\ Refusable(r)
  /\ Reply(r, "BAD_REQUEST")
  /\ UNCHANGED <<users, accounts, form, token, faults>>

Accept(r) ==
  /\ pc[r] = "idle" /\ Acceptable(r)
  /\ Goto(r, "find")
  /\ UNCHANGED <<users, accounts, form, answer, token, faults>>

\* the check for a duplicate, and the hash, which refuses a long password
FindByEmail(r) ==
  /\ pc[r] = "find"
  /\ \/ /\ Registered(EmailOf(r)) # {}
        /\ Reply(r, "EMAIL_CONFLICT")
     \/ /\ Registered(EmailOf(r)) = {} /\ form[r].password = "long"
        /\ Reply(r, "INTERNAL_ERROR")
     \/ /\ Registered(EmailOf(r)) = {} /\ form[r].password # "long"
        /\ Goto(r, "create")
        /\ UNCHANGED answer
  /\ UNCHANGED <<users, accounts, form, token, faults>>

\* INSERT INTO users; the handler knows no duplicate key error
Create(r) ==
  /\ pc[r] = "create"
  /\ \/ /\ Registered(EmailOf(r)) = {}
        /\ users' = users \cup {r}
        /\ Goto(r, "account")
        /\ UNCHANGED answer
     \/ /\ Registered(EmailOf(r)) # {}
        /\ Reply(r, "INTERNAL_ERROR")
        /\ UNCHANGED users
  /\ UNCHANGED <<accounts, form, token, faults>>

\* INSERT INTO mileage_accounts, then the token.  A process that ends between
\* the INSERT and the response leaves the row that CreateAccountFails leaves
CreateAccount(r) ==
  /\ pc[r] = "account"
  /\ accounts' = accounts \cup {r}
  /\ Reply(r, "CREATED")
  /\ token' = [token EXCEPT ![r] = r]
  /\ UNCHANGED <<users, form, faults>>

\* one query; of the password only matters whether it is the stored one
Login(r) ==
  /\ pc[r] = "find"
  /\ \/ \E u \in Registered(EmailOf(r)) :
          /\ form[u].password = form[r].password
          /\ Reply(r, "OK")
          /\ token' = [token EXCEPT ![r] = u]
     \/ /\ \A u \in Registered(EmailOf(r)) : form[u].password # form[r].password
        /\ Reply(r, "INVALID_CREDENTIALS")
        /\ UNCHANGED token
  /\ UNCHANGED <<users, accounts, form, faults>>

-------------------------------------------------------------------------------
Fault == faults < MaxFaults /\ faults' = faults + 1

FindFails(r) ==
  /\ Fault
  /\ pc[r] = "find"
  /\ Reply(r, "INTERNAL_ERROR")
  /\ UNCHANGED <<users, accounts, form, token>>

\* an INSERT fails, or takes effect and its answer is lost; the client that
\* goes away cancels the request's context, with the same two outcomes
CreateFails(r) ==
  /\ Fault
  /\ pc[r] = "create"
  /\ UNCHANGED users \/ (Registered(EmailOf(r)) = {} /\ users' = users \cup {r})
  /\ Reply(r, "INTERNAL_ERROR")
  /\ UNCHANGED <<accounts, form, token>>

CreateAccountFails(r) ==
  /\ Fault
  /\ pc[r] = "account"
  /\ UNCHANGED accounts \/ accounts' = accounts \cup {r}
  /\ Reply(r, "INTERNAL_ERROR")
  /\ UNCHANGED <<users, form, token>>

\* the process ends, the requests it was working on get no response
Exit ==
  /\ Fault
  /\ pc' = [r \in People |-> IF pc[r] = "idle" THEN "idle" ELSE "done"]
  /\ UNCHANGED <<users, accounts, form, answer, token>>

Finished == (\A r \in People : pc[r] = "done") /\ UNCHANGED vars

Work ==
  \/ \E r \in People : Refuse(r) \/ Accept(r) \/ FindFails(r)
  \/ \E r \in Signups : \/ FindByEmail(r) \/ Create(r) \/ CreateAccount(r)
                        \/ CreateFails(r) \/ CreateAccountFails(r)
  \/ \E r \in Logins : Login(r)

Next == Work \/ Exit \/ Finished

Spec == Init /\ [][Next]_vars

-------------------------------------------------------------------------------
\* Type invariant: the rows auth.go makes and the answers of handler/auth.go.
TypeOK ==
  /\ users \subseteq Signups
  /\ accounts \subseteq users
  /\ form \in [People -> Forms]
  /\ pc \in [People -> {"idle", "find", "create", "account", "done"}]
  /\ answer \in [People -> Codes]
  /\ token \in [People -> users \cup {NoUser}]
  /\ faults \in 0 .. MaxFaults

(***************************************************************************)
(* An address has one user, and all tokens ever given for it, by sign-up   *)
(* or login, are that user's, though sign-ups with the same address can    *)
(* pass the check of auth.go:58 together and the hash between check and    *)
(* insert takes long.                                                      *)
(***************************************************************************)
OneUserPerEmail ==
  /\ \A u, v \in users : EmailOf(u) = EmailOf(v) => u = v
  /\ \A q, r \in People :
       EmailOf(q) = EmailOf(r) /\ NoUser \notin {token[q], token[r]} =>
         token[q] = token[r]

(***************************************************************************)
(* A 201 stands for a user and an account, both committed, whatever failed *)
(* before the response (auth.go:81-97 has no transaction); and without     *)
(* failures a user lacks an account only while its own sign-up is between  *)
(* auth.go:81 and :86.                                                     *)
(***************************************************************************)
CreatedIsComplete ==
  /\ \A r \in Signups : answer[r] = "CREATED" => r \in users /\ r \in accounts
  /\ faults = 0 => \A u \in users \ accounts : pc[u] = "account"

(***************************************************************************)
(* A sign-up that was refused, 400 or 409, has left no user behind: the    *)
(* address belongs to somebody else or is free for the next try.           *)
(***************************************************************************)
RefusedLeavesNothing ==
  \A r \in Signups : answer[r] \in {"BAD_REQUEST", "EMAIL_CONFLICT"} =>
    /\ r \notin users
    /\ answer[r] = "EMAIL_CONFLICT" => Registered(EmailOf(r)) # {}

(***************************************************************************)
(* Without failures, of the acceptable sign-ups for one address exactly    *)
(* one is answered 201 when all have been answered: the duplicates do not  *)
(* all lose, nor do two of them win.                                       *)
(***************************************************************************)
OneWinner ==
  faults = 0 => \A e \in Emails :
    LET rivals == {r \in Signups : EmailOf(r) = e /\ form[r].password = "fit"}
    IN rivals # {} /\ (\A r \in rivals : pc[r] = "done") =>
         Cardinality({r \in rivals : answer[r] = "CREATED"}) = 1

(***************************************************************************)
(* "The mileage account is created at the same time" (auth.go:85; "users   *)
(* ||--|| mileage_accounts : 1:1", README.md:121): a sign-up that has      *)
(* inserted its user does not end without the account.  Not if the INSERT  *)
(* of CreateAccount (auth.go:86) fails or the process ends before it: the  *)
(* user can log in and has no miles, and the address is taken for good.    *)
(* Refuted by TLC.                                                         *)
(***************************************************************************)
UsersHaveAccounts ==
  [][\A r \in Signups :
       pc[r] = "account" /\ pc'[r] = "done" => r \in accounts']_vars

(***************************************************************************)
(* Refinement: the check for a duplicate, the hash, the two INSERTs of     *)
(* auth.go:58-92 and the failures between them come to an address that is  *)
(* taken at one instant, an account opened later, and tokens for the       *)
(* owner.                                                                  *)
(***************************************************************************)
OwnerOf(e) ==
  IF Registered(e) = {} THEN NoUser ELSE CHOOSE u \in users : EmailOf(u) = e

Addresses == INSTANCE AddressBook WITH
          wanted <- [r \in People |-> EmailOf(r)],
          owner  <- [e \in Emails |-> OwnerOf(e)]

ImplementsAddressBook == Addresses!Spec
===============================================================================
