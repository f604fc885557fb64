----------------------------- MODULE MileageSystem -----------------------------
(***************************************************************************)
(* MileageService composed with Signup: one process, one database, one     *)
(* connection pool.  A sign-up's second INSERT is what opens an account    *)
(* for the requests; the token in the response of a sign-up or login is    *)
(* what lets a client send them (middleware/auth.go); the end of the       *)
(* process ends them all.  Sign-ups are named by the user they make, so    *)
(* Signup's Signups are the Users here and its accounts are the rows of    *)
(* mileage_accounts.                                                       *)
(***************************************************************************)
EXTENDS MileageService

CONSTANTS Logins, Emails, NoEmail, NoUser, Forms    \* as in Signup

VARIABLES
  users,      \* the table users
  form,       \* sign-up or login |-> its email and password
  stage,      \* sign-up or login |-> the statement it executes next
  answer,     \* sign-up or login |-> code of the response
  token,      \* sign-up or login |-> the user the JWT in the response is for
  mishaps     \* failures of sign-ups and logins so far

Members == {u \in Users : account[u] # NoAccount}

S == INSTANCE Signup WITH
       Signups <- Users, accounts <- Members, pc <- stage, faults <- mishaps

ASSUME SystemAssumption ==
  /\ Forms \subseteq S!Form
  /\ NoEmail \notin Emails
  /\ NoUser \notin Users
  /\ Users \cap Logins = {}

signupVars == <<users, form, stage, answer, token, mishaps>>
systemVars == <<serviceVars, signupVars>>

SystemInit == ServiceInit /\ S!Init

-------------------------------------------------------------------------------
(***************************************************************************)
(* Mutants of the definitions below (README.md, "Mutants").                *)
(***************************************************************************)
\* the routes are not behind Auth
MutAuthenticatedAlways(u) == TRUE

-------------------------------------------------------------------------------
\* middleware/auth.go: a request gets through with a token signed by this
\* server, which names the user.  Without one, or with an expired one, it is
\* answered 401 and nothing happens: not a step
Authenticated(u) == \E q \in S!People : token[q] = u

\* what a sign-up or login does not touch: all but the account it opens
othersVars == <<ledger, cache, pc, input, attempt, acct, expected, err, txid,
                held, faults, arrived, readerVars, late>>

NoAccountOpens == UNCHANGED <<account, past>>
AccountOpens   == \E u \in Users : OpenAccount(u)

\* each statement of a sign-up or login takes a connection of the pool
Register(r) ==
  /\ NoAccountOpens \/ AccountOpens
  /\ UNCHANGED othersVars
  /\ \/ S!Refuse(r) \/ S!Accept(r)
     \/ ConnFree /\ r \in Users /\ (S!FindByEmail(r) \/ S!Create(r) \/ S!CreateAccount(r))
     \/ ConnFree /\ r \in Logins /\ S!Login(r)

RegisterFails(r) ==
  /\ NoAccountOpens \/ AccountOpens
  /\ UNCHANGED othersVars
  /\ \/ S!FindFails(r)
     \/ r \in Users /\ (S!CreateFails(r) \/ S!CreateAccountFails(r))

Serve(r) ==
  /\ pc[r] = "idle" => Authenticated(User(r))
  /\ Step(r)
  /\ UNCHANGED <<readerVars, late, signupVars>>

ServeFails(r) ==
  /\ StatementFails(r) \/ CommitFails(r) \/ InvalidateFails(r)
  /\ UNCHANGED <<readerVars, late, signupVars>>

ServeRead(b) ==
  /\ at[b] = "get" => Authenticated(asker[b])
  /\ Read(b)
  /\ UNCHANGED signupVars

ServeReadFails(b) ==
  /\ at[b] = "get" => Authenticated(asker[b])
  /\ GetFails(b) \/ LoadFails(b) \/ SetFails(b)
  /\ UNCHANGED signupVars

Expire(u) == CacheExpire(u) /\ UNCHANGED signupVars

SystemExit == ServiceExit /\ S!Exit

\* whoever has a token has been served
SystemFinished ==
  /\ \A r \in S!People : stage[r] = "done"
  /\ \A r \in Requests : IF Authenticated(User(r)) THEN pc[r] = "done"
                                                   ELSE pc[r] = "idle"
  /\ \A b \in Readers : IF Authenticated(asker[b]) THEN at[b] \in {"done", "failed"}
                                                   ELSE at[b] = "get"
  /\ UNCHANGED systemVars

SystemNext ==
  \/ \E r \in S!People : Register(r) \/ RegisterFails(r)
  \/ \E r \in Requests : Serve(r) \/ ServeFails(r)
  \/ \E b \in Readers : ServeRead(b) \/ ServeReadFails(b)
  \/ \E u \in Users : Expire(u)
  \/ SystemExit
  \/ SystemFinished

SystemSpec == SystemInit /\ [][SystemNext]_systemVars

\* goroutines run, InnoDB grants locks and database/sql hands out connections
\* in the order they were asked for, and an entry expires; nothing is assumed
\* of failures, nor that a client sends anything
FairSystemSpec ==
  /\ SystemSpec
  /\ \A r \in S!People : WF_systemVars(stage[r] # "idle" /\ Register(r))
  /\ \A r \in Requests : WF_systemVars(pc[r] # "idle" /\ Serve(r))
  /\ \A b \in Readers : WF_systemVars(at[b] # "get" /\ ServeRead(b))
  /\ \A u \in Users : WF_systemVars(Expire(u))

-------------------------------------------------------------------------------
(***************************************************************************)
(* Nobody's miles move or are shown before a token for that user was given *)
(* out, and that user is in the table: what is behind Auth cannot be       *)
(* reached for a user whose sign-up did not answer, even when the account  *)
(* is there already (router.go:64, auth.go:86-93).                         *)
(***************************************************************************)
OnlyMembersAreServed ==
  LET members == users \cap {token[q] : q \in S!People}
  IN /\ \A row \in ledger : row.user \in members
     /\ \A b \in Readers : at[b] = "done" => asker[b] \in members

(***************************************************************************)
(* A user who was told 201 has an account for good: no booking and no      *)
(* balance request of theirs finds none, whatever fails and whenever the   *)
(* process ends (grant.go:123, balance.go:56).  A token from a login does  *)
(* not give as much: the login may have come between the two INSERTs of    *)
(* the sign-up.                                                            *)
(***************************************************************************)
MembersHaveAccounts ==
  [][/\ \A r \in Requests :
          pc[r] = "read" /\ err'[r] = "error" /\ faults' = faults =>
            answer[User(r)] # "CREATED"
     /\ \A b \in Readers :
          at[b] = "load" /\ at'[b] = "failed" /\ faults' = faults =>
            answer[asker[b]] # "CREATED"]_systemVars

(***************************************************************************)
(* Liveness: every sign-up and login that was accepted ends, though its    *)
(* statements and the bookings share the connections of the pool (db.go:   *)
(* 19); a booking keeps its connection while it waits for a row lock.      *)
(***************************************************************************)
EverySignupEnds == \A r \in S!People : stage[r] = "find" ~> stage[r] = "done"
===============================================================================
