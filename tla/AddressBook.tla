------------------------------ MODULE AddressBook ------------------------------
(***************************************************************************)
(* What signing up and logging in promise: an address is taken at one      *)
(* instant by one user and never changes hands; only who has an address    *)
(* gets an account, and one; a token is given once, to whoever asks for an *)
(* address by the right of a sign-up or a login, and names its owner.      *)
(* Nothing here checks first and inserts later, fails or is cut off:       *)
(* Signup is the detailed specification and implements this one.           *)
(***************************************************************************)
CONSTANTS
  Signups,    \* the users to be
  People,     \* whoever asks for a token, the sign-ups among them
  Emails,
  NoUser

VARIABLES
  wanted,     \* request |-> the address it names
  owner,      \* address |-> its user, or NoUser
  accounts,   \* the users with an account
  token       \* request |-> the user it may act for, or NoUser

Init ==
  /\ owner = [e \in Emails |-> NoUser]
  /\ accounts = {}
  /\ token = [r \in People |-> NoUser]

Take(u) ==
  /\ wanted[u] \in Emails /\ owner[wanted[u]] = NoUser
  /\ owner' = [owner EXCEPT ![wanted[u]] = u]
  /\ UNCHANGED <<wanted, accounts, token>>

\* the account, and the token with it unless the answer is lost
Open(u) ==
  /\ wanted[u] \in Emails /\ owner[wanted[u]] = u
  /\ u \notin accounts
  /\ accounts' = accounts \cup {u}
  /\ UNCHANGED token \/ (token[u] = NoUser /\ token' = [token EXCEPT ![u] = u])
  /\ UNCHANGED <<wanted, owner>>

LogIn(r) ==
  /\ wanted[r] \in Emails /\ owner[wanted[r]] # NoUser
  /\ token[r] = NoUser
  /\ token' = [token EXCEPT ![r] = owner[wanted[r]]]
  /\ UNCHANGED <<wanted, owner, accounts>>

Next == \/ \E u \in Signups : Take(u) \/ Open(u)
        \/ \E r \in People \ Signups : LogIn(r)

Spec == Init /\ [][Next]_<<wanted, owner, accounts, token>>
===============================================================================
