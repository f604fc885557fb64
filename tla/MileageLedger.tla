----------------------------- MODULE MileageLedger -----------------------------
(***************************************************************************)
(* What granting and redeeming miles promises: an account opens once and   *)
(* empty; a booking takes effect at one instant, changes the account by    *)
(* exactly its amount, never redeems more than the balance, and happens at *)
(* most once per idempotency key.                                          *)
(* Nothing here has transactions, locks, retries, caches or failures:      *)
(* GrantRedeem is the detailed specification and implements this one.      *)
(***************************************************************************)
EXTENDS MileageDomain, FiniteSets, FiniteSetsExt

CONSTANT Ids    \* transaction ids (ULIDs)

VARIABLES
  account,      \* mileage_accounts: user |-> account or NoAccount
  ledger        \* mileage_transactions: a set of rows

Init == /\ account = [u \in Users |-> NoAccount]
        /\ ledger = {}

\* a user signs up
Open(u) ==
  /\ account[u] = NoAccount
  /\ account' = [account EXCEPT ![u] = NewAccount]
  /\ UNCHANGED ledger

\* one booking: the row and the change of the balance, together
Book(row) ==
  /\ account[row.user] # NoAccount
  /\ \A old \in ledger : ~ SameKey(old, row) /\ old.id # row.id
  /\ Covers(row.type, account[row.user], row.amount)
  /\ account' = [account EXCEPT ![row.user] = Apply(row.type, @, row.amount)]
  /\ ledger' = ledger \cup {row}

Next == (\E u \in Users : Open(u)) \/ (\E row \in Row(Ids) : Book(row))

Spec == Init /\ [][Next]_<<account, ledger>>

-------------------------------------------------------------------------------
RowsOf(u) == {row \in ledger : row.user = u}

Net(rows) == MapThenSumSet(Signed, rows)

(***************************************************************************)
(* The two tables agree: an account has a version for each of its rows and *)
(* the sum of their amounts as its balance, up to the wrap-around of int64 *)
(* (account.go:30).                                                        *)
(***************************************************************************)
BooksBalance ==
  \A u \in Users :
    IF account[u] = NoAccount
    THEN RowsOf(u) = {}
    ELSE /\ account[u].version = Cardinality(RowsOf(u))
         /\ (account[u].balance - Net(RowsOf(u))) % (2 * (MaxInt64 + 1)) = 0

(***************************************************************************)
(* A redemption leaves the balance at zero or more (account.go:40).        *)
(***************************************************************************)
NoOverdraft ==
  [][\A row \in ledger' \ ledger :
       row.type = "redeem" => account'[row.user].balance >= 0]_<<account, ledger>>
===============================================================================
