----------------------------- MODULE MileageDomain -----------------------------
(***************************************************************************)
(* The data of internal/domain/mileage and of the two tables that hold it: *)
(* the account aggregate with its operations Grant and Redeem, and the     *)
(* rows of mileage_transactions with their unique idempotency key.         *)
(***************************************************************************)
EXTENDS Integers

CONSTANTS
  MaxInt64,   \* the largest int64: 2^63 - 1, a small number for TLC
  Users,      \* the user ids a token can name
  Keys,       \* non-empty values of the Idempotency-Key header
  Collate,    \* Collate[k]: what the column's collation compares k as
  Reasons,    \* values of the request's reason
  NoAccount   \* stands for the missing row of mileage_accounts

\* the int64 fields are machine words in Go and BIGINT columns in MySQL
Int64  == (-MaxInt64 - 1) .. MaxInt64
Amount == 1 .. MaxInt64

\* versions are counted in Nat: one per booking, they never come near 2^63
Account    == [balance : Int64, version : Nat]
NewAccount == [balance |-> 0, version |-> 0]

ASSUME DomainAssumption ==
  /\ MaxInt64 \in Nat \ {0}
  /\ Collate \in [Keys -> Keys]
  /\ NoAccount \notin Account

-------------------------------------------------------------------------------
Types == {"grant", "redeem"}

(***************************************************************************)
(* Mutants: definitions below as a plausible bug would leave them; the     *)
(* runs must notice each of them (README.md, "Mutants").                   *)
(***************************************************************************)
\* the sum is not kept in 64 bits
MutAddInt64Unbounded(a, b) == a + b

\* a.Version++ is forgotten
MutGrantSameVersion(a, amount) ==
  [balance |-> a.balance + amount, version |-> a.version]

\* a.Balance <= amount
MutCoversStrict(type, a, amount) == type = "redeem" => a.balance > amount

\* no check of the balance
MutCoversAlways(type, a, amount) == TRUE

-------------------------------------------------------------------------------
\* a.Balance += amount for a positive amount: Go's addition wraps silently
AddInt64(a, b) ==
  IF a + b > MaxInt64 THEN a + b - 2 * (MaxInt64 + 1) ELSE a + b

\* The methods check amount > 0 once more; GrantRedeem!Valid has done so, and
\* their ErrInvalidAmount cannot come
Grant(a, amount) ==
  [balance |-> AddInt64(a.balance, amount), version |-> a.version + 1]

Redeem(a, amount) ==
  [balance |-> a.balance - amount, version |-> a.version + 1]

Apply(type, a, amount) ==
  IF type = "grant" THEN Grant(a, amount) ELSE Redeem(a, amount)

\* Redeem's check; Grant has none beyond amount > 0
Covers(type, a, amount) == type = "redeem" => a.balance >= amount

-------------------------------------------------------------------------------
Row(ids) == [id : ids, user : Users, type : Types, key : Keys,
             amount : Amount, reason : Reasons]

\* what a row is to have added to the balance: for the properties
Signed(row) == IF row.type = "grant" THEN row.amount ELSE - row.amount

\* equality under uk_transactions_idempotency and in the lookup's WHERE clause
SameKey(x, y) ==
  /\ x.user = y.user
  /\ x.type = y.type
  /\ Collate[x.key] = Collate[y.key]
===============================================================================
