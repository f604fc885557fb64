-------------------------- MODULE MileageLedger_proofs --------------------------
(***************************************************************************)
(* Proofs about MileageLedger: its books balance.  An implementation's     *)
(* books then balance too, whatever it adds.                               *)
(*                                                                         *)
(* The sum of a set of rows is computed one row at a time, so what it is   *)
(* for every set is proved by induction on the number of rows: if some set *)
(* were a counterexample there would be a smallest one.                    *)
(***************************************************************************)
EXTENDS MileageLedger, FiniteSetTheorems, WellFoundedInduction, TLAPS

\* A set of natural numbers has a least element.
LEMMA LeastNumber ==
  ASSUME NEW T \in SUBSET Nat, T # {}
  PROVE  \E p \in T : \A k \in T : p <= k
  <1>1. PICK p \in T : \A k \in T : ~ (<<k, p>> \in OpToRel(<, Nat))
    BY NatLessThanWellFounded, WFMin, Zenon
  <1>2. \A k \in T : ~ (k < p)
    <2> SUFFICES ASSUME NEW k \in T, k < p PROVE FALSE
      OBVIOUS
    <2>1. <<k, p>> \in Nat \X Nat /\ <<k, p>>[1] = k /\ <<k, p>>[2] = p
      OBVIOUS
    <2>2. <<k, p>> \in OpToRel(<, Nat)
      BY <2>1, Zenon DEF OpToRel
    <2> QED
      BY <1>1, <2>2
  <1> QED
    BY <1>2

\* Among finite sets, one with the fewest elements.
LEMMA SmallestSet ==
  ASSUME NEW F, F # {}, \A S \in F : IsFiniteSet(S)
  PROVE  \E S \in F : \A T \in F : Cardinality(S) <= Cardinality(T)
  <1> DEFINE sizes == {Cardinality(S) : S \in F}
  <1>1. sizes \in SUBSET Nat /\ sizes # {}
    BY FS_CardinalityType
  <1>2. PICK n \in sizes : \A k \in sizes : n <= k
    BY <1>1, LeastNumber
  <1> QED
    BY <1>2

-------------------------------------------------------------------------------
(* MapThenSumSet picks a row, adds it, and goes on with the rest. *)

First(S) == CHOOSE row \in S : TRUE
Rest(S)  == S \ {First(S)}

IsSum(f, D) ==
  f = [S \in D |-> IF S = {} THEN 0 ELSE Signed(First(S)) + f[Rest(S)]]

SumOf(S) == CHOOSE f : IsSum(f, SUBSET S)

\* Net is the library's definition of a sum, with the recursion in the open.
LEMMA NetIsSum == ASSUME NEW S PROVE Net(S) = SumOf(S)[S]
  BY DEF Net, MapThenSumSet, MapThenFoldSet, First, Rest, IsSum, SumOf

\* What is left is one row less.
LEMMA RestIsSmaller ==
  ASSUME NEW S, IsFiniteSet(S), S # {}
  PROVE  /\ First(S) \in S /\ Rest(S) \subseteq S
         /\ IsFiniteSet(Rest(S)) /\ Cardinality(Rest(S)) = Cardinality(S) - 1
         /\ Cardinality(Rest(S)) \in Nat /\ Cardinality(S) \in Nat
  <1>1. First(S) \in S
    BY DEF First
  <1> QED
    BY <1>1, FS_RemoveElement, FS_CardinalityType DEF Rest

\* The recursion defines the sums of all the parts of a finite set.
LEMMA SumExists ==
  ASSUME NEW U, IsFiniteSet(U)
  PROVE  IsSum(SumOf(U), SUBSET U)
  <1> DEFINE upto(n) == {S \in SUBSET U : Cardinality(S) <= n}
             missing == {n \in Nat : ~ \E f : IsSum(f, upto(n))}
  <1>1. \A S \in SUBSET U : IsFiniteSet(S) /\ Cardinality(S) \in Nat
    BY FS_Subset, FS_CardinalityType
  <1>2. \E f : IsSum(f, upto(0))
    <2>1. \A S \in upto(0) : S = {}
      BY <1>1, FS_EmptySet
    <2>2. IsSum([S \in upto(0) |-> 0], upto(0))
      BY <2>1 DEF IsSum
    <2> QED
      BY <2>2
  <1>3. ASSUME NEW n \in Nat, NEW f, IsSum(f, upto(n))
        PROVE  \E g : IsSum(g, upto(n + 1))
    <2> DEFINE g == [S \in upto(n + 1) |->
                       IF S = {} THEN 0 ELSE Signed(First(S)) + f[Rest(S)]]
    <2>1. \A S \in upto(n) : g[S] = f[S]
      <3>1. \A S \in upto(n) : S \in upto(n + 1)
        BY <1>1
      <3>2. \A S \in upto(n) :
              f[S] = IF S = {} THEN 0 ELSE Signed(First(S)) + f[Rest(S)]
        BY <1>3 DEF IsSum
      <3> QED
        BY <3>1, <3>2
    <2>2. \A S \in upto(n + 1) : S # {} => Rest(S) \in upto(n)
      BY <1>1, RestIsSmaller
    <2>3. \A S \in upto(n + 1) : S # {} => f[Rest(S)] = g[Rest(S)]
      BY <2>1, <2>2
    <2>4. g = [S \in upto(n + 1) |->
                 IF S = {} THEN 0 ELSE Signed(First(S)) + g[Rest(S)]]
      BY <2>3
    <2> QED
      BY <2>4 DEF IsSum
  <1>4. missing = {}
    <2> SUFFICES ASSUME missing # {} PROVE FALSE
      OBVIOUS
    <2>1. PICK n \in missing : \A k \in missing : n <= k
      BY LeastNumber
    <2>2. n # 0
      BY <1>2
    <2>3. n - 1 \in Nat /\ n - 1 \notin missing /\ n = (n - 1) + 1
      <3>1. n \in Nat /\ n - 1 \in Nat /\ ~ (n <= n - 1) /\ n = (n - 1) + 1
        BY <2>2
      <3>2. n - 1 \notin missing
        BY <2>1, <3>1
      <3> QED
        BY <3>1, <3>2
    <2>4. \E f : IsSum(f, upto(n - 1))
      BY <2>3
    <2>5. \E g : IsSum(g, upto((n - 1) + 1))
      BY <1>3, <2>3, <2>4
    <2> QED
      BY <2>3, <2>5
  <1>5. Cardinality(U) \in Nat /\ upto(Cardinality(U)) = SUBSET U
    BY FS_Subset, FS_CardinalityType
  <1>6. \E f : IsSum(f, upto(Cardinality(U)))
    BY <1>4, <1>5
  <1>7. \E f : IsSum(f, SUBSET U)
    BY <1>5, <1>6
  <1> QED
    BY <1>7 DEF SumOf

\* The sum of a part does not depend on the set it is taken from.
LEMMA SumIsUnique ==
  ASSUME NEW U, IsFiniteSet(U), NEW f, IsSum(f, SUBSET U),
         NEW V \in SUBSET U, NEW g, IsSum(g, SUBSET V)
  PROVE  f[V] = g[V]
  <1> DEFINE differ == {S \in SUBSET V : f[S] # g[S]}
  <1>1. \A S \in SUBSET V : IsFiniteSet(S)
    BY FS_Subset
  <1>2. differ = {}
    <2> SUFFICES ASSUME differ # {} PROVE FALSE
      OBVIOUS
    <2>1. PICK S \in differ : \A T \in differ : Cardinality(S) <= Cardinality(T)
      BY <1>1, SmallestSet
    <2>2. /\ f[S] = IF S = {} THEN 0 ELSE Signed(First(S)) + f[Rest(S)]
          /\ g[S] = IF S = {} THEN 0 ELSE Signed(First(S)) + g[Rest(S)]
      BY DEF IsSum
    <2>3. S # {} /\ f[Rest(S)] # g[Rest(S)]
      BY <2>2
    <2>4. Rest(S) \in differ
      BY <2>3 DEF Rest
    <2> QED
      BY <1>1, <2>1, <2>3, <2>4, RestIsSmaller
  <1> QED
    BY <1>2

\* The sum of a set is one of its rows and the sum of the others.
LEMMA NetUnfolds ==
  ASSUME NEW S, IsFiniteSet(S)
  PROVE  Net(S) = IF S = {} THEN 0 ELSE Signed(First(S)) + Net(Rest(S))
  <1>1. SumOf(S)[S] = IF S = {} THEN 0 ELSE Signed(First(S)) + SumOf(S)[Rest(S)]
    BY SumExists DEF IsSum
  <1>2. ASSUME S # {} PROVE SumOf(S)[Rest(S)] = SumOf(Rest(S))[Rest(S)]
    <2>1. Rest(S) \in SUBSET S /\ IsFiniteSet(Rest(S))
      BY <1>2, RestIsSmaller
    <2>2. IsSum(SumOf(S), SUBSET S) /\ IsSum(SumOf(Rest(S)), SUBSET Rest(S))
      BY <2>1, SumExists
    <2> QED
      BY <2>1, <2>2, SumIsUnique
  <1> QED
    BY <1>1, <1>2, NetIsSum

\* The sum of rows is a number.
LEMMA NetType ==
  ASSUME NEW S, IsFiniteSet(S), S \subseteq Row(Ids)
  PROVE  Net(S) \in Int
  <1> DEFINE bad == {T \in SUBSET S : Net(T) \notin Int}
  <1>1. \A T \in bad : IsFiniteSet(T)
    BY FS_Subset
  <1>2. bad = {}
    <2> SUFFICES ASSUME bad # {} PROVE FALSE
      OBVIOUS
    <2>1. PICK T \in bad : \A R \in bad : Cardinality(T) <= Cardinality(R)
      BY <1>1, SmallestSet
    <2>2. T # {} /\ Net(T) = Signed(First(T)) + Net(Rest(T))
      BY <1>1, NetUnfolds
    <2>3. First(T) \in T /\ Rest(T) \in SUBSET S /\ Rest(T) \notin bad
      BY <1>1, <2>1, <2>2, RestIsSmaller
    <2>4. Signed(First(T)) \in Int
      <3>1. First(T) \in Row(Ids)
        BY <2>3
      <3> QED
        BY <3>1, DomainAssumption DEF Row, Amount, Signed
    <2> QED
      BY <2>2, <2>3, <2>4
  <1> QED
    BY <1>2

\* A new row changes the sum by its own amount, wherever First comes to it.
LEMMA NetAddsRow ==
  ASSUME NEW S, IsFiniteSet(S), NEW r, r \notin S, S \cup {r} \subseteq Row(Ids)
  PROVE  Net(S \cup {r}) = Net(S) + Signed(r)
  <1> DEFINE all    == S \cup {r}
             Adds(T) == \A x \in all \ T : Net(T \cup {x}) = Net(T) + Signed(x)
             bad    == {T \in SUBSET all : ~ Adds(T)}
  <1>1. IsFiniteSet(all) /\ \A T \in SUBSET all : IsFiniteSet(T)
    BY FS_AddElement, FS_Subset
  <1>2. /\ \A T \in SUBSET all : Net(T) \in Int
        /\ \A x \in all : Signed(x) \in Int
    BY <1>1, NetType, DomainAssumption DEF Row, Amount, Signed
  <1>3. bad = {}
    <2> SUFFICES ASSUME bad # {} PROVE FALSE
      OBVIOUS
    <2>1. PICK T \in bad : \A R \in bad : Cardinality(T) <= Cardinality(R)
      BY <1>1, SmallestSet
    <2>2. PICK x \in all \ T : Net(T \cup {x}) # Net(T) + Signed(x)
      OBVIOUS
    <2>3. PICK p \in T \cup {x} :
            Net(T \cup {x}) = Signed(p) + Net((T \cup {x}) \ {p})
      <3>1. T \cup {x} \in SUBSET all /\ IsFiniteSet(T \cup {x})
        BY <1>1
      <3> QED
        BY <3>1, RestIsSmaller, NetUnfolds DEF Rest
    <2>4. /\ Net(T) \in Int /\ Net(T \ {p}) \in Int
          /\ Signed(x) \in Int /\ Signed(p) \in Int
      BY <1>2
    <2>5. CASE p = x
      <3>1. (T \cup {x}) \ {p} = T
        BY <2>5
      <3>2. Net(T \cup {x}) = Signed(x) + Net(T)
        BY <2>3, <2>5, <3>1
      <3> QED
        BY <2>2, <2>4, <3>2
    <2>6. CASE p # x
      <3>1. /\ p \in T /\ T \ {p} \in SUBSET all
            /\ (T \cup {x}) \ {p} = (T \ {p}) \cup {x} /\ T = (T \ {p}) \cup {p}
            /\ p \in all \ (T \ {p}) /\ x \in all \ (T \ {p})
        BY <2>6
      <3>2. T \ {p} \notin bad
        <4>1. IsFiniteSet(T) /\ Cardinality(T) \in Nat
          BY <1>1, FS_CardinalityType
        <4>2. Cardinality(T \ {p}) = Cardinality(T) - 1
          BY <3>1, <4>1, FS_RemoveElement
        <4> QED
          BY <2>1, <4>1, <4>2
      <3>3. /\ Net((T \ {p}) \cup {x}) = Net(T \ {p}) + Signed(x)
            /\ Net((T \ {p}) \cup {p}) = Net(T \ {p}) + Signed(p)
        BY <3>1, <3>2
      <3>4. /\ Net(T \cup {x}) = Signed(p) + (Net(T \ {p}) + Signed(x))
            /\ Net(T) = Net(T \ {p}) + Signed(p)
        BY <2>3, <3>1, <3>3
      <3> QED
        BY <2>2, <2>4, <3>4
    <2> QED
      BY <2>5, <2>6
  <1> QED
    BY <1>3

-------------------------------------------------------------------------------
Word == 2 * (MaxInt64 + 1)

\* What int64 arithmetic keeps: balance and sum differ by whole words.
Differ(b, n) == \E k \in Int : b - n = k * Word

LEMMA WordsVanish ==
  ASSUME NEW b \in Int, NEW n \in Int, Differ(b, n)
  PROVE  (b - n) % Word = 0
  <1>1. Word \in Nat \ {0}
    BY DomainAssumption DEF Word
  <1>2. \A k \in Int : (k * Word) % Word = 0
    BY <1>1, Z3
  <1> QED
    BY <1>2 DEF Differ

\* A booking changes both by its amount, an overflow the balance by a word more.
LEMMA BookingKeepsDifference ==
  ASSUME NEW row \in Row(Ids), NEW a \in Account, NEW n \in Int,
         Covers(row.type, a, row.amount), Differ(a.balance, n)
  PROVE  /\ Apply(row.type, a, row.amount) \in Account
         /\ Apply(row.type, a, row.amount).version = a.version + 1
         /\ Differ(Apply(row.type, a, row.amount).balance, n + Signed(row))
  <1> DEFINE b     == Apply(row.type, a, row.amount).balance
             added == a.balance + Signed(row)
  <1>1. /\ Apply(row.type, a, row.amount) \in Account
        /\ Apply(row.type, a, row.amount).version = a.version + 1
    BY DomainAssumption
       DEF Row, Types, Amount, Account, Int64, Apply, Grant, Redeem, Covers,
           AddInt64
  <1>2. /\ a.balance \in Int /\ Signed(row) \in Int /\ Word \in Int
        /\ b = added \/ b = added - Word
    BY DomainAssumption
       DEF Row, Types, Amount, Account, Int64, Signed, Apply, Grant, Redeem,
           AddInt64, Word
  <1> HIDE DEF b
  <1>3. PICK k \in Int : a.balance - n = k * Word
    BY DEF Differ
  <1>4. b - (n + Signed(row)) = k * Word \/ b - (n + Signed(row)) = (k - 1) * Word
    <2>1. k * Word \in Int /\ (k - 1) * Word = k * Word - Word
      BY <1>2
    <2>2. added - (n + Signed(row)) = k * Word
      BY <1>2, <1>3
    <2>3. added - Word - (n + Signed(row)) = k * Word - Word
      BY <1>2, <2>1, <2>2
    <2> QED
      BY <1>2, <2>1, <2>2, <2>3
  <1> QED
    BY <1>1, <1>4 DEF Differ, b

(***************************************************************************)
(* The inductive invariant.  It must say that the accounts are accounts,   *)
(* that there are finitely many rows, and that the two tables differ by    *)
(* whole words: a remainder of zero alone is not kept by the provers.      *)
(***************************************************************************)
LedgerInv ==
  /\ account \in [Users -> Account \cup {NoAccount}]
  /\ ledger \subseteq Row(Ids) /\ IsFiniteSet(ledger)
  /\ \A u \in Users :
       IF account[u] = NoAccount
       THEN RowsOf(u) = {}
       ELSE /\ account[u].version = Cardinality(RowsOf(u))
            /\ Differ(account[u].balance, Net(RowsOf(u)))

\* Nobody has rows or an account at first.
LEMMA InitBalances == Init => LedgerInv
  <1> SUFFICES ASSUME Init PROVE LedgerInv
    OBVIOUS
  <1> QED
    BY FS_EmptySet DEF Init, LedgerInv, RowsOf

\* An account that opens has a balance of zero and no rows.
LEMMA OpenBalances ==
  ASSUME LedgerInv, NEW u \in Users, Open(u)
  PROVE  LedgerInv'
  <1>1. NewAccount \in Account /\ NewAccount # NoAccount
    BY DomainAssumption DEF NewAccount, Account, Int64
  <1>2. RowsOf(u) = {} /\ ledger' = ledger /\ \A v : RowsOf(v)' = RowsOf(v)
    BY DEF LedgerInv, Open, RowsOf
  <1>3. account'[u] = NewAccount /\ \A v \in Users \ {u} : account'[v] = account[v]
    BY DEF LedgerInv, Open
  <1>4. /\ NewAccount.version = Cardinality({})
        /\ Differ(NewAccount.balance, Net({}))
    <2>1. Net({}) = 0 /\ 0 - 0 = 0 * Word
      BY FS_EmptySet, NetUnfolds, DomainAssumption DEF Word
    <2> QED
      BY <2>1, FS_EmptySet DEF NewAccount, Differ
  <1>5. account' \in [Users -> Account \cup {NoAccount}]
    BY <1>1 DEF LedgerInv, Open
  <1> QED
    BY <1>1, <1>2, <1>3, <1>4, <1>5 DEF LedgerInv

\* A booking adds one row and moves the balance by its signed amount.
LEMMA BookBalances ==
  ASSUME LedgerInv, NEW row \in Row(Ids), Book(row)
  PROVE  LedgerInv'
  <1> DEFINE u    == row.user
             a    == account[u]
             rows == RowsOf(u)
  <1>1. u \in Users /\ a \in Account /\ Covers(row.type, a, row.amount)
    BY DEF LedgerInv, Book, Row
  <1>2. /\ ledger' = ledger \cup {row} /\ row \notin ledger
        /\ ledger' \subseteq Row(Ids) /\ IsFiniteSet(ledger')
    BY FS_AddElement DEF LedgerInv, Book
  <1>3. IsFiniteSet(rows) /\ row \notin rows /\ rows \cup {row} \subseteq Row(Ids)
    BY <1>2, FS_Subset DEF LedgerInv, RowsOf
  <1>4. /\ RowsOf(u)' = rows \cup {row}
        /\ \A v \in Users \ {u} : RowsOf(v)' = RowsOf(v)
    BY <1>2 DEF RowsOf
  <1>5. /\ Cardinality(rows \cup {row}) = Cardinality(rows) + 1
        /\ Net(rows \cup {row}) = Net(rows) + Signed(row) /\ Net(rows) \in Int
    BY <1>3, FS_AddElement, NetAddsRow, NetType
  <1>6. a.version = Cardinality(rows) /\ Differ(a.balance, Net(rows))
    BY <1>1, DomainAssumption DEF LedgerInv
  <1> DEFINE b == Apply(row.type, a, row.amount)
  <1>7. /\ b \in Account /\ b.version = Cardinality(rows \cup {row})
        /\ Differ(b.balance, Net(rows \cup {row}))
    BY <1>1, <1>5, <1>6, BookingKeepsDifference
  <1>8. /\ account' = [account EXCEPT ![u] = b]
        /\ account' \in [Users -> Account \cup {NoAccount}]
    BY <1>7 DEF LedgerInv, Book
  <1>9. account'[u] = b /\ \A v \in Users \ {u} : account'[v] = account[v]
    BY <1>1, <1>8 DEF LedgerInv
  <1> HIDE DEF u, b, rows
  <1> QED
    BY <1>1, <1>2, <1>4, <1>7, <1>8, <1>9, DomainAssumption DEF LedgerInv

(***************************************************************************)
(* The tables mileage_accounts and mileage_transactions of the ledger      *)
(* differ by whole words after any number of bookings.                     *)
(***************************************************************************)
THEOREM LedgerInvariantHolds == Spec => []LedgerInv
  <1>1. LedgerInv /\ UNCHANGED <<account, ledger>> => LedgerInv'
    BY DEF LedgerInv, RowsOf
  <1>2. LedgerInv /\ [Next]_<<account, ledger>> => LedgerInv'
    BY <1>1, OpenBalances, BookBalances DEF Next
  <1> QED
    BY <1>2, InitBalances, PTL DEF Spec

(***************************************************************************)
(* The balance is the sum of the rows and the version their number, for    *)
(* any bookings of any users (account.go:26-46).                           *)
(***************************************************************************)
THEOREM LedgerBalances == Spec => []BooksBalance
  <1>1. LedgerInv => BooksBalance
    <2> SUFFICES ASSUME LedgerInv, NEW u \in Users, account[u] # NoAccount
                 PROVE  (account[u].balance - Net(RowsOf(u))) % (2 * (MaxInt64 + 1)) = 0
      BY DEF LedgerInv, BooksBalance
    <2>1. Net(RowsOf(u)) \in Int
      BY FS_Subset, NetType DEF LedgerInv, RowsOf
    <2>2. account[u].balance \in Int /\ Differ(account[u].balance, Net(RowsOf(u)))
      BY DomainAssumption DEF LedgerInv, Account, Int64
    <2> QED
      BY <2>1, <2>2, WordsVanish DEF Word
  <1> QED
    BY <1>1, LedgerInvariantHolds, PTL

(***************************************************************************)
(* No redemption leaves a negative balance (account.go:40), not even on an *)
(* account that overflowed before.                                         *)
(***************************************************************************)
THEOREM LedgerIsCovered == Spec => NoOverdraft
  <1>1. LedgerInv /\ [Next]_<<account, ledger>> =>
          [\A row \in ledger' \ ledger :
             row.type = "redeem" => account'[row.user].balance >= 0]_<<account, ledger>>
    <2> SUFFICES ASSUME LedgerInv, Next, NEW row \in ledger' \ ledger,
                        row.type = "redeem"
                 PROVE  account'[row.user].balance >= 0
      OBVIOUS
    <2>1. row \in Row(Ids) /\ Book(row)
      BY DEF Next, Open, Book
    <2>2. row.user \in Users /\ account[row.user] \in Account
      BY <2>1 DEF LedgerInv, Book, Row
    <2>3. account'[row.user] = Apply("redeem", account[row.user], row.amount)
      BY <2>1, <2>2 DEF LedgerInv, Book
    <2>4. account[row.user].balance >= row.amount
      BY <2>1 DEF Book, Covers
    <2> QED
      BY <2>1, <2>2, <2>3, <2>4, DomainAssumption
         DEF Apply, Redeem, Account, Int64, Row, Amount
  <1> QED
    BY <1>1, LedgerInvariantHolds, PTL DEF Spec, NoOverdraft
===============================================================================
