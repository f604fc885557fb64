----------------------------- MODULE History_proofs -----------------------------
(***************************************************************************)
(* The safety properties of History, for any number of rows, any limits,   *)
(* and ids in any order within a millisecond.                              *)
(***************************************************************************)
EXTENDS History, FiniteSetTheorems, WellFoundedInduction, TLAPS

-------------------------------------------------------------------------------
(* Milliseconds of ids. *)

\* The millisecond grows with the id, and is the one the id was made in.
LEMMA MsFacts ==
  /\ \A a \in Nat : Ms(a) \in Nat
  /\ \A a, b \in Nat : a <= b => Ms(a) <= Ms(b)
  /\ \A m \in Nat : \A id \in (m * PerMs) .. (m * PerMs + PerMs - 1) :
       id \in Nat /\ Ms(id) = m
  <1> USE HistoryAssumption
  <1>1. \A p, q \in Nat : p < q => PerMs * p + PerMs <= PerMs * q
    <2> SUFFICES ASSUME NEW p \in Nat, NEW q \in Nat, p < q
                 PROVE  PerMs * p + PerMs <= PerMs * q
      OBVIOUS
    <2>1. PerMs * (q - p) >= PerMs
      OBVIOUS
    <2>2. PerMs * (q - p) = PerMs * q - PerMs * p
      OBVIOUS
    <2> QED
      BY <2>1, <2>2
  <1>2. \A a \in Nat : /\ Ms(a) \in Nat
                       /\ PerMs * Ms(a) <= a /\ a < PerMs * Ms(a) + PerMs
    BY DEF Ms
  <1>3. \A a, b \in Nat : a <= b => Ms(a) <= Ms(b)
    <2> SUFFICES ASSUME NEW a \in Nat, NEW b \in Nat, a <= b, Ms(b) < Ms(a)
                 PROVE  FALSE
      BY <1>2
    <2>1. PerMs * Ms(b) + PerMs <= PerMs * Ms(a)
      BY <1>1, <1>2
    <2>2. PerMs * Ms(b) \in Nat /\ PerMs * Ms(a) \in Nat
      BY <1>2
    <2> QED
      BY <1>2, <2>1, <2>2
  <1>4. ASSUME NEW m \in Nat, NEW id \in (m * PerMs) .. (m * PerMs + PerMs - 1)
        PROVE  id \in Nat /\ Ms(id) = m
    <2>1. m * PerMs \in Nat /\ m * PerMs = PerMs * m
      OBVIOUS
    <2>2. id \in Nat /\ PerMs * m <= id /\ id < PerMs * m + PerMs
      BY <2>1
    <2>3. PerMs * Ms(id) <= id /\ id < PerMs * Ms(id) + PerMs /\ Ms(id) \in Nat
      BY <2>2, <1>2
    <2>4. PerMs * m \in Nat /\ PerMs * Ms(id) \in Nat
      BY <2>1, <2>3
    <2>5. ~ (Ms(id) < m)
      <3> SUFFICES ASSUME Ms(id) < m PROVE FALSE
        OBVIOUS
      <3>1. PerMs * Ms(id) + PerMs <= PerMs * m
        BY <2>3, <1>1
      <3> QED
        BY <3>1, <2>2, <2>3, <2>4
    <2>6. ~ (m < Ms(id))
      <3> SUFFICES ASSUME m < Ms(id) PROVE FALSE
        OBVIOUS
      <3>1. PerMs * m + PerMs <= PerMs * Ms(id)
        BY <2>3, <1>1
      <3> QED
        BY <3>1, <2>2, <2>3, <2>4
    <2> QED
      BY <2>2, <2>3, <2>5, <2>6
  <1> QED
    BY <1>2, <1>3, <1>4

-------------------------------------------------------------------------------
(* Finite sets of positions and the rank of a position in them. *)

\* A set of natural numbers has a least element, and if bounded a greatest.
LEMMA Extremes ==
  ASSUME NEW S \in SUBSET Nat, S # {}
  PROVE  /\ \E p \in S : \A k \in S : p <= k
         /\ \A n \in Nat : (\A k \in S : k <= n) => \E p \in S : \A k \in S : k <= p
  <1>1. ASSUME NEW T \in SUBSET Nat, T # {}
        PROVE  \E p \in T : \A k \in T : p <= k
    <2>1. PICK p \in T : \A k \in T : ~ (<<k, p>> \in OpToRel(<, Nat))
      BY <1>1, NatLessThanWellFounded, WFMin, Zenon
    <2>2. \A k \in T : ~ (k < p)
      <3> SUFFICES ASSUME NEW k \in T, k < p PROVE FALSE
        OBVIOUS
      <3>1. <<k, p>> \in Nat \X Nat /\ <<k, p>>[1] = k /\ <<k, p>>[2] = p
        OBVIOUS
      <3>2. <<k, p>> \in OpToRel(<, Nat)
        BY <3>1, Zenon DEF OpToRel
      <3> QED
        BY <2>1, <3>2
    <2> QED
      BY <2>2
  <1>2. ASSUME NEW n \in Nat, \A k \in S : k <= n
        PROVE  \E p \in S : \A k \in S : k <= p
    <2> DEFINE T == {n - k : k \in S}
    <2>1. T \in SUBSET Nat /\ T # {}
      <3>1. \A k \in S : n - k \in Nat
        BY <1>2
      <3> QED
        BY <3>1
    <2>2. PICK d \in T : \A k \in T : d <= k
      BY <2>1, <1>1
    <2>3. PICK p \in S : d = n - p
      OBVIOUS
    <2>4. \A k \in S : n - p <= n - k
      BY <2>2, <2>3
    <2> QED
      BY <2>4
  <1> QED
    BY <1>1, <1>2

\* Ranks fall as positions rise.
LEMMA RankFalls ==
  ASSUME NEW S \in SUBSET Nat, IsFiniteSet(S), NEW i \in S, NEW j \in S, i < j
  PROVE  Rank(i, S) \in Nat /\ Rank(j, S) \in Nat /\ Rank(j, S) < Rank(i, S)
  <1> DEFINE Above(k) == {x \in S : x >= k}
  <1>1. /\ Above(j) \in SUBSET Above(i) /\ Above(j) # Above(i)
        /\ Above(i) \in SUBSET S /\ Above(j) \in SUBSET S
    <2>1. i \in Above(i) /\ i \notin Above(j)
      OBVIOUS
    <2>2. \A x \in S : x >= j => x >= i
      OBVIOUS
    <2>3. Above(j) \subseteq Above(i) /\ Above(i) \subseteq S
      BY <2>2
    <2> HIDE DEF Above
    <2> QED
      BY <2>1, <2>3
  <1>2. IsFiniteSet(Above(i)) /\ IsFiniteSet(Above(j))
    BY <1>1, FS_Subset
  <1>3. Rank(i, S) = Cardinality(Above(i)) /\ Rank(j, S) = Cardinality(Above(j))
    BY DEF Rank
  <1> HIDE DEF Above
  <1>4. Cardinality(Above(i)) \in Nat /\ Cardinality(Above(j)) \in Nat
    BY <1>2, FS_CardinalityType
  <1>5. /\ Cardinality(Above(j)) <= Cardinality(Above(i))
        /\ Cardinality(Above(i)) = Cardinality(Above(j)) => Above(i) = Above(j)
    BY <1>1, <1>2, FS_Subset
  <1> QED
    BY <1>1, <1>3, <1>4, <1>5

\* A position has a rank, and is where its rank is.
LEMMA RankOrders ==
  ASSUME NEW S \in SUBSET Nat, IsFiniteSet(S), NEW i \in S, NEW j \in S
  PROVE  /\ Rank(i, S) \in Nat
         /\ Rank(i, S) < Rank(j, S) => j < i
         /\ Rank(i, S) = Rank(j, S) => i = j
  <1>1. {x \in S : x >= i} \in SUBSET S
    OBVIOUS
  <1>2. Rank(i, S) \in Nat
    BY <1>1, FS_Subset, FS_CardinalityType DEF Rank
  <1>3. CASE i < j
    BY <1>3, RankFalls
  <1>4. CASE j < i
    BY <1>4, RankFalls
  <1>5. CASE i = j
    BY <1>2, <1>5
  <1> QED
    BY <1>2, <1>3, <1>4, <1>5

\* Ranks leave no gap: if a position is beyond the first n, then one of them
\* has rank n + 1, and it is not below.
LEMMA RankLeavesNoGap ==
  ASSUME NEW S \in SUBSET Nat, NEW m \in Nat, \A k \in S : k <= m,
         NEW n \in Nat, NEW i \in S, Rank(i, S) > n
  PROVE  \E p \in S : Rank(p, S) = n + 1 /\ i <= p
  <1>0. IsFiniteSet(S)
    BY FS_BoundedSetOfNaturals
  <1> DEFINE Beyond == {k \in S : Rank(k, S) > n}
  <1>1. PICK p \in Beyond : \A k \in Beyond : k <= p
    <2>1. Beyond \in SUBSET Nat /\ i \in Beyond /\ \A k \in Beyond : k <= m
      OBVIOUS
    <2> HIDE DEF Beyond
    <2> QED
      BY <2>1, Extremes
  <1>2. i <= p /\ p \in S /\ Rank(p, S) \in Nat /\ Rank(p, S) > n
    BY <1>0, <1>1, RankOrders
  <1> DEFINE Higher == {x \in S : x > p}
  <1>3. Higher \in SUBSET S /\ IsFiniteSet(Higher) /\ Cardinality(Higher) \in Nat
    <2>1. Higher \in SUBSET S
      OBVIOUS
    <2> QED
      BY <1>0, <2>1, FS_Subset, FS_CardinalityType
  <1>4. Rank(p, S) = Cardinality(Higher) + 1
    <2>0. \A x \in S : x >= p <=> x > p \/ x = p
      BY <1>2
    <2>1. {x \in S : x >= p} = Higher \cup {p} /\ p \notin Higher
      <3>1. p \notin Higher
        BY <1>2
      <3>2. {x \in S : x >= p} \subseteq Higher \cup {p}
        BY <2>0
      <3>3. Higher \cup {p} \subseteq {x \in S : x >= p}
        BY <1>2, <2>0
      <3> QED
        BY <3>1, <3>2, <3>3
    <2> HIDE DEF Higher
    <2>2. Cardinality(Higher \cup {p}) = Cardinality(Higher) + 1
      BY <1>3, <2>1, FS_AddElement
    <2> QED
      BY <2>1, <2>2 DEF Rank
  <1>5. Cardinality(Higher) <= n
    <2>1. CASE Higher = {}
      BY <2>1, FS_EmptySet
    <2>2. CASE Higher # {}
      <3>1. PICK q \in Higher : \A k \in Higher : q <= k
        BY <2>2, Extremes, Higher \in SUBSET Nat
      <3>2. q \in S /\ q > p
        BY <3>1
      <3>3. \A x \in S : x >= q <=> x > p
        BY <3>1, <3>2, <1>2
      <3>4. {x \in S : x >= q} = Higher
        BY <3>3
      <3>5. ~ (Rank(q, S) > n)
        BY <3>2, <1>1, <1>2
      <3> QED
        BY <3>4, <3>5, <1>3 DEF Rank
    <2> QED
      BY <2>1, <2>2
  <1> QED
    BY <1>2, <1>3, <1>4, <1>5

\* The positions of rank n or less are at most n.
LEMMA FewHaveSmallRank ==
  ASSUME NEW S \in SUBSET Nat, IsFiniteSet(S), NEW n \in Nat
  PROVE  LET top == {i \in S : Rank(i, S) <= n}
         IN IsFiniteSet(top) /\ Cardinality(top) <= n
  <1> DEFINE top == {i \in S : Rank(i, S) <= n}
  <1>1. IsFiniteSet(top)
    <2>1. top \in SUBSET S
      OBVIOUS
    <2> QED
      BY <2>1, FS_Subset
  <1>2. CASE top = {}
    <2>1. Cardinality(top) = 0
      BY <1>2, FS_EmptySet
    <2> QED
      BY <1>1, <2>1
  <1>3. CASE top # {}
    <2>1. PICK p \in top : \A k \in top : p <= k
      BY <1>3, Extremes, top \in SUBSET Nat
    <2> DEFINE Above == {x \in S : x >= p}
    <2>2. top \in SUBSET Above /\ Above \in SUBSET S
      BY <2>1
    <2>3. Cardinality(Above) <= n
      BY <2>1 DEF Rank
    <2> HIDE DEF top, Above
    <2>4. IsFiniteSet(Above) /\ Cardinality(top) <= Cardinality(Above)
      BY <2>2, FS_Subset
    <2>5. Cardinality(Above) \in Nat /\ Cardinality(top) \in Nat
      BY <1>1, <2>4, FS_CardinalityType
    <2>6. Cardinality(top) <= n
      BY <2>3, <2>4, <2>5
    <2> QED
      BY <1>1, <2>6 DEF top
  <1> QED
    BY <1>2, <1>3

-------------------------------------------------------------------------------
(* Pages. *)

\* The number of rows a client is given at most.
LEMMA ClampInRange ==
  ASSUME NEW n \in Int
  PROVE  Clamp(n) \in 1 .. MaxLimit
  BY HistoryAssumption DEF Clamp

\* A page and the row after it: the items are the highest positions that are
\* listed, at most n of them, and what is listed and no item is not above the
\* extra row.
LEMMA PageFacts ==
  ASSUME rows \in Seq(Nat), NEW c, NEW n \in Nat
  PROVE  LET items == {rows[i] : i \in Items(c, n)}
         IN /\ Items(c, n) \subseteq Listed(c) /\ Extra(c, n) \subseteq Listed(c)
            /\ \A p, q \in Extra(c, n) : p = q
            /\ \A i \in Items(c, n), p \in Extra(c, n) : p < i
            /\ \A i \in Listed(c) \ Items(c, n) : \E p \in Extra(c, n) : i <= p
            /\ Cardinality(items) \in 0 .. n
  <1> DEFINE S     == Listed(c)
             items == {rows[i] : i \in Items(c, n)}
  <1>1. /\ S \in SUBSET Nat /\ Len(rows) \in Nat /\ \A k \in S : k <= Len(rows)
        /\ S \subseteq DOMAIN rows
    BY DEF Listed
  <1>2. IsFiniteSet(S)
    <2> HIDE DEF S
    <2> QED
      BY <1>1, FS_BoundedSetOfNaturals
  <1>3. Items(c, n) = {i \in S : Rank(i, S) <= n}
        /\ Extra(c, n) = {i \in S : Rank(i, S) = n + 1}
    BY DEF Items, Extra
  <1> HIDE DEF S
  <1>4. \A i, j \in S : /\ Rank(i, S) \in Nat
                        /\ Rank(i, S) < Rank(j, S) => j < i
                        /\ Rank(i, S) = Rank(j, S) => i = j
    BY <1>1, <1>2, RankOrders
  <1>5. \A p, q \in Extra(c, n) : p = q
    BY <1>3, <1>4
  <1>6. \A i \in Items(c, n), p \in Extra(c, n) : p < i
    <2> SUFFICES ASSUME NEW i \in Items(c, n), NEW p \in Extra(c, n) PROVE p < i
      OBVIOUS
    <2>1. i \in S /\ p \in S /\ Rank(i, S) < Rank(p, S)
      BY <1>3, <1>4
    <2> QED
      BY <2>1, <1>4
  <1>7. ASSUME NEW i \in S \ Items(c, n) PROVE \E p \in Extra(c, n) : i <= p
    <2>1. Rank(i, S) > n
      BY <1>3, <1>4
    <2> QED
      BY <2>1, <1>1, <1>3, RankLeavesNoGap
  <1>8. Cardinality(items) \in 0 .. n
    <2>1. IsFiniteSet(Items(c, n)) /\ Cardinality(Items(c, n)) <= n
      BY <1>1, <1>2, <1>3, FewHaveSmallRank
    <2> DEFINE f == [i \in Items(c, n) |-> rows[i]]
    <2>2. f \in Surjection(Items(c, n), items)
      BY DEF Surjection
    <2> HIDE DEF f, items
    <2>3. IsFiniteSet(items) /\ Cardinality(items) <= Cardinality(Items(c, n))
      BY <2>1, <2>2, FS_Surjection
    <2>4. Cardinality(items) \in Nat /\ Cardinality(Items(c, n)) \in Nat
      BY <2>1, <2>3, FS_CardinalityType
    <2> QED
      BY <2>1, <2>3, <2>4
  <1> QED
    BY <1>3, <1>5, <1>6, <1>7, <1>8 DEF S

(***************************************************************************)
(* One step of Fetch, without ranks: the client gets the items; either     *)
(* they are all that is listed, and it is through, or the row that follows *)
(* becomes its cursor.                                                     *)
(***************************************************************************)
Page(L, I) ==
  /\ L = Listed(cursor) /\ I \subseteq L
  /\ shown' = shown \cup {rows[i] : i \in I}
  /\ repeated' = repeated \cup (shown \cap {rows[i] : i \in I})
  /\ start' = IF walk = "start" THEN Ids ELSE start
  /\ UNCHANGED <<rows, ms, limit>>
  /\ size' \in 0 .. MaxLimit

LastPage(L, I) ==
  I = L /\ walk' = "end" /\ cursor' = NoCursor /\ cursors' = cursors

PageBefore(L, I, p) ==
  /\ p \in L /\ p \notin I
  /\ \A i \in L : i \in I <=> p < i
  /\ walk' = "going" /\ cursor' = rows[p] /\ cursors' = cursors \cup {rows[p]}

\* Fetch is one of the two.
LEMMA FetchFacts ==
  ASSUME TypeOK, Fetch
  PROVE  /\ walk # "end"
         /\ \E L, I : /\ Page(L, I)
                      /\ LastPage(L, I) \/ \E p : PageBefore(L, I, p)
  <1> DEFINE n == Clamp(limit)
             L == Listed(cursor)
             I == Items(cursor, n)
             X == Extra(cursor, n)
  <1>1. n \in 1 .. MaxLimit /\ rows \in Seq(Nat)
    BY ClampInRange, HistoryAssumption DEF TypeOK
  <1>2. /\ I \subseteq L /\ X \subseteq L
        /\ \A p, q \in X : p = q
        /\ \A i \in I, p \in X : p < i
        /\ \A i \in L \ I : \E p \in X : i <= p
        /\ Cardinality({rows[i] : i \in I}) \in 0 .. n
    <2>1. n \in Nat
      BY <1>1, HistoryAssumption
    <2> HIDE DEF n
    <2> QED
      BY <1>1, <2>1, PageFacts
  <1>3. L \subseteq Nat
    BY <1>1 DEF Listed
  <1>4. Page(L, I)
    <2>1. size' \in 0 .. MaxLimit
      BY <1>1, <1>2, HistoryAssumption DEF Fetch
    <2> QED
      BY <1>2, <2>1 DEF Fetch, Page
  <1>5. CASE X = {}
    <2>1. I = L
      BY <1>2, <1>5
    <2>2. walk' = "end" /\ cursor' = NoCursor /\ cursors' = cursors
      BY <1>5 DEF Fetch
    <2> QED
      BY <1>4, <2>1, <2>2 DEF LastPage, Fetch
  <1>6. CASE X # {}
    <2>1. PICK p \in X : X = {p}
      BY <1>2, <1>6
    <2>2. {rows[i] : i \in X} = {rows[p]}
      BY <2>1
    <2>3. walk' = "going" /\ cursor' = rows[p] /\ cursors' = cursors \cup {rows[p]}
      BY <2>2 DEF Fetch
    <2>4. p \in L /\ p \notin I /\ \A i \in L : i \in I <=> p < i
      BY <1>2, <1>3, <2>1
    <2>5. PageBefore(L, I, p)
      BY <2>3, <2>4 DEF PageBefore
    <2> QED
      BY <1>4, <2>5 DEF Fetch
  <1> QED
    BY <1>5, <1>6

-------------------------------------------------------------------------------
(***************************************************************************)
(* The inductive invariant.  InTime: milliseconds do not fall along the    *)
(* rows.  Walk: where the client is.  Local: a client between two pages    *)
(* has seen nothing of a millisecond before its cursor's, and what it has  *)
(* missed after that millisecond shares one with a cursor.  Exact: the     *)
(* same to the id, if the ids are in order.                                *)
(***************************************************************************)
InTime ==
  /\ \A i, j \in DOMAIN rows : i < j => Ms(rows[i]) <= Ms(rows[j])
  /\ \A i \in DOMAIN rows : Ms(rows[i]) <= ms

Walk ==
  /\ walk = "going" => cursor \in cursors
  /\ walk # "going" => cursor = NoCursor
  /\ walk = "start" => start = {} /\ shown = {} /\ cursors = {}

Near(id) == \E c \in cursors : Ms(id) = Ms(c)

Local ==
  /\ \A id \in repeated : Near(id)
  /\ walk = "going" => \A id \in shown : Ms(cursor) <= Ms(id)
  /\ walk = "going" => \A id \in start \ shown : Ms(id) <= Ms(cursor) \/ Near(id)
  /\ walk = "end" => \A id \in start \ shown : Near(id)

Exact ==
  /\ repeated = {} /\ shown \cap cursors = {} /\ cursors \subseteq start
  /\ \A id \in Ids, s \in start : id <= s => id \in start
  /\ walk = "going" => /\ \A id \in shown : cursor < id
                       /\ \A c \in cursors : cursor <= c
                       /\ \A id \in start : cursor <= id => id \in shown \cup cursors
  /\ walk = "end" => start \subseteq shown \cup cursors

HistoryInv == TypeOK /\ InTime /\ Walk /\ Local /\ (Ordered => Exact)

\* The invariant holds before the first row and the first page.
LEMMA InitEstablishesHistoryInv == Init => HistoryInv
  <1> SUFFICES ASSUME Init PROVE HistoryInv
    OBVIOUS
  <1>1. DOMAIN rows = {} /\ rows \in Seq(Nat)
    BY DEF Init
  <1> QED
    BY <1>1, HistoryAssumption DEF Init, HistoryInv, TypeOK, InTime, Walk, Local,
       Exact, Ids

\* The listed positions, and the ids on a page.
LEMMA PageIds ==
  ASSUME TypeOK, NEW L, NEW I, Page(L, I)
  PROVE  /\ \A i \in DOMAIN rows : rows[i] \in Nat /\ rows[i] \in Ids
         /\ \A id \in Ids : \E i \in DOMAIN rows : id = rows[i]
         /\ \A i \in L : i \in DOMAIN rows
         /\ cursor # NoCursor =>
              \A i \in DOMAIN rows : i \in L <=> rows[i] < cursor
         /\ cursor = NoCursor => L = DOMAIN rows
         /\ Ids \subseteq Nat /\ Ids' = Ids
  <1>1. rows \in Seq(Nat) /\ rows' = rows
    BY DEF TypeOK, Page
  <1>2. \A i \in DOMAIN rows : rows[i] \in Nat /\ rows[i] \in Ids
    BY <1>1 DEF Ids
  <1>3. L = {i \in DOMAIN rows : cursor # NoCursor => rows[i] < cursor}
    BY DEF Page, Listed
  <1>4. \A id \in Ids : \E i \in DOMAIN rows : id = rows[i]
    BY DEF Ids
  <1>5. Ids \subseteq Nat
    BY <1>2, <1>4
  <1>6. Ids' = Ids
    BY <1>1 DEF Ids
  <1> QED
    BY <1>2, <1>3, <1>4, <1>5, <1>6

\* Types are kept by Fetch.
LEMMA FetchKeepsTypes == HistoryInv /\ Fetch => TypeOK'
  <1> SUFFICES ASSUME HistoryInv, Fetch PROVE TypeOK'
    OBVIOUS
  <1> USE DEF HistoryInv
  <1>1. PICK L, I : Page(L, I) /\ (LastPage(L, I) \/ \E p : PageBefore(L, I, p))
    BY FetchFacts
  <1>2. \A i \in DOMAIN rows : rows[i] \in Ids
    BY <1>1, PageIds
  <1>3. {rows[i] : i \in I} \subseteq Ids /\ Ids' = Ids
    BY <1>1, <1>2, PageIds DEF Page
  <1>4. CASE LastPage(L, I)
    BY <1>1, <1>3, <1>4 DEF TypeOK, Page, LastPage
  <1>5. ASSUME NEW p, PageBefore(L, I, p) PROVE TypeOK'
    <2>1. rows[p] \in Ids
      BY <1>1, <1>2, <1>5, PageIds DEF PageBefore
    <2> QED
      BY <1>1, <1>3, <1>5, <2>1 DEF TypeOK, Page, PageBefore
  <1> QED
    BY <1>1, <1>4, <1>5

\* Walk and Local are kept by Fetch: the page lies below the old cursor, and
\* the new one below the page.
LEMMA FetchKeepsLocal == HistoryInv /\ Fetch => Walk' /\ Local'
  <1> SUFFICES ASSUME HistoryInv, Fetch PROVE Walk' /\ Local'
    OBVIOUS
  <1> USE DEF HistoryInv
  <1>1. walk # "end" /\ NoCursor \notin Nat
    BY FetchFacts, HistoryAssumption
  <1>2. PICK L, I : Page(L, I) /\ (LastPage(L, I) \/ \E p : PageBefore(L, I, p))
    BY FetchFacts
  <1>3. Walk'
    BY <1>1, <1>2 DEF LastPage, PageBefore, Walk
  <1> DEFINE items == {rows[i] : i \in I}
  <1>4. /\ shown' = shown \cup items /\ repeated' = repeated \cup (shown \cap items)
        /\ start' \subseteq Ids /\ cursors \subseteq cursors' /\ rows' = rows
        /\ start \subseteq Ids /\ cursors \subseteq Ids /\ shown \subseteq Ids
    BY <1>2 DEF Page, LastPage, PageBefore, TypeOK
  <1>5. walk \in {"start", "going"}
    BY <1>1 DEF TypeOK
  <1>6. walk = "going" => cursor \in cursors /\ cursor \in Nat /\ cursor # NoCursor
    BY <1>1, <1>2, <1>4, PageIds DEF Walk
  <1>7. walk = "start" => cursor = NoCursor /\ shown = {} /\ L = DOMAIN rows
    BY <1>2, PageIds DEF Walk
  <1>8. \A id \in repeated' : Near(id)'
    <2> SUFFICES ASSUME NEW id \in shown \cap items PROVE Near(id)'
      BY <1>4 DEF Local, Near
    <2>1. walk = "going"
      BY <1>5, <1>7
    <2>2. id < cursor /\ id \in Nat
      BY <1>2, <1>6, <2>1, PageIds DEF Page
    <2>3. Ms(id) <= Ms(cursor) /\ Ms(cursor) <= Ms(id)
      BY <1>6, <2>1, <2>2, MsFacts DEF Local
    <2>4. Ms(id) = Ms(cursor)
      BY <1>6, <2>1, <2>2, <2>3, MsFacts
    <2> QED
      BY <1>4, <1>6, <2>1, <2>4 DEF Near
  <1>9. ASSUME NEW i \in DOMAIN rows, rows[i] \in start', i \notin L
        PROVE  rows[i] \in shown \/ Near(rows[i])'
    <2>1. walk = "going"
      BY <1>5, <1>7, <1>9
    <2>2. rows[i] \in start /\ rows[i] \in Nat /\ cursor <= rows[i]
      <3>1. start' = start
        BY <1>2, <2>1 DEF Page
      <3>2. rows[i] \in Nat /\ ~ (rows[i] < cursor)
        BY <1>2, <1>6, <1>9, <2>1, PageIds
      <3> QED
        BY <1>6, <1>9, <2>1, <3>1, <3>2
    <2>3. Ms(cursor) <= Ms(rows[i])
      BY <1>6, <2>1, <2>2, MsFacts
    <2>4. rows[i] \in shown \/ Ms(rows[i]) = Ms(cursor) \/ Near(rows[i])
      BY <1>6, <2>1, <2>2, <2>3, MsFacts DEF Local
    <2> QED
      BY <1>4, <1>6, <2>1, <2>4 DEF Near
  <1>10. CASE LastPage(L, I)
    <2>1. ASSUME NEW id \in start' \ shown' PROVE Near(id)'
      <3>1. PICK i \in DOMAIN rows : id = rows[i]
        BY <1>2, <1>4, <2>1, PageIds
      <3>2. i \notin L
        BY <1>4, <1>10, <2>1, <3>1 DEF LastPage
      <3> QED
        BY <1>4, <1>9, <2>1, <3>1, <3>2
    <2> QED
      BY <1>3, <1>8, <1>10, <2>1 DEF LastPage, Local
  <1>11. ASSUME NEW p, PageBefore(L, I, p) PROVE Local'
    <2>1. /\ p \in DOMAIN rows /\ rows[p] \in Nat /\ cursor' = rows[p]
          /\ walk' = "going"
      BY <1>2, <1>11, PageIds DEF PageBefore
    <2>2. \A id \in shown' : Ms(cursor') <= Ms(id)
      <3>1. ASSUME NEW i \in I PROVE Ms(rows[p]) <= Ms(rows[i])
        BY <1>2, <1>11, <2>1, PageIds DEF Page, PageBefore, InTime
      <3>2. ASSUME NEW id \in shown PROVE Ms(rows[p]) <= Ms(id)
        <4>1. walk = "going"
          BY <1>5, <1>7, <3>2
        <4>2. rows[p] < cursor /\ id \in Nat
          BY <1>2, <1>4, <1>6, <1>11, <2>1, <4>1, PageIds DEF PageBefore
        <4>3. Ms(rows[p]) <= Ms(cursor) /\ Ms(cursor) <= Ms(id)
          BY <1>6, <2>1, <4>1, <4>2, MsFacts DEF Local
        <4> QED
          BY <1>6, <2>1, <4>1, <4>2, <4>3, MsFacts
      <3> QED
        BY <1>4, <2>1, <3>1, <3>2
    <2>3. ASSUME NEW id \in start' \ shown' PROVE Ms(id) <= Ms(cursor') \/ Near(id)'
      <3>1. PICK i \in DOMAIN rows : id = rows[i]
        BY <1>2, <1>4, <2>3, PageIds
      <3>2. CASE i \notin L
        BY <1>4, <1>9, <2>3, <3>1, <3>2
      <3>3. CASE i \in L
        <4>1. i \notin I
          BY <1>4, <2>3, <3>1
        <4>2. ~ (p < i) /\ i \in Nat /\ p \in Nat
          BY <1>11, <2>1, <3>3, <4>1 DEF PageBefore, TypeOK
        <4>3. CASE i < p
          BY <2>1, <3>1, <4>3 DEF InTime
        <4>4. CASE i = p
          BY <2>1, <3>1, <4>4, MsFacts
        <4> QED
          BY <4>2, <4>3, <4>4
      <3> QED
        BY <3>2, <3>3
    <2> QED
      BY <1>8, <2>1, <2>2, <2>3 DEF Local
  <1> QED
    BY <1>2, <1>3, <1>10, <1>11

\* Exact is kept by Fetch: with ids in order the new cursor is the one listed
\* id that is not shown and not below.
LEMMA FetchKeepsExact == HistoryInv /\ Fetch /\ Ordered' => Exact'
  <1> SUFFICES ASSUME HistoryInv, Fetch, Ordered' PROVE Exact'
    OBVIOUS
  <1> USE DEF HistoryInv
  <1>1. walk # "end" /\ NoCursor \notin Nat
    BY FetchFacts, HistoryAssumption
  <1>2. PICK L, I : Page(L, I) /\ (LastPage(L, I) \/ \E p : PageBefore(L, I, p))
    BY FetchFacts
  <1> DEFINE items == {rows[i] : i \in I}
  <1>3. rows' = rows /\ Ordered
    BY <1>2 DEF Page, Ordered
  <1>4. Exact
    BY <1>3
  <1>5. /\ shown' = shown \cup items /\ repeated' = repeated \cup (shown \cap items)
        /\ start \subseteq Ids /\ cursors \subseteq Ids /\ shown \subseteq Ids
        /\ Ids \subseteq Nat /\ Ids' = Ids
    BY <1>2, PageIds DEF Page, TypeOK
  <1>6. walk \in {"start", "going"}
    BY <1>1 DEF TypeOK
  <1>7. walk = "going" => /\ cursor \in cursors /\ cursor \in Nat /\ cursor # NoCursor
                          /\ start' = start
    BY <1>1, <1>2, <1>5, PageIds DEF Walk, Page
  <1>8. walk = "start" => /\ cursor = NoCursor /\ shown = {} /\ cursors = {}
                          /\ L = DOMAIN rows /\ start' = Ids
    BY <1>2, PageIds DEF Walk, Page
  <1>9. \A i \in L : i \in DOMAIN rows /\ i \in Nat /\ rows[i] \in Nat /\ rows[i] \in Ids
    BY <1>2, PageIds DEF TypeOK
  <1>10. I \subseteq L
    BY <1>2 DEF Page
  <1>11. walk = "going" => \A i \in DOMAIN rows : i \in L <=> rows[i] < cursor
    BY <1>2, <1>7, PageIds
  <1>12. repeated' = {}
    <2>1. ASSUME NEW id \in shown, NEW i \in I, id = rows[i] PROVE FALSE
      <3>1. walk = "going"
        BY <1>6, <1>8, <2>1
      <3> QED
        BY <1>4, <1>5, <1>7, <1>9, <1>10, <1>11, <2>1, <3>1 DEF Exact
    <2> QED
      BY <1>4, <1>5, <2>1 DEF Exact
  <1>13. \A i \in L : rows[i] \in start' /\ rows[i] \notin cursors
    <2> SUFFICES ASSUME NEW i \in L PROVE rows[i] \in start' /\ rows[i] \notin cursors
      OBVIOUS
    <2>1. CASE walk = "start"
      BY <1>8, <1>9, <2>1
    <2>2. CASE walk = "going"
      <3>1. rows[i] < cursor /\ cursor \in start
        BY <1>4, <1>7, <1>9, <1>11, <2>2 DEF Exact
      <3>2. rows[i] \in start
        BY <1>4, <1>7, <1>9, <2>2, <3>1 DEF Exact
      <3> QED
        BY <1>4, <1>5, <1>7, <1>9, <2>2, <3>1, <3>2 DEF Exact
    <2> QED
      BY <1>6, <2>1, <2>2
  <1>14. \A id \in Ids, s \in start' : id <= s => id \in start'
    BY <1>4, <1>6, <1>7, <1>8 DEF Exact
  <1>15. ASSUME NEW id \in start'
         PROVE  id \in shown \cup cursors \/ \E i \in L : id = rows[i]
    <2>1. id \in Ids
      BY <1>5, <1>6, <1>7, <1>8, <1>15
    <2>2. PICK i \in DOMAIN rows : id = rows[i]
      BY <1>2, <2>1, PageIds
    <2>3. CASE i \in L
      BY <2>2, <2>3
    <2>4. CASE i \notin L
      <3>1. walk = "going"
        BY <1>6, <1>8, <2>2, <2>4
      <3>2. id \in start /\ id \in Nat
        BY <1>5, <1>7, <1>15, <2>1, <3>1
      <3>3. ~ (id < cursor)
        BY <1>11, <2>2, <2>4, <3>1
      <3>4. cursor <= id
        BY <1>7, <3>1, <3>2, <3>3
      <3> QED
        BY <1>4, <3>1, <3>2, <3>4 DEF Exact
    <2> QED
      BY <2>3, <2>4
  <1>16. cursors \subseteq start'
    BY <1>4, <1>6, <1>7, <1>8 DEF Exact
  <1>17. CASE LastPage(L, I)
    <2>1. shown' \cap cursors' = {}
      BY <1>4, <1>5, <1>10, <1>13, <1>17 DEF LastPage, Exact
    <2>2. start' \subseteq shown' \cup cursors'
      BY <1>5, <1>15, <1>17 DEF LastPage
    <2> QED
      BY <1>5, <1>12, <1>14, <1>16, <1>17, <2>1, <2>2 DEF LastPage, Exact
  <1>18. ASSUME NEW p, PageBefore(L, I, p) PROVE Exact'
    <2>1. /\ p \in L /\ p \notin I /\ cursor' = rows[p] /\ walk' = "going"
          /\ cursors' = cursors \cup {rows[p]} /\ \A i \in L : i \in I <=> p < i
      BY <1>18 DEF PageBefore
    <2>2. \A i \in L : p < i => rows[p] < rows[i]
      BY <1>3, <1>9, <2>1 DEF Ordered
    <2>3. \A i \in L : i < p => rows[i] < rows[p]
      BY <1>3, <1>9, <2>1 DEF Ordered
    <2>4. \A id \in shown' : rows[p] < id
      <3>1. ASSUME NEW id \in shown PROVE rows[p] < id
        <4>1. walk = "going" /\ id \in Nat
          BY <1>5, <1>6, <1>8, <3>1
        <4>2. rows[p] < cursor /\ cursor < id
          BY <1>4, <1>9, <1>11, <2>1, <4>1 DEF Exact
        <4> QED
          BY <1>7, <1>9, <2>1, <4>1, <4>2
      <3> QED
        BY <1>5, <1>10, <2>1, <2>2, <3>1
    <2>5. shown' \cap cursors' = {}
      <3>1. rows[p] \notin shown'
        BY <1>9, <2>1, <2>4
      <3>2. shown' \cap cursors = {}
        BY <1>4, <1>5, <1>10, <1>13 DEF Exact
      <3> QED
        BY <2>1, <3>1, <3>2
    <2>6. cursors' \subseteq start'
      BY <1>13, <1>16, <2>1
    <2>7. \A c \in cursors' : rows[p] <= c
      <3>1. ASSUME NEW c \in cursors PROVE rows[p] <= c
        <4>1. walk = "going" /\ c \in Nat
          BY <1>5, <1>6, <1>8, <3>1
        <4>2. rows[p] < cursor /\ cursor <= c
          BY <1>4, <1>9, <1>11, <2>1, <4>1 DEF Exact
        <4> QED
          BY <1>7, <1>9, <2>1, <4>1, <4>2
      <3> QED
        BY <1>9, <2>1, <3>1
    <2>8. ASSUME NEW id \in start', rows[p] <= id PROVE id \in shown' \cup cursors'
      <3>1. CASE id \in shown \cup cursors
        BY <1>5, <2>1, <3>1
      <3>2. ASSUME NEW i \in L, id = rows[i] PROVE id \in shown' \cup cursors'
        <4>1. i = p \/ p < i
          BY <1>9, <2>1, <2>3, <2>8, <3>2
        <4> QED
          BY <1>5, <2>1, <3>2, <4>1
      <3> QED
        BY <1>15, <3>1, <3>2
    <2> QED
      BY <1>5, <1>12, <1>14, <2>1, <2>4, <2>5, <2>6, <2>7, <2>8 DEF Exact
  <1> QED
    BY <1>2, <1>17, <1>18

\* A booking adds one row, the last, of the present millisecond.
LEMMA BookFacts ==
  ASSUME TypeOK, Book
  PROVE  \E id \in Nat :
           /\ Ms(id) = ms /\ rows' = Append(rows, id) /\ Ids' = Ids \cup {id}
           /\ rows \in Seq(Nat) /\ rows' \in Seq(Nat)
           /\ Len(rows) \in Nat /\ Len(rows') = Len(rows) + 1
           /\ \A i \in DOMAIN rows : i \in DOMAIN rows' /\ rows'[i] = rows[i]
           /\ \A i \in DOMAIN rows' : i \in DOMAIN rows \/ i = Len(rows')
           /\ rows'[Len(rows')] = id /\ Len(rows') \in DOMAIN rows'
           /\ UNCHANGED ms /\ UNCHANGED clientVars
  <1>1. PICK id \in (ms * PerMs) .. (ms * PerMs + PerMs - 1) : rows' = Append(rows, id)
    BY DEF Book
  <1>2. id \in Nat /\ Ms(id) = ms
    BY MsFacts, HistoryAssumption DEF TypeOK
  <1>3. rows \in Seq(Nat)
    BY DEF TypeOK
  <1>4. /\ rows' \in Seq(Nat) /\ Len(rows) \in Nat /\ Len(rows') = Len(rows) + 1
        /\ DOMAIN rows = 1 .. Len(rows) /\ DOMAIN rows' = 1 .. Len(rows) + 1
        /\ \A i \in 1 .. Len(rows) : rows'[i] = rows[i]
        /\ rows'[Len(rows) + 1] = id
    BY <1>1, <1>2, <1>3
  <1>5. Ids' = Ids \cup {id}
    <2>1. \A i \in DOMAIN rows' : rows'[i] \in Ids \cup {id}
      BY <1>4 DEF Ids
    <2>2. \A i \in DOMAIN rows : rows[i] \in Ids'
      BY <1>4 DEF Ids
    <2>3. id \in Ids'
      BY <1>4 DEF Ids
    <2> QED
      BY <2>1, <2>2, <2>3 DEF Ids
  <1> QED
    BY <1>1, <1>2, <1>3, <1>4, <1>5 DEF Book

\* The invariant is kept by Book: the new row is after every page.
LEMMA BookKeepsHistoryInv == HistoryInv /\ Book => HistoryInv'
  <1> SUFFICES ASSUME HistoryInv, Book PROVE HistoryInv'
    OBVIOUS
  <1> USE DEF HistoryInv
  <1>1. PICK id \in Nat :
           /\ Ms(id) = ms /\ Ids' = Ids \cup {id}
           /\ rows \in Seq(Nat) /\ rows' \in Seq(Nat)
           /\ Len(rows) \in Nat /\ Len(rows') = Len(rows) + 1
           /\ \A i \in DOMAIN rows : i \in DOMAIN rows' /\ rows'[i] = rows[i]
           /\ \A i \in DOMAIN rows' : i \in DOMAIN rows \/ i = Len(rows')
           /\ rows'[Len(rows')] = id /\ Len(rows') \in DOMAIN rows'
           /\ UNCHANGED ms /\ UNCHANGED clientVars
    BY BookFacts
  <1>2. \A i \in DOMAIN rows : i \in Nat /\ i < Len(rows') /\ rows[i] \in Ids
    BY <1>1 DEF Ids
  <1>3. TypeOK'
    BY <1>1 DEF TypeOK, clientVars
  <1>4. InTime'
    <2>1. ms \in Nat
      BY HistoryAssumption DEF TypeOK
    <2>2. ASSUME NEW i \in DOMAIN rows' PROVE Ms(rows'[i]) <= ms
      BY <1>1, <2>1, <2>2 DEF InTime
    <2>3. ASSUME NEW i \in DOMAIN rows', NEW j \in DOMAIN rows', i < j
          PROVE  Ms(rows'[i]) <= Ms(rows'[j])
      <3>1. CASE j \in DOMAIN rows
        <4>1. i \in DOMAIN rows
          BY <1>1, <1>2, <2>3, <3>1
        <4> QED
          BY <1>1, <2>3, <3>1, <4>1 DEF InTime
      <3>2. CASE j = Len(rows')
        BY <1>1, <2>2, <3>2
      <3> QED
        BY <1>1, <3>1, <3>2
    <2> QED
      BY <1>1, <2>2, <2>3 DEF InTime
  <1>5. Walk' /\ Local'
    BY <1>1 DEF clientVars, Walk, Local, Near
  <1>6. ASSUME Ordered' PROVE Exact'
    <2>1. \A i \in DOMAIN rows : rows[i] < id
      BY <1>1, <1>2, <1>6 DEF Ordered
    <2>2. Ordered
      BY <1>1, <1>6 DEF Ordered
    <2>3. Ids \subseteq Nat /\ \A s \in Ids : s < id
      BY <1>1, <2>1 DEF Ids
    <2>4. start \subseteq Ids
      BY DEF TypeOK
    <2>5. \A x \in Ids', s \in start : x <= s => x \in start
      <3>1. ASSUME NEW s \in start, id <= s PROVE FALSE
        <4>1. s \in Nat /\ s < id
          BY <2>3, <2>4, <3>1
        <4> QED
          BY <3>1, <4>1
      <3>2. \A x \in Ids, s \in start : x <= s => x \in start
        BY <2>2 DEF Exact
      <3> QED
        BY <1>1, <3>1, <3>2
    <2> QED
      BY <1>1, <2>2, <2>5 DEF clientVars, Exact
  <1> QED
    BY <1>3, <1>4, <1>5, <1>6

\* The invariant is inductive.
LEMMA NextKeepsHistoryInv == HistoryInv /\ [Next]_vars => HistoryInv'
  <1> SUFFICES ASSUME HistoryInv, [Next]_vars PROVE HistoryInv'
    OBVIOUS
  <1>1. CASE Fetch
    <2>1. InTime'
      BY <1>1 DEF HistoryInv, InTime, Fetch
    <2> QED
      BY <1>1, <2>1, FetchKeepsTypes, FetchKeepsLocal, FetchKeepsExact DEF HistoryInv
  <1>2. CASE Book
    BY <1>2, BookKeepsHistoryInv
  <1>3. CASE Tick
    <2>1. /\ ms' = ms + 1 /\ ms' \in 0 .. MaxMs /\ UNCHANGED <<rows, clientVars>>
      BY <1>3, HistoryAssumption DEF Tick, HistoryInv, TypeOK
    <2>2. \A i \in DOMAIN rows : Ms(rows[i]) \in Nat
      BY MsFacts DEF HistoryInv, TypeOK
    <2>3. InTime'
      BY <2>1, <2>2, HistoryAssumption DEF HistoryInv, TypeOK, InTime
    <2> QED
      BY <2>1, <2>3 DEF HistoryInv, TypeOK, Walk, Local, Near, Exact, Ordered, Ids,
         clientVars
  <1>4. CASE Finished \/ UNCHANGED vars
    BY <1>4 DEF Finished, vars, HistoryInv, TypeOK, InTime, Walk, Local, Near, Exact,
       Ordered, Ids
  <1> QED
    BY <1>1, <1>2, <1>3, <1>4 DEF Next

(***************************************************************************)
(* The invariant holds in every reachable state of the client and the      *)
(* table it pages through.                                                 *)
(***************************************************************************)
THEOREM HistoryInvariantHolds == Spec => []HistoryInv
  BY InitEstablishesHistoryInv, NextKeepsHistoryInv, PTL DEF Spec

(***************************************************************************)
(* Rows, cursors and pages keep their types; no page is longer than        *)
(* MaxLimit (transactions.go:44).                                          *)
(***************************************************************************)
THEOREM HistoryTypeCorrect == Spec => []TypeOK
  <1>1. HistoryInv => TypeOK
    BY DEF HistoryInv
  <1> QED
    BY <1>1, HistoryInvariantHolds, PTL

(***************************************************************************)
(* A row that is missed or shown twice shares the millisecond of a cursor, *)
(* whatever is booked meanwhile (mileage_repository.go:163).               *)
(***************************************************************************)
THEOREM DamageStaysLocal == Spec => []DamageIsLocal
  <1>1. HistoryInv => DamageIsLocal
    BY DEF HistoryInv, Local, Near, DamageIsLocal
  <1> QED
    BY <1>1, HistoryInvariantHolds, PTL

(***************************************************************************)
(* With ids in order the rows that became next_cursor (transactions.go:59) *)
(* are missed, all of them, and no other.                                  *)
(***************************************************************************)
THEOREM CursorsAreMissed == Spec => []OnlyCursorsAreMissed
  <1>1. HistoryInv => OnlyCursorsAreMissed
    BY DEF HistoryInv, Exact, OnlyCursorsAreMissed
  <1> QED
    BY <1>1, HistoryInvariantHolds, PTL

(***************************************************************************)
(* Each next_cursor is below the one before, in whatever order ids came.   *)
(***************************************************************************)
THEOREM CursorsAlwaysDescend == Spec => CursorsDescend
  <1>1. HistoryInv /\ [Next]_vars =>
          [NoCursor \notin {cursor, cursor'} /\ cursor' # cursor => cursor' < cursor]_vars
    <2> SUFFICES ASSUME HistoryInv, Next, cursor # NoCursor, cursor' # NoCursor,
                        cursor' # cursor
                 PROVE  cursor' < cursor
      OBVIOUS
    <2>1. Fetch
      BY DEF Next, Book, Tick, Finished, clientVars, vars
    <2>2. PICK L, I, p : Page(L, I) /\ PageBefore(L, I, p)
      BY <2>1, FetchFacts DEF HistoryInv, LastPage
    <2> QED
      BY <2>2, PageIds DEF HistoryInv, PageBefore
  <1> QED
    BY <1>1, HistoryInvariantHolds, PTL DEF Spec, CursorsDescend
===============================================================================
