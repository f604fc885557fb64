-------------------------------- MODULE History --------------------------------
(***************************************************************************)
(* GET /v1/mileage/transactions: the pages of TransactionsUsecase.Execute  *)
(* and ListTransactions, fetched one after another by a client while the   *)
(* user's miles go on being booked.                                        *)
(*                                                                         *)
(* Rows are sorted by created_at and cut by id.  Bookings of one account   *)
(* do not overlap (a booking reads the version its predecessor committed,  *)
(* GrantRedeem_proofs!BookingsDoNotOverlap), so created_at follows the     *)
(* commits; an id is a ULID, milliseconds first and random bits after      *)
(* them, so ids follow them except within a millisecond.                   *)
(***************************************************************************)
EXTENDS Integers, Sequences, FiniteSets

CONSTANTS
  PerMs,          \* ids a millisecond offers: 2^80, a small number for TLC
  Limits,         \* values of the limit parameter; what does not parse is 0
  DefaultLimit,   \* 50
  MaxLimit,       \* 100
  NoCursor,       \* the parameter is empty
  MaxBookings,    \* bounds the bookings of one behaviour
  MaxMs           \* bounds the clock

ASSUME HistoryAssumption ==
  /\ PerMs \in Nat \ {0}
  /\ Limits \subseteq Int
  /\ MaxLimit \in Nat \ {0} /\ DefaultLimit \in 1 .. MaxLimit
  /\ NoCursor \notin Nat
  /\ MaxBookings \in Nat
  /\ MaxMs \in Nat

VARIABLES
  rows,       \* ids of the user's rows, in the order of created_at
  ms,         \* the clock, in milliseconds
  limit,      \* the limit parameter of the client's requests
  cursor,     \* the cursor parameter of the client's next request
  walk,       \* "start", "going" or "end"
  start,      \* history: the ids that were there when the client started
  shown,      \* history: ids on the pages so far
  repeated,   \* history: ids that were on two pages
  cursors,    \* history: the values of next_cursor so far
  size        \* history: how many rows the latest page had

vars == <<rows, ms, limit, cursor, walk, start, shown, repeated, cursors, size>>
clientVars == <<limit, cursor, walk, start, shown, repeated, cursors, size>>

Ms(id) == id \div PerMs
Ids    == {rows[i] : i \in DOMAIN rows}

Init ==
  /\ rows = << >>
  /\ ms = 0
  /\ limit \in Limits
  /\ cursor = NoCursor
  /\ walk = "start"
  /\ start = {} /\ shown = {} /\ repeated = {} /\ cursors = {}
  /\ size = 0

-------------------------------------------------------------------------------
(***************************************************************************)
(* Mutants of the definitions below (README.md, "Mutants").                *)
(***************************************************************************)
\* id <= ?
MutListedInclusive(c) ==
  {i \in DOMAIN rows : c # NoCursor => rows[i] <= c}

\* the cursor is compared the wrong way
MutListedAbove(c) ==
  {i \in DOMAIN rows : c # NoCursor => rows[i] > c}

\* i >= input.Limit - 1
MutItemsOneLess(c, n) ==
  {i \in DOMAIN rows : /\ c # NoCursor => rows[i] < c
                       /\ Cardinality({j \in DOMAIN rows : /\ j >= i
                            /\ c # NoCursor => rows[j] < c}) < n}

\* no upper bound, as in the handler
MutClamp(n) == IF n <= 0 THEN DefaultLimit ELSE n

-------------------------------------------------------------------------------
\* the positions of WHERE user_id = ? AND id < ?
Listed(c) == {i \in DOMAIN rows : c # NoCursor => rows[i] < c}

\* how far from the top of ORDER BY created_at DESC
Rank(i, S) == Cardinality({j \in S : j >= i})

Clamp(n) == IF n <= 0 \/ n > MaxLimit THEN DefaultLimit ELSE n

Items(c, n) == {i \in Listed(c) : Rank(i, Listed(c)) <= n}

\* row limit + 1 is fetched to learn whether there is a next page
Extra(c, n) == {i \in Listed(c) : Rank(i, Listed(c)) = n + 1}

Fetch ==
  /\ walk # "end"
  /\ LET items == {rows[i] : i \in Items(cursor, Clamp(limit))}
         extra == {rows[i] : i \in Extra(cursor, Clamp(limit))}
     IN /\ shown' = shown \cup items
        /\ repeated' = repeated \cup (shown \cap items)
        /\ cursors' = cursors \cup extra
        /\ size' = Cardinality(items)
        /\ \/ /\ extra = {}
              /\ walk' = "end"
              /\ cursor' = NoCursor
           \/ /\ walk' = "going"
              /\ cursor' \in extra
  /\ start' = IF walk = "start" THEN Ids ELSE start
  /\ UNCHANGED <<rows, ms, limit>>

\* a grant or redemption: its row is the latest, its id of this millisecond
Book ==
  /\ Len(rows) < MaxBookings
  /\ \E id \in (ms * PerMs) .. (ms * PerMs + PerMs - 1) :
       /\ id \notin Ids
       /\ rows' = Append(rows, id)
  /\ UNCHANGED <<ms, clientVars>>

Tick ==
  /\ ms < MaxMs
  /\ ms' = ms + 1
  /\ UNCHANGED <<rows, clientVars>>

Finished == walk = "end" /\ UNCHANGED vars

Next == Fetch \/ Book \/ Tick \/ Finished

Spec == Init /\ [][Next]_vars

\* the client asks for the next page as long as there is one
FairSpec == Spec /\ WF_vars(Fetch)

-------------------------------------------------------------------------------
\* Type invariant: what transactions.go and its client can hold; no page is
\* longer than MaxLimit, whatever the client asks for.
TypeOK ==
  /\ rows \in Seq(Nat)
  /\ ms \in 0 .. MaxMs
  /\ limit \in Limits
  /\ cursor \in Ids \cup {NoCursor}
  /\ walk \in {"start", "going", "end"}
  /\ start \subseteq Ids
  /\ repeated \subseteq shown /\ shown \subseteq Ids
  /\ cursors \subseteq Ids
  /\ size \in 0 .. MaxLimit

Ordered == \A i, j \in DOMAIN rows : i < j => rows[i] < rows[j]

(***************************************************************************)
(* A row on two pages, and an old row on none, is of the same millisecond  *)
(* as a cursor: nothing that is booked meanwhile moves the pages, and      *)
(* sorting by one column and cutting by another (mileage_repository.go:    *)
(* 163) does damage only where the two orders can differ.                  *)
(***************************************************************************)
DamageIsLocal ==
  LET missed == IF walk = "end" THEN start \ shown ELSE {}
  IN \A id \in repeated \cup missed : \E c \in cursors : Ms(id) = Ms(c)

(***************************************************************************)
(* With ids in order no row is shown twice, and when the client is through *)
(* it has seen all that was there when it began, but exactly the rows that *)
(* became next_cursor (transactions.go:59).                                *)
(***************************************************************************)
OnlyCursorsAreMissed ==
  Ordered => /\ repeated = {}
             /\ walk = "end" => start \ shown = cursors

(***************************************************************************)
(* Each next_cursor is below the one before: a client is never sent round  *)
(* in circles, in whatever order the rows came.                            *)
(***************************************************************************)
CursorsDescend ==
  [][NoCursor \notin {cursor, cursor'} /\ cursor' # cursor => cursor' < cursor]_vars

(***************************************************************************)
(* Liveness: a client that follows next_cursor comes to the last page,     *)
(* though miles are booked all the time.                                   *)
(***************************************************************************)
PagingEnds == <>(walk = "end")

(***************************************************************************)
(* "Gets the list of transactions by cursor" (mileage_repository.go:148;   *)
(* "items are the first 20, next_cursor is the id of the 21st",            *)
(* docs/processing_flow.md:219): following next_cursor to the end shows    *)
(* every row there was, at least with ids in order.  It does not: the next *)
(* page asks for id < cursor (:163), which leaves the 21st out.  Refuted   *)
(* by TLC.                                                                 *)
(***************************************************************************)
EveryRowIsShown == Ordered /\ walk = "end" => start \subseteq shown
===============================================================================
