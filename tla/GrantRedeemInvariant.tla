-------------------------- MODULE GrantRedeemInvariant --------------------------
(***************************************************************************)
(* The inductive invariant of GrantRedeem, from which GrantRedeem_proofs   *)
(* derives its safety properties.  Most of it says what a request that is  *)
(* between two statements of its transaction may rely on although other    *)
(* requests go on: the locks it holds, and a committed state of the        *)
(* account that the object in its memory was made from.                    *)
(***************************************************************************)
EXTENDS GrantRedeem

\* the account object was loaded and changed, the id made
Loaded(r) == pc[r] \in {"insert", "update", "commit"}

\* the output of the use case is complete
Booked(r) == pc[r] = "invalidate" \/ Answered(r, "OK")

Version(u) == account[u].version

\* past holds one state per version, the newest is the present one
History ==
  \A u \in Users :
    IF account[u] = NoAccount THEN past[u] = {}
    ELSE /\ account[u] \in past[u]
         /\ \A a \in past[u] : a.version <= Version(u)
         /\ \A a, b \in past[u] : a.version = b.version => a = b

\* rows belong to accounts and were written by the request their id names
Rows ==
  \A row \in ledger :
    /\ account[row.user] # NoAccount
    /\ \/ pc[row.id[1]] = "invalidate"
       \/ /\ pc[row.id[1]] = "done"
          /\ err[row.id[1]] \in {"nil", "error", "crashed", "closed"}

\* locks are held from the statement that takes them to the end of the
\* transaction, and exclude each other
Locks ==
  /\ \A r \in Requests :
       /\ "share" \in held[r] =>
            pc[r] \in {"insert", "update", "commit", "rollback"}
       /\ "row" \in held[r] => pc[r] \in {"update", "commit", "rollback"}
       /\ "account" \in held[r] => pc[r] \in {"commit", "rollback"}
       /\ pc[r] \in {"update", "commit"} => "row" \in held[r]
       /\ pc[r] = "commit" => "account" \in held[r]
  /\ \A q, r \in Requests : q # r =>
       /\ "row" \in held[q] /\ "row" \in held[r] =>
            ~ SameKey(input[q], input[r])
       /\ "account" \in held[q] /\ "account" \in held[r] => User(q) # User(r)

\* a row that was inserted and not committed is still the only one of its key
Pending ==
  \A r \in Requests : "row" \in held[r] =>
    \A row \in ledger : ~ SameKey(row, input[r])

\* what the memory of a request was computed from; under the lock on the
\* account it is the present state
MemoryOf(r) ==
  Loaded(r) =>
    /\ txid[r] = <<r, attempt[r]>>
    /\ \E a \in past[User(r)] :
         /\ a.version = expected[r]
         /\ Covers(input[r].type, a, input[r].amount)
         /\ acct[r] = Apply(input[r].type, a, input[r].amount)
    /\ pc[r] = "commit" => Version(User(r)) = expected[r]

\* which errors a request can carry, and that its content was checked
Control ==
  \A r \in Requests :
    /\ pc[r] \notin {"rollback", "done"} => err[r] = "nil"
    /\ pc[r] = "rollback" =>
         err[r] \in {"error", "ErrInsufficientBalance", "ErrAlreadyProcessed",
                     "ErrOptimisticLock"}
    /\ pc[r] \notin {"idle", "done"} => Valid(input[r])
    /\ pc[r] # "done" => attempt[r] < MaxRetries
    /\ pc[r] = "idle" => attempt[r] = 0

\* answers, and a replay on its way to one, name a row that is there
AnswerOf(r) ==
  /\ pc[r] = "replay" \/ Booked(r) =>
       \E row \in ledger : /\ row.id = txid[r]
                           /\ SameKey(row, input[r])
                           /\ row.amount = input[r].amount
  /\ Booked(r) => acct[r] \in past[User(r)]

\* each failed attempt was overtaken by a booking since the request arrived
HeadwayOf(r) ==
  LET u == User(r)
  IN /\ account[u] = NoAccount => arrived[r] = 0 /\ attempt[r] = 0
     /\ account[u] # NoAccount /\ pc[r] \notin {"idle", "done"} =>
          Version(u) >= arrived[r] + attempt[r]
     /\ Loaded(r) => expected[r] >= arrived[r] + attempt[r]
     /\ pc[r] = "rollback" /\ err[r] = "ErrOptimisticLock" =>
          account[u] # NoAccount /\ Version(u) > arrived[r] + attempt[r]
     /\ Answered(r, "OPTIMISTIC_LOCK_CONFLICT") =>
          account[u] # NoAccount /\ Version(u) >= arrived[r] + MaxRetries

\* what a refusal was decided on
GroundsOf(r) ==
  /\ pc[r] \in {"rollback", "done"} /\ err[r] = "ErrInsufficientBalance" =>
       \E a \in past[User(r)] : /\ a.version >= arrived[r]
                               /\ a.balance < input[r].amount
  /\ pc[r] = "done" /\ err[r] = "ErrIdempotencyConflict" =>
       \E row \in ledger : /\ SameKey(row, input[r])
                           /\ row.amount # input[r].amount

Memory  == \A r \in Requests : MemoryOf(r)
Answers == \A r \in Requests : AnswerOf(r)
Headway == \A r \in Requests : HeadwayOf(r)
Grounds == \A r \in Requests : GroundsOf(r)

(***************************************************************************)
(* The inductive invariant.  Where a request stands in the loop of         *)
(* grant.go:86-98 decides which locks it holds, from which committed state *)
(* the object in its memory was computed, and how many bookings have       *)
(* overtaken it: together these say that nothing a transaction commits was *)
(* computed from a stale account.                                          *)
(***************************************************************************)
IInv == /\ TypeOK /\ History /\ Rows /\ UniqueKeys /\ Locks /\ Pending
        /\ Memory /\ Control /\ Answers /\ Headway /\ Grounds
===============================================================================
