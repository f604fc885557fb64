---------------------------- MODULE DocumentedClaims ----------------------------
(***************************************************************************)
(* What the comments and documents of the repository say about granting    *)
(* and redeeming miles and the code does not do.  Each is checked by a run *)
(* of its own that finds a counterexample; README.md describes them.       *)
(***************************************************************************)
EXTENDS GrantRedeem

Twin(row, r) == SameKey(row, input[r]) /\ row.amount = input[r].amount

(***************************************************************************)
(* "ErrAlreadyProcessed -> the original result is returned as it is" and   *)
(* "Same key exists? Yes, same content: return the same result"            *)
(* (docs/processing_flow.md:237, :264): a request whose twin is booked is  *)
(* not turned down.  It is when the twin committed after the lookup of     *)
(* grant.go:63 or redeem.go:61: then the insert fails and                  *)
(* handleMileageError, without a case for ErrAlreadyProcessed, answers     *)
(* 500, or the balance that the twin has taken is missing (redeem.go:128)  *)
(* and the answer is 409.                                                  *)
(***************************************************************************)
DuplicateIsReplayed ==
  [][\A r \in Requests :
       /\ err'[r] # err[r]
       /\ err'[r] \in {"ErrAlreadyProcessed", "ErrInsufficientBalance"}
       => ~ \E row \in ledger : Twin(row, r)]_vars

(***************************************************************************)
(* "Grant grants miles (with a check of the invariants)" (account.go:25):  *)
(* a granted row raises the balance.  account.go:30 does not check the     *)
(* addition, and the sum of two accepted amounts can be over the int64.    *)
(***************************************************************************)
GrantRaisesBalance ==
  [][\A row \in ledger' \ ledger :
       row.type = "grant" =>
         account'[row.user].balance > account[row.user].balance]_vars
================================================================================
