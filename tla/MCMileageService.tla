---------------------------- MODULE MCMileageService ----------------------------
(***************************************************************************)
(* Instances of MileageService for TLC.                                    *)
(***************************************************************************)
EXTENDS MileageService, TLC

\* grants only: every request that does not fail moves the balance
OnlyGrants ==
  [user : Users, type : {"grant"}, key : Keys, amount : {1}, reason : Reasons]

MCCollate == [k \in Keys |-> k]
===============================================================================
