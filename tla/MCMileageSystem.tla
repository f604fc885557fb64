---------------------------- MODULE MCMileageSystem ----------------------------
(***************************************************************************)
(* Instances of MileageSystem for TLC.                                     *)
(***************************************************************************)
EXTENDS MileageSystem, TLC

Content(types, keys) ==
  [user : Users, type : types, key : keys, amount : {1}, reason : Reasons]

\* a grant, a redemption and duplicates of both
BothTypes == Content({"grant", "redeem"}, Keys)

\* grants only: every request that does not fail moves the balance
OnlyGrants == Content({"grant"}, Keys)

MCCollate == [k \in Keys |-> k]

\* everybody types the same password
MCForms == [email : Emails, password : {"fit"}]

SystemSymmetry == Permutations(Requests) \cup Permutations(Readers)
                    \cup Permutations(Users) \cup Permutations(Emails)
===============================================================================
