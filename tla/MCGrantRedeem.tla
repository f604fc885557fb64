----------------------------- MODULE MCGrantRedeem -----------------------------
(***************************************************************************)
(* Instances of GrantRedeem and DocumentedClaims for TLC.                  *)
(***************************************************************************)
EXTENDS DocumentedClaims, GrantRedeemInvariant, TLC

Grants(keys, amounts) ==
  [user : Users, type : {"grant"}, key : keys, amount : amounts, reason : Reasons]
Redeems(keys, amounts) ==
  [user : Users, type : {"redeem"}, key : keys, amount : amounts, reason : Reasons]

\* utf8mb4_unicode_ci does not tell "a" from "A"
MCCollate == [k \in Keys |-> IF k = "A" THEN "a" ELSE k]

\* grants that overflow a small int64, redemptions that drain the balance, one
\* key used with two amounts and in two spellings, an invalid request; three of
\* them that share only the account, so that one can lose twice
MixedInputs ==
  Grants({"a"}, {2, 3}) \cup Grants({"A", "b"}, {2}) \cup Redeems({"a", "b"}, {2})
    \cup Grants({NoKey}, {1}) \cup Redeems({"a"}, {0})

\* amounts of which two are more than a small int64
LargeGrants == Grants(Keys, {2})

\* a duplicate grant, and a redemption that the grant just covers
FewInputs == Grants({"a"}, {1}) \cup Redeems({"a"}, {1})

RequestSymmetry == Permutations(Requests)
===============================================================================
