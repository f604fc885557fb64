-------------------------------- MODULE MCSignup --------------------------------
(***************************************************************************)
(* Instances of Signup for TLC.                                            *)
(***************************************************************************)
EXTENDS Signup, TLC

\* every address with every password
MCForms == Form

\* sign-ups are alike, and so are addresses
SignupSymmetry == Permutations(Signups) \cup Permutations(Emails)
===============================================================================
