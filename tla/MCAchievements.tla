----------------------------- MODULE MCAchievements -----------------------------
(***************************************************************************)
(* Instances of Achievements, and through it of Signup, for TLC.           *)
(***************************************************************************)
EXTENDS Achievements, TLC

\* every address with every password
MCForms == Form

\* sign-ups are alike, and so are addresses and reports
AchievementSymmetry ==
  Permutations(Signups) \cup Permutations(Emails) \cup Permutations(Reports)
===============================================================================
