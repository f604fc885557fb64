------------------------------- MODULE MCHistory -------------------------------
(***************************************************************************)
(* An instance of History for TLC.                                         *)
(***************************************************************************)
EXTENDS History

\* none given, the smallest, the largest, and one too many
MCLimits == {0, 1, MaxLimit, MaxLimit + 1}
===============================================================================
