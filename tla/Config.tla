--------------------------------- MODULE Config ---------------------------------
(***************************************************************************)
(* internal/config/config.go: the numbers the process takes from its       *)
(* environment.  What cannot be parsed counts as not set; what can is      *)
(* taken as it is, zero and negative numbers included.                     *)
(***************************************************************************)
EXTENDS Integers

CONSTANTS
  Unset,        \* the variable is missing or empty
  Garbage       \* strconv.Atoi fails

ASSUME ConfigAssumption == Unset \notin Int /\ Garbage \notin Int

Setting == Int \cup {Unset, Garbage}

Environment ==
  [JWT_EXPIRY_HOURS : Setting, RATE_LIMIT_RPS : Setting, RATE_LIMIT_BURST : Setting]

getEnvInt(v, default) == IF v \in Int THEN v ELSE default

Load(env) ==
  [hours |-> getEnvInt(env.JWT_EXPIRY_HOURS, 24),
   rps   |-> getEnvInt(env.RATE_LIMIT_RPS, 10),
   burst |-> getEnvInt(env.RATE_LIMIT_BURST, 20)]
===============================================================================
