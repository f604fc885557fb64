------------------------------- MODULE MCGateway -------------------------------
(***************************************************************************)
(* Instances of Gateway for TLC.                                           *)
(***************************************************************************)
EXTENDS Gateway, TLC

CONSTANTS l1, c1, c2, c3, ip1, ip2

\* two callers, one of them with the login's token
MCSender == [r \in Requests |-> IF r \in {c1, c2} THEN ip1 ELSE ip2]

\* everybody uses the token of the login, two for a route and one for none, or
\* everybody wants something else without one
Same(token, f) == [c \in Calls |-> [route |-> f[c], bearer |-> token]]

MCTraffic ==
  {Same(l1, [c \in Calls |-> IF c = lost THEN "unlisted" ELSE "private"]) :
      lost \in Calls}
    \cup {Same(NoToken, f) :
            f \in {g \in [Calls -> {"open", "private", "missing"}] :
                    \A c, d \in Calls : g[c] = g[d] => c = d}}

Env(hours, rps, burst) ==
  [JWT_EXPIRY_HOURS |-> hours, RATE_LIMIT_RPS |-> rps, RATE_LIMIT_BURST |-> burst]

\* the defaults, a tight limit, limits that are not positive, garbage
MCEnvironments ==
  {Env(Unset, Unset, Garbage), Env(1, 1, 2), Env(1, 1, 1), Env(Garbage, -1, 2),
   Env(-1, 1, 0)}

OneEnvironment == {Env(1, 1, 2)}

CallSymmetry == Permutations({c1, c2, c3})
===============================================================================
