--------------------------------- MODULE Gateway ---------------------------------
(***************************************************************************)
(* The chain of middleware every HTTP request passes (server/router.go):   *)
(* Metrics around RateLimit around, for most of /v1, Auth around the       *)
(* handler.  The handlers' work is in the other modules; here a handler    *)
(* answers, and the login handler makes a token.  Time is explicit: the    *)
(* limiter (golang.org/x/time/rate) reads the clock before it takes its    *)
(* lock, so requests reach the bucket in another order than their          *)
(* readings, and tokens expire.                                            *)
(***************************************************************************)
EXTENDS Config, FiniteSets

CONSTANTS
  Logins,         \* requests to /v1/auth/login
  Calls,          \* all other requests
  Traffic,        \* the routes and tokens the calls may have together
  Clients, Sender,\* request |-> the client (IP address) that sends it
  NoToken,        \* no token, or one that does not parse or is not signed here
  Environments,   \* the environments the process may be started in
  Second, Hour,   \* their lengths in ticks of the clock
  MaxClock        \* bounds the clock

Requests == Logins \cup Calls

\* "open": /health, /metrics; "private": behind Auth; "missing": no such path
\* or method; "unlisted": the same below /v1, where Auth comes first
Shape == [route : {"open", "private", "missing", "unlisted"},
          bearer : Logins \cup {NoToken}]

ASSUME GatewayAssumption ==
  /\ Logins \cap Calls = {}
  /\ Traffic \subseteq [Calls -> Shape]
  /\ Sender \in [Requests -> Clients]
  /\ NoToken \notin Logins \cup Int
  /\ Environments \subseteq Environment
  /\ Second \in Nat \ {0} /\ Hour \in Nat \ {0}
  /\ MaxClock \in Nat

VARIABLES
  cfg,        \* the configuration, read once
  clock,
  shape,      \* call |-> its route and the login its token is from
  pc,         \* request |-> the middleware or handler it is in
  stamp,      \* request |-> the time RateLimit read for it, 0 when not in use
  bucket,     \* the limiter: tokens in 1/Second of a token, time of the last gain
  exp,        \* login |-> expiry of the token it was answered with, or NoToken
  userID,     \* request |-> the login whose token put a user into its context
  reply,      \* request |-> HTTP status the client gets, 0 before
  total,      \* http_requests_total by status
  served,     \* history: requests admitted since the start of each tick
  late,       \* history: ticks between reading and lock, summed over these
  issuedAt    \* history: login |-> time of its token

chain   == <<cfg, shape, pc, reply>>
limiter == <<stamp, bucket, served, late>>
tokens  == <<exp, userID, issuedAt>>
vars    == <<chain, limiter, tokens, clock, total>>

Times    == 0 .. MaxClock
Statuses == {200, 401, 404, 429}

GatewayInit ==
  /\ cfg \in {Load(e) : e \in Environments}
  /\ clock = 0
  /\ shape \in Traffic
  /\ pc = [r \in Requests |-> "idle"]
  /\ stamp = [r \in Requests |-> 0]
  /\ bucket = [tokens |-> cfg.burst * Second, last |-> 0]
  /\ exp = [l \in Logins |-> NoToken]
  /\ userID = [r \in Requests |-> NoToken]
  /\ reply = [r \in Requests |-> 0]
  /\ total = [s \in Statuses |-> 0]
  /\ served = [s \in Times |-> 0] /\ late = [s \in Times |-> 0]
  /\ issuedAt = [l \in Logins |-> 0]

Goto(r, place) == pc' = [pc EXCEPT ![r] = place] /\ UNCHANGED <<cfg, shape, reply>>

\* c.JSON, or an error echo answers, on the way back through Metrics
Respond(r, status) ==
  /\ pc' = [pc EXCEPT ![r] = "metrics"]
  /\ reply' = [reply EXCEPT ![r] = status]
  /\ UNCHANGED <<cfg, shape>>

-------------------------------------------------------------------------------
\* the limiter's numbers: a request costs Second units, a tick gains rps of
\* them unless the limit is not positive
Capacity == cfg.burst * Second
Gain     == IF cfg.rps > 0 THEN cfg.rps ELSE 0

\* the logins that were answered with a token
Issued == {l \in Logins : exp[l] # NoToken}

(***************************************************************************)
(* Mutants of the definitions below (README.md, "Mutants").                *)
(***************************************************************************)
\* the bucket is not capped
MutRefilledUncapped(t) ==
  IF t < bucket.last THEN bucket.tokens
                     ELSE bucket.tokens + Gain * (t - bucket.last)

\* the fraction of a token gained since is forgotten
MutRefilledWhole(t) ==
  LET gained == IF t < bucket.last THEN 0 ELSE Gain * (t - bucket.last)
      sum    == bucket.tokens + (gained \div Second) * Second
  IN IF sum > Capacity THEN Capacity ELSE sum

\* a token is valid in the second it expires
MutValid(l) == l \in Issued /\ clock <= exp[l]

-------------------------------------------------------------------------------
\* a client sends a request, with a token it has; RateLimit reads the clock
Arrive(r) ==
  /\ pc[r] = "idle"
  /\ r \in Calls => shape[r].bearer \in Issued \cup {NoToken}
  /\ stamp' = [stamp EXCEPT ![r] = clock]
  /\ Goto(r, "limit")
  /\ UNCHANGED <<tokens, bucket, served, late, clock, total>>

\* Limiter.advance: what is in the bucket for a reading t
Refilled(t) ==
  LET sum == bucket.tokens
               + (IF t < bucket.last THEN 0 ELSE Gain * (t - bucket.last))
  IN IF sum > Capacity THEN Capacity ELSE sum

\* Limiter.Allow, under its lock
Admits(r) == cfg.burst >= 1 /\ Refilled(stamp[r]) >= Second

Admit(r) ==
  /\ pc[r] = "limit" /\ Admits(r)
  /\ bucket' = [tokens |-> Refilled(stamp[r]) - Second, last |-> stamp[r]]
  /\ served' = [s \in Times |-> IF s <= clock THEN served[s] + 1 ELSE served[s]]
  /\ late' = [s \in Times |-> IF s <= clock THEN late[s] + (clock - stamp[r])
                                            ELSE late[s]]
  /\ stamp' = [stamp EXCEPT ![r] = 0]
  /\ Goto(r, "route")
  /\ UNCHANGED <<tokens, clock, total>>

\* mutant: RateLimit comes before Metrics, as in docs/processing_flow.md: nobody
\* counts what it refuses
MutTooManyUncounted(r) ==
  /\ pc[r] = "limit" /\ ~ Admits(r)
  /\ stamp' = [stamp EXCEPT ![r] = 0]
  /\ pc' = [pc EXCEPT ![r] = "done"]
  /\ reply' = [reply EXCEPT ![r] = 429]
  /\ UNCHANGED <<cfg, shape, bucket, served, late, tokens, clock, total>>

TooMany(r) ==
  /\ pc[r] = "limit" /\ ~ Admits(r)
  /\ stamp' = [stamp EXCEPT ![r] = 0]
  /\ Respond(r, 429)
  /\ UNCHANGED <<bucket, served, late, tokens, clock, total>>

\* /health and /metrics answer; echo returns ErrNotFound for another path,
\* ErrMethodNotAllowed for another method, here 404 both
Open(r) ==
  /\ pc[r] = "route" /\ r \in Calls
  /\ \/ shape[r].route = "open" /\ Respond(r, 200)
     \/ shape[r].route = "missing" /\ Respond(r, 404)
  /\ UNCHANGED <<limiter, tokens, clock, total>>

\* generateToken: exp is in Unix seconds, what is below a second is cut off
Unix(t) == (t \div Second) * Second

Login(l) ==
  /\ pc[l] = "route" /\ l \in Logins
  /\ \/ /\ exp' = [exp EXCEPT ![l] = Unix(clock + cfg.hours * Hour)]
        /\ issuedAt' = [issuedAt EXCEPT ![l] = clock]
        /\ Respond(l, 200)
     \/ UNCHANGED <<exp, issuedAt>> /\ Respond(l, 401)
  /\ UNCHANGED <<limiter, userID, clock, total>>

\* jwt.Parse: the time must be before exp; past Auth the handler answers, or
\* echo's handler for what is not found in a group
Valid(l) == l \in Issued /\ clock < exp[l]

Auth(r) ==
  /\ pc[r] = "route" /\ r \in Calls
  /\ shape[r].route \in {"private", "unlisted"}
  /\ \/ /\ Valid(shape[r].bearer)
        /\ userID' = [userID EXCEPT ![r] = shape[r].bearer]
        /\ Respond(r, IF shape[r].route = "private" THEN 200 ELSE 404)
     \/ /\ ~ Valid(shape[r].bearer)
        /\ Respond(r, 401)
        /\ UNCHANGED userID
  /\ UNCHANGED <<limiter, exp, issuedAt, clock, total>>

\* Metrics, after next(c): of an error that comes back nothing has been
\* written, and the status of the response still is 200
Label(r) == IF reply[r] = 404 THEN 200 ELSE reply[r]

Metrics(r) ==
  /\ pc[r] = "metrics"
  /\ total' = [total EXCEPT ![Label(r)] = @ + 1]
  /\ Goto(r, "done")
  /\ UNCHANGED <<limiter, tokens, clock>>

Tick ==
  /\ clock < MaxClock /\ clock' = clock + 1
  /\ UNCHANGED <<chain, limiter, tokens, total>>

\* nobody has a request under way
GatewayFinished ==
  /\ clock = MaxClock
  /\ \A r \in Requests : pc[r] \in {"idle", "done"}
  /\ UNCHANGED vars

GatewayNext ==
  \/ \E r \in Requests :
       \/ Arrive(r) \/ Admit(r) \/ TooMany(r) \/ Open(r) \/ Login(r) \/ Auth(r)
       \/ Metrics(r)
  \/ Tick
  \/ GatewayFinished

GatewaySpec == GatewayInit /\ [][GatewayNext]_vars

-------------------------------------------------------------------------------
\* Type invariant: configuration, limiter and the state of the chain.
GatewayTypeOK ==
  /\ cfg \in [hours : Int, rps : Int, burst : Int]
  /\ clock \in Times
  /\ shape \in Traffic
  /\ pc \in [Requests -> {"idle", "limit", "route", "metrics", "done"}]
  /\ stamp \in [Requests -> Times]
  /\ bucket \in [tokens : Int, last : Times]
  /\ bucket.tokens <= Capacity /\ (cfg.burst >= 0 => bucket.tokens >= 0)
  /\ exp \in [Logins -> Int \cup {NoToken}] /\ issuedAt \in [Logins -> Times]
  /\ userID \in [Requests -> Logins \cup {NoToken}]
  /\ reply \in [Requests -> Statuses \cup {0}]
  /\ total \in [Statuses -> Nat]
  /\ served \in [Times -> Nat] /\ late \in [Times -> Nat]

(***************************************************************************)
(* From any moment on, all clients together get no more than a burst and   *)
(* what rps gives for the time since (ratelimit.go:12), whatever order     *)
(* their requests reach the limiter in; except that one which waited for   *)
(* the lock turns the limiter's clock back, and what was gained since its  *)
(* reading is gained once more.                                            *)
(***************************************************************************)
AdmissionBounded ==
  \A s \in 0 .. clock :
    \/ served[s] = 0
    \/ Second * served[s] <= Capacity + Gain * (clock - s) + Gain * late[s]

(***************************************************************************)
(* Nobody is refused (ratelimit.go:16) while the service is idle enough:   *)
(* for a 429 there is a moment since which this request and the admitted   *)
(* ones are more than burst and rps allow.                                 *)
(***************************************************************************)
RefusalsAreEarned ==
  [][\A r \in Requests :
       pc[r] = "limit" /\ reply'[r] = 429 =>
         \E s \in 0 .. clock :
           Second * (served[s] + 1) > Capacity + Gain * (stamp[r] - s)]_vars

(***************************************************************************)
(* A token gets its bearer in until JWT_EXPIRY_HOURS have passed since the *)
(* login, less the fraction of a second that was cut off, and no longer    *)
(* (usecase/auth.go:132, middleware/auth.go:42).                           *)
(***************************************************************************)
TokensLastAsConfigured ==
  [][\A r \in Calls : \A l \in Logins :
       pc[r] = "route" /\ shape[r].bearer = l =>
         /\ userID'[r] = l => clock - issuedAt[l] < cfg.hours * Hour
         /\ reply'[r] = 401 => clock - issuedAt[l] > cfg.hours * Hour - Second]_vars

(***************************************************************************)
(* http_requests_total (metrics.go:54) against limiter and answers, though *)
(* requests overtake each other between the three: whoever was admitted is *)
(* counted as 200 or 401 or on its way to the counter, so burst and rate   *)
(* bound these two; whoever was not is counted as 429, as Metrics is       *)
(* around RateLimit (router.go:31-32, not as in docs/processing_flow.md:   *)
(* 16-19).  But the successes counted exceed those answered by what echo   *)
(* did not find (metrics.go:48).                                           *)
(***************************************************************************)
OnTheWay ==
  {r \in Requests : pc[r] = "route" \/ (pc[r] = "metrics" /\ reply[r] # 429)}

CountersAddUp ==
  LET answered(statuses) ==
        Cardinality({r \in Requests : pc[r] = "done" /\ reply[r] \in statuses})
  IN /\ served[0] = total[200] + total[401] + Cardinality(OnTheWay)
     /\ \A s \in {401, 429} : total[s] = answered({s})
     /\ total[200] = answered({200, 404}) /\ total[404] = 0

(***************************************************************************)
(* "RateLimit limits the rate per IP" (ratelimit.go:10): whoever is        *)
(* refused has sent as many requests as the burst allows before.  Not so:  *)
(* there is one bucket, and other clients can empty it.  Refuted by TLC.   *)
(***************************************************************************)
ClientsAreLimitedApart ==
  [][\A r \in Requests :
       pc[r] = "limit" /\ reply'[r] = 429 =>
         cfg.burst <= Cardinality({q \in Requests \ {r} :
                        Sender[q] = Sender[r] /\ pc[q] # "idle"})]_vars
===============================================================================
