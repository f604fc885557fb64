------------------------------ MODULE Gateway_proofs ------------------------------
(***************************************************************************)
(* Theorems about Gateway, for any number of clients and requests and any  *)
(* environment, negative limits included.  The argument for the limiter:   *)
(* what may still be taken from the bucket, added to what was taken since  *)
(* a moment, never exceeds the bound for that moment (Bounded), and the    *)
(* bucket never holds less than the admissions since some moment explain   *)
(* (Funded).                                                               *)
(***************************************************************************)
EXTENDS Gateway, FiniteSetTheorems, TLAPS

USE DEF Times, Statuses

\* the clock and the readings waiting for the lock
ClockInv ==
  /\ bucket.last <= clock
  /\ \A r \in Requests : stamp[r] <= clock
  /\ \A s \in Times : s > clock => served[s] = 0 /\ late[s] = 0
  /\ cfg.burst < 1 => \A s \in Times : served[s] = 0

Bounded ==
  \A s \in 0 .. clock :
    Second * served[s] + Refilled(clock) <= Capacity + Gain * (clock - s) + Gain * late[s]

FundedSince(s) ==
  bucket.tokens >= Capacity + Gain * (bucket.last - s) - Second * served[s]

Funded == \E s \in 0 .. clock : FundedSince(s)

\* a request has its answer when it is through, a token its expiry from the login
ChainInv ==
  /\ \A r \in Requests :
       /\ pc[r] \in {"idle", "limit", "route"} => reply[r] = 0 /\ userID[r] = NoToken
       /\ pc[r] # "idle" /\ r \in Calls => shape[r].bearer \in Issued \cup {NoToken}
  /\ \A l \in Logins :
       exp[l] # NoToken => exp[l] = Unix(issuedAt[l] + cfg.hours * Hour)

GatewayInv == GatewayTypeOK /\ ClockInv /\ Bounded /\ Funded /\ ChainInv

-------------------------------------------------------------------------------
(***************************************************************************)
(* Arithmetic.                                                             *)
(***************************************************************************)
\* the configuration is made of integers, whatever is in the environment
LEMMA LoadIsNumbers ==
  ASSUME NEW e \in Environment
  PROVE  Load(e) \in [hours : Int, rps : Int, burst : Int]
BY SMT DEF Load, getEnvInt, Environment, Setting

\* multiplication distributes and keeps the sign
LEMMA Products ==
  ASSUME NEW g \in Nat, NEW a \in Int, NEW b \in Int
  PROVE  /\ g * a \in Int /\ g * (a + b) = g * a + g * b
         /\ g * (a - b) = g * a - g * b
         /\ a >= b => g * a >= g * b
<1>1. g * a \in Int /\ g * (a + b) = g * a + g * b /\ g * (a - b) = g * a - g * b
  BY SMT
<1>2. ASSUME a >= b PROVE g * a >= g * b
  <2>1. g * (a - b) >= 0
    BY <1>2, SMT
  <2> QED BY <2>1, <1>1, SMT
<1> QED BY <1>1, <1>2

\* Unix cuts off less than a second
LEMMA UnixCutsASecond ==
  ASSUME NEW t \in Int, Second \in Nat \ {0}
  PROVE  Unix(t) \in Int /\ Unix(t) <= t /\ t < Unix(t) + Second
BY SMT DEF Unix

-------------------------------------------------------------------------------
(***************************************************************************)
(* The bucket.                                                             *)
(***************************************************************************)
\* the numbers of the limiter are integers, what it gains is not negative
LEMMA Numbers ==
  ASSUME GatewayAssumption, GatewayTypeOK
  PROVE  Gain \in Nat /\ Capacity \in Int /\ Second \in Nat \ {0}
<1>1. cfg.rps \in Int /\ cfg.burst \in Int /\ Second \in Nat \ {0}
  BY DEF GatewayAssumption, GatewayTypeOK
<1>2. cfg.burst * Second \in Int
  BY <1>1, SMT
<1> QED BY <1>1, <1>2, SMT DEF Gain, Capacity

\* a reading finds no more than there is in the bucket now, nor more than the
\* capacity, and all of the gain unless that is reached
LEMMA RefilledFacts ==
  ASSUME GatewayAssumption, GatewayTypeOK, ClockInv, NEW t \in Times, t <= clock
  PROVE  /\ Refilled(t) \in Int /\ Refilled(t) <= Capacity
         /\ Refilled(t) <= Refilled(clock)
         /\ t < bucket.last => Refilled(t) = bucket.tokens
         /\ t >= bucket.last /\ Refilled(t) # Capacity =>
              Refilled(t) = bucket.tokens + Gain * (t - bucket.last)
         /\ cfg.burst >= 1 => Refilled(t) >= 0
<1> DEFINE l == bucket.last
           c == bucket.tokens
<1>1. /\ l \in Int /\ c \in Int /\ clock \in Int /\ l <= clock /\ c <= Capacity
      /\ cfg.burst >= 1 => c >= 0
      /\ cfg.burst \in Int
  BY DEF GatewayTypeOK, ClockInv
<1>2. Gain \in Nat /\ Capacity \in Int /\ (cfg.burst >= 1 => Capacity >= 0)
  <2>1. cfg.burst >= 1 => cfg.burst * Second >= 0
    BY Numbers, <1>1, SMT
  <2> QED BY <2>1, Numbers DEF Capacity
<1>3. /\ Gain * (t - l) \in Int /\ Gain * (clock - l) \in Int
      /\ t >= l => Gain * (t - l) >= 0
      /\ Gain * (clock - l) >= 0
      /\ Gain * (t - l) <= Gain * (clock - l)
  <2>1. Gain * 0 = 0
    BY <1>2, SMT
  <2> QED BY <2>1, <1>1, <1>2, Products, SMT
<1> HIDE DEF l, c
<1>4. /\ Refilled(t) = LET sum == c + (IF t < l THEN 0 ELSE Gain * (t - l))
                       IN IF sum > Capacity THEN Capacity ELSE sum
      /\ Refilled(clock) = LET sum == c + (IF clock < l THEN 0 ELSE Gain * (clock - l))
                           IN IF sum > Capacity THEN Capacity ELSE sum
  BY DEF Refilled, l, c
<1>5. /\ Refilled(t) \in Int /\ Refilled(t) <= Capacity
      /\ Refilled(t) <= Refilled(clock)
      /\ t < l => Refilled(t) = c
      /\ t >= l /\ Refilled(t) # Capacity => Refilled(t) = c + Gain * (t - l)
      /\ cfg.burst >= 1 => Refilled(t) >= 0
  BY <1>1, <1>2, <1>3, <1>4, SMT
<1> QED BY <1>5 DEF l, c

-------------------------------------------------------------------------------
(***************************************************************************)
(* The initial state and the steps of the limiter.                         *)
(***************************************************************************)
LEMMA InitEstablishesInv ==
  ASSUME GatewayAssumption, ConfigAssumption, GatewayInit
  PROVE  GatewayInv
<1>1. PICK e \in Environments : cfg = Load(e)
  BY DEF GatewayInit
<1>2. cfg \in [hours : Int, rps : Int, burst : Int]
  BY <1>1, LoadIsNumbers DEF GatewayAssumption
<1>3. Capacity \in Int /\ (cfg.burst >= 0 => Capacity >= 0)
  <2>1. Second \in Nat /\ cfg.burst \in Int
    BY <1>2 DEF GatewayAssumption
  <2> QED BY <2>1, SMT DEF Capacity
<1>4. bucket.tokens = Capacity /\ bucket.last = 0 /\ bucket \in [tokens : Int, last : Times]
  BY <1>3 DEF GatewayInit, Capacity, GatewayAssumption
<1>5. GatewayTypeOK
  BY <1>2, <1>3, <1>4 DEF GatewayInit, GatewayTypeOK, GatewayAssumption
<1>6. ClockInv
  BY <1>4, <1>5 DEF GatewayInit, ClockInv, GatewayTypeOK, GatewayAssumption
<1>7. Bounded /\ Funded
  <2>1. /\ Second \in Nat \ {0} /\ Gain \in Nat /\ Capacity \in Int
    BY <1>5, Numbers
  <2>2. clock = 0 /\ served[0] = 0 /\ late[0] = 0 /\ 0 \in Times
    BY DEF GatewayInit, GatewayAssumption
  <2>3. Refilled(clock) \in Int /\ Refilled(clock) <= Capacity
    BY <1>5, <1>6, <2>2, RefilledFacts
  <2>4. Gain * 0 = 0 /\ Second * 0 = 0 /\ 0 - 0 = 0
    BY <2>1, SMT
  <2>5. Bounded
    <3> SUFFICES ASSUME NEW s \in 0 .. clock
                 PROVE  Second * served[s] + Refilled(clock)
                          <= Capacity + Gain * (clock - s) + Gain * late[s]
      BY DEF Bounded
    <3>1. s = 0
      BY <2>2
    <3> QED BY <3>1, <2>1, <2>2, <2>3, <2>4, SMT
  <2>6. FundedSince(0)
    BY <2>1, <2>2, <2>4, <1>4, SMT DEF FundedSince
  <2> QED BY <2>5, <2>6, <2>2 DEF Funded
<1>8. ChainInv
  <2>1. Issued = {}
    BY DEF GatewayInit, Issued
  <2> QED BY <2>1 DEF GatewayInit, ChainInv, GatewayAssumption
<1> QED BY <1>5, <1>6, <1>7, <1>8 DEF GatewayInv

\* what does not touch the limiter and the clock keeps its two invariants
LEMMA OthersKeepTheLimiter ==
  ASSUME Bounded, Funded, UNCHANGED <<cfg, clock, bucket, served, late>>
  PROVE  Bounded' /\ Funded'
<1>1. Bounded'
  BY DEF Bounded, Refilled, Capacity, Gain
<1>2. Funded'
  BY DEF Funded, FundedSince, Capacity, Gain
<1> QED BY <1>1, <1>2

\* time passes: one tick's gain for the bucket and for every bound
LEMMA TickKeepsTheLimiter ==
  ASSUME GatewayAssumption, GatewayInv, Tick, GatewayTypeOK', ClockInv'
  PROVE  Bounded' /\ Funded'
<1> USE DEF GatewayInv
<1>1. /\ clock' = clock + 1 /\ clock \in Times /\ clock + 1 \in Times
      /\ UNCHANGED <<cfg, bucket, served, late>>
  BY DEF Tick, chain, limiter, GatewayTypeOK, GatewayAssumption
<1>2. /\ Gain \in Nat /\ Gain' = Gain /\ Capacity \in Int /\ Capacity' = Capacity
      /\ Second \in Nat \ {0}
  BY <1>1, Numbers DEF Gain, Capacity
<1> DEFINE now  == Refilled(clock)
           next == Refilled(clock)'
<1> HIDE DEF now, next
<1>3. now \in Int /\ next \in Int /\ next <= Capacity
  <2>1. now \in Int
    BY <1>1, RefilledFacts DEF now
  <2>2. Gain * (clock + 1 - bucket.last) \in Int /\ bucket.tokens \in Int
    <3>1. bucket.tokens \in Int /\ bucket.last \in Int /\ clock \in Int
      BY DEF GatewayTypeOK
    <3> QED BY <3>1, <1>2, SMT
  <2>3. next = Refilled(clock + 1)
    BY <1>1 DEF next, Refilled, Gain, Capacity
  <2>4. next \in Int /\ next <= Capacity
    BY <2>2, <2>3, <1>2, SMT DEF Refilled
  <2> QED BY <2>1, <2>4
<1>4. next <= now + Gain
  <2>1. bucket.tokens \in Int /\ bucket.last \in Int /\ bucket.last <= clock
    BY DEF GatewayTypeOK, ClockInv
  <2>2. Gain * (clock + 1 - bucket.last) = Gain * (clock - bucket.last) + Gain
    BY <2>1, <1>1, <1>2, SMT
  <2>3. Gain * (clock - bucket.last) \in Int
    BY <2>1, <1>1, <1>2, SMT
  <2> QED BY <1>1, <1>2, <2>1, <2>2, <2>3, SMT DEF Refilled, now, next
<1>5. Bounded'
  <2> SUFFICES ASSUME NEW s \in 0 .. (clock + 1)
               PROVE  Second * served[s] + next <= Capacity + Gain * (clock + 1 - s) + Gain * late[s]
    BY <1>1, <1>2 DEF Bounded, next
  <2>1. served[s] \in Nat /\ late[s] \in Nat /\ s \in Times
    <3>1. s \in Times
      BY <1>1, SMT
    <3>2. served \in [Times -> Nat] /\ late \in [Times -> Nat]
      BY DEF GatewayTypeOK
    <3> QED BY <3>1, <3>2
  <2>2. CASE s \in 0 .. clock
    <3>1. Second * served[s] + now <= Capacity + Gain * (clock - s) + Gain * late[s]
      BY <2>2 DEF Bounded, now
    <3>2. Gain * (clock + 1 - s) = Gain * (clock - s) + Gain
      BY <2>1, <1>1, <1>2, SMT
    <3>3. /\ Second * served[s] \in Int /\ Gain * (clock - s) \in Int
          /\ Gain * late[s] \in Int
      BY <2>1, <1>1, <1>2, SMT
    <3> QED BY <3>1, <3>2, <3>3, <1>2, <1>3, <1>4, SMT
  <2>3. CASE s = clock + 1
    <3>1. served[s] = 0 /\ late[s] = 0
      BY <2>3, <1>1 DEF ClockInv
    <3> QED BY <3>1, <2>3, <1>1, <1>2, <1>3, SMT
  <2> QED BY <2>2, <2>3, <1>1
<1>6. Funded'
  <2>1. PICK s \in 0 .. clock : FundedSince(s)
    BY DEF Funded
  <2>2. s \in 0 .. clock' /\ FundedSince(s)'
    BY <2>1, <1>1, <1>2 DEF FundedSince
  <2> QED BY <2>2 DEF Funded
<1> QED BY <1>5, <1>6
\* an admission: the bucket loses its cost, or less by what a late reading
\* lets it gain once more
LEMMA AdmitKeepsTheLimiter ==
  ASSUME GatewayAssumption, GatewayInv, NEW r \in Requests, Admit(r)
  PROVE  Bounded' /\ Funded'
<1> USE DEF GatewayInv
<1> DEFINE t    == stamp[r]
           c    == bucket.tokens
           l    == bucket.last
           now  == Refilled(clock)
           then == Refilled(t)
           next == Refilled(clock)'
<1>1. /\ bucket' = [tokens |-> then - Second, last |-> t]
      /\ served' = [s \in Times |-> IF s <= clock THEN served[s] + 1 ELSE served[s]]
      /\ late' = [s \in Times |-> IF s <= clock THEN late[s] + (clock - t) ELSE late[s]]
      /\ UNCHANGED <<cfg, clock>>
  BY DEF Admit, Goto
<1>2. /\ t \in Times /\ t <= clock /\ clock \in Times /\ l \in Times /\ c \in Int
      /\ c <= Capacity /\ l <= clock
      /\ served \in [Times -> Nat] /\ late \in [Times -> Nat]
  <2>1. t \in Times /\ t <= clock /\ clock \in Times /\ l <= clock
    BY DEF GatewayTypeOK, ClockInv
  <2>2. l \in Times /\ c \in Int /\ c <= Capacity
    BY DEF GatewayTypeOK
  <2>3. served \in [Times -> Nat] /\ late \in [Times -> Nat]
    BY DEF GatewayTypeOK
  <2> QED BY <2>1, <2>2, <2>3
<1>3. /\ Gain \in Nat /\ Gain' = Gain /\ Capacity \in Int /\ Capacity' = Capacity
      /\ Second \in Nat \ {0}
  BY <1>1, Numbers DEF Gain, Capacity
<1>4. /\ then \in Int /\ now \in Int /\ then <= Capacity /\ then <= now
      /\ t < l => then = c
      /\ t >= l /\ then # Capacity => then = c + Gain * (t - l)
  <2>1. clock <= clock
    BY <1>2, SMT
  <2>2. now \in Int
    BY <1>2, <2>1, RefilledFacts
  <2>3. t \in Times /\ t <= clock
    BY <1>2
  <2> HIDE DEF t
  <2> QED BY <2>2, <2>3, RefilledFacts
<1>5. next \in Int /\ next <= then - Second + Gain * (clock - t)
  <2>1. Gain * (clock - t) \in Int
    BY <1>2, <1>3, SMT
  <2>2. ~ (clock < t)
    BY <1>2, SMT
  <2>3. bucket'.tokens = then - Second /\ bucket'.last = t
    BY <1>1
  <2> HIDE DEF t, then
  <2>4. next = LET sum == then - Second + Gain * (clock - t)
               IN IF sum > Capacity THEN Capacity ELSE sum
    BY <1>1, <1>3, <2>2, <2>3 DEF Refilled
  <2> HIDE DEF next
  <2> QED BY <2>1, <2>4, <1>3, <1>4, SMT
<1>6. \A s \in 0 .. clock :
        /\ s \in Times
        /\ served'[s] = served[s] + 1 /\ served[s] \in Nat
        /\ late'[s] = late[s] + (clock - t) /\ late[s] \in Nat
  <2> SUFFICES ASSUME NEW s \in 0 .. clock
               PROVE  /\ s \in Times
                      /\ served'[s] = served[s] + 1 /\ served[s] \in Nat
                      /\ late'[s] = late[s] + (clock - t) /\ late[s] \in Nat
    OBVIOUS
  <2>1. s \in Times /\ s <= clock
    BY <1>2, SMT
  <2> HIDE DEF t
  <2> QED BY <2>1, <1>1, <1>2
<1>7. bucket'.tokens = then - Second /\ bucket'.last = t
  BY <1>1
<1> HIDE DEF t, c, l, now, then, next
<1>8. Bounded'
  <2> SUFFICES ASSUME NEW s \in 0 .. clock
               PROVE  Second * served'[s] + next
                        <= Capacity + Gain * (clock - s) + Gain * late'[s]
    BY <1>1, <1>3 DEF Bounded, next
  <2>1. Second * served[s] + now <= Capacity + Gain * (clock - s) + Gain * late[s]
    BY DEF Bounded, now
  <2>2. /\ Second * served'[s] = Second * served[s] + Second
        /\ Gain * late'[s] = Gain * late[s] + Gain * (clock - t)
    <3>1. /\ served'[s] = served[s] + 1 /\ served[s] \in Nat
          /\ late'[s] = late[s] + (clock - t) /\ late[s] \in Nat
          /\ clock - t \in Int /\ Second \in Nat
      BY <1>2, <1>3, <1>6, SMT
    <3>2. Second * (served[s] + 1) = Second * served[s] + Second
      BY <3>1, SMT
    <3>3. Gain * (late[s] + (clock - t)) = Gain * late[s] + Gain * (clock - t)
      BY <3>1, <1>3, Products
    <3> QED BY <3>1, <3>2, <3>3
  <2>3. /\ Second * served[s] \in Int /\ Gain * (clock - s) \in Int
        /\ Gain * late[s] \in Int /\ Gain * (clock - t) \in Int
    BY <1>2, <1>3, <1>6, SMT
  <2> QED BY <2>1, <2>2, <2>3, <1>3, <1>4, <1>5, SMT
<1>9. Funded'
  <2> SUFFICES \E s \in 0 .. clock :
                 then - Second >= Capacity + Gain * (t - s) - Second * served'[s]
    BY <1>1, <1>3, <1>7 DEF Funded, FundedSince
  <2>1. CASE then = Capacity
    <3>1. t \in 0 .. clock
      BY <1>2, SMT
    <3>2. served'[t] = served[t] + 1 /\ served[t] \in Nat
      BY <3>1, <1>6
    <3>3. Second * served'[t] = Second * served[t] + Second /\ Second * served[t] >= 0
      BY <3>2, <1>3, SMT
    <3>4. Gain * (t - t) = 0
      BY <1>2, <1>3, SMT
    <3>5. then - Second >= Capacity + Gain * (t - t) - Second * served'[t]
      BY <2>1, <3>2, <3>3, <3>4, <1>3, SMT
    <3> QED BY <3>1, <3>5
  <2>2. CASE then # Capacity
    <3>1. PICK s \in 0 .. clock : c >= Capacity + Gain * (l - s) - Second * served[s]
      BY DEF Funded, FundedSince, c, l
    <3>2. Second * served'[s] = Second * served[s] + Second /\ Second * served[s] \in Int
      BY <1>3, <1>6, SMT
    <3>3. /\ Gain * (l - s) \in Int /\ Gain * (t - s) \in Int /\ Gain * (t - l) \in Int
          /\ Gain * (t - s) = Gain * (l - s) + Gain * (t - l)
      BY <1>2, <1>3, SMT
    <3>4. t < l => Gain * (t - l) <= 0
      <4>1. l - t \in Int /\ t - l \in Int /\ Gain * (t - l) = -(Gain * (l - t))
        BY <1>2, <1>3, SMT
      <4>2. t < l => Gain * (l - t) >= 0
        BY <1>2, <1>3, SMT
      <4>3. Gain * (l - t) \in Int
        BY <1>2, <1>3, SMT
      <4> QED BY <4>1, <4>2, <4>3, SMT
    <3>5. then - Second >= Capacity + Gain * (t - s) - Second * served'[s]
      <4>1. then >= c + Gain * (t - l)
        BY <2>2, <3>3, <3>4, <1>2, <1>4, SMT
      <4> DEFINE a == Gain * (l - s)
                 b == Gain * (t - l)
                 d == Second * served[s]
      <4>2. /\ a \in Int /\ b \in Int /\ d \in Int
            /\ Gain * (t - s) = a + b /\ Second * served'[s] = d + Second
            /\ then >= c + b /\ c >= Capacity + a - d
        BY <4>1, <3>1, <3>2, <3>3
      <4> HIDE DEF a, b, d
      <4>3. then - Second >= Capacity + (a + b) - (d + Second)
        BY <4>2, <1>2, <1>3, <1>4, SMT
      <4> QED BY <4>2, <4>3
    <3> QED BY <3>5
  <2> QED BY <2>1, <2>2
<1> QED BY <1>8, <1>9
-------------------------------------------------------------------------------
(***************************************************************************)
(* The types, the history variables and the chain.                         *)
(***************************************************************************)
\* the type invariant in the parts the actions change separately
Places     == {"idle", "limit", "route", "metrics", "done"}
ChainTypes == pc \in [Requests -> Places] /\ reply \in [Requests -> Statuses \cup {0}]
TokenTypes == /\ exp \in [Logins -> Int \cup {NoToken}] /\ issuedAt \in [Logins -> Times]
              /\ userID \in [Requests -> Logins \cup {NoToken}]
TotalTypes == total \in [Statuses -> Nat]
BucketTypes == /\ bucket \in [tokens : Int, last : Times]
               /\ bucket.tokens <= Capacity /\ (cfg.burst >= 0 => bucket.tokens >= 0)
               /\ served \in [Times -> Nat] /\ late \in [Times -> Nat]
OtherTypes == /\ cfg \in [hours : Int, rps : Int, burst : Int]
              /\ clock \in Times /\ shape \in Traffic

LEMMA TypesFromParts ==
  /\ GatewayTypeOK <=> /\ ChainTypes /\ TokenTypes /\ TotalTypes /\ BucketTypes
                       /\ OtherTypes /\ stamp \in [Requests -> Times]
  /\ GatewayTypeOK' <=> /\ ChainTypes' /\ TokenTypes' /\ TotalTypes' /\ BucketTypes'
                        /\ OtherTypes' /\ (stamp \in [Requests -> Times])'
<1>1. GatewayTypeOK <=> /\ ChainTypes /\ TokenTypes /\ TotalTypes /\ BucketTypes
                        /\ OtherTypes /\ stamp \in [Requests -> Times]
  BY Zenon DEF GatewayTypeOK, ChainTypes, TokenTypes, TotalTypes, BucketTypes, OtherTypes, Places
<1>2. GatewayTypeOK' <=> /\ ChainTypes' /\ TokenTypes' /\ TotalTypes' /\ BucketTypes'
                         /\ OtherTypes' /\ (stamp \in [Requests -> Times])'
  BY Zenon DEF GatewayTypeOK, ChainTypes, TokenTypes, TotalTypes, BucketTypes, OtherTypes, Places
<1> QED BY <1>1, <1>2

\* each part is kept by what does not touch it
LEMMA UntouchedTypes ==
  ASSUME GatewayTypeOK
  PROVE  /\ UNCHANGED <<pc, reply>> => ChainTypes'
         /\ UNCHANGED tokens => TokenTypes'
         /\ UNCHANGED total => TotalTypes'
         /\ UNCHANGED <<cfg, bucket, served, late>> => BucketTypes'
         /\ UNCHANGED <<cfg, clock, shape>> => OtherTypes'
<1>1. UNCHANGED <<pc, reply>> => ChainTypes'
  BY TypesFromParts DEF ChainTypes
<1>2. UNCHANGED tokens => TokenTypes'
  BY TypesFromParts DEF TokenTypes, tokens
<1>3. UNCHANGED total => TotalTypes'
  BY TypesFromParts DEF TotalTypes
<1>4. UNCHANGED <<cfg, bucket, served, late>> => BucketTypes'
  BY TypesFromParts DEF BucketTypes, Capacity
<1>5. UNCHANGED <<cfg, clock, shape>> => OtherTypes'
  BY TypesFromParts DEF OtherTypes
<1> QED BY <1>1, <1>2, <1>3, <1>4, <1>5

\* moving on and answering keep the types of the chain
LEMMA MovesKeepTypes ==
  ASSUME GatewayTypeOK, NEW r \in Requests
  PROVE  /\ \A place \in Places : Goto(r, place) => ChainTypes' /\ UNCHANGED <<cfg, shape>>
         /\ \A s \in Statuses : Respond(r, s) => ChainTypes' /\ UNCHANGED <<cfg, shape>>
<1>1. pc \in [Requests -> Places] /\ reply \in [Requests -> Statuses \cup {0}]
  BY TypesFromParts DEF ChainTypes
<1>2. ASSUME NEW place \in Places, Goto(r, place)
      PROVE  ChainTypes' /\ UNCHANGED <<cfg, shape>>
  BY <1>1, <1>2 DEF Goto, ChainTypes
<1>3. ASSUME NEW s \in Statuses, Respond(r, s)
      PROVE  ChainTypes' /\ UNCHANGED <<cfg, shape>>
  <2>1. "metrics" \in Places
    BY DEF Places
  <2> QED BY <1>1, <1>3, <2>1 DEF Respond, ChainTypes
<1> QED BY <1>2, <1>3

\* the relation to the clock is kept by what does not touch the limiter
LEMMA UntouchedClockInv ==
  ASSUME ClockInv, UNCHANGED <<cfg, clock, stamp, bucket, served, late>>
  PROVE  ClockInv'
BY DEF ClockInv

\* a reading set to the clock or to zero is not ahead of the clock
LEMMA StampKept ==
  ASSUME GatewayAssumption, GatewayTypeOK, ClockInv, NEW r \in Requests,
         stamp' = [stamp EXCEPT ![r] = clock] \/ stamp' = [stamp EXCEPT ![r] = 0]
  PROVE  /\ stamp' \in [Requests -> Times]
         /\ \A q \in Requests : stamp'[q] <= clock
<1>1. clock \in Times /\ 0 \in Times /\ 0 <= clock /\ clock <= clock
  <2>1. clock \in Times
    BY DEF GatewayTypeOK
  <2> QED BY <2>1, SMT
<1>2. stamp \in [Requests -> Times] /\ \A q \in Requests : stamp[q] <= clock
  BY DEF GatewayTypeOK, ClockInv
<1>3. \A q \in Requests : stamp'[q] \in {stamp[q], clock, 0}
  BY <1>2
<1>4. stamp' \in [Requests -> Times]
  BY <1>1, <1>2
<1> QED BY <1>1, <1>2, <1>3, <1>4

\* every action keeps the types and the relation of the readings to the clock
LEMMA StepKeepsTypes ==
  ASSUME GatewayAssumption, GatewayInv, [GatewayNext]_vars
  PROVE  GatewayTypeOK' /\ ClockInv'
<1> USE DEF GatewayInv
<1>0. /\ {"limit", "route", "metrics", "done"} \subseteq Places
      /\ clock \in Times /\ {200, 401, 404, 429} \subseteq Statuses
  BY DEF Places, GatewayTypeOK
<1>1. CASE UNCHANGED vars
  <2>1. /\ UNCHANGED <<pc, reply>> /\ UNCHANGED tokens /\ UNCHANGED total
        /\ UNCHANGED <<cfg, bucket, served, late>> /\ UNCHANGED <<cfg, clock, shape>>
        /\ UNCHANGED stamp /\ UNCHANGED <<cfg, clock, stamp, bucket, served, late>>
    BY <1>1 DEF vars, chain, limiter
  <2> QED BY <2>1, TypesFromParts, UntouchedTypes, UntouchedClockInv
<1>2. ASSUME NEW r \in Requests, Arrive(r) PROVE GatewayTypeOK' /\ ClockInv'
  <2>1. /\ Goto(r, "limit") /\ stamp' = [stamp EXCEPT ![r] = clock]
        /\ UNCHANGED tokens /\ UNCHANGED <<bucket, served, late, clock, total>>
    BY <1>2 DEF Arrive
  <2>2. ChainTypes' /\ UNCHANGED <<cfg, shape>>
    BY <2>1, <1>0, MovesKeepTypes
  <2>3. stamp' \in [Requests -> Times] /\ \A q \in Requests : stamp'[q] <= clock
    BY <2>1, StampKept
  <2>4. GatewayTypeOK'
    BY <2>1, <2>2, <2>3, TypesFromParts, UntouchedTypes
  <2>5. ClockInv'
    BY <2>1, <2>2, <2>3 DEF ClockInv
  <2> QED BY <2>4, <2>5
<1>3. ASSUME NEW r \in Requests, Admit(r) PROVE GatewayTypeOK' /\ ClockInv'
  <2> DEFINE t == stamp[r]
  <2>1. t \in Times /\ t <= clock
    BY DEF GatewayTypeOK, ClockInv
  <2>2. /\ Refilled(t) \in Int /\ Refilled(t) <= Capacity
        /\ Refilled(t) >= Second /\ cfg.burst >= 1
    <3>1. Refilled(t) >= Second /\ cfg.burst >= 1
      BY <1>3 DEF Admit, Admits
    <3> HIDE DEF t
    <3> QED BY <3>1, <2>1, RefilledFacts
  <2>3. /\ bucket' = [tokens |-> Refilled(t) - Second, last |-> t]
        /\ served' = [s \in Times |-> IF s <= clock THEN served[s] + 1 ELSE served[s]]
        /\ late' = [s \in Times |-> IF s <= clock THEN late[s] + (clock - t) ELSE late[s]]
        /\ stamp' = [stamp EXCEPT ![r] = 0]
        /\ Goto(r, "route") /\ UNCHANGED tokens /\ UNCHANGED <<clock, total>>
    BY <1>3 DEF Admit
  <2> HIDE DEF t
  <2>4. ChainTypes' /\ UNCHANGED <<cfg, shape>> /\ Capacity' = Capacity
    BY <2>3, <1>0, MovesKeepTypes DEF Capacity
  <2>5. stamp' \in [Requests -> Times] /\ \A q \in Requests : stamp'[q] <= clock
    BY <2>3, StampKept
  <2>6. /\ bucket' \in [tokens : Int, last : Times] /\ bucket'.tokens <= Capacity'
        /\ bucket'.tokens >= 0 /\ bucket'.last = t
    <3>1. Capacity \in Int /\ Second \in Nat
      BY Numbers
    <3> QED BY <3>1, <2>1, <2>2, <2>3, <2>4, SMT
  <2>7. served \in [Times -> Nat] /\ late \in [Times -> Nat] /\ clock - t \in Nat
    <3>1. served \in [Times -> Nat] /\ late \in [Times -> Nat]
      BY DEF GatewayTypeOK
    <3>2. clock - t \in Nat
      BY <1>0, <2>1, SMT
    <3> QED BY <3>1, <3>2
  <2>8. /\ served' \in [Times -> Nat] /\ late' \in [Times -> Nat]
        /\ \A s \in Times : s > clock => served'[s] = 0 /\ late'[s] = 0
    <3>1. \A s \in Times : served[s] + 1 \in Nat /\ late[s] + (clock - t) \in Nat
      <4>1. \A s \in Times : served[s] \in Nat /\ late[s] \in Nat
        BY <2>7
      <4> QED BY <4>1, <2>7, SMT
    <3>2. served' \in [Times -> Nat] /\ late' \in [Times -> Nat]
      BY <3>1, <2>3, <2>7
    <3>3. \A s \in Times : s > clock => ~ (s <= clock)
      BY <1>0, SMT
    <3>4. \A s \in Times : s > clock => served'[s] = served[s] /\ late'[s] = late[s]
      BY <3>3, <2>3
    <3> QED BY <3>2, <3>4 DEF ClockInv
  <2>9. BucketTypes' /\ OtherTypes'
    BY <2>3, <2>4, <2>6, <2>8, UntouchedTypes DEF BucketTypes
  <2>10. GatewayTypeOK'
    BY <2>3, <2>4, <2>5, <2>9, TypesFromParts, UntouchedTypes
  <2>11. ~ (cfg'.burst < 1)
    <3>1. cfg' = cfg /\ cfg.burst \in Int
      BY <2>4 DEF GatewayTypeOK
    <3> QED BY <3>1, <2>2, SMT
  <2>12. ClockInv'
    BY <2>1, <2>3, <2>5, <2>6, <2>8, <2>11 DEF ClockInv
  <2> QED BY <2>10, <2>12
<1>4. ASSUME NEW r \in Requests, TooMany(r) PROVE GatewayTypeOK' /\ ClockInv'
  <2>1. /\ Respond(r, 429) /\ stamp' = [stamp EXCEPT ![r] = 0]
        /\ UNCHANGED tokens /\ UNCHANGED <<bucket, served, late, clock, total>>
    BY <1>4 DEF TooMany
  <2>2. ChainTypes' /\ UNCHANGED <<cfg, shape>>
    BY <2>1, <1>0, MovesKeepTypes
  <2>3. stamp' \in [Requests -> Times] /\ \A q \in Requests : stamp'[q] <= clock
    BY <2>1, StampKept
  <2>4. GatewayTypeOK'
    BY <2>1, <2>2, <2>3, TypesFromParts, UntouchedTypes
  <2>5. ClockInv'
    BY <2>1, <2>2, <2>3 DEF ClockInv
  <2> QED BY <2>4, <2>5
<1>5. ASSUME NEW r \in Requests, Open(r) PROVE GatewayTypeOK' /\ ClockInv'
  <2>1. /\ Respond(r, 200) \/ Respond(r, 404)
        /\ UNCHANGED tokens /\ UNCHANGED <<stamp, bucket, served, late, clock, total>>
    BY <1>5 DEF Open, limiter
  <2>2. ChainTypes' /\ UNCHANGED <<cfg, shape>>
    BY <2>1, <1>0, MovesKeepTypes
  <2> QED BY <2>1, <2>2, TypesFromParts, UntouchedTypes, UntouchedClockInv
<1>6. ASSUME NEW l \in Requests, Login(l) PROVE GatewayTypeOK' /\ ClockInv'
  <2>1. /\ l \in Logins
        /\ \/ /\ exp' = [exp EXCEPT ![l] = Unix(clock + cfg.hours * Hour)]
              /\ issuedAt' = [issuedAt EXCEPT ![l] = clock]
           \/ UNCHANGED <<exp, issuedAt>>
        /\ Respond(l, 200) \/ Respond(l, 401)
        /\ UNCHANGED <<stamp, bucket, served, late, clock, total, userID>>
    BY <1>6 DEF Login, limiter
  <2>2. Unix(clock + cfg.hours * Hour) \in Int
    <3>1. clock \in Int /\ cfg.hours \in Int /\ Hour \in Int /\ Second \in Nat \ {0}
      BY <1>0 DEF GatewayTypeOK, GatewayAssumption
    <3>2. clock + cfg.hours * Hour \in Int
      BY <3>1, SMT
    <3> QED BY <3>1, <3>2, UnixCutsASecond
  <2>3. TokenTypes'
    <3>1. TokenTypes
      BY TypesFromParts
    <3>2. exp' \in [Logins -> Int \cup {NoToken}]
      BY <3>1, <2>1, <2>2 DEF TokenTypes
    <3>3. issuedAt' \in [Logins -> Times]
      BY <3>1, <2>1, <1>0 DEF TokenTypes
    <3> QED BY <3>1, <3>2, <3>3, <2>1 DEF TokenTypes
  <2>4. ChainTypes' /\ UNCHANGED <<cfg, shape>>
    BY <2>1, <1>0, MovesKeepTypes
  <2> QED BY <2>1, <2>3, <2>4, TypesFromParts, UntouchedTypes, UntouchedClockInv
<1>7. ASSUME NEW r \in Requests, Auth(r) PROVE GatewayTypeOK' /\ ClockInv'
  <2>1. /\ Respond(r, 200) \/ Respond(r, 404) \/ Respond(r, 401)
        /\ \/ /\ Valid(shape[r].bearer)
              /\ userID' = [userID EXCEPT ![r] = shape[r].bearer]
           \/ UNCHANGED userID
        /\ UNCHANGED <<stamp, bucket, served, late, clock, total, exp, issuedAt>>
    BY <1>7 DEF Auth, limiter
  <2>2. Valid(shape[r].bearer) => shape[r].bearer \in Logins
    BY DEF Valid, Issued
  <2>3. TokenTypes'
    <3>1. TokenTypes
      BY TypesFromParts
    <3>2. userID' \in [Requests -> Logins \cup {NoToken}]
      BY <3>1, <2>1, <2>2 DEF TokenTypes
    <3> QED BY <3>1, <3>2, <2>1 DEF TokenTypes
  <2>4. ChainTypes' /\ UNCHANGED <<cfg, shape>>
    BY <2>1, <1>0, MovesKeepTypes
  <2> QED BY <2>1, <2>3, <2>4, TypesFromParts, UntouchedTypes, UntouchedClockInv
<1>8. ASSUME NEW r \in Requests, Metrics(r) PROVE GatewayTypeOK' /\ ClockInv'
  <2>1. /\ total' = [total EXCEPT ![Label(r)] = @ + 1] /\ Goto(r, "done")
        /\ UNCHANGED tokens /\ UNCHANGED <<stamp, bucket, served, late, clock>>
    BY <1>8 DEF Metrics, limiter
  <2>2. TotalTypes'
    <3>1. total \in [Statuses -> Nat]
      BY DEF GatewayTypeOK
    <3>2. \A s \in Statuses : total[s] + 1 \in Nat
      <4>1. \A s \in Statuses : total[s] \in Nat
        BY <3>1
      <4> QED BY <4>1, SMT
    <3>3. total' = [s \in Statuses |-> IF s = Label(r) THEN total[s] + 1 ELSE total[s]]
      BY <3>1, <2>1, Zenon
    <3>4. \A s \in Statuses : total'[s] \in Nat
      BY <3>1, <3>2, <3>3
    <3> QED BY <3>3, <3>4 DEF TotalTypes
  <2>3. ChainTypes' /\ UNCHANGED <<cfg, shape>>
    BY <2>1, <1>0, MovesKeepTypes
  <2> QED BY <2>1, <2>2, <2>3, TypesFromParts, UntouchedTypes, UntouchedClockInv
<1>9. CASE Tick
  <2>1. /\ clock' = clock + 1 /\ clock < MaxClock
        /\ UNCHANGED <<pc, reply>> /\ UNCHANGED tokens /\ UNCHANGED total
        /\ UNCHANGED <<cfg, bucket, served, late>> /\ UNCHANGED <<cfg, shape, stamp>>
    BY <1>9 DEF Tick, chain, limiter
  <2>2. clock' \in Times
    BY <1>0, <2>1, SMT DEF GatewayAssumption
  <2>3. OtherTypes'
    BY <2>1, <2>2, TypesFromParts DEF OtherTypes
  <2>4. GatewayTypeOK'
    BY <2>1, <2>3, TypesFromParts, UntouchedTypes
  <2>5. ClockInv'
    <3>1. \A n \in Times : n <= clock => n <= clock + 1
      BY <1>0, SMT
    <3>2. \A n \in Times : n > clock + 1 => n > clock
      BY <1>0, SMT
    <3>3. bucket.last \in Times /\ \A r \in Requests : stamp[r] \in Times
      BY DEF GatewayTypeOK
    <3> QED BY <3>1, <3>2, <3>3, <2>1 DEF ClockInv
  <2> QED BY <2>4, <2>5
<1> QED
  BY <1>1, <1>2, <1>3, <1>4, <1>5, <1>6, <1>7, <1>8, <1>9
  DEF GatewayNext, GatewayFinished
-------------------------------------------------------------------------------
(***************************************************************************)
(* The invariant.                                                          *)
(***************************************************************************)
\* requests on their way have no answer yet, and a token keeps its expiry
LEMMA StepKeepsChain ==
  ASSUME GatewayAssumption, GatewayInv, [GatewayNext]_vars
  PROVE  ChainInv'
<1> USE DEF GatewayInv
<1>0. /\ pc \in [Requests -> Places] /\ reply \in [Requests -> Statuses \cup {0}]
      /\ exp \in [Logins -> Int \cup {NoToken}] /\ issuedAt \in [Logins -> Times]
      /\ userID \in [Requests -> Logins \cup {NoToken}]
  BY TypesFromParts DEF ChainTypes, TokenTypes
<1>1. CASE UNCHANGED <<cfg, shape, pc, reply, exp, userID, issuedAt>>
  BY <1>1 DEF ChainInv, Issued, Unix
<1>2. ASSUME NEW r \in Requests, NEW place \in {"limit", "route", "done"}, Goto(r, place),
             UNCHANGED <<exp, userID, issuedAt>>,
             pc[r] \in {"idle", "limit"} \/ (pc[r] = "metrics" /\ place = "done"),
             r \in Calls => shape[r].bearer \in Issued \cup {NoToken}
      PROVE  ChainInv'
  <2>1. /\ pc' = [pc EXCEPT ![r] = place] /\ UNCHANGED <<cfg, shape, reply>>
        /\ Issued' = Issued
    BY <1>2 DEF Goto, Issued
  <2>2. \A q \in Requests :
          /\ pc'[q] \in {"idle", "limit", "route"} => reply'[q] = 0 /\ userID'[q] = NoToken
          /\ pc'[q] # "idle" /\ q \in Calls => shape'[q].bearer \in Issued' \cup {NoToken}
    BY <1>0, <1>2, <2>1 DEF ChainInv
  <2>3. \A l \in Logins :
          exp'[l] # NoToken => exp'[l] = Unix(issuedAt'[l] + cfg'.hours * Hour)
    BY <1>2, <2>1 DEF ChainInv
  <2> QED BY <2>2, <2>3 DEF ChainInv, Unix
<1>3. ASSUME NEW r \in Requests, NEW s \in Statuses, Respond(r, s), pc[r] # "idle",
             \A q \in Requests : q # r => userID'[q] = userID[q],
             \A l \in Logins : l # r => exp'[l] = exp[l] /\ issuedAt'[l] = issuedAt[l],
             r \in Logins => \/ UNCHANGED <<exp, issuedAt>>
                             \/ exp'[r] = Unix(issuedAt'[r] + cfg.hours * Hour),
             Issued \subseteq Issued'
      PROVE  ChainInv'
  <2>1. /\ pc' = [pc EXCEPT ![r] = "metrics"] /\ UNCHANGED <<cfg, shape>>
        /\ reply' = [reply EXCEPT ![r] = s]
    BY <1>3 DEF Respond
  <2>2. \A q \in Requests :
          pc'[q] \in {"idle", "limit", "route"} => reply'[q] = 0 /\ userID'[q] = NoToken
    BY <1>0, <1>3, <2>1 DEF ChainInv
  <2>3. \A q \in Requests :
          pc'[q] # "idle" /\ q \in Calls => shape'[q].bearer \in Issued' \cup {NoToken}
    BY <1>0, <1>3, <2>1 DEF ChainInv
  <2>4. \A l \in Logins :
          exp'[l] # NoToken => exp'[l] = Unix(issuedAt'[l] + cfg'.hours * Hour)
    BY <1>3, <2>1 DEF ChainInv
  <2> QED BY <2>2, <2>3, <2>4 DEF ChainInv, Unix
<1>4. ASSUME NEW r \in Requests,
             Arrive(r) \/ Admit(r) \/ TooMany(r) \/ Open(r) \/ Login(r) \/ Auth(r) \/ Metrics(r)
      PROVE  ChainInv'
  <2>0. pc[r] # "idle" /\ r \in Calls => shape[r].bearer \in Issued \cup {NoToken}
    BY DEF ChainInv
  <2>1. CASE Arrive(r)
    BY <2>1, <1>2 DEF Arrive, tokens
  <2>2. CASE Admit(r)
    BY <2>0, <2>2, <1>2 DEF Admit, tokens
  <2>3. CASE TooMany(r)
    <3>1. /\ Respond(r, 429) /\ pc[r] # "idle" /\ UNCHANGED <<exp, userID, issuedAt>>
          /\ Issued' = Issued
      BY <2>3 DEF TooMany, tokens, Issued
    <3> QED BY <3>1, <1>3
  <2>4. CASE Open(r)
    <3>1. /\ Respond(r, 200) \/ Respond(r, 404)
          /\ pc[r] # "idle" /\ UNCHANGED <<exp, userID, issuedAt>> /\ Issued' = Issued
      BY <2>4 DEF Open, tokens, Issued
    <3> QED BY <3>1, <1>3
  <2>5. CASE Login(r)
    <3>1. /\ r \in Logins /\ pc[r] # "idle" /\ UNCHANGED userID
          /\ Respond(r, 200) \/ Respond(r, 401)
          /\ \/ /\ exp' = [exp EXCEPT ![r] = Unix(clock + cfg.hours * Hour)]
                /\ issuedAt' = [issuedAt EXCEPT ![r] = clock]
             \/ UNCHANGED <<exp, issuedAt>>
      BY <2>5 DEF Login
    <3>2. Unix(clock + cfg.hours * Hour) \in Int
      <4>1. clock \in Int /\ cfg.hours \in Int /\ Hour \in Int /\ Second \in Nat \ {0}
        BY DEF GatewayTypeOK, GatewayAssumption
      <4>2. clock + cfg.hours * Hour \in Int
        BY <4>1, SMT
      <4> QED BY <4>1, <4>2, UnixCutsASecond
    <3>3. Issued \subseteq Issued'
      <4>1. Unix(clock + cfg.hours * Hour) # NoToken
        BY <3>2 DEF GatewayAssumption
      <4> QED BY <4>1, <3>1, <1>0 DEF Issued
    <3>4. \A l \in Logins : l # r => exp'[l] = exp[l] /\ issuedAt'[l] = issuedAt[l]
      BY <3>1, <1>0
    <3>5. \/ UNCHANGED <<exp, issuedAt>>
          \/ exp'[r] = Unix(issuedAt'[r] + cfg.hours * Hour)
      BY <3>1, <1>0
    <3> QED BY <3>1, <3>3, <3>4, <3>5, <1>3
  <2>6. CASE Auth(r)
    <3>1. /\ Respond(r, 200) \/ Respond(r, 404) \/ Respond(r, 401)
          /\ pc[r] # "idle" /\ UNCHANGED <<exp, issuedAt>> /\ Issued' = Issued
          /\ \A q \in Requests : q # r => userID'[q] = userID[q]
      BY <2>6, <1>0 DEF Auth, Issued
    <3> QED BY <3>1, <1>3
  <2>7. CASE Metrics(r)
    BY <2>0, <2>7, <1>2 DEF Metrics, tokens
  <2> QED BY <1>4, <2>1, <2>2, <2>3, <2>4, <2>5, <2>6, <2>7
<1>5. CASE Tick
  BY <1>1, <1>5 DEF Tick, chain, tokens
<1>6. CASE UNCHANGED vars
  BY <1>1, <1>6 DEF vars, chain, tokens
<1> QED BY <1>4, <1>5, <1>6 DEF GatewayNext, GatewayFinished

LEMMA StepKeepsInv ==
  ASSUME GatewayAssumption, GatewayInv, [GatewayNext]_vars
  PROVE  GatewayInv'
<1>1. GatewayTypeOK' /\ ClockInv' /\ ChainInv'
  BY StepKeepsTypes, StepKeepsChain
<1>2. Bounded' /\ Funded'
  <2>1. CASE \E r \in Requests : Admit(r)
    BY <2>1, AdmitKeepsTheLimiter
  <2>2. CASE Tick
    BY <2>2, <1>1, TickKeepsTheLimiter
  <2>3. ASSUME NEW r \in Requests,
               Arrive(r) \/ TooMany(r) \/ Open(r) \/ Login(r) \/ Auth(r) \/ Metrics(r)
        PROVE  UNCHANGED <<cfg, clock, bucket, served, late>>
    BY <2>3 DEF Arrive, TooMany, Open, Login, Auth, Metrics, Goto, Respond, limiter
  <2>4. CASE UNCHANGED vars
    BY <2>4, OthersKeepTheLimiter DEF vars, chain, limiter, GatewayInv
  <2> QED BY <2>1, <2>2, <2>3, <2>4, OthersKeepTheLimiter
          DEF GatewayNext, GatewayFinished, GatewayInv
<1> QED BY <1>1, <1>2 DEF GatewayInv

(***************************************************************************)
(* The invariant of limiter and chain holds in every reachable state.      *)
(***************************************************************************)
THEOREM GatewayInvariantHolds == GatewaySpec => []GatewayInv
<1>1. GatewayInit => GatewayInv
  BY InitEstablishesInv, GatewayAssumption, ConfigAssumption
<1>2. GatewayInv /\ [GatewayNext]_vars => GatewayInv'
  BY StepKeepsInv, GatewayAssumption
<1> QED BY <1>1, <1>2, PTL DEF GatewaySpec

\* The variables of router.go's chain keep their types.
THEOREM GatewayTypeCorrect == GatewaySpec => []GatewayTypeOK
<1>1. GatewayInv => GatewayTypeOK
  BY DEF GatewayInv
<1> QED BY <1>1, GatewayInvariantHolds, PTL

(***************************************************************************)
(* Admissions are bounded by burst and rate over every window, up to what  *)
(* late readings of the clock give back (ratelimit.go:12).                 *)
(***************************************************************************)
THEOREM AdmissionsAreBounded == GatewaySpec => []AdmissionBounded
<1>1. GatewayInv => AdmissionBounded
  <2> SUFFICES ASSUME GatewayInv, NEW s \in 0 .. clock, served[s] # 0
               PROVE  Second * served[s] <= Capacity + Gain * (clock - s) + Gain * late[s]
    BY DEF AdmissionBounded
  <2> USE DEF GatewayInv
  <2>1. clock \in Times /\ s \in Times
    <3>1. clock \in Times
      BY DEF GatewayTypeOK
    <3>2. s \in Times
      BY <3>1, GatewayAssumption, SMT DEF GatewayAssumption
    <3> QED BY <3>1, <3>2
  <2>2. served[s] \in Nat /\ late[s] \in Nat /\ cfg.burst \in Int
    BY <2>1 DEF GatewayTypeOK
  <2>3. cfg.burst >= 1
    <3>1. ~ (cfg.burst < 1)
      BY <2>1 DEF ClockInv
    <3> QED BY <3>1, <2>2, SMT
  <2>4. Refilled(clock) \in Int /\ Refilled(clock) >= 0
    <3>1. clock <= clock
      BY <2>1, SMT
    <3> QED BY <3>1, <2>1, <2>3, RefilledFacts, GatewayAssumption
  <2>5. Second * served[s] + Refilled(clock) <= Capacity + Gain * (clock - s) + Gain * late[s]
    BY DEF Bounded
  <2>6. /\ Gain \in Nat /\ Capacity \in Int /\ Second \in Nat
        /\ clock - s \in Int
    BY <2>1, Numbers, GatewayAssumption, SMT
  <2>7. /\ Second * served[s] \in Int /\ Gain * (clock - s) \in Int /\ Gain * late[s] \in Int
    BY <2>2, <2>6, SMT
  <2> QED BY <2>4, <2>5, <2>6, <2>7, SMT
<1> QED BY <1>1, GatewayInvariantHolds, PTL

(***************************************************************************)
(* A 429 is given only when burst and rate were used up since some moment  *)
(* (ratelimit.go:16).                                                      *)
(***************************************************************************)
THEOREM RefusalsHaveBeenEarned == GatewaySpec => RefusalsAreEarned
<1>1. ASSUME GatewayInv, [GatewayNext]_vars, NEW r \in Requests,
             pc[r] = "limit", reply'[r] = 429
      PROVE  TooMany(r)
  <2>1. reply[r] = 0 /\ reply \in [Requests -> Statuses \cup {0}]
    BY <1>1 DEF GatewayInv, ChainInv, GatewayTypeOK
  <2>2. ~ UNCHANGED reply
    BY <1>1, <2>1
  <2>3. PICK q \in Requests : TooMany(q) \/ Open(q) \/ Login(q) \/ Auth(q)
    BY <1>1, <2>2 DEF GatewayNext, Arrive, Admit, Metrics, Tick, Goto, GatewayFinished, vars, chain
  <2>4. q = r
    <3>1. ASSUME NEW s \in Statuses, Respond(q, s) PROVE q = r
      BY <3>1, <2>1, <1>1 DEF Respond
    <3> QED BY <3>1, <2>3 DEF TooMany, Open, Login, Auth
  <2> QED BY <2>3, <2>4, <1>1 DEF Open, Login, Auth
<1>2. ASSUME GatewayInv, NEW r \in Requests, TooMany(r)
      PROVE  \E s \in 0 .. clock : Second * (served[s] + 1) > Capacity + Gain * (stamp[r] - s)
  <2> USE <1>2, GatewayAssumption DEF GatewayInv
  <2> DEFINE t == stamp[r]
             l == bucket.last
             c == bucket.tokens
  <2>1. /\ t \in Times /\ t <= clock /\ clock \in Times /\ l \in Times /\ c \in Int
        /\ served \in [Times -> Nat] /\ cfg.burst \in Int
    <3>1. t \in Times /\ t <= clock /\ clock \in Times
      BY DEF GatewayTypeOK, ClockInv
    <3>2. l \in Times /\ c \in Int /\ served \in [Times -> Nat] /\ cfg.burst \in Int
      BY DEF GatewayTypeOK
    <3> QED BY <3>1, <3>2
  <2>2. Gain \in Nat /\ Capacity \in Int /\ Second \in Nat \ {0}
    BY Numbers
  <2>3. ~ (cfg.burst >= 1 /\ Refilled(t) >= Second)
    BY DEF TooMany, Admits
  <2>4. \A s \in 0 .. clock : s \in Times /\ served[s] \in Nat
    <3>1. \A s \in 0 .. clock : s \in Times
      BY <2>1, SMT
    <3> QED BY <3>1, <2>1
  <2>5. /\ Refilled(t) \in Int
        /\ t < l => Refilled(t) = c
        /\ t >= l /\ Refilled(t) # Capacity => Refilled(t) = c + Gain * (t - l)
    BY <2>1, RefilledFacts
  <2> HIDE DEF t, l, c
  <2> SUFFICES \E s \in 0 .. clock : Second * (served[s] + 1) > Capacity + Gain * (t - s)
    BY DEF t
  <2>6. CASE Capacity < Second
    <3>1. t \in 0 .. clock
      BY <2>1, SMT
    <3>2. Gain * (t - t) = 0 /\ Second * (served[t] + 1) >= Second
      <4>1. served[t] \in Nat
        BY <3>1, <2>4
      <4> QED BY <4>1, <2>1, <2>2, SMT
    <3>3. Second * (served[t] + 1) \in Int
      BY <3>1, <2>4, <2>2, SMT
    <3>4. Second * (served[t] + 1) > Capacity + Gain * (t - t)
      BY <2>2, <2>6, <3>2, <3>3, SMT
    <3> QED BY <3>1, <3>4
  <2>7. CASE Capacity >= Second
    <3>1. cfg.burst >= 1
      <4>1. cfg.burst * Second >= Second
        BY <2>7 DEF Capacity
      <4>2. cfg.burst <= 0 => cfg.burst * Second <= 0
        BY <2>1, <2>2, SMT
      <4>3. cfg.burst * Second \in Int
        BY <2>1, <2>2, SMT
      <4> QED BY <4>1, <4>2, <4>3, <2>1, <2>2, SMT
    <3>2. Refilled(t) < Second /\ Refilled(t) # Capacity
      BY <3>1, <2>2, <2>3, <2>5, <2>7, SMT
    <3>3. PICK s \in 0 .. clock : c >= Capacity + Gain * (l - s) - Second * served[s]
      BY DEF Funded, FundedSince, c, l
    <3> DEFINE a == Gain * (l - s)
               b == Gain * (t - l)
               d == Second * served[s]
    <3>4. a \in Int /\ b \in Int /\ d \in Int
      BY <2>1, <2>2, <2>4, SMT
    <3>5. Gain * (t - s) = a + b /\ Second * (served[s] + 1) = d + Second
      <4>1. s \in Int /\ served[s] \in Int
        BY <2>4
      <4> QED BY <4>1, <2>1, <2>2, SMT
    <3>6. t < l => b <= 0
      <4>1. t < l => Gain * (l - t) >= 0
        BY <2>1, <2>2, SMT
      <4>2. b = -(Gain * (l - t)) /\ Gain * (l - t) \in Int
        BY <2>1, <2>2, SMT
      <4> QED BY <4>1, <4>2, <3>4, SMT
    <3>7. Refilled(t) >= c + b
      <4>1. t >= l => Refilled(t) = c + b
        BY <2>5, <3>2
      <4>2. t < l => Refilled(t) = c
        BY <2>5
      <4> HIDE DEF b
      <4> QED BY <4>1, <4>2, <3>4, <3>6, <2>1, <2>5, SMT
    <3>8. c >= Capacity + a - d
      BY <3>3
    <3> HIDE DEF a, b, d
    <3>9. d + Second > Capacity + (a + b)
      BY <3>2, <3>4, <3>7, <3>8, <2>1, <2>2, <2>5, SMT
    <3> QED BY <3>5, <3>9
  <2> QED BY <2>2, <2>6, <2>7, SMT
<1>3. GatewayInv /\ [GatewayNext]_vars =>
        [\A r \in Requests : pc[r] = "limit" /\ reply'[r] = 429 =>
           \E s \in 0 .. clock :
             Second * (served[s] + 1) > Capacity + Gain * (stamp[r] - s)]_vars
  BY <1>1, <1>2
<1> QED BY <1>3, GatewayInvariantHolds, PTL DEF GatewaySpec, RefusalsAreEarned

(***************************************************************************)
(* Tokens are good until JWT_EXPIRY_HOURS after the login, to the second   *)
(* (middleware/auth.go:42).                                                *)
(***************************************************************************)
THEOREM TokensLast == GatewaySpec => TokensLastAsConfigured
<1>1. ASSUME GatewayInv, [GatewayNext]_vars, NEW r \in Calls, NEW l \in Logins,
             pc[r] = "route", shape[r].bearer = l
      PROVE  /\ userID'[r] = l => clock - issuedAt[l] < cfg.hours * Hour
             /\ reply'[r] = 401 => clock - issuedAt[l] > cfg.hours * Hour - Second
  <2> USE <1>1, GatewayAssumption DEF GatewayInv
  <2>1. /\ r \in Requests /\ reply[r] = 0 /\ userID[r] = NoToken /\ NoToken # l
        /\ l \in Issued \cup {NoToken}
        /\ reply \in [Requests -> Statuses \cup {0}]
        /\ userID \in [Requests -> Logins \cup {NoToken}]
    <3>1. r \in Requests /\ NoToken # l
      BY DEF Requests, GatewayAssumption
    <3> QED BY <3>1 DEF ChainInv, GatewayTypeOK
  <2>2. exp[l] # NoToken /\ exp[l] = Unix(issuedAt[l] + cfg.hours * Hour)
    BY <2>1 DEF ChainInv, Issued
  <2>3. /\ clock \in Int /\ issuedAt[l] \in Int /\ cfg.hours * Hour \in Int
        /\ Second \in Nat \ {0}
    <3>1. /\ clock \in Int /\ issuedAt[l] \in Int /\ cfg.hours \in Int /\ Hour \in Int
          /\ Second \in Nat \ {0}
      BY DEF GatewayTypeOK, GatewayAssumption
    <3> QED BY <3>1, SMT
  <2> DEFINE due == issuedAt[l] + cfg.hours * Hour
  <2>4. due \in Int /\ Unix(due) \in Int /\ Unix(due) <= due /\ due < Unix(due) + Second
    <3>1. due \in Int
      BY <2>3, SMT
    <3> HIDE DEF due
    <3> QED BY <3>1, <2>3, UnixCutsASecond
  <2>5. userID'[r] = l => Auth(r) /\ Valid(l)
    <3> SUFFICES ASSUME userID'[r] = l PROVE Auth(r) /\ Valid(l)
      OBVIOUS
    <3>1. ~ UNCHANGED userID
      BY <2>1
    <3>2. PICK q \in Requests : Auth(q)
      BY <3>1 DEF GatewayNext, Arrive, Admit, TooMany, Open, Login, Metrics, Tick,
                  GatewayFinished, vars, tokens
    <3>3. q = r
      BY <3>2, <2>1 DEF Auth
    <3>4. Valid(shape[r].bearer)
      BY <3>1, <3>2, <3>3 DEF Auth
    <3> QED BY <3>2, <3>3, <3>4
  <2>6. reply'[r] = 401 => Auth(r) /\ ~ Valid(l)
    <3> SUFFICES ASSUME reply'[r] = 401 PROVE Auth(r) /\ ~ Valid(l)
      OBVIOUS
    <3>1. ~ UNCHANGED reply
      BY <2>1
    <3>2. PICK q \in Requests : TooMany(q) \/ Open(q) \/ Login(q) \/ Auth(q)
      BY <3>1 DEF GatewayNext, Arrive, Admit, Metrics, Tick, Goto, GatewayFinished, vars, chain
    <3>3. q = r
      <4>1. ASSUME NEW s \in Statuses, Respond(q, s) PROVE q = r
        BY <4>1, <2>1 DEF Respond
      <4> QED BY <4>1, <3>2 DEF TooMany, Open, Login, Auth
    <3>4. reply'[r] # 200 /\ reply'[r] # 404 /\ r \notin Logins
      BY DEF GatewayAssumption
    <3>5. ASSUME NEW s \in Statuses, Respond(r, s) PROVE s = 401
      BY <3>5, <2>1 DEF Respond
    <3>6. Auth(r)
      BY <3>2, <3>3, <3>4, <3>5 DEF TooMany, Open, Login
    <3>7. ~ Respond(r, 200) /\ ~ Respond(r, 404)
      BY <3>5
    <3> QED BY <3>6, <3>7 DEF Auth
  <2>7. Valid(l) <=> clock < Unix(due)
    BY <2>1, <2>2 DEF Valid
  <2> HIDE DEF due
  <2>8. /\ Valid(l) => clock < due
        /\ ~ Valid(l) => clock > due - Second
    BY <2>3, <2>4, <2>7, SMT
  <2>9. /\ clock < due => clock - issuedAt[l] < cfg.hours * Hour
        /\ clock > due - Second => clock - issuedAt[l] > cfg.hours * Hour - Second
    BY <2>3, SMT DEF due
  <2> QED BY <2>5, <2>6, <2>8, <2>9
<1>2. GatewayInv /\ [GatewayNext]_vars =>
        [\A r \in Calls : \A l \in Logins :
           pc[r] = "route" /\ shape[r].bearer = l =>
             /\ userID'[r] = l => clock - issuedAt[l] < cfg.hours * Hour
             /\ reply'[r] = 401 => clock - issuedAt[l] > cfg.hours * Hour - Second]_vars
  BY <1>1
<1> QED BY <1>2, GatewayInvariantHolds, PTL DEF GatewaySpec, TokensLastAsConfigured

-------------------------------------------------------------------------------
(***************************************************************************)
(* The counters.  A request is counted when it is through, and only then.  *)
(***************************************************************************)
Counted(statuses) == {r \in Requests : pc[r] = "done" /\ reply[r] \in statuses}

Tally(n, statuses) ==
  IsFiniteSet(Counted(statuses)) /\ n = Cardinality(Counted(statuses))

CountInv ==
  /\ Tally(total[401], {401}) /\ Tally(total[429], {429})
  /\ Tally(total[200], {200, 404}) /\ total[404] = 0
  /\ \A r \in Requests : pc[r] \in {"metrics", "done"} => reply[r] \in Statuses

\* a step ends no request, or ends one in Metrics
LEMMA OnlyMetricsCounts ==
  ASSUME GatewayInv, CountInv, [GatewayNext]_vars
  PROVE  /\ \A r \in Requests : pc'[r] \in {"metrics", "done"} => reply'[r] \in Statuses
         /\ \/ /\ UNCHANGED total
               /\ \A r \in Requests : (pc'[r] = "done" <=> pc[r] = "done")
                                     /\ (pc[r] = "done" => reply'[r] = reply[r])
            \/ \E r \in Requests :
                 /\ pc[r] = "metrics" /\ reply' = reply
                 /\ pc' = [pc EXCEPT ![r] = "done"]
                 /\ total' = [total EXCEPT ![Label(r)] = @ + 1]
<1>0. /\ pc \in [Requests -> {"idle", "limit", "route", "metrics", "done"}]
      /\ reply \in [Requests -> Statuses \cup {0}]
      /\ \A r \in Requests : pc[r] \in {"metrics", "done"} => reply[r] \in Statuses
  BY DEF GatewayInv, GatewayTypeOK, CountInv
<1>1. ASSUME NEW r \in Requests, Arrive(r) \/ Admit(r)
      PROVE  /\ UNCHANGED <<total, reply>> /\ pc[r] \in {"idle", "limit"}
             /\ \E place \in {"limit", "route"} : pc' = [pc EXCEPT ![r] = place]
  BY <1>1 DEF Arrive, Admit, Goto
<1>2. ASSUME NEW r \in Requests, TooMany(r) \/ Open(r) \/ Login(r) \/ Auth(r)
      PROVE  /\ UNCHANGED total /\ pc[r] \in {"limit", "route"}
             /\ pc' = [pc EXCEPT ![r] = "metrics"]
             /\ \E s \in Statuses : reply' = [reply EXCEPT ![r] = s]
  <2>1. ASSUME NEW s \in Statuses, Respond(r, s)
        PROVE  pc' = [pc EXCEPT ![r] = "metrics"] /\ reply' = [reply EXCEPT ![r] = s]
    BY <2>1 DEF Respond
  <2>2. UNCHANGED total /\ pc[r] \in {"limit", "route"}
    BY <1>2 DEF TooMany, Open, Login, Auth
  <2>3. \E s \in Statuses : Respond(r, s)
    BY <1>2 DEF TooMany, Open, Login, Auth
  <2> QED BY <2>1, <2>2, <2>3
<1>3. ASSUME NEW r \in Requests, Metrics(r)
      PROVE  /\ pc[r] = "metrics" /\ reply' = reply
             /\ pc' = [pc EXCEPT ![r] = "done"]
             /\ total' = [total EXCEPT ![Label(r)] = @ + 1]
  BY <1>3 DEF Metrics, Goto
<1>4. ASSUME Tick \/ GatewayFinished \/ UNCHANGED vars
      PROVE  UNCHANGED <<pc, reply, total>>
  BY <1>4 DEF Tick, GatewayFinished, vars, chain
<1>5. ASSUME NEW r \in Requests, NEW place \in {"limit", "route"},
             pc[r] \in {"idle", "limit"}, UNCHANGED <<total, reply>>,
             pc' = [pc EXCEPT ![r] = place]
      PROVE  /\ \A q \in Requests : pc'[q] \in {"metrics", "done"} => reply'[q] \in Statuses
             /\ \A q \in Requests : (pc'[q] = "done" <=> pc[q] = "done")
                                   /\ (pc[q] = "done" => reply'[q] = reply[q])
  BY <1>0, <1>5
<1>6. ASSUME NEW r \in Requests, NEW s \in Statuses,
             pc[r] \in {"limit", "route"}, UNCHANGED total,
             pc' = [pc EXCEPT ![r] = "metrics"], reply' = [reply EXCEPT ![r] = s]
      PROVE  /\ \A q \in Requests : pc'[q] \in {"metrics", "done"} => reply'[q] \in Statuses
             /\ \A q \in Requests : (pc'[q] = "done" <=> pc[q] = "done")
                                   /\ (pc[q] = "done" => reply'[q] = reply[q])
  BY <1>0, <1>6
<1>7. ASSUME NEW r \in Requests, Metrics(r)
      PROVE  \A q \in Requests : pc'[q] \in {"metrics", "done"} => reply'[q] \in Statuses
  BY <1>0, <1>3, <1>7
<1>8. CASE \E r \in Requests : Arrive(r) \/ Admit(r)
  BY <1>1, <1>5, <1>8
<1>9. CASE \E r \in Requests : TooMany(r) \/ Open(r) \/ Login(r) \/ Auth(r)
  BY <1>2, <1>6, <1>9
<1>10. CASE \E r \in Requests : Metrics(r)
  BY <1>3, <1>7, <1>10
<1>11. CASE Tick \/ GatewayFinished \/ UNCHANGED vars
  <2>1. UNCHANGED <<pc, reply, total>>
    BY <1>4, <1>11
  <2> QED BY <1>0, <2>1
<1> QED BY <1>8, <1>9, <1>10, <1>11 DEF GatewayNext

\* what is counted when the step is over
CountedNext(S) == {r \in Requests : pc'[r] = "done" /\ reply'[r] \in S}

\* a tally is kept by what counts nothing of its kind, and grows by what does
LEMMA TallyKept ==
  ASSUME NEW S, \A r \in Requests : (pc'[r] = "done" <=> pc[r] = "done")
                                   /\ (pc[r] = "done" => reply'[r] = reply[r])
  PROVE  CountedNext(S) = Counted(S)
BY DEF Counted, CountedNext

LEMMA TallyGrows ==
  ASSUME GatewayTypeOK, NEW r \in Requests, NEW S, IsFiniteSet(Counted(S)),
         pc[r] = "metrics", reply' = reply, pc' = [pc EXCEPT ![r] = "done"]
  PROVE  /\ IsFiniteSet(CountedNext(S))
         /\ reply[r] \in S => Cardinality(CountedNext(S)) = Cardinality(Counted(S)) + 1
         /\ reply[r] \notin S => Cardinality(CountedNext(S)) = Cardinality(Counted(S))
<1>1. r \notin Counted(S) /\ pc \in [Requests -> {"idle", "limit", "route", "metrics", "done"}]
  BY DEF Counted, GatewayTypeOK
<1>2. CASE reply[r] \in S
  <2>1. CountedNext(S) = Counted(S) \cup {r}
    BY <1>1, <1>2 DEF Counted, CountedNext
  <2> QED BY <1>1, <1>2, <2>1, FS_AddElement
<1>3. CASE reply[r] \notin S
  <2>1. CountedNext(S) = Counted(S)
    BY <1>1, <1>3 DEF Counted, CountedNext
  <2> QED BY <1>3, <2>1
<1> QED BY <1>2, <1>3

\* nothing is counted before the first request
LEMMA InitEstablishesCount == GatewayInit => CountInv
<1> SUFFICES ASSUME GatewayInit PROVE CountInv
  OBVIOUS
<1>1. \A S : Counted(S) = {}
  BY DEF GatewayInit, Counted
<1>2. \A S : Tally(0, S)
  BY <1>1, FS_EmptySet DEF Tally
<1> QED BY <1>2 DEF GatewayInit, CountInv

\* every step keeps the tallies
LEMMA StepKeepsCount == GatewayInv /\ CountInv /\ [GatewayNext]_vars => CountInv'
<1> SUFFICES ASSUME GatewayInv, CountInv, [GatewayNext]_vars PROVE CountInv'
  OBVIOUS
<1>1. \A r \in Requests : pc'[r] \in {"metrics", "done"} => reply'[r] \in Statuses
  BY OnlyMetricsCounts
<1>2. CASE /\ UNCHANGED total
           /\ \A r \in Requests : (pc'[r] = "done" <=> pc[r] = "done")
                                 /\ (pc[r] = "done" => reply'[r] = reply[r])
  <2>1. \A S : CountedNext(S) = Counted(S)
    BY <1>2, TallyKept
  <2> QED BY <1>1, <1>2, <2>1 DEF CountInv, Tally, Counted, CountedNext
<1>3. ASSUME NEW r \in Requests,
             pc[r] = "metrics", reply' = reply, pc' = [pc EXCEPT ![r] = "done"],
             total' = [total EXCEPT ![Label(r)] = @ + 1]
      PROVE  CountInv'
  <2>1. /\ GatewayTypeOK /\ reply[r] \in Statuses
        /\ Tally(total[401], {401}) /\ Tally(total[429], {429})
        /\ Tally(total[200], {200, 404}) /\ total[404] = 0
    BY <1>3 DEF GatewayInv, CountInv
  <2>2. ASSUME NEW S, IsFiniteSet(Counted(S))
        PROVE  /\ IsFiniteSet(CountedNext(S))
               /\ reply[r] \in S =>
                    Cardinality(CountedNext(S)) = Cardinality(Counted(S)) + 1
               /\ reply[r] \notin S =>
                    Cardinality(CountedNext(S)) = Cardinality(Counted(S))
    BY <1>3, <2>1, <2>2, TallyGrows
  <2>3. /\ total'[404] = 0
        /\ total'[200] = IF reply[r] \in {200, 404} THEN total[200] + 1 ELSE total[200]
        /\ \A s \in {401, 429} :
             total'[s] = IF reply[r] \in {s} THEN total[s] + 1 ELSE total[s]
    <3>1. total \in [Statuses -> Nat] /\ Label(r) \in Statuses
      BY <2>1 DEF Label, GatewayTypeOK
    <3>2. \A s \in Statuses :
            total'[s] = IF s = Label(r) THEN total[s] + 1 ELSE total[s]
      BY <1>3, <3>1
    <3> QED BY <2>1, <3>2 DEF Label
  <2>4. /\ \A s \in {401, 429} : total'[s] = Cardinality(CountedNext({s}))
        /\ total'[200] = Cardinality(CountedNext({200, 404}))
        /\ \A S \in {{401}, {429}, {200, 404}} : IsFiniteSet(CountedNext(S))
    BY <2>1, <2>2, <2>3 DEF Tally
  <2> QED BY <1>1, <2>3, <2>4 DEF CountInv, Tally, Counted, CountedNext
<1> QED BY <1>2, <1>3, OnlyMetricsCounts

\* The limiter's side: the requests it has let in.
Admitted ==
  {r \in Requests : \/ pc[r] = "route"
                    \/ (pc[r] \in {"metrics", "done"} /\ reply[r] # 429)}

AdmitInv == IsFiniteSet(Admitted) /\ served[0] = Cardinality(Admitted)

\* only Admit lets a request in, and it counts it
LEMMA StepKeepsAdmitted ==
  ASSUME GatewayAssumption, GatewayInv, AdmitInv, [GatewayNext]_vars
  PROVE  AdmitInv'
<1>0. /\ pc \in [Requests -> {"idle", "limit", "route", "metrics", "done"}]
      /\ reply \in [Requests -> Statuses \cup {0}]
      /\ served \in [Times -> Nat] /\ 0 \in Times /\ 0 <= clock
  <2>1. MaxClock \in Nat
    BY DEF GatewayAssumption
  <2>2. GatewayTypeOK
    BY DEF GatewayInv
  <2>3. clock \in Times /\ served \in [Times -> Nat]
    BY <2>2, Zenon DEF GatewayTypeOK
  <2>4. /\ pc \in [Requests -> {"idle", "limit", "route", "metrics", "done"}]
        /\ reply \in [Requests -> Statuses \cup {0}]
    BY <2>2, Zenon DEF GatewayTypeOK
  <2>5. 0 \in Times /\ 0 <= clock
    BY <2>1, <2>3
  <2> QED
    BY <2>3, <2>4, <2>5
<1>1. ASSUME NEW r \in Requests, Admit(r) PROVE AdmitInv'
  <2>1. /\ pc[r] = "limit" /\ pc' = [pc EXCEPT ![r] = "route"] /\ reply' = reply
        /\ served' = [s \in Times |-> IF s <= clock THEN served[s] + 1 ELSE served[s]]
    BY <1>1 DEF Admit, Goto
  <2>2. Admitted' = Admitted \cup {r} /\ r \notin Admitted
    BY <1>0, <2>1 DEF Admitted
  <2>3. served'[0] = served[0] + 1
    BY <1>0, <2>1
  <2> QED
    BY <2>2, <2>3, FS_AddElement DEF AdmitInv
<1>2. ASSUME UNCHANGED served, Admitted' = Admitted PROVE AdmitInv'
  BY <1>2 DEF AdmitInv
<1>3. ASSUME NEW r \in Requests, NEW s \in Statuses, Respond(r, s),
             (pc[r] = "route" /\ s # 429) \/ (pc[r] = "limit" /\ s = 429)
      PROVE  Admitted' = Admitted
  BY <1>0, <1>3 DEF Respond, Admitted
<1>4. ASSUME NEW r \in Requests, Arrive(r) \/ Metrics(r)
      PROVE  UNCHANGED served /\ Admitted' = Admitted
  <2>1. /\ reply' = reply
        /\ \/ (pc[r] = "idle" /\ pc' = [pc EXCEPT ![r] = "limit"])
           \/ (pc[r] = "metrics" /\ pc' = [pc EXCEPT ![r] = "done"])
    BY <1>4 DEF Arrive, Metrics, Goto
  <2>2. Admitted' = Admitted
    BY <1>0, <2>1 DEF Admitted
  <2> QED
    BY <1>4, <2>2 DEF Arrive, Metrics, limiter
<1>5. ASSUME NEW r \in Requests, TooMany(r) \/ Open(r) \/ Login(r) \/ Auth(r)
      PROVE  UNCHANGED served /\ Admitted' = Admitted
  <2>1. UNCHANGED served
    BY <1>5 DEF TooMany, Open, Login, Auth, limiter
  <2>2. \E s \in Statuses :
          /\ Respond(r, s)
          /\ (pc[r] = "route" /\ s # 429) \/ (pc[r] = "limit" /\ s = 429)
    BY <1>5 DEF TooMany, Open, Login, Auth
  <2> QED
    BY <1>3, <2>1, <2>2
<1>6. ASSUME Tick \/ GatewayFinished \/ UNCHANGED vars
      PROVE  UNCHANGED served /\ Admitted' = Admitted
  <2>1. UNCHANGED <<pc, reply, served>>
    BY <1>6 DEF Tick, GatewayFinished, vars, chain, limiter
  <2> QED
    BY <2>1 DEF Admitted
<1> QED BY <1>1, <1>2, <1>4, <1>5, <1>6 DEF GatewayNext

\* who was let in has been counted as 200 or 401, or is on the way to it
LEMMA AdmittedAreCounted ==
  ASSUME GatewayTypeOK, CountInv, AdmitInv
  PROVE  served[0] = total[200] + total[401] + Cardinality(OnTheWay)
<1> DEFINE A == Counted({200, 404})
           B == Counted({401})
<1>1. Admitted = (A \cup B) \cup OnTheWay
  BY DEF Admitted, Counted, OnTheWay, CountInv, GatewayTypeOK
<1>2. A \cap B = {} /\ (A \cup B) \cap OnTheWay = {}
  BY DEF Counted, OnTheWay
<1>3. IsFiniteSet(A) /\ IsFiniteSet(B) /\ IsFiniteSet(OnTheWay)
  <2>1. OnTheWay \in SUBSET Admitted
    BY DEF OnTheWay, Admitted
  <2> QED
    BY <2>1, FS_Subset DEF CountInv, Tally, AdmitInv
<1>4. total[200] = Cardinality(A) /\ total[401] = Cardinality(B)
  BY DEF CountInv, Tally
<1>5. served[0] = Cardinality((A \cup B) \cup OnTheWay)
  BY <1>1 DEF AdmitInv
<1> HIDE DEF A, B
<1>6. ASSUME NEW S, NEW T, IsFiniteSet(S), IsFiniteSet(T), S \cap T = {}
      PROVE  /\ IsFiniteSet(S \cup T)
             /\ Cardinality(S \cup T) = Cardinality(S) + Cardinality(T)
  <2>1. Cardinality(S) \in Nat /\ Cardinality(T) \in Nat
    BY <1>6, FS_CardinalityType
  <2>2. Cardinality(S \cap T) = 0
    BY <1>6, FS_EmptySet
  <2>3. /\ IsFiniteSet(S \cup T)
        /\ Cardinality(S \cup T)
             = Cardinality(S) + Cardinality(T) - Cardinality(S \cap T)
    BY <1>6, FS_Union
  <2> QED
    BY <2>1, <2>2, <2>3
<1>7. IsFiniteSet(A \cup B) /\ Cardinality(A \cup B) = Cardinality(A) + Cardinality(B)
  BY <1>2, <1>3, <1>6
<1>8. Cardinality((A \cup B) \cup OnTheWay)
        = Cardinality(A \cup B) + Cardinality(OnTheWay)
  BY <1>2, <1>3, <1>6, <1>7
<1> QED BY <1>4, <1>5, <1>7, <1>8

(***************************************************************************)
(* http_requests_total (metrics.go:54) counts every request once: those    *)
(* the limiter admitted are in it as 200 or 401 or still under way, every  *)
(* 401 and 429 as itself, and what echo did not find as 200.               *)
(***************************************************************************)
THEOREM CountersAlwaysAddUp == GatewaySpec => []CountersAddUp
<1>1. GatewayInv /\ CountInv /\ AdmitInv => CountersAddUp
  BY AdmittedAreCounted DEF GatewayInv, CountInv, Tally, Counted, CountersAddUp
<1>2. GatewayInit => GatewayInv
  BY GatewayAssumption, ConfigAssumption, InitEstablishesInv
<1>3. GatewayInv /\ [GatewayNext]_vars => GatewayInv'
  BY GatewayAssumption, ConfigAssumption, StepKeepsInv
<1>4. GatewayInit => AdmitInv
  <2>1. ASSUME GatewayInit PROVE Admitted = {} /\ served[0] = 0
    BY <2>1, GatewayAssumption DEF GatewayInit, Admitted, GatewayAssumption
  <2> QED
    BY <2>1, FS_EmptySet DEF AdmitInv
<1>5. GatewayInv /\ AdmitInv /\ [GatewayNext]_vars => AdmitInv'
  BY GatewayAssumption, StepKeepsAdmitted
<1> QED
  BY <1>1, <1>2, <1>3, <1>4, <1>5, InitEstablishesCount, StepKeepsCount, PTL
  DEF GatewaySpec
===============================================================================
