-------------------------- MODULE Achievements_proofs --------------------------
(***************************************************************************)
(* The safety properties of Achievements for any number of reports, sends, *)
(* sign-ups and failures.                                                  *)
(***************************************************************************)
EXTENDS Achievements, Signup_proofs

(***************************************************************************)
(* What the reply of a request says about its row, and who is behind it.   *)
(* Sends of one report come one after the other, so a request that has its *)
(* 201 was followed by another only if that was too early.                 *)
(***************************************************************************)
Truth(s) ==
  /\ reply[s] = "CREATED" => s \in events
  /\ reply[s] \in {"unsent", "insert", "BAD_REQUEST"} => s \notin events
  /\ reply[s] = "insert" => action[s[1]] # "empty"
  /\ faults = 0 => /\ s \in events => reply[s] = "CREATED"
                   /\ reply[s] = "INTERNAL_ERROR" => action[s[1]] = "long"

Sequence(c) ==
  /\ \A i, j \in 1 .. MaxSends :
       i < j /\ reply[<<c, j>>] # "unsent" => reply[<<c, i>>] # "unsent"
  /\ \A i \in 1 .. MaxSends :
       /\ reply[<<c, i>>] \in {"insert", "CREATED"}
       /\ i + 1 \in 1 .. MaxSends /\ reply[<<c, i + 1>>] # "unsent"
       => <<c, i + 1>> \in early

ReportInv ==
  /\ SignupInv
  /\ AchievementTypeOK
  /\ \A s \in Sends : Truth(s)
  /\ \A c \in Reports : Sequence(c)

\* The invariant holds before the first request.
LEMMA InitEstablishesReportInv == AchievementInit => ReportInv
  <1> SUFFICES ASSUME AchievementInit PROVE ReportInv
    OBVIOUS
  <1>1. SignupInv /\ TypeOK
    BY InitEstablishesInvariant DEF AchievementInit, SignupInv
  <1>2. \A c \in Reports, i \in 1 .. MaxSends : <<c, i>> \in Sends
    BY DEF Sends
  <1> QED
    BY <1>1, <1>2 DEF AchievementInit, ReportInv, AchievementTypeOK, Truth, Sequence, Replies

\* What a step of sign-up or login leaves alone: users are never deleted, and
\* failures only add up.
LEMMA WorkOnlyAdds ==
  ASSUME SignupInv, Work \/ Exit
  PROVE  users \subseteq users' /\ (faults' = 0 => faults = 0)
  BY DEF SignupInv, TypeOK, Work, Exit, Fault, Refuse, Accept, FindByEmail, Create,
         CreateAccount, Login, FindFails, CreateFails, CreateAccountFails

\* A failure of a report is one more failure, and no other change, for Signup.
LEMMA FaultKeepsSignupInv ==
  ASSUME SignupInv, Fault, UNCHANGED <<users, accounts, form, pc, answer, token>>
  PROVE  SignupInv'
  BY SignupAssumption DEF SignupInv, TypeOK, Fault, UniqueEmails, Tokens, Progress,
     Registered, EmailOf, Addressed

\* The invariant of sign-up is kept by every step of the composition.
LEMMA SignupInvKept ==
  ASSUME ReportInv, [AchievementNext]_achievementVars
  PROVE  SignupInv'
  <1>1. ASSUME [Next]_vars PROVE SignupInv'
    BY <1>1, NextKeepsInvariant DEF ReportInv
  <1>2. ASSUME NEW s \in Sends, InsertFails(s) PROVE SignupInv'
    BY <1>2, FaultKeepsSignupInv DEF InsertFails, ReportInv
  <1> QED
    BY <1>1, <1>2 DEF AchievementNext, achievementVars, Next, Send, Insert,
       AchievementExit, AchievementFinished

-------------------------------------------------------------------------------
\* The invariant is inductive.
LEMMA NextKeepsReportInv ==
  ReportInv /\ [AchievementNext]_achievementVars => ReportInv'
  <1> SUFFICES ASSUME ReportInv, [AchievementNext]_achievementVars PROVE ReportInv'
    OBVIOUS
  <1> USE SignupAssumption, AchievementAssumption
      DEF ReportInv, AchievementTypeOK, Replies
  <1>0. SignupInv' /\ TypeOK'
    BY SignupInvKept DEF SignupInv
  <1>1. CASE Work /\ UNCHANGED reportVars
    BY <1>0, <1>1, WorkOnlyAdds DEF reportVars, Truth, Sequence
  <1>2. ASSUME NEW s \in Sends, Send(s) PROVE ReportInv'
    <2> USE <1>2 DEF Send, vars, Becomes
    <2>1. author[s[1]] \in users
      BY DEF SignupInv, TypeOK, Sends
    <2>2. AchievementTypeOK'
      BY <1>0, <2>1 DEF Sends
    <2>3. \A t \in Sends : Truth(t)'
      BY DEF Truth
    <2>4. \A c \in Reports : Sequence(c)'
      <3> SUFFICES ASSUME NEW c \in Reports PROVE Sequence(c)'
        OBVIOUS
      <3>0. PICK d \in Reports, n \in 1 .. MaxSends : s = <<d, n>>
        BY DEF Sends
      <3>1. \A i \in 1 .. MaxSends : <<c, i>> \in Sends
        BY DEF Sends
      <3>2. n > 1 => /\ n - 1 \in 1 .. MaxSends
                     /\ reply[<<d, n - 1>>] # "unsent"
                     /\ reply[<<d, n - 1>>] = "insert" => s \in early'
                     /\ reply[<<d, n - 1>>] # "CREATED"
        BY <3>0
      <3>3. reply[s] = "unsent" /\ reply'[s] # "unsent"
            /\ \A t \in Sends : t # s => reply'[t] = reply[t]
        OBVIOUS
      <3>4. early \subseteq early'
        OBVIOUS
      <3>5. ASSUME NEW i \in 1 .. MaxSends, NEW j \in 1 .. MaxSends,
                   i < j, reply'[<<c, j>>] # "unsent"
            PROVE  reply'[<<c, i>>] # "unsent"
        <4>1. CASE <<c, j>> = s
          <5>1. c = d /\ j = n
            BY <4>1, <3>0
          <5>2. i = n - 1 \/ (i < n - 1 /\ reply[<<c, i>>] # "unsent")
            BY <5>1, <3>2, <3>5 DEF Sequence
          <5> QED
            BY <5>1, <5>2, <3>0, <3>1, <3>2, <3>3, <3>5
        <4>2. CASE <<c, j>> # s
          BY <4>2, <3>1, <3>3, <3>5 DEF Sequence
        <4> QED
          BY <4>1, <4>2
      <3>6. ASSUME NEW i \in 1 .. MaxSends, i + 1 \in 1 .. MaxSends,
                   reply'[<<c, i>>] \in {"insert", "CREATED"},
                   reply'[<<c, i + 1>>] # "unsent"
            PROVE  <<c, i + 1>> \in early'
        <4>1. CASE <<c, i + 1>> = s
          <5>1. c = d /\ i = n - 1
            BY <4>1, <3>0
          <5> QED
            BY <5>1, <4>1, <3>0, <3>1, <3>2, <3>3, <3>6
        <4>2. CASE <<c, i + 1>> # s
          BY <4>2, <3>1, <3>3, <3>4, <3>6 DEF Sequence
        <4> QED
          BY <4>1, <4>2
      <3> QED
        BY <3>5, <3>6 DEF Sequence
    <2> QED
      BY <1>0, <2>2, <2>3, <2>4
  <1>3. ASSUME NEW s \in Sends, Insert(s) PROVE ReportInv'
    <2> USE <1>3 DEF Insert, vars, Becomes, Fits
    <2>1. AchievementTypeOK'
      BY <1>0 DEF Sends
    <2>2. \A t \in Sends : Truth(t)'
      BY DEF Truth, Sends
    <2>3. \A c \in Reports : Sequence(c)'
      <3>1. early' = early
        OBVIOUS
      <3>2. \A t \in Sends : /\ reply'[t] # "unsent" <=> reply[t] # "unsent"
                             /\ reply'[t] \in {"insert", "CREATED"} =>
                                  reply[t] \in {"insert", "CREATED"}
        OBVIOUS
      <3>3. \A c \in Reports, i \in 1 .. MaxSends : <<c, i>> \in Sends
        BY DEF Sends
      <3> QED
        BY <3>1, <3>2, <3>3 DEF Sequence
    <2> QED
      BY <1>0, <2>1, <2>2, <2>3
  <1>4. ASSUME NEW s \in Sends, InsertFails(s) PROVE ReportInv'
    <2> USE <1>4 DEF InsertFails, Becomes, Fault
    <2>1. AchievementTypeOK'
      BY <1>0 DEF Sends
    <2>2. \A t \in Sends : Truth(t)'
      BY DEF Truth, SignupInv, TypeOK
    <2>3. \A c \in Reports : Sequence(c)'
      BY DEF Sequence, Sends
    <2> QED
      BY <1>0, <2>1, <2>2, <2>3
  <1>5. CASE AchievementExit
    <2> USE <1>5 DEF AchievementExit
    <2>1. AchievementTypeOK'
      BY <1>0, WorkOnlyAdds DEF Sends
    <2>2. \A t \in Sends : Truth(t)'
      BY DEF Truth, Exit, Fault, SignupInv, TypeOK
    <2>3. \A c \in Reports : Sequence(c)'
      BY DEF Sequence, Sends
    <2> QED
      BY <1>0, <2>1, <2>2, <2>3
  <1>6. CASE AchievementFinished \/ UNCHANGED achievementVars
    BY <1>0, <1>6 DEF AchievementFinished, achievementVars, reportVars, vars, Truth,
       Sequence
  <1> QED
    BY <1>1, <1>2, <1>3, <1>4, <1>5, <1>6 DEF AchievementNext

(***************************************************************************)
(* The invariant holds in every reachable state of sign-up, login and the  *)
(* recording of achievements.                                              *)
(***************************************************************************)
THEOREM ReportInvariantHolds == AchievementSpec => []ReportInv
  BY InitEstablishesReportInv, NextKeepsReportInv, PTL DEF AchievementSpec

(***************************************************************************)
(* Reports keep their types, and whoever has sent one is in users.         *)
(***************************************************************************)
THEOREM AchievementTypeCorrect == AchievementSpec => []AchievementTypeOK
  <1>1. ReportInv => AchievementTypeOK
    BY DEF ReportInv
  <1> QED
    BY <1>1, ReportInvariantHolds, PTL

(***************************************************************************)
(* The answers of handler/achievement.go tell the client the truth about   *)
(* the row, and the foreign key refuses nobody.                            *)
(***************************************************************************)
THEOREM AnswersTellTheTruth == AchievementSpec => []AnswersAreTrue
  <1>1. ReportInv => AnswersAreTrue
    BY DEF ReportInv, Truth, AnswersAreTrue
  <1> QED
    BY <1>1, ReportInvariantHolds, PTL

-------------------------------------------------------------------------------
(***************************************************************************)
(* What is proved of sign-up holds with the reports beside it: their       *)
(* failures count as failures of the one database, and change no user, no  *)
(* account and no token.                                                   *)
(***************************************************************************)
THEOREM SignupsAreSafeAmongReports ==
  AchievementSpec => [](OneUserPerEmail /\ CreatedIsComplete /\ RefusedLeavesNothing)
  <1>1. ReportInv => OneUserPerEmail /\ CreatedIsComplete /\ RefusedLeavesNothing
    BY SignupIsSafe DEF ReportInv
  <1> QED
    BY <1>1, ReportInvariantHolds, PTL

\* A step of the composition is one of sign-up, or the failure of a report.
LEMMA StepOfSignupOrReport ==
  ASSUME [AchievementNext]_achievementVars
  PROVE  \/ [Next]_vars
         \/ Fault /\ UNCHANGED <<users, accounts, form, pc, answer, token>>
  BY DEF AchievementNext, achievementVars, Next, Send, Insert, InsertFails,
     AchievementExit, AchievementFinished

(***************************************************************************)
(* Without failures every address that an acceptable sign-up names has one *)
(* winner (auth.go:58-97), also while its users send reports.              *)
(***************************************************************************)
THEOREM OneWinnerAmongReports == AchievementSpec => []OneWinner
  <1>1. AchievementInit => RaceInv
    BY InitStartsRace DEF AchievementInit
  <1>2. ReportInv /\ RaceInv /\ [AchievementNext]_achievementVars => RaceInv'
    <2> SUFFICES ASSUME ReportInv, RaceInv, [AchievementNext]_achievementVars
                 PROVE  RaceInv'
      OBVIOUS
    <2>1. CASE [Next]_vars
      BY <2>1, NextKeepsRace DEF ReportInv
    <2>2. CASE Fault
      BY <2>2, SignupAssumption DEF Fault, RaceInv, ReportInv, SignupInv, TypeOK
    <2> QED
      BY <2>1, <2>2, StepOfSignupOrReport
  <1>3. ReportInv /\ RaceInv => OneWinner
    BY RaceHasOneWinner DEF ReportInv
  <1> QED
    BY <1>1, <1>2, <1>3, ReportInvariantHolds, PTL DEF AchievementSpec

(***************************************************************************)
(* Sign-up with the reports beside it implements the address book as well: *)
(* no report takes an address, opens an account or gives a token.          *)
(***************************************************************************)
THEOREM AchievementsImplementAddressBook == AchievementSpec => ImplementsAddressBook
  <1>1. AchievementInit => Addresses!Init
    BY DEF AchievementInit, Init, Addresses!Init, OwnerOf, Registered
  <1>2. ReportInv /\ [AchievementNext]_achievementVars
          => [Addresses!Next]_<<wanted, owner, accounts, token>>
    <2> SUFFICES ASSUME ReportInv, [AchievementNext]_achievementVars
                 PROVE  [Addresses!Next]_<<wanted, owner, accounts, token>>
      OBVIOUS
    <2>1. CASE [Next]_vars
      BY <2>1, StepImplementsAddressBook DEF ReportInv
    <2>2. CASE UNCHANGED <<users, accounts, form, token>>
      BY <2>2 DEF wanted, owner, EmailOf, OwnerOf, Registered
    <2> QED
      BY <2>1, <2>2, StepOfSignupOrReport
  <1> QED
    BY <1>1, <1>2, ReportInvariantHolds, PTL
       DEF AchievementSpec, ImplementsAddressBook, Addresses!Spec, wanted, owner

-------------------------------------------------------------------------------
\* Requests for one report are as many as MaxSends at most.
LEMMA SendsOfAReportAreFinite ==
  ASSUME NEW c \in Reports, NEW T \in SUBSET Sends, \A s \in T : s[1] = c
  PROVE  IsFiniteSet(T)
  <1> DEFINE f == [s \in T |-> s[2]]
  <1>1. \A s \in T : s = <<c, s[2]>> /\ s[2] \in 1 .. MaxSends
    BY DEF Sends
  <1>2. f \in Injection(T, 1 .. MaxSends)
    BY <1>1 DEF Injection, IsInjective
  <1>3. IsFiniteSet(1 .. MaxSends)
    BY FS_Interval, AchievementAssumption
  <1> QED
    BY <1>2, <1>3, FS_Injection

\* A set without two elements.
LEMMA AtMostOne ==
  ASSUME NEW S, \A s, t \in S : s = t
  PROVE  IsFiniteSet(S) /\ Cardinality(S) <= 1
  <1>1. CASE S = {}
    BY <1>1, FS_EmptySet
  <1>2. CASE S # {}
    <2>1. PICK s \in S : TRUE
      BY <1>2
    <2>2. S = {s}
      BY <2>1
    <2>3. IsFiniteSet({s}) /\ Cardinality({s}) = 1
      BY FS_Singleton
    <2> QED
      BY <2>2, <2>3
  <1> QED
    BY <1>1, <1>2

\* Of the requests for one report that were answered 201, each but one has a
\* successor that was sent too early.
LEMMA CreatedButOneWereHurried ==
  ASSUME ReportInv, NEW c \in Reports
  PROVE  LET made    == {s \in RowsFor(c) : reply[s] = "CREATED"}
             hurried == {s \in early : s[1] = c}
         IN /\ IsFiniteSet(made) /\ IsFiniteSet(hurried)
            /\ Cardinality(made) <= 1 + Cardinality(hurried)
  <1> DEFINE made    == {s \in RowsFor(c) : reply[s] = "CREATED"}
             hurried == {s \in early : s[1] = c}
             Next1(s) == <<c, s[2] + 1>>
             latest  == {s \in made : Next1(s) \notin hurried}
             f       == [s \in made \ latest |-> Next1(s)]
  <1> USE AchievementAssumption DEF ReportInv, AchievementTypeOK, RowsFor
  <1>1. \A s \in made : s \in Sends /\ s = <<c, s[2]>> /\ s[2] \in 1 .. MaxSends
    BY DEF Sends
  <1>2. IsFiniteSet(made) /\ IsFiniteSet(hurried)
    BY SendsOfAReportAreFinite, made \subseteq Sends, hurried \subseteq Sends
  <1>3. \A s, t \in latest : s = t
    <2> SUFFICES ASSUME NEW s \in latest, NEW t \in latest, s[2] < t[2] PROVE FALSE
      BY <1>1
    <2>1. s[2] + 1 \in 1 .. MaxSends /\ reply[<<c, t[2]>>] # "unsent"
      BY <1>1
    <2>2. reply[<<c, s[2] + 1>>] # "unsent"
      BY <1>1, <2>1 DEF Sequence
    <2> QED
      BY <1>1, <2>1, <2>2 DEF Sequence
  <1>4. IsFiniteSet(latest) /\ Cardinality(latest) <= 1
    <2> HIDE DEF latest
    <2> QED
      BY <1>3, AtMostOne
  <1>5. f \in Injection(made \ latest, hurried)
    BY <1>1 DEF Injection, IsInjective
  <1>6. IsFiniteSet(made \ latest) /\ Cardinality(made \ latest) <= Cardinality(hurried)
    BY <1>2, <1>5, FS_Injection
  <1>7. Cardinality(made \ latest) = Cardinality(made) - Cardinality(latest)
    <2>1. made \cap latest = latest
      OBVIOUS
    <2> QED
      BY <1>2, <2>1, FS_Difference
  <1>8. /\ Cardinality(made) \in Nat /\ Cardinality(hurried) \in Nat
        /\ Cardinality(latest) \in Nat
    BY <1>2, <1>4, FS_CardinalityType
  <1> HIDE DEF made, hurried, latest, f
  <1>9. Cardinality(made) <= 1 + Cardinality(hurried)
    BY <1>4, <1>6, <1>7, <1>8
  <1> QED
    BY <1>2, <1>9 DEF made, hurried

(***************************************************************************)
(* Rows of a report beyond the first are explained by what the client did  *)
(* not know or did not wait for: usecase/achievement.go makes no           *)
(* duplicates of its own.                                                  *)
(***************************************************************************)
THEOREM DuplicatesAreExplained == AchievementSpec => []DuplicatesAreTheClients
  <1>1. ReportInv => DuplicatesAreTheClients
    <2> SUFFICES ASSUME ReportInv, NEW c \in Reports
                 PROVE  Cardinality(RowsFor(c)) <=
                          1 + Cardinality({s \in early : s[1] = c})
                            + Cardinality({s \in RowsFor(c) :
                                reply[s] \in {"INTERNAL_ERROR", "NO_RESPONSE"}})
      BY DEF DuplicatesAreTheClients
    <2> DEFINE made     == {s \in RowsFor(c) : reply[s] = "CREATED"}
               doubtful == {s \in RowsFor(c) :
                              reply[s] \in {"INTERNAL_ERROR", "NO_RESPONSE"}}
               hurried  == {s \in early : s[1] = c}
    <2>1. RowsFor(c) = made \cup doubtful /\ made \cap doubtful = {}
      BY DEF ReportInv, AchievementTypeOK, Truth, RowsFor, Replies
    <2>2. IsFiniteSet(made) /\ IsFiniteSet(hurried)
          /\ Cardinality(made) <= 1 + Cardinality(hurried)
      BY CreatedButOneWereHurried
    <2>3. IsFiniteSet(doubtful)
      BY SendsOfAReportAreFinite DEF ReportInv, AchievementTypeOK, RowsFor
    <2> HIDE DEF made, doubtful, hurried
    <2>4. Cardinality(made \cup doubtful) = Cardinality(made) + Cardinality(doubtful)
      <3>1. Cardinality({}) = 0
        BY FS_EmptySet
      <3>2. Cardinality(made) \in Nat /\ Cardinality(doubtful) \in Nat
        BY <2>2, <2>3, FS_CardinalityType
      <3>3. Cardinality(made \cup doubtful)
              = Cardinality(made) + Cardinality(doubtful) - Cardinality(made \cap doubtful)
        BY <2>2, <2>3, FS_Union
      <3>4. Cardinality(made \cap doubtful) = 0
        BY <2>1, <3>1
      <3> QED
        BY <3>2, <3>3, <3>4
    <2>5. /\ Cardinality(made) \in Nat /\ Cardinality(hurried) \in Nat
          /\ Cardinality(doubtful) \in Nat
      BY <2>2, <2>3, FS_CardinalityType
    <2> QED
      BY <2>1, <2>2, <2>4, <2>5 DEF doubtful, hurried
  <1> QED
    BY <1>1, ReportInvariantHolds, PTL
===============================================================================
