------------------------------ MODULE Achievements ------------------------------
(***************************************************************************)
(* POST /v1/achievements composed with Signup: the handler, use case and   *)
(* repository of achievement events, whose rows refer to users.  The       *)
(* request carries an idempotency key, but neither a lookup nor a unique   *)
(* index uses it: what happens to a report depends on how often the client *)
(* sends it.                                                               *)
(***************************************************************************)
EXTENDS Signup

CONSTANTS
  Reports,      \* what clients want recorded, each with its own key
  MaxSends      \* bounds how often one report is sent

Sends == Reports \X (1 .. MaxSends)   \* the HTTP requests

ASSUME AchievementAssumption == MaxSends \in Nat \ {0}

VARIABLES
  author,     \* report |-> the user of the token it is sent with
  action,     \* report |-> its action type: "empty", "long", "fit"
  events,     \* the rows of achievement_events, by the request that made them
  reply,      \* request |-> "unsent", "insert" while it is worked on, the code
  early       \* history: requests sent before the last one had its answer

reportVars      == <<author, action, events, reply, early>>
achievementVars == <<vars, reportVars>>

Replies == {"unsent", "insert", "BAD_REQUEST", "CREATED", "INTERNAL_ERROR",
            "NO_RESPONSE"}

AchievementInit ==
  /\ Init
  /\ author \in [Reports -> Signups]
  /\ action \in [Reports -> {"empty", "long", "fit"}]
  /\ events = {}
  /\ reply = [s \in Sends |-> "unsent"]
  /\ early = {}

RowsFor(c) == {s \in events : s[1] = c}

Becomes(s, code) == reply' = [reply EXCEPT ![s] = code]

-------------------------------------------------------------------------------
(***************************************************************************)
(* Mutants of the actions below (README.md, "Mutants").                    *)
(***************************************************************************)
\* a failed INSERT is reported as success
MutInsertFailsUnseen(s) ==
  /\ Fault
  /\ reply[s] = "insert"
  /\ UNCHANGED events \/ events' = events \cup {s}
  /\ Becomes(s, "CREATED")
  /\ UNCHANGED <<users, accounts, form, pc, answer, token, author, action, early>>

\* the use case repeats an INSERT that failed
MutInsertFailsRetries(s) ==
  /\ Fault
  /\ reply[s] = "insert"
  /\ \E t \in Sends : t[1] = s[1] /\ events' = events \cup {s, t}
  /\ Becomes(s, "CREATED")
  /\ UNCHANGED <<users, accounts, form, pc, answer, token, author, action, early>>

-------------------------------------------------------------------------------
\* a client sends a report, and again when it was told 500, got no response or
\* does not wait for one any longer; Auth asks for a token, the handler for an
\* action type
Send(s) ==
  LET last == <<s[1], s[2] - 1>>
  IN /\ reply[s] = "unsent"
     /\ s[2] > 1 => reply[last] \in {"insert", "INTERNAL_ERROR", "NO_RESPONSE"}
     /\ author[s[1]] \in {token[q] : q \in People}
     /\ early' = early \cup {t \in {s} : s[2] > 1 /\ reply[last] = "insert"}
     /\ \/ action[s[1]] = "empty" /\ Becomes(s, "BAD_REQUEST")
        \/ action[s[1]] # "empty" /\ Becomes(s, "insert")
  /\ UNCHANGED <<vars, author, action, events>>

\* what the columns and the foreign key accept
Fits(s) == action[s[1]] = "fit" /\ author[s[1]] \in users

\* INSERT INTO achievement_events
Insert(s) ==
  /\ reply[s] = "insert"
  /\ \/ Fits(s)   /\ events' = events \cup {s} /\ Becomes(s, "CREATED")
     \/ ~ Fits(s) /\ UNCHANGED events /\ Becomes(s, "INTERNAL_ERROR")
  /\ UNCHANGED <<vars, author, action, early>>

\* the INSERT fails, or takes effect and its answer is lost
InsertFails(s) ==
  /\ Fault
  /\ reply[s] = "insert"
  /\ UNCHANGED events \/ (Fits(s) /\ events' = events \cup {s})
  /\ Becomes(s, "INTERNAL_ERROR")
  /\ UNCHANGED <<users, accounts, form, pc, answer, token, author, action, early>>

\* the process ends; MySQL may still execute an INSERT it has received
AchievementExit ==
  LET working == {s \in Sends : reply[s] = "insert"}
  IN /\ Exit
     /\ \E done \in SUBSET {s \in working : Fits(s)} : events' = events \cup done
     /\ reply' = [s \in Sends |-> IF s \in working THEN "NO_RESPONSE" ELSE reply[s]]
  /\ UNCHANGED <<author, action, early>>

\* nobody has a request under way; a client may have given up
AchievementFinished ==
  /\ \A r \in People : pc[r] = "done"
  /\ \A s \in Sends : reply[s] # "insert"
  /\ UNCHANGED achievementVars

AchievementNext ==
  \/ Work /\ UNCHANGED reportVars
  \/ \E s \in Sends : Send(s) \/ Insert(s) \/ InsertFails(s)
  \/ AchievementExit
  \/ AchievementFinished

AchievementSpec == AchievementInit /\ [][AchievementNext]_achievementVars

-------------------------------------------------------------------------------
\* Type invariant of sign-up and of the reports (handler/achievement.go and its
\* row); whoever has sent one is in the table users.
AchievementTypeOK ==
  /\ TypeOK
  /\ author \in [Reports -> Signups]
  /\ action \in [Reports -> {"empty", "long", "fit"}]
  /\ events \subseteq Sends
  /\ reply \in [Sends -> Replies]
  /\ early \subseteq Sends
  /\ \A s \in Sends : reply[s] # "unsent" => author[s[1]] \in users

(***************************************************************************)
(* A 201 means the event of this request is in the table, a 400 that it is *)
(* not; only a 500 and a missing response leave the client in doubt        *)
(* (handler/achievement.go:39-47).  Without failures a row means 201, and  *)
(* a 500 is for the content: the foreign key of achievement_events never   *)
(* refuses a client, since a token is only given for a user who is in the  *)
(* table (auth.go:81-93, 119).                                             *)
(***************************************************************************)
AnswersAreTrue ==
  \A s \in Sends :
    /\ reply[s] = "CREATED" => s \in events
    /\ reply[s] \in {"unsent", "insert", "BAD_REQUEST"} => s \notin events
    /\ faults = 0 =>
         /\ s \in events => reply[s] = "CREATED"
         /\ reply[s] = "INTERNAL_ERROR" => action[s[1]] = "long"

(***************************************************************************)
(* A report that is in the table more often than once was sent again by a  *)
(* client that did not know better: each row beyond the first belongs to a *)
(* request answered 500 or not at all, or was followed by one sent too     *)
(* early.  The server makes no duplicates of its own, and prevents none    *)
(* (achievement_repository.go:22).                                         *)
(***************************************************************************)
DuplicatesAreTheClients ==
  \A c \in Reports :
    Cardinality(RowsFor(c)) <=
      1 + Cardinality({s \in early : s[1] = c})
        + Cardinality({s \in RowsFor(c) :
                         reply[s] \in {"INTERNAL_ERROR", "NO_RESPONSE"}})
===============================================================================
