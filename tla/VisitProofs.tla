----------------------------- MODULE VisitProofs -----------------------------
(***************************************************************************)
(* What is true of any number of commands, files, gestures and executors   *)
(* of the work that an executor does beside a run: a command takes effect  *)
(* at most once and its agent hears of no success that did not happen; a   *)
(* row of attachments has its bytes, and a settled task every output; a    *)
(* takeover that was confirmed leaves the desktop to its owner; the chat   *)
(* keeps what a response said; and no change is missed by an open page.    *)
(***************************************************************************)
EXTENDS ControlCommands, Desktop, Files, ResponseStream, EventStream, FiniteSetTheorems, TLAPS

-----------------------------------------------------------------------------
\* Commands of the control server.

Phases == {"away", "going", "claiming", "acting", "saving", "posting", "suspending"}
Busy(s) == visit[s].phase \in {"acting", "saving"}

VisitRecord == [phase : Phases, todo : SUBSET Command, on : Command \cup {"none"},
                result : {"none"} \cup Results]

CommandTypes ==
  /\ request \in [Command -> [status : {"none", "pending", "resolved", "interrupted"},
                              result : {"none"} \cup Results]]
  /\ command \in [Command -> {"none", "claimed"} \cup Results]
  /\ acted \in [Command -> Nat]
  /\ leading \in Server /\ visit \in [Server -> VisitRecord]
  /\ \A s \in Server : visit[s].phase \notin {"away", "going"} => visit[s].on \in Command

\* What a visit knows of the command it is at: until its result is stored it owns the
\* claim, and a success it carries has happened.
VisitOK(s) ==
  /\ Busy(s) => command[visit[s].on] = "claimed"
  /\ visit[s].phase = "acting" => acted[visit[s].on] = 0
  /\ visit[s].phase = "saving" => visit[s].result # "none"
  /\ visit[s].phase \in {"saving", "posting"} =>
       visit[s].result # "answer" /\ (visit[s].result \in {"done", "asked"} => acted[visit[s].on] = 1)

OneActor == \A s, t \in Server : Busy(s) /\ Busy(t) /\ visit[s].on = visit[t].on => s = t

CommandOK(c) ==
  /\ acted[c] \in {0, 1}
  /\ command[c] = "none" => acted[c] = 0
  /\ command[c] # "answer" /\ (command[c] \in {"done", "asked"} => acted[c] = 1)
  /\ request[c].result \in {"done", "answer"} => acted[c] = 1

\* The results on their way are what their visits carried.
SentOK(sent) ==
  \A m \in sent : /\ m.on \in Command /\ m.result \in {"none"} \cup Results
                  /\ m.result \in {"done", "answer"} => acted[m.on] = 1

CommandInv ==
  /\ CommandTypes /\ OneActor /\ SentOK(resultsSent)
  /\ \A s \in Server : VisitOK(s)
  /\ \A c \in Command : CommandOK(c)

LEMMA CommandInit == ControlInit => CommandInv
  BY DEF ControlInit, CommandInv, CommandTypes, VisitRecord, OneActor, VisitOK, CommandOK, Busy, Away, Visiting, Phases,
         SentOK

CommandRequests(R) ==
  /\ R \in [Command -> [status : {"none", "pending", "resolved", "interrupted"}, result : {"none"} \cup Results]]
  /\ \A c \in Command : R[c].result \in {"done", "answer"} => acted[c] = 1

LEMMA CommandFields ==
  ASSUME NEW p \in Phases, NEW todo \in SUBSET Command, NEW c \in Command \cup {"none"},
         NEW r \in {"none"} \cup Results
  PROVE  LET v == Visiting(p, todo, c, r)
         IN  v \in VisitRecord /\ v.phase = p /\ v.on = c /\ v.result = r
  BY DEF Visiting, VisitRecord

\* A visit moves to a phase at which it owns no claim.
Elsewhere ==
  \E s \in Server, p \in Phases \ {"acting", "saving"}, todo \in SUBSET Command,
     c \in Command \cup {"none"}, r \in {"none"} \cup Results :
       /\ visit' = [visit EXCEPT ![s] = Visiting(p, todo, c, r)]
       /\ p \notin {"away", "going"} => c \in Command
       /\ p = "posting" => r # "answer" /\ (r \in {"done", "asked"} => acted[c] = 1)

\* Steps of the daemon, and of a visit that is not at a claimed command afterwards.
LEMMA Aside ==
  ASSUME CommandInv, UNCHANGED <<command, acted>>, CommandRequests(request'), leading' \in Server,
         SentOK(resultsSent'),
         (UNCHANGED visit) \/ Elsewhere
  PROVE  CommandInv'
<1>1. CASE UNCHANGED visit
  BY <1>1 DEF CommandInv, CommandTypes, OneActor, VisitOK, CommandOK, Busy, CommandRequests, SentOK
<1>2. CASE ~UNCHANGED visit
  <2> PICK s \in Server, p \in Phases \ {"acting", "saving"}, todo \in SUBSET Command,
           c \in Command \cup {"none"}, r \in {"none"} \cup Results :
              /\ visit' = [visit EXCEPT ![s] = Visiting(p, todo, c, r)]
              /\ p \notin {"away", "going"} => c \in Command
              /\ p = "posting" => r # "answer" /\ (r \in {"done", "asked"} => acted[c] = 1)
    BY <1>2 DEF Elsewhere
  <2> DEFINE v == Visiting(p, todo, c, r)
  <2>1. \A t \in Server : visit'[t] = IF t = s THEN v ELSE visit[t]
    BY DEF CommandInv, CommandTypes
  <2>2. v \in VisitRecord /\ v.phase = p /\ v.on = c /\ v.result = r
    BY CommandFields
  <2>3. CommandTypes'
    <3> HIDE DEF v
    <3> QED
      BY <2>1, <2>2 DEF CommandInv, CommandTypes, CommandRequests
  <2> HIDE DEF v
  <2> QED
    BY <2>1, <2>2, <2>3 DEF CommandInv, OneActor, VisitOK, CommandOK, Busy, CommandRequests, SentOK
<1> QED
  BY <1>1, <1>2

LEMMA CommandNext == CommandInv /\ [ControlNext]_controlVars => CommandInv'
<1> SUFFICES ASSUME CommandInv, [ControlNext]_controlVars PROVE CommandInv'
  OBVIOUS
<1>0. /\ CommandRequests(request) /\ leading \in Server /\ SentOK(resultsSent)
      /\ \A s \in Server : visit[s] \in VisitRecord /\ VisitOK(s)
      /\ \A s \in Server : visit[s].phase \notin {"away", "going"} => visit[s].on \in Command
      /\ \A c \in Command : CommandOK(c)
  BY DEF CommandInv, CommandTypes, CommandOK, CommandRequests
<1>1. ASSUME NEW c \in Command, CallTool(c) \/ CallEnds(c) PROVE CommandInv'
  <2>1. CommandRequests(request')
    BY <1>0, <1>1 DEF CallTool, CallEnds, Interrupted, CommandRequests, Results
  <2> QED
    BY <1>0, <1>1, <2>1, Aside DEF CallTool, CallEnds
<1>2. CASE DaemonReturns \/ TaskEnds
  <2>1. CommandRequests(request')
    BY <1>0, <1>2 DEF DaemonReturns, TaskEnds, Interrupted, CommandRequests, Results
  <2> QED
    BY <1>0, <1>2, <2>1, Aside DEF DaemonReturns, TaskEnds
<1>3. CASE UNCHANGED <<request, command, acted, visit, resultsSent, leading>>
  BY <1>0, <1>3, Aside
<1>4. ASSUME NEW s \in Server, Observe(s) \/ ObserveEnds(s) \/ Stopped(s) \/ RecordSuspension(s) PROVE CommandInv'
  <2>1. PICK p \in {"away", "going"}, todo \in SUBSET Command :
          visit' = [visit EXCEPT ![s] = Visiting(p, todo, "none", "none")]
    <3>1. visit[s].todo \ {visit[s].on} \in SUBSET Command /\ PendingRequests \in SUBSET Command
      BY <1>0 DEF VisitRecord, PendingRequests
    <3> QED
      BY <1>4, <3>1 DEF Observe, ObserveEnds, Stopped, RecordSuspension, Onward, Away, VisitGoes
  <2>2. Elsewhere
    BY <1>4, <2>1 DEF Phases, Results, Elsewhere
  <2> QED
    BY <1>0, <1>4, <2>2, Aside DEF Observe, ObserveEnds, Stopped, RecordSuspension
<1>5. ASSUME NEW s \in Server, NEW c \in Command, TakeUp(s, c) PROVE CommandInv'
  <2>1. visit[s].todo \in SUBSET Command
    BY <1>0 DEF VisitRecord
  <2>2. PICK p \in {"claiming", "posting"}, r \in {"none", "refused"} :
          visit' = [visit EXCEPT ![s] = Visiting(p, visit[s].todo, c, r)]
    BY <1>5 DEF TakeUp, VisitGoes
  <2>3. p \in Phases \ {"acting", "saving"} /\ r \in {"none"} \cup Results /\ r \notin {"done", "asked", "answer"}
    BY DEF Phases, Results
  <2>4. Elsewhere
    BY <1>5, <2>1, <2>2, <2>3 DEF TakeUp, Elsewhere
  <2> QED
    BY <1>0, <1>5, <2>4, Aside DEF TakeUp
<1>6. ASSUME NEW s \in Server, ClaimCommand(s) PROVE CommandInv'
  <2> DEFINE c == visit[s].on
  <2>0. c \in Command /\ visit[s].todo \in SUBSET Command
    BY <1>0, <1>6 DEF ClaimCommand, VisitRecord
  <2>1. CASE Claimable(c)
    <3> DEFINE v == Visiting("acting", visit[s].todo, c, "none")
    <3>1. /\ command[c] = "none" /\ command' = [command EXCEPT ![c] = "claimed"]
          /\ visit' = [visit EXCEPT ![s] = v]
          /\ UNCHANGED <<request, acted, resultsSent, leading>>
      BY <1>6, <2>1 DEF ClaimCommand, Claimable, VisitGoes, Still
    <3>2. v \in VisitRecord /\ v.phase = "acting" /\ v.on = c
      BY <2>0, CommandFields DEF Phases
    <3>3. \A t \in Server : visit'[t] = IF t = s THEN v ELSE visit[t]
      BY <3>1 DEF CommandInv, CommandTypes
    <3>4. \A d \in Command : command'[d] = IF d = c THEN "claimed" ELSE command[d]
      BY <3>1 DEF CommandInv, CommandTypes
    <3>5. \A t \in Server : Busy(t) => visit[t].on # c
      BY <1>0, <3>1 DEF VisitOK
    <3>6. acted[c] = 0
      BY <1>0, <2>0, <3>1 DEF CommandOK
    <3> HIDE DEF c, v
    <3>7. CommandTypes'
      BY <2>0, <3>1, <3>2 DEF CommandInv, CommandTypes
    <3>8. OneActor' /\ \A t \in Server : VisitOK(t)'
      BY <1>0, <2>0, <3>1, <3>2, <3>3, <3>4, <3>5, <3>6 DEF CommandInv, OneActor, VisitOK, Busy
    <3>9. \A d \in Command : CommandOK(d)'
      BY <1>0, <3>1, <3>4 DEF CommandOK
    <3>10. SentOK(resultsSent)'
      BY <1>0, <3>1 DEF SentOK
    <3> QED
      BY <3>7, <3>8, <3>9, <3>10 DEF CommandInv
  <2>2. CASE ~Claimable(c)
    <3>1. /\ visit' = [visit EXCEPT ![s] = Visiting("posting", visit[s].todo, c, Previous(c))]
          /\ UNCHANGED <<command, request, acted, resultsSent, leading>>
      BY <1>6, <2>2 DEF ClaimCommand, VisitGoes, Still
    <3>2. /\ Previous(c) \in Results /\ Previous(c) # "answer"
          /\ Previous(c) \in {"done", "asked"} => acted[c] = 1
      BY <1>0, <2>0, <2>2 DEF Previous, Claimable, CommandInv, CommandTypes, CommandOK, Results
    <3>3. "posting" \in Phases \ {"acting", "saving"}
      BY DEF Phases
    <3> HIDE DEF c
    <3>4. Elsewhere
      BY <2>0, <3>1, <3>2, <3>3 DEF Elsewhere
    <3> QED
      BY <1>0, <3>1, <3>4, Aside
  <2> QED
    BY <2>1, <2>2
<1>7. ASSUME NEW s \in Server, NEW b \in BOOLEAN, Handle(s, b) PROVE CommandInv'
  <2> DEFINE c == visit[s].on
  <2>0. /\ c \in Command /\ visit[s].todo \in SUBSET Command
        /\ Busy(s) /\ acted[c] = 0 /\ command[c] = "claimed"
    BY <1>0, <1>7 DEF Handle, VisitOK, Busy, VisitRecord
  <2>1. PICK takes \in {TRUE, b} :
          /\ acted' = [acted EXCEPT ![c] = IF takes THEN @ + 1 ELSE @]
          /\ visit' = [visit EXCEPT ![s] = Visiting("saving", visit[s].todo, c, IF ~b THEN "failed"
                                              ELSE IF c \in Question THEN "asked" ELSE "done")]
    BY <1>7 DEF Handle, VisitGoes, Still
  <2>2. PICK r \in {"failed", "asked", "done"} :
          /\ visit' = [visit EXCEPT ![s] = Visiting("saving", visit[s].todo, c, r)]
          /\ r # "failed" => takes
    BY <2>1
  <2>3. UNCHANGED <<request, command, resultsSent, leading>>
    BY <1>7 DEF Handle
  <2> DEFINE v == Visiting("saving", visit[s].todo, c, r)
  <2>4. v \in VisitRecord /\ v.phase = "saving" /\ v.on = c /\ v.result = r
    BY <2>0, CommandFields DEF Phases, Results
  <2>5. \A t \in Server : visit'[t] = IF t = s THEN v ELSE visit[t]
    BY <2>2 DEF CommandInv, CommandTypes
  <2>6. acted' \in [Command -> Nat] /\ \A d \in Command : acted'[d] = IF d = c /\ takes THEN 1 ELSE acted[d]
    <3> HIDE DEF c
    <3>1. CASE takes
      BY <2>0, <2>1, <3>1 DEF CommandInv, CommandTypes
    <3>2. CASE ~takes
      BY <2>0, <2>1, <3>2 DEF CommandInv, CommandTypes
    <3> QED
      BY <3>1, <3>2
  <2>7. \A t \in Server : t # s /\ Busy(t) => visit[t].on # c
    BY <2>0 DEF CommandInv, OneActor
  <2> HIDE DEF c, v
  <2>8. CommandTypes'
    BY <1>0, <2>0, <2>3, <2>4, <2>5, <2>6, <2>2 DEF CommandInv, CommandTypes, v
  <2>9. OneActor' /\ \A t \in Server : VisitOK(t)'
    BY <1>0, <2>0, <2>2, <2>3, <2>4, <2>5, <2>6, <2>7 DEF CommandInv, OneActor, VisitOK, Busy
  <2>10. \A d \in Command : CommandOK(d)'
    BY <1>0, <2>0, <2>3, <2>6 DEF CommandOK
  <2>11. SentOK(resultsSent)'
    BY <1>0, <2>0, <2>3, <2>6 DEF SentOK
  <2> QED
    BY <2>8, <2>9, <2>10, <2>11 DEF CommandInv
<1>8. ASSUME NEW s \in Server, SaveResult(s) PROVE CommandInv'
  <2> DEFINE c == visit[s].on
             r == visit[s].result
             v == Visiting("posting", visit[s].todo, c, r)
  <2>0. /\ c \in Command /\ visit[s].todo \in SUBSET Command /\ Busy(s)
        /\ r \in Results /\ r # "answer" /\ (r \in {"done", "asked"} => acted[c] = 1)
    BY <1>0, <1>8 DEF SaveResult, VisitOK, Busy, VisitRecord, Results
  <2>1. /\ command' = [command EXCEPT ![c] = r]
        /\ visit' = [visit EXCEPT ![s] = v]
        /\ UNCHANGED <<request, acted, resultsSent, leading>>
    BY <1>8 DEF SaveResult, VisitGoes, Still
  <2>2. v \in VisitRecord /\ v.phase = "posting" /\ v.on = c /\ v.result = r
    <3>1. "posting" \in Phases /\ c \in Command \cup {"none"} /\ r \in {"none"} \cup Results
          /\ visit[s].todo \in SUBSET Command
      BY <2>0 DEF Phases
    <3> HIDE DEF c, r
    <3> QED
      BY <3>1, CommandFields
  <2>3. \A t \in Server : visit'[t] = IF t = s THEN v ELSE visit[t]
    BY <2>1 DEF CommandInv, CommandTypes
  <2>4. \A d \in Command : command'[d] = IF d = c THEN r ELSE command[d]
    BY <2>0, <2>1 DEF CommandInv, CommandTypes
  <2>5. \A t \in Server : t # s /\ Busy(t) => visit[t].on # c
    BY <2>0 DEF CommandInv, OneActor
  <2>6. r # "none"
    BY <2>0 DEF Results
  <2> HIDE DEF c, r, v
  <2>7. CommandTypes'
    BY <1>0, <2>0, <2>1, <2>2 DEF CommandInv, CommandTypes
  <2>8. OneActor' /\ \A t \in Server : VisitOK(t)'
    BY <1>0, <2>0, <2>1, <2>2, <2>3, <2>4, <2>5 DEF CommandInv, OneActor, VisitOK, Busy
  <2>9. \A d \in Command : CommandOK(d)'
    BY <1>0, <2>0, <2>1, <2>4, <2>6 DEF CommandOK
  <2>10. SentOK(resultsSent)'
    BY <1>0, <2>1 DEF SentOK
  <2> QED
    BY <2>7, <2>8, <2>9, <2>10 DEF CommandInv
<1>9. ASSUME NEW s \in Server, PostResult(s) \/ DeliverAnswer(s) PROVE CommandInv'
  <2> DEFINE c == visit[s].on
  <2>0. /\ visit[s].todo \ {c} \in SUBSET Command /\ c \in Command
        /\ visit[s].result \in {"none"} \cup Results /\ visit[s].result # "answer"
        /\ visit[s].result \in {"done", "asked"} => acted[c] = 1
    BY <1>0, <1>9 DEF VisitRecord, PostResult, DeliverAnswer, VisitOK
  <2>1. /\ visit' = [visit EXCEPT ![s] = Visiting("going", visit[s].todo \ {c}, "none", "none")]
        /\ UNCHANGED <<command, acted, resultsSent, leading>>
    BY <1>9 DEF PostResult, DeliverAnswer, Onward, VisitGoes
  <2>2. PICK r \in {"none"} \cup Results :
          /\ UNCHANGED request \/ request' = [request EXCEPT ![c] = [status |-> "resolved", result |-> r]]
          /\ r \in {"done", "answer"} => acted[c] = 1
    <3>1. CASE PostResult(s)
      BY <2>0, <3>1 DEF PostResult, PostAs
    <3>2. CASE DeliverAnswer(s)
      BY <2>0, <3>2 DEF DeliverAnswer, PostAs, Results
    <3> QED
      BY <1>9, <3>1, <3>2
  <2> HIDE DEF c
  <2>3. CommandRequests(request')
    <3>1. CASE UNCHANGED request
      BY <1>0, <3>1 DEF CommandRequests
    <3>2. CASE request' = [request EXCEPT ![c] = [status |-> "resolved", result |-> r]]
      BY <1>0, <2>0, <2>2, <3>2 DEF CommandRequests
    <3> QED
      BY <2>2, <3>1, <3>2
  <2>4. "going" \in Phases \ {"acting", "saving"} /\ "none" \in {"none"} \cup Results /\ "none" \in Command \cup {"none"}
    BY DEF Phases
  <2>5. Elsewhere
    <3>1. PICK todo \in SUBSET Command : visit' = [visit EXCEPT ![s] = Visiting("going", todo, "none", "none")]
      BY <2>0, <2>1
    <3> QED
      BY <2>4, <3>1 DEF Elsewhere
  <2> QED
    BY <1>0, <2>1, <2>3, <2>5, Aside
<1>10. ASSUME NEW s \in Server, Suspend(s) PROVE CommandInv'
  <2>1. visit[s].todo \in SUBSET Command /\ visit[s].on \in Command
    BY <1>0, <1>10 DEF VisitRecord, Suspend
  <2>2. /\ "going" \in Phases \ {"acting", "saving"} /\ "suspending" \in Phases \ {"acting", "saving"}
        /\ "none" \in {"none"} \cup Results /\ "asked" \in {"none"} \cup Results
        /\ "none" \in Command \cup {"none"} /\ visit[s].on \in Command \cup {"none"}
        /\ visit[s].todo \ {visit[s].on} \in SUBSET Command
        /\ UNCHANGED <<request, command, acted, resultsSent, leading>>
    BY <1>10, <2>1 DEF Phases, Results, Suspend
  <2>3. CASE TaskOver
    <3>1. visit' = [visit EXCEPT ![s] = Visiting("going", visit[s].todo \ {visit[s].on}, "none", "none")]
      BY <1>10, <2>3 DEF Suspend, Onward, VisitGoes
    <3>2. Elsewhere
      BY <2>1, <2>2, <3>1 DEF Elsewhere
    <3> QED
      BY <1>0, <2>2, <3>2, Aside
  <2>4. CASE ~TaskOver
    <3>1. visit' = [visit EXCEPT ![s] = Visiting("suspending", visit[s].todo, visit[s].on, "asked")]
      BY <1>10, <2>4 DEF Suspend, Still, VisitGoes
    <3>2. Elsewhere
      <4>1. PICK todo \in SUBSET Command, c \in Command :
              visit' = [visit EXCEPT ![s] = Visiting("suspending", todo, c, "asked")]
        BY <2>1, <3>1
      <4> QED
        BY <2>2, <4>1 DEF Elsewhere
    <3> QED
      BY <1>0, <2>2, <3>2, Aside
  <2> QED
    BY <2>3, <2>4
<1>11. ASSUME NEW s \in Server, NEW b \in BOOLEAN, LeaseMoves(s, b) PROVE CommandInv'
  <2>1. CASE b
    <3>1. visit' = [visit EXCEPT ![leading] = Visiting("away", {}, "none", "none")]
      BY <1>11, <2>1 DEF LeaseMoves, Away
    <3>2. /\ "away" \in Phases \ {"acting", "saving"} /\ "none" \in {"none"} \cup Results
          /\ "none" \in Command \cup {"none"} /\ {} \in SUBSET Command
          /\ UNCHANGED <<request, command, acted, resultsSent>> /\ leading' \in Server
      BY <1>11 DEF Phases, LeaseMoves
    <3>3. Elsewhere
      <4>1. PICK old \in Server, todo \in SUBSET Command :
              visit' = [visit EXCEPT ![old] = Visiting("away", todo, "none", "none")]
        BY <1>0, <3>1, <3>2
      <4> QED
        BY <3>2, <4>1 DEF Elsewhere
    <3> QED
      BY <1>0, <3>2, <3>3, Aside
  <2>2. CASE ~b
    BY <1>0, <1>11, <2>2, Aside DEF LeaseMoves
  <2> QED
    BY <2>1, <2>2
<1>12. ASSUME NEW s \in Server, Resume(s) PROVE CommandInv'
  BY <1>3, <1>12 DEF Resume
<1>13. ASSUME NEW c \in Question, AnswerTask(c) PROVE CommandInv'
  BY <1>3, <1>13 DEF AnswerTask
<1>14. CASE ClaimResume \/ ObserveParked \/ CancelTask \/ UNCHANGED controlVars
  BY <1>3, <1>14 DEF ClaimResume, ObserveParked, CancelTask, controlVars
<1>15. ASSUME NEW s \in Server, PostFails(s) PROVE CommandInv'
  <2>1. /\ visit' = [visit EXCEPT ![s] = Visiting("away", {}, "none", "none")]
        /\ UNCHANGED <<request, command, acted, leading>>
    BY <1>15 DEF PostFails, VisitGoes, Away
  <2>2. Elsewhere
    <3>1. /\ "away" \in Phases \ {"acting", "saving"} /\ "none" \in {"none"} \cup Results
          /\ "none" \in Command \cup {"none"} /\ {} \in SUBSET Command
      BY DEF Phases
    <3>2. PICK todo \in SUBSET Command : visit' = [visit EXCEPT ![s] = Visiting("away", todo, "none", "none")]
      BY <2>1, <3>1
    <3> QED
      BY <3>1, <3>2 DEF Elsewhere
  <2>3. SentOK(resultsSent')
    <3> DEFINE c == visit[s].on
               r == IF visit[s].result = "asked" THEN "answer" ELSE visit[s].result
    <3>1. resultsSent' = resultsSent \cup {[on |-> c, result |-> r]}
      BY <1>15 DEF PostFails
    <3>2. /\ c \in Command /\ visit[s].result \in {"none"} \cup Results /\ visit[s].result # "answer"
          /\ visit[s].result \in {"done", "asked"} => acted[c] = 1
      BY <1>0, <1>15 DEF PostFails, VisitRecord, VisitOK
    <3>3. r \in {"none"} \cup Results /\ (r \in {"done", "answer"} => acted[c] = 1)
      BY <3>2 DEF Results
    <3> HIDE DEF c, r
    <3> QED
      BY <1>0, <3>1, <3>2, <3>3 DEF SentOK
  <2> QED
    BY <1>0, <2>1, <2>2, <2>3, Aside
<1>16. ASSUME NEW post \in resultsSent, PostArrives(post) PROVE CommandInv'
  <2>1. /\ post.on \in Command /\ post.result \in {"none"} \cup Results
        /\ post.result \in {"done", "answer"} => acted[post.on] = 1
    BY <1>0 DEF SentOK
  <2>2. /\ UNCHANGED <<command, acted, visit, leading>> /\ resultsSent' = resultsSent \ {post}
        /\ \/ UNCHANGED request
           \/ request' = [request EXCEPT ![post.on] = [status |-> "resolved", result |-> post.result]]
    BY <1>16 DEF PostArrives, PostAs
  <2>3. CommandRequests(request')
    <3>1. CASE UNCHANGED request
      BY <1>0, <3>1 DEF CommandRequests
    <3>2. CASE request' = [request EXCEPT ![post.on] = [status |-> "resolved", result |-> post.result]]
      BY <1>0, <2>1, <3>2 DEF CommandRequests
    <3> QED
      BY <2>2, <3>1, <3>2
  <2>4. SentOK(resultsSent')
    BY <1>0, <2>2 DEF SentOK
  <2> QED
    BY <1>0, <2>2, <2>3, <2>4, Aside
<1> QED
  BY <1>1, <1>2, <1>4, <1>5, <1>6, <1>7, <1>8, <1>9, <1>10, <1>11, <1>12, <1>13, <1>14, <1>15, <1>16
     DEF ControlNext

(***************************************************************************)
(* A command takes effect at most once, whichever leader dies or is        *)
(* replaced between its claim, its effect, its stored result and its       *)
(* delivery, and the agent is told of a success only if there was one      *)
(* (control.ts, applyControl).                                             *)
(***************************************************************************)
THEOREM CommandsActOnce == ControlSpec => []CommandActsOnce
<1>1. CommandInv => CommandActsOnce
  BY DEF CommandInv, CommandOK, CommandActsOnce
<1> QED
  BY <1>1, CommandInit, CommandNext, PTL DEF ControlSpec

-----------------------------------------------------------------------------
\* Uploads and harvested outputs.

Steps == {"none", "check", "put", "insert", "lookup", "delete"}
Harvests == [step : {"none", "observed", "over", "settle", "stop", "resume", "verify"}, left : SUBSET Output]
FileTypes ==
  /\ rows \subseteq Upload \cup Output
  /\ objects \subseteq Upload \cup Output
  /\ outbox \subseteq Output
  /\ late \subseteq Upload \cup Output
  /\ unwritten \subseteq Upload \cup Output
  /\ attempt \in [Trying -> [step : Steps, file : Upload \cup Output \cup {NoFile}]]
  /\ harvest \in [Harvester -> Harvests]
  /\ \A t \in Trying : attempt[t].step # "none" => attempt[t].file \in Upload \cup Output

LEMMA FileTypesInit == FilesInit => FileTypes
  BY DEF FilesInit, FileTypes, Harvests, NoAttempt, NoHarvest, Steps

\* What a step does to the attempts, to the harvests and to the three sets of files.
LEMMA FileTypesNext == FileTypes /\ [FilesNext]_fileVars => FileTypes'
<1> SUFFICES ASSUME FileTypes, [FilesNext]_fileVars PROVE FileTypes'
  OBVIOUS
<1> USE DEF FileTypes, Steps, taskSide, stored, inserts, Mishap, AttemptGoes, Ends, NoAttempt, NoHarvest
<1>a. NoHarvest \in Harvests
  BY DEF Harvests
<1>c. ASSUME NEW e \in Harvester, NEW h \in Harvests, harvest' = [harvest EXCEPT ![e] = h],
             UNCHANGED <<rows, objects, outbox, late, unwritten, attempt>>
      PROVE  FileTypes'
  BY <1>c
<1>d. \A e \in Harvester, x \in {"none", "over", "stop", "resume"} : [harvest[e] EXCEPT !.step = x] \in Harvests
  BY DEF Harvests
<1> USE DEF Harvests
<1>1. ASSUME NEW t \in Trying, Check(t) PROVE FileTypes'
  BY <1>1 DEF Check
<1>2. ASSUME NEW t \in Trying, Put(t) PROVE FileTypes'
  BY <1>2 DEF Put
<1>3. ASSUME NEW t \in Trying, PutFails(t) PROVE FileTypes'
  BY <1>3 DEF PutFails
<1>4. ASSUME NEW t \in Trying, Insert(t) PROVE FileTypes'
  BY <1>4 DEF Insert
<1>5. ASSUME NEW t \in Trying, Lookup(t) PROVE FileTypes'
  <2>1. UNCHANGED <<rows, objects, outbox, late, unwritten>>
    BY <1>5 DEF Lookup
  <2>2. attempt' = [attempt EXCEPT ![t] = NoAttempt] \/ attempt' = [attempt EXCEPT ![t].step = "delete"]
    BY <1>5 DEF Lookup
  <2>3. harvest' \in [Harvester -> Harvests]
    BY <1>5 DEF Lookup
  <2>4. attempt[t].step = "lookup"
    BY <1>5 DEF Lookup
  <2>5. /\ attempt' \in [Trying -> [step : Steps, file : Upload \cup Output \cup {NoFile}]]
        /\ \A u \in Trying : attempt'[u].step # "none" => attempt'[u].file \in Upload \cup Output
    BY <2>2, <2>4
  <2> HIDE DEF Harvests
  <2> QED
    BY <2>1, <2>3, <2>5
<1>6. ASSUME NEW t \in Trying, LookupFails(t) PROVE FileTypes'
  BY <1>6 DEF LookupFails
<1>7. ASSUME NEW t \in Trying, Delete(t) PROVE FileTypes'
  BY <1>7 DEF Delete
<1>8. ASSUME NEW t \in Trying, NEW o \in InsertOutcome, InsertFails(t, o) PROVE FileTypes'
  BY <1>8 DEF InsertFails
<1>14. ASSUME NEW f \in Upload \cup Output, InsertLands(f) PROVE FileTypes'
  BY <1>14 DEF InsertLands
<1>9. ASSUME NEW t \in Request, NEW f \in Upload, SendUpload(t, f) PROVE FileTypes'
  BY <1>9 DEF SendUpload, Trying
<1>10. CASE StageAndDispatch \/ DaemonEnds \/ Interrupt \/ ClaimAnswered \/ UNCHANGED fileVars
  BY <1>10 DEF StageAndDispatch, DaemonEnds, Interrupt, ClaimAnswered, fileVars
<1>11. ASSUME NEW f \in Output, SendFile(f) PROVE FileTypes'
  BY <1>11 DEF SendFile
<1>12. ASSUME NEW e \in Harvester, NEW f \in Output, HarvestOutput(e, f) PROVE FileTypes'
  BY <1>12 DEF HarvestOutput, Trying
<1>13. ASSUME NEW e \in Harvester,
              ObserveOutputs(e) \/ ReadJournal(e) \/ BeforeSettle(e)
                \/ CollectDelegated(e) \/ FilesDurable(e) \/ HeadMoves(e) \/ StopHarvest(e) \/ BreakOff(e)
       PROVE  FileTypes'
  <2>1. CASE HeadMoves(e)
    BY <2>1 DEF HeadMoves
  <2>2. CASE FilesDurable(e) \/ StopHarvest(e) \/ BreakOff(e)
    <3>1. /\ harvest' = [harvest EXCEPT ![e] = NoHarvest]
          /\ UNCHANGED <<rows, objects, outbox, late, unwritten, attempt>>
      BY <2>2 DEF FilesDurable, StopHarvest, BreakOff
    <3> QED
      BY <1>a, <1>c, <3>1
  <2>3. CASE ObserveOutputs(e) \/ BeforeSettle(e) \/ CollectDelegated(e)
    <3>1. PICK x \in {"observed", "settle", "verify"} :
            /\ harvest' = [harvest EXCEPT ![e] = [step |-> x, left |-> outbox]]
            /\ UNCHANGED <<rows, objects, outbox, late, unwritten, attempt>>
      BY <2>3 DEF ObserveOutputs, BeforeSettle, CollectDelegated, List, Collect
    <3>2. [step |-> x, left |-> outbox] \in Harvests
      BY <3>1
    <3> HIDE DEF Harvests
    <3> QED
      BY <1>c, <3>1, <3>2
  <2>4. CASE ReadJournal(e)
    <3>1. PICK x \in {"over", "none"} :
            /\ harvest' = [harvest EXCEPT ![e].step = x]
            /\ UNCHANGED <<rows, objects, outbox, late, unwritten, attempt>>
      BY <2>4 DEF ReadJournal
    <3>2. harvest' = [harvest EXCEPT ![e] = [harvest[e] EXCEPT !.step = x]]
      BY <3>1
    <3>3. [harvest[e] EXCEPT !.step = x] \in Harvests
      BY <1>d, <3>1
    <3> HIDE DEF Harvests
    <3> QED
      BY <1>c, <3>1, <3>2, <3>3
  <2> QED
    BY <1>13, <2>1, <2>2, <2>3, <2>4
<1>15. ASSUME NEW e \in Harvester, SettleRun(e) \/ FinishStopped(e) \/ ResumeRun(e) PROVE FileTypes'
  <2>1. /\ harvest' = [harvest EXCEPT ![e] = NoHarvest]
        /\ UNCHANGED <<rows, objects, outbox, late, unwritten, attempt>>
    BY <1>15 DEF SettleRun, FinishStopped, FinishTask, ResumeRun
  <2> QED
    BY <1>a, <1>c, <2>1
<1>16. ASSUME NEW e \in Harvester, StopResuming(e) \/ PeekResuming(e) PROVE FileTypes'
  <2>1. PICK x \in {"stop", "over", "resume"} : ResumingGoes(e, x)
    BY <1>16 DEF StopResuming, PeekResuming
  <2>2. harvest' = [harvest EXCEPT ![e] = [harvest[e] EXCEPT !.step = x]]
    BY <2>1 DEF ResumingGoes
  <2>3. UNCHANGED <<rows, objects, outbox, late, unwritten, attempt>>
    BY <2>1 DEF ResumingGoes
  <2>4. [harvest[e] EXCEPT !.step = x] \in Harvests
    BY <1>d, <2>1
  <2> HIDE DEF Harvests
  <2> QED
    BY <1>c, <2>2, <2>3, <2>4
<1> QED
  BY <1>1, <1>2, <1>3, <1>4, <1>5, <1>6, <1>7, <1>8, <1>9, <1>10, <1>11, <1>12, <1>13, <1>14, <1>15,
     <1>16 DEF FilesNext
-------------------------------------------------------------------------------
(***************************************************************************)
(* Bytes.  An attempt that is about to insert has put its bytes, or will   *)
(* never get its row; one that deletes has lost the place of its file for  *)
(* ever, as rows are never removed.  An INSERT of its file that failed     *)
(* unwritten is the exception to both.                                     *)
(***************************************************************************)
Displaced(f) == f \notin rows /\ Conflicts(f)
BytesOK(t) ==
  /\ attempt[t].step = "insert" => attempt[t].file \in objects \cup unwritten \/ Displaced(attempt[t].file)
  /\ attempt[t].step = "lookup" => attempt[t].file \in unwritten \/ Conflicts(attempt[t].file)
  /\ attempt[t].step = "delete" => attempt[t].file \in unwritten \/ Displaced(attempt[t].file)

\* One place for the upload: at most one row of its kind.
OnePlace == \A f, g \in Upload \cap rows : f = g

BytesInv == FileTypes /\ OnePlace /\ BytesAreKept /\ late \subseteq unwritten /\ \A t \in Trying : BytesOK(t)

LEMMA BytesInit == FilesInit => BytesInv
  BY FileTypesInit DEF FilesInit, BytesInv, OnePlace, BytesAreKept, BytesOK, NoAttempt

LEMMA BytesNext == BytesInv /\ FileTypes' /\ [FilesNext]_fileVars => BytesInv'
<1> SUFFICES ASSUME BytesInv, FileTypes', [FilesNext]_fileVars PROVE BytesInv'
  OBVIOUS
<1> USE DEF BytesInv, FileTypes, Harvests, Steps, OnePlace, BytesAreKept, BytesOK, Displaced, Conflicts,
            taskSide, stored, inserts, Mishap, AttemptGoes, Ends, NoAttempt
<1>1. ASSUME NEW t \in Trying, Check(t) PROVE BytesInv'
  <2>1. UNCHANGED <<rows, objects, late, unwritten>>
    BY <1>1 DEF Check
  <2>2. attempt' = [attempt EXCEPT ![t] = NoAttempt] \/ attempt' = [attempt EXCEPT ![t].step = "put"]
    BY <1>1 DEF Check
  <2>3. OnePlace' /\ BytesAreKept' /\ (late \subseteq unwritten)'
    BY <2>1
  <2>4. \A u \in Trying : BytesOK(u)'
    BY <2>1, <2>2
  <2> QED
    BY <2>3, <2>4
<1>2. ASSUME NEW t \in Trying, Put(t) PROVE BytesInv'
  BY <1>2 DEF Put
<1>3. ASSUME NEW t \in Trying, PutFails(t) PROVE BytesInv'
  BY <1>3 DEF PutFails
<1>4. ASSUME NEW t \in Trying, Insert(t) PROVE BytesInv'
  <2>1. CASE Conflicts(attempt[t].file)
    BY <1>4, <2>1 DEF Insert
  <2>2. CASE ~Conflicts(attempt[t].file)
    <3>1. rows' = rows \cup {attempt[t].file} /\ attempt' = [attempt EXCEPT ![t] = NoAttempt]
          /\ UNCHANGED <<objects, late, unwritten>>
      BY <1>4, <2>2 DEF Insert
    <3>2. attempt[t].step = "insert" /\ attempt[t].file \in objects \cup unwritten
      BY <1>4, <2>2 DEF Insert
    <3>3. BytesAreKept'
      BY <3>1, <3>2
    <3>4. OnePlace'
      BY <2>2, <3>1
    <3>5. \A u \in Trying : BytesOK(u)'
      BY <2>2, <3>1
    <3>6. (late \subseteq unwritten)'
      BY <3>1
    <3> QED
      BY <3>3, <3>4, <3>5, <3>6
  <2> QED
    BY <2>1, <2>2
<1>5. ASSUME NEW t \in Trying, Lookup(t) PROVE BytesInv'
  BY <1>5 DEF Lookup
<1>6. ASSUME NEW t \in Trying, LookupFails(t) PROVE BytesInv'
  BY <1>6 DEF LookupFails
<1>7. ASSUME NEW t \in Trying, Delete(t) PROVE BytesInv'
  BY <1>7 DEF Delete
<1>8. ASSUME NEW t \in Trying, NEW o \in InsertOutcome, InsertFails(t, o) PROVE BytesInv'
  BY <1>8 DEF InsertFails
<1>11. ASSUME NEW f \in Upload \cup Output, InsertLands(f) PROVE BytesInv'
  BY <1>11 DEF InsertLands
<1>9. ASSUME NEW t \in Request, NEW f \in Upload, SendUpload(t, f) PROVE BytesInv'
  BY <1>9 DEF SendUpload, Trying
<1>12. ASSUME NEW e \in Harvester, NEW f \in Output, HarvestOutput(e, f) PROVE BytesInv'
  BY <1>12 DEF HarvestOutput, Trying
<1>10. CASE \/ StageAndDispatch \/ DaemonEnds \/ Interrupt \/ ClaimAnswered \/ UNCHANGED fileVars
            \/ \E f \in Output : SendFile(f)
            \/ \E e \in Harvester :
                 ObserveOutputs(e) \/ ReadJournal(e) \/ BeforeSettle(e) \/ SettleRun(e)
                   \/ StopResuming(e) \/ FinishStopped(e) \/ PeekResuming(e) \/ ResumeRun(e)
                   \/ CollectDelegated(e) \/ FilesDurable(e) \/ HeadMoves(e) \/ StopHarvest(e) \/ BreakOff(e)
  <2>1. UNCHANGED <<rows, objects, late, unwritten, attempt>>
    BY <1>10 DEF StageAndDispatch, DaemonEnds, Interrupt, ClaimAnswered, fileVars, SendFile, ObserveOutputs,
                 ReadJournal, BeforeSettle, SettleRun, FinishTask, StopResuming, FinishStopped, PeekResuming,
                 ResumeRun, ResumingGoes, CollectDelegated, FilesDurable, HeadMoves, StopHarvest,
                 BreakOff
  <2> QED
    BY <2>1
<1> QED
  BY <1>1, <1>2, <1>3, <1>4, <1>5, <1>6, <1>7, <1>8, <1>9, <1>10, <1>11, <1>12 DEF FilesNext

(***************************************************************************)
(* Overlapping attempts at a file, and those that lose the answer of an    *)
(* INSERT, never take the bytes of a row away (files.ts, storeAttachment): *)
(* only an INSERT that failed before its row was written ever may.         *)
(***************************************************************************)
THEOREM StoredBytesAreKept == FilesSpec => []BytesAreKept
<1>1. BytesInv => BytesAreKept
  BY DEF BytesInv
<1>2. BytesInv /\ [FilesNext]_fileVars => BytesInv'
  BY FileTypesNext, BytesNext DEF BytesInv
<1> QED
  BY <1>1, <1>2, BytesInit, PTL DEF FilesSpec
-------------------------------------------------------------------------------
(***************************************************************************)
(* Outputs.  A harvest that precedes a settlement began when the daemon    *)
(* had ended, so its listing is complete; each output leaves the list with *)
(* its row; and rows stay.                                                 *)
(***************************************************************************)
HarvestOK(e) ==
  /\ harvest[e].step \in {"over", "settle", "verify"} => daemonOver
  /\ harvest[e].step \in {"settle", "verify"} => outbox \subseteq rows \cup harvest[e].left

HarvestInv ==
  /\ FileTypes
  /\ \A e \in Harvester : HarvestOK(e)
  /\ task = "ended" \/ durable => daemonOver /\ outbox \subseteq rows

LEMMA HarvestInit == FilesInit => HarvestInv
  BY FileTypesInit DEF FilesInit, HarvestInv, HarvestOK, NoHarvest

LEMMA HarvestNext == HarvestInv /\ FileTypes' /\ [FilesNext]_fileVars => HarvestInv'
<1> SUFFICES ASSUME HarvestInv, FileTypes', [FilesNext]_fileVars PROVE HarvestInv'
  OBVIOUS
<1> USE DEF HarvestInv, HarvestOK, FileTypes, Harvests, taskSide, stored, inserts, NoHarvest
<1>a. ASSUME NEW t \in Trying, UNCHANGED taskSide, rows \subseteq rows',
             Ends(t, FALSE) \/ (Ends(t, TRUE) /\ attempt[t].file \in rows')
      PROVE  HarvestInv'
  BY <1>a DEF Ends
<1>b. ASSUME UNCHANGED <<taskSide, harvest>>, rows \subseteq rows' PROVE HarvestInv'
  BY <1>b
<1>1. ASSUME NEW t \in Trying,
             Check(t) \/ Put(t) \/ PutFails(t) \/ Insert(t) \/ Lookup(t) \/ LookupFails(t) \/ Delete(t)
               \/ (\E o \in InsertOutcome : InsertFails(t, o))
      PROVE  HarvestInv'
  <2>1. UNCHANGED taskSide /\ rows \subseteq rows'
    BY <1>1 DEF Check, Put, PutFails, Insert, Lookup, LookupFails, Delete, InsertFails
  <2>2. CASE Check(t)
    BY <1>a, <1>b, <2>1, <2>2 DEF Check, Ends
  <2>3. CASE Insert(t)
    <3>1. CASE Conflicts(attempt[t].file)
      BY <1>b, <2>1, <2>3, <3>1 DEF Insert
    <3>2. CASE ~Conflicts(attempt[t].file)
      BY <1>a, <2>1, <2>3, <3>2 DEF Insert
    <3> QED
      BY <3>1, <3>2
  <2>4. CASE Put(t) \/ (\E o \in InsertOutcome : InsertFails(t, o))
    BY <1>b, <2>1, <2>4 DEF Put, InsertFails
  <2>5. CASE PutFails(t) \/ LookupFails(t) \/ Delete(t)
    BY <1>a, <2>1, <2>5 DEF PutFails, LookupFails, Delete
  <2>6. CASE Lookup(t)
    BY <1>a, <1>b, <2>1, <2>6 DEF Lookup
  <2> QED
    BY <1>1, <2>2, <2>3, <2>4, <2>5, <2>6
<1>2. ASSUME NEW t \in Request, NEW f \in Upload, SendUpload(t, f) PROVE HarvestInv'
  BY <1>2, <1>b DEF SendUpload
<1>3. ASSUME NEW e \in Harvester, NEW f \in Output, HarvestOutput(e, f) PROVE HarvestInv'
  BY <1>3, <1>b DEF HarvestOutput
<1>4. CASE StageAndDispatch \/ DaemonEnds \/ Interrupt \/ ClaimAnswered \/ UNCHANGED fileVars
  BY <1>4 DEF StageAndDispatch, DaemonEnds, Interrupt, ClaimAnswered, fileVars
<1>10. ASSUME NEW f \in Upload \cup Output, InsertLands(f) PROVE HarvestInv'
  BY <1>10, <1>b DEF InsertLands
<1>11. ASSUME NEW e \in Harvester, StopResuming(e) \/ PeekResuming(e) PROVE HarvestInv'
  BY <1>11 DEF StopResuming, PeekResuming, ResumingGoes
<1>12. ASSUME NEW e \in Harvester, FinishStopped(e) \/ ResumeRun(e) PROVE HarvestInv'
  BY <1>12 DEF FinishStopped, FinishTask, ResumeRun
<1>5. ASSUME NEW f \in Output, SendFile(f) PROVE HarvestInv'
  BY <1>5 DEF SendFile
<1>6. ASSUME NEW e \in Harvester, SettleRun(e) PROVE HarvestInv'
  BY <1>6 DEF SettleRun, FinishTask, HarvestAt
<1>7. ASSUME NEW e \in Harvester, FilesDurable(e) PROVE HarvestInv'
  BY <1>7 DEF FilesDurable, HarvestAt
<1>8. ASSUME NEW e \in Harvester, HeadMoves(e) \/ StopHarvest(e) \/ BreakOff(e) PROVE HarvestInv'
  BY <1>8 DEF HeadMoves, StopHarvest, BreakOff
<1>9. ASSUME NEW e \in Harvester, ObserveOutputs(e) \/ ReadJournal(e) \/ BeforeSettle(e) \/ CollectDelegated(e)
      PROVE  HarvestInv'
  BY <1>9 DEF ObserveOutputs, ReadJournal, BeforeSettle, CollectDelegated, List, Collect, HarvestAt
<1> QED
  BY <1>1, <1>2, <1>3, <1>4, <1>5, <1>6, <1>7, <1>8, <1>9, <1>10, <1>11, <1>12 DEF FilesNext

(***************************************************************************)
(* A task that ended as its daemon did, or whose files were reported       *)
(* durable, has every output that its agent shared (runtime-product.ts,    *)
(* collectOutputs and beforeSettle).                                       *)
(***************************************************************************)
THEOREM OutputsAreComplete == FilesSpec => []HarvestIsComplete
<1>1. HarvestInv => HarvestIsComplete
  BY DEF HarvestInv, HarvestIsComplete
<1>2. HarvestInv /\ [FilesNext]_fileVars => HarvestInv'
  BY FileTypesNext, HarvestNext DEF HarvestInv
<1> QED
  BY <1>1, <1>2, HarvestInit, PTL DEF FilesSpec

-----------------------------------------------------------------------------
\* The takeover of a desktop.

Generations == 0..MaxGeneration

ErrandRow == [step : {"none", "ask", "unconfirmed", "sent", "confirmed"},
              generation : Generations, taken : BOOLEAN]
CommandRow == [there : BOOLEAN, generation : Generations, taken : BOOLEAN]

IntentRow == [taken : BOOLEAN, generation : Generations, paused : BOOLEAN, observed : 0..Nowhere]

DesktopTypes ==
  /\ intent \in IntentRow
  /\ errand \in [Carrier -> ErrandRow] /\ adminCall \in [Carrier -> CommandRow]
  /\ broker \in [generation : Generations, reconciled : BOOLEAN, taken : BOOLEAN, confirmed : BOOLEAN]
  /\ journal \in [generation : Generations, taken : BOOLEAN]
  /\ admin \in SUBSET Carrier
  /\ gesture \in [Gesture -> {"absent", "started", "succeeded", "interrupted"}]
  /\ active \in Gesture \cup {NoGesture} /\ pressed \in BOOLEAN

\* A copy of the intent is one of its past: the same generation is the same intent.
Past(row) ==
  /\ row.generation <= intent.generation
  /\ row.generation = intent.generation => (row.taken <=> intent.taken)

IntentCopies ==
  /\ Past(journal)
  /\ \A e \in Carrier : errand[e].step # "none" => Past(errand[e])
  /\ \A e \in Carrier : adminCall[e].there => Past(adminCall[e])
  /\ intent.observed = Nowhere \/ intent.observed <= intent.generation

\* An executor waits for the command it sent and sends none beside another; the one the broker is at is its journal's.
Commands ==
  /\ \A e \in Carrier : errand[e].step = "sent" =>
       /\ adminCall[e].there /\ adminCall[e].generation = errand[e].generation
       /\ (adminCall[e].taken <=> errand[e].taken)
  /\ \A e \in Carrier : errand[e].step \in {"ask", "unconfirmed"} => ~adminCall[e].there
  /\ \A e \in admin : /\ adminCall[e].there /\ adminCall[e].generation = journal.generation
                      /\ (adminCall[e].taken <=> journal.taken)
  /\ \A e, f \in admin : e = f

\* Between commands a reconciled broker follows its journal; otherwise it is closed.
Quiet == active = NoGesture /\ ~pressed
BrokerFollows ==
  /\ admin # {} => broker.taken /\ ~broker.confirmed
  /\ ~broker.reconciled => broker.taken /\ ~broker.confirmed
  /\ admin = {} /\ broker.reconciled =>
       /\ (broker.taken <=> journal.taken)
       /\ broker.generation = journal.generation
       /\ journal.taken => Quiet

\* What was confirmed of a takeover that is still asked for holds.
Reached(generation) == journal.generation = generation /\ Quiet
Confirmations ==
  /\ intent.taken /\ intent.paused /\ intent.observed = intent.generation => Reached(intent.generation)
  /\ \A e \in Carrier :
       errand[e].step = "confirmed" /\ errand[e].generation = intent.generation /\ intent.taken =>
         Reached(intent.generation)

DesktopInv == DesktopTypes /\ IntentCopies /\ Commands /\ BrokerFollows /\ Confirmations

USE DesktopBounds DEF Generations, Nowhere

LEMMA DesktopBegins == DesktopInit => DesktopInv
<1> SUFFICES ASSUME DesktopInit PROVE DesktopInv
  OBVIOUS
<1>0. 0 \in Generations /\ MaxGeneration + 1 \in 0..Nowhere
  OBVIOUS
<1>1. DesktopTypes
  <2>1. intent \in IntentRow /\ journal \in [generation : Generations, taken : BOOLEAN]
    BY <1>0 DEF DesktopInit, IntentRow
  <2>2. broker \in [generation : Generations, reconciled : BOOLEAN, taken : BOOLEAN, confirmed : BOOLEAN]
    BY <1>0 DEF DesktopInit, Booted
  <2>3. errand \in [Carrier -> ErrandRow] /\ adminCall \in [Carrier -> CommandRow]
    BY <1>0 DEF DesktopInit, NoErrand, NoCommand, ErrandRow, CommandRow
  <2> QED BY <2>1, <2>2, <2>3 DEF DesktopTypes, DesktopInit
<1>2. \A e \in Carrier : errand[e].step = "none" /\ ~adminCall[e].there
  BY DEF DesktopInit, NoErrand, NoCommand
<1>3. IntentCopies
  BY <1>0, <1>2 DEF DesktopInit, IntentCopies, Past
<1>4. Commands
  BY <1>2 DEF DesktopInit, Commands
<1>5. BrokerFollows
  BY DEF DesktopInit, Booted, BrokerFollows, Quiet
<1>6. Confirmations
  BY <1>2 DEF DesktopInit, Booted, BrokerFollows, Confirmations, Quiet
<1> QED BY <1>1, <1>3, <1>4, <1>5, <1>6 DEF DesktopInv

\* What a move of an executor's errand and what an answer of the broker change.
LEMMA ErrandMoves ==
  ASSUME NEW r \in ErrandRow, NEW s \in {"none", "ask", "unconfirmed", "sent", "confirmed"}
  PROVE  LET m == [r EXCEPT !.step = s]
         IN  m \in ErrandRow /\ m.step = s /\ m.generation = r.generation /\ (m.taken <=> r.taken)
  BY DEF ErrandRow

LEMMA Replies ==
  ASSUME DesktopTypes, NEW e \in Carrier, NEW s \in {"refused", "confirmed"}, AdminReply(e, s)
  PROVE  /\ adminCall' \in [Carrier -> CommandRow] /\ errand' \in [Carrier -> ErrandRow]
         /\ adminCall'[e] = NoCommand
         /\ \A f \in Carrier \ {e} : adminCall'[f] = adminCall[f] /\ errand'[f] = errand[f]
         /\ errand'[e].step # "sent"
         /\ errand'[e].step # "none" =>
              /\ errand[e].step # "none" /\ errand'[e].generation = errand[e].generation
              /\ (errand'[e].taken <=> errand[e].taken)
         /\ errand'[e].step = "confirmed" =>
              errand[e].step = "confirmed" \/ (s = "confirmed" /\ errand[e].step = "sent")
<1> DEFINE m == [errand[e] EXCEPT !.step = "confirmed"]
<1>1. errand[e] \in ErrandRow /\ errand \in [Carrier -> ErrandRow] /\ adminCall \in [Carrier -> CommandRow]
  BY DEF DesktopTypes
<1>2. m \in ErrandRow /\ m.step = "confirmed" /\ m.generation = errand[e].generation /\ (m.taken <=> errand[e].taken)
  BY <1>1, ErrandMoves
<1>3. NoErrand \in ErrandRow /\ NoCommand \in CommandRow /\ NoErrand.step = "none"
  BY DEF NoErrand, NoCommand, ErrandRow, CommandRow
<1>4. errand' = [errand EXCEPT ![e] = IF errand[e].step = "sent" /\ s = "confirmed" THEN m
                                      ELSE IF errand[e].step = "sent" THEN NoErrand ELSE errand[e]]
  BY DEF AdminReply
<1>5. adminCall' = [adminCall EXCEPT ![e] = NoCommand]
  BY DEF AdminReply
<1> HIDE DEF m
<1> QED BY <1>1, <1>2, <1>3, <1>4, <1>5

\* A step of one executor that leaves the broker, the agent and what is asked for alone.
LEMMA ExecutorKeeps ==
  ASSUME DesktopInv, NEW e \in Carrier, UNCHANGED <<brokerSide, agentSide>>,
         intent' \in IntentRow, intent'.generation = intent.generation, intent'.taken <=> intent.taken,
         errand' \in [Carrier -> ErrandRow], adminCall' \in [Carrier -> CommandRow],
         \A f \in Carrier \ {e} : errand'[f] = errand[f] /\ adminCall'[f] = adminCall[f],
         errand'[e].step # "none" => Past(errand'[e]),
         adminCall'[e].there => Past(adminCall'[e]),
         intent'.observed = Nowhere \/ intent'.observed <= intent.generation,
         adminCall[e].there => adminCall'[e] = adminCall[e],
         errand'[e].step \in {"ask", "unconfirmed"} => ~adminCall'[e].there,
         errand'[e].step = "sent" => adminCall'[e].there /\ adminCall'[e].generation = errand'[e].generation
                                     /\ (adminCall'[e].taken <=> errand'[e].taken),
         errand'[e].step = "confirmed" /\ errand'[e].generation = intent.generation /\ intent.taken =>
           Reached(intent.generation),
         intent.taken /\ intent'.paused /\ intent'.observed = intent.generation => Reached(intent.generation)
  PROVE  DesktopInv'
<1>1. DesktopTypes'
  BY DEF DesktopInv, DesktopTypes, brokerSide, agentSide
<1>2. IntentCopies'
  BY DEF DesktopInv, IntentCopies, Past, brokerSide
<1>3. Commands'
  <2>1. \A f \in Carrier : errand'[f].step = "sent" =>
          /\ adminCall'[f].there /\ adminCall'[f].generation = errand'[f].generation
          /\ (adminCall'[f].taken <=> errand'[f].taken)
    BY DEF DesktopInv, Commands
  <2>2. \A f \in Carrier : errand'[f].step \in {"ask", "unconfirmed"} => ~adminCall'[f].there
    BY DEF DesktopInv, Commands
  <2>3. \A f \in admin : adminCall'[f] = adminCall[f]
    BY DEF DesktopInv, Commands, DesktopTypes
  <2> QED BY <2>1, <2>2, <2>3 DEF DesktopInv, Commands, brokerSide
<1>4. BrokerFollows'
  BY DEF DesktopInv, BrokerFollows, Quiet, brokerSide, agentSide
<1>5. Confirmations'
  BY DEF DesktopInv, Confirmations, Reached, Quiet, brokerSide, agentSide
<1> QED BY <1>1, <1>2, <1>3, <1>4, <1>5 DEF DesktopInv

ExecutorMoves(e) ==
  Visit(e) \/ AskState(e) \/ SendState(e) \/ GiveUp(e) \/ RecordState(e) \/ CarrierLeaseMoves(e)

LEMMA ExecutorMovesKeep ==
  ASSUME DesktopInv, NEW e \in Carrier, ExecutorMoves(e)
  PROVE  DesktopInv'
<1>0. /\ errand \in [Carrier -> ErrandRow] /\ adminCall \in [Carrier -> CommandRow]
      /\ errand[e] \in ErrandRow /\ adminCall[e] \in CommandRow /\ intent \in IntentRow
      /\ NoErrand \in ErrandRow /\ NoErrand.step = "none"
  BY DEF DesktopInv, DesktopTypes, NoErrand, ErrandRow
<1>1. CASE Visit(e)
  <2> DEFINE r == [step |-> "ask", generation |-> intent.generation, taken |-> intent.taken]
  <2>1. r \in ErrandRow /\ r.step = "ask" /\ Past(r)
    BY <1>0 DEF ErrandRow, IntentRow, Past
  <2>2. errand' = [errand EXCEPT ![e] = r] /\ UNCHANGED <<intent, lease, adminCall, brokerSide, agentSide>>
    BY <1>1 DEF Visit
  <2>3. ~adminCall[e].there
    BY <1>1 DEF Visit
  <2> HIDE DEF r
  <2> QED BY <1>0, <2>1, <2>2, <2>3, ExecutorKeeps DEF DesktopInv, IntentCopies, Confirmations
<1>2. CASE AskState(e)
  <2> DEFINE s == IF Shows(errand[e]) THEN "confirmed" ELSE "unconfirmed"
             r == [errand[e] EXCEPT !.step = s]
  <2>0. s \in {"confirmed", "unconfirmed"} /\ (s = "confirmed" => Shows(errand[e]))
    OBVIOUS
  <2>1. r \in ErrandRow /\ r.step = s /\ r.generation = errand[e].generation /\ (r.taken <=> errand[e].taken)
    <3>1. s \in {"none", "ask", "unconfirmed", "sent", "confirmed"}
      BY <2>0
    <3> HIDE DEF s
    <3> QED BY <1>0, <3>1, ErrandMoves
  <2>2. errand' = [errand EXCEPT ![e] = IF Guarded(e) THEN r ELSE NoErrand]
    BY <1>2 DEF AskState
  <2>3. UNCHANGED <<intent, lease, adminCall, brokerSide, agentSide>> /\ errand[e].step = "ask"
    BY <1>2 DEF AskState
  <2>4. Past(r)
    BY <2>1, <2>3 DEF DesktopInv, IntentCopies, Past
  <2>5. r.step = "confirmed" /\ r.generation = intent.generation /\ Guarded(e) /\ intent.taken => Reached(intent.generation)
    <3> SUFFICES ASSUME r.step = "confirmed", r.generation = intent.generation, Guarded(e), intent.taken
                 PROVE  Reached(intent.generation)
      OBVIOUS
    <3>1. broker.generation = intent.generation /\ broker.taken /\ broker.confirmed
      BY <1>0, <2>0, <2>1 DEF Shows, Guarded, DesktopInv, DesktopTypes, ErrandRow, IntentRow
    <3>2. admin = {} /\ broker.reconciled
      BY <3>1 DEF DesktopInv, BrokerFollows
    <3> QED BY <3>1, <3>2 DEF DesktopInv, BrokerFollows, Reached
  <2>6. r.step # "sent" /\ ~adminCall[e].there
    BY <2>0, <2>1, <2>3 DEF DesktopInv, Commands
  <2> HIDE DEF r, s
  <2> QED BY <1>0, <2>1, <2>2, <2>3, <2>4, <2>5, <2>6, ExecutorKeeps DEF DesktopInv, IntentCopies, Confirmations
<1>3. CASE SendState(e)
  <2> DEFINE r == [errand[e] EXCEPT !.step = "sent"]
             c == [there |-> TRUE, generation |-> errand[e].generation, taken |-> errand[e].taken]
  <2>1. r \in ErrandRow /\ r.step = "sent" /\ r.generation = errand[e].generation /\ (r.taken <=> errand[e].taken)
    BY <1>0, ErrandMoves
  <2>2. c \in CommandRow /\ c.there /\ c.generation = errand[e].generation /\ (c.taken <=> errand[e].taken)
    BY <1>0 DEF ErrandRow, CommandRow
  <2>3. UNCHANGED <<intent, lease, brokerSide, agentSide>> /\ errand[e].step = "unconfirmed"
    BY <1>3 DEF SendState
  <2>7. ~adminCall[e].there
    BY <2>3 DEF DesktopInv, Commands
  <2>4. Past(r) /\ Past(c)
    BY <2>1, <2>2, <2>3 DEF DesktopInv, IntentCopies, Past
  <2>5. CASE Guarded(e)
    <3>1. errand' = [errand EXCEPT ![e] = r] /\ adminCall' = [adminCall EXCEPT ![e] = c]
      BY <1>3, <2>5 DEF SendState
    <3> HIDE DEF r, c
    <3> QED BY <1>0, <2>1, <2>2, <2>3, <2>4, <2>7, <3>1, ExecutorKeeps DEF DesktopInv, IntentCopies, Confirmations
  <2>6. CASE ~Guarded(e)
    <3>1. errand' = [errand EXCEPT ![e] = NoErrand] /\ adminCall' = adminCall
      BY <1>3, <2>6 DEF SendState
    <3> QED BY <1>0, <2>3, <3>1, ExecutorKeeps DEF DesktopInv, IntentCopies, Confirmations
  <2> QED BY <2>5, <2>6
<1>4. CASE GiveUp(e)
  <2>1. errand' = [errand EXCEPT ![e] = NoErrand] /\ UNCHANGED <<intent, lease, adminCall, brokerSide, agentSide>>
    BY <1>4 DEF GiveUp
  <2> QED BY <1>0, <2>1, ExecutorKeeps DEF DesktopInv, IntentCopies, Confirmations
<1>5. CASE RecordState(e)
  <2> DEFINE i == [intent EXCEPT !.paused = errand[e].taken, !.observed = errand[e].generation]
  <2>1. /\ errand' = [errand EXCEPT ![e] = NoErrand] /\ UNCHANGED <<lease, adminCall, brokerSide, agentSide>>
        /\ errand[e].step = "confirmed"
    BY <1>5 DEF RecordState
  <2>2. /\ i \in IntentRow /\ i.generation = intent.generation /\ (i.taken <=> intent.taken)
        /\ i.observed = errand[e].generation /\ (i.paused <=> errand[e].taken)
    <3>1. errand[e].taken \in BOOLEAN /\ errand[e].generation \in 0..Nowhere
      BY <1>0 DEF ErrandRow
    <3> QED BY <1>0, <3>1 DEF IntentRow
  <2>3. errand[e].generation <= intent.generation
    BY <2>1 DEF DesktopInv, IntentCopies, Past
  <2>4. intent.taken /\ errand[e].generation = intent.generation => Reached(intent.generation)
    BY <2>1 DEF DesktopInv, Confirmations
  <2>5. intent' = IF Guarded(e) THEN i ELSE intent
    BY <1>5 DEF RecordState
  <2> HIDE DEF i
  <2> QED BY <1>0, <2>1, <2>2, <2>3, <2>4, <2>5, ExecutorKeeps DEF DesktopInv, IntentCopies, Confirmations
<1>6. CASE CarrierLeaseMoves(e)
  <2>1. UNCHANGED <<intent, errand, adminCall, brokerSide, agentSide>>
    BY <1>6 DEF CarrierLeaseMoves
  <2> QED BY <1>0, <2>1, ExecutorKeeps DEF DesktopInv, IntentCopies, Commands, Confirmations
<1> QED BY <1>1, <1>2, <1>3, <1>4, <1>5, <1>6 DEF ExecutorMoves

LEMMA RequestKeeps ==
  ASSUME DesktopInv, NEW t \in BOOLEAN, RequestDesktop(t)
  PROVE  DesktopInv'
<1>0. UNCHANGED <<errand, adminCall, brokerSide, agentSide>>
  BY DEF RequestDesktop
<1>1. /\ intent \in IntentRow /\ intent' \in IntentRow /\ intent'.generation = intent.generation + 1
      /\ intent'.observed = intent.observed /\ intent'.generation < Nowhere
  <2>1. intent \in IntentRow /\ intent.generation \in Generations /\ intent.generation + 1 \in Generations
    BY DEF DesktopInv, DesktopTypes, IntentRow, RequestDesktop
  <2>2. intent' = [taken |-> t, generation |-> intent.generation + 1,
                   paused |-> intent.paused, observed |-> intent.observed]
    BY <2>1 DEF RequestDesktop, IntentRow
  <2> QED BY <2>1, <2>2 DEF IntentRow
<1>2. DesktopTypes'
  BY <1>0, <1>1 DEF DesktopInv, DesktopTypes, brokerSide, agentSide
<1>3. IntentCopies'
  BY <1>0, <1>1 DEF DesktopInv, DesktopTypes, IntentRow, ErrandRow, CommandRow, IntentCopies, Past, brokerSide
<1>4. Commands' /\ BrokerFollows'
  BY <1>0 DEF DesktopInv, Commands, BrokerFollows, Quiet, brokerSide, agentSide
<1>5. Confirmations'
  BY <1>0, <1>1 DEF DesktopInv, DesktopTypes, IntentRow, ErrandRow, IntentCopies, Past, Confirmations
<1> QED BY <1>2, <1>3, <1>4, <1>5 DEF DesktopInv

\* A step that answers the command of an executor and leaves the intent alone.
LEMMA ReplyKeeps ==
  ASSUME DesktopInv, NEW e \in Carrier, NEW s \in {"refused", "confirmed"}, AdminReply(e, s),
         UNCHANGED <<intent, gesture>>, admin' = {},
         journal' \in [generation : Generations, taken : BOOLEAN], Past(journal'),
         broker' \in [generation : Generations, reconciled : BOOLEAN, taken : BOOLEAN, confirmed : BOOLEAN],
         active' \in Gesture \cup {NoGesture}, pressed' \in BOOLEAN, BrokerFollows',
         intent.taken /\ Reached(intent.generation) => Reached(intent.generation)',
         s = "confirmed" /\ errand[e].step = "sent" /\ errand[e].generation = intent.generation /\ intent.taken =>
           Reached(intent.generation)'
  PROVE  DesktopInv'
<1>1. DesktopTypes'
  BY Replies DEF DesktopInv, DesktopTypes
<1>2. IntentCopies'
  <2>1. \A f \in Carrier : adminCall'[f].there => Past(adminCall[f])'
    BY Replies DEF DesktopInv, IntentCopies, Past, NoCommand
  <2>2. \A f \in Carrier : errand'[f].step # "none" => Past(errand[f])'
    BY Replies DEF DesktopInv, IntentCopies, Past
  <2> QED BY <2>1, <2>2 DEF DesktopInv, IntentCopies, Past
<1>3. Commands'
  <2>1. \A f \in Carrier : errand'[f].step = "sent" =>
          /\ adminCall'[f].there /\ adminCall'[f].generation = errand'[f].generation
          /\ (adminCall'[f].taken <=> errand'[f].taken)
    BY Replies DEF DesktopInv, Commands
  <2>2. \A f \in Carrier : errand'[f].step \in {"ask", "unconfirmed"} => ~adminCall'[f].there
    BY Replies DEF DesktopInv, Commands, NoCommand
  <2> QED BY <2>1, <2>2 DEF Commands
<1>4. Confirmations'
  BY Replies DEF DesktopInv, Confirmations
<1> QED BY <1>1, <1>2, <1>3, <1>4 DEF DesktopInv

LEMMA AdminBeginsKeeps ==
  ASSUME DesktopInv, NEW e \in Carrier, AdminBegins(e)
  PROVE  DesktopInv'
<1> DEFINE g == adminCall[e].generation
           same == g = journal.generation /\ adminCall[e].taken = journal.taken
           refused == StaleGeneration(g) \/ (g = journal.generation /\ ~same)
<1>0. /\ adminCall[e] \in CommandRow /\ Past(adminCall[e]) /\ Past(journal) /\ admin = {} /\ adminCall[e].there
      /\ UNCHANGED <<intent, agentSide>>
      /\ journal \in [generation : Generations, taken : BOOLEAN]
      /\ broker \in [generation : Generations, reconciled : BOOLEAN, taken : BOOLEAN, confirmed : BOOLEAN]
  BY DEF DesktopInv, DesktopTypes, IntentCopies, AdminBegins
<1>1. CASE refused
  <2>1. AdminReply(e, "refused") /\ UNCHANGED brokerSide
    BY <1>1 DEF AdminBegins
  <2> QED BY <1>0, <2>1, ReplyKeeps DEF DesktopInv, DesktopTypes, BrokerFollows, Reached, Quiet, brokerSide, agentSide
<1>2. CASE ~refused
  <2>1. /\ g >= journal.generation
        /\ g = journal.generation => same
        /\ journal' = [generation |-> g, taken |-> adminCall[e].taken]
    BY <1>0, <1>2 DEF AdminBegins, StaleGeneration, CommandRow
  <2>2. journal' \in [generation : Generations, taken : BOOLEAN] /\ Past(journal')
    BY <1>0, <2>1 DEF CommandRow, Past
  <2>3. intent.taken /\ Reached(intent.generation) => Reached(intent.generation)'
    BY <1>0, <2>1 DEF Reached, Quiet, Past, agentSide, CommandRow
  <2>4. CASE same /\ broker.reconciled
    <3>1. /\ broker' = [broker EXCEPT !.generation = g, !.taken = adminCall[e].taken, !.confirmed = TRUE]
          /\ AdminReply(e, "confirmed") /\ UNCHANGED admin
      BY <1>2, <2>4 DEF AdminBegins
    <3>2. /\ broker' \in [generation : Generations, reconciled : BOOLEAN, taken : BOOLEAN, confirmed : BOOLEAN]
          /\ broker'.generation = g /\ (broker'.taken <=> adminCall[e].taken) /\ broker'.reconciled
      BY <1>0, <2>4, <3>1 DEF CommandRow
    <3>3. BrokerFollows'
      BY <1>0, <2>1, <2>4, <3>1, <3>2 DEF DesktopInv, BrokerFollows, Quiet, agentSide
    <3>4. errand[e].step = "sent" /\ errand[e].generation = intent.generation /\ intent.taken =>
            Reached(intent.generation)'
      BY <1>0, <2>1, <2>4 DEF DesktopInv, Commands, BrokerFollows, Past, Reached, Quiet, agentSide, CommandRow
    <3> QED BY <1>0, <2>2, <2>3, <3>1, <3>2, <3>3, <3>4, ReplyKeeps DEF DesktopInv, DesktopTypes, agentSide
  <2>5. CASE ~(same /\ broker.reconciled)
    <3>1. /\ broker' = [broker EXCEPT !.taken = TRUE, !.confirmed = FALSE]
          /\ admin' = {e} /\ UNCHANGED <<adminCall, errand>>
      BY <1>2, <2>5 DEF AdminBegins
    <3>2. /\ broker' \in [generation : Generations, reconciled : BOOLEAN, taken : BOOLEAN, confirmed : BOOLEAN]
          /\ broker'.taken /\ ~broker'.confirmed
      BY <1>0, <3>1
    <3>3. DesktopTypes'
      BY <1>0, <2>2, <3>1, <3>2 DEF DesktopInv, DesktopTypes, agentSide
    <3>4. IntentCopies'
      BY <1>0, <2>2, <3>1 DEF DesktopInv, IntentCopies, Past
    <3>5. Commands'
      BY <1>0, <2>1, <3>1 DEF DesktopInv, Commands
    <3>6. BrokerFollows'
      BY <3>1, <3>2 DEF BrokerFollows
    <3>7. Confirmations'
      BY <1>0, <2>3, <3>1 DEF DesktopInv, Confirmations
    <3> QED BY <3>3, <3>4, <3>5, <3>6, <3>7 DEF DesktopInv
  <2> QED BY <2>4, <2>5
<1> QED BY <1>1, <1>2

LEMMA QuiesceKeeps ==
  ASSUME DesktopInv, NEW e \in Carrier, NEW done \in BOOLEAN, Quiesce(e, done)
  PROVE  DesktopInv'
<1>0. /\ adminCall[e] \in CommandRow /\ adminCall[e].generation = journal.generation
      /\ (adminCall[e].taken <=> journal.taken) /\ Past(journal)
      /\ admin' = {} /\ UNCHANGED <<intent, journal, gesture, active>> /\ active = NoGesture
      /\ (pressed' <=> pressed /\ ~done) /\ pressed' \in BOOLEAN
  BY DEF DesktopInv, DesktopTypes, IntentCopies, Commands, Quiesce, Quiescable
<1>1. /\ broker' = [generation |-> adminCall[e].generation, reconciled |-> done,
                    taken |-> IF done THEN adminCall[e].taken ELSE TRUE, confirmed |-> done]
      /\ AdminReply(e, IF done THEN "confirmed" ELSE "refused")
  BY DEF Quiesce
<1>2. /\ broker' \in [generation : Generations, reconciled : BOOLEAN, taken : BOOLEAN, confirmed : BOOLEAN]
      /\ broker'.generation = journal.generation /\ (broker'.reconciled <=> done)
      /\ (broker'.taken <=> (done => journal.taken)) /\ (broker'.confirmed <=> done)
  BY <1>0, <1>1 DEF CommandRow
<1>3. BrokerFollows'
  BY <1>0, <1>2 DEF BrokerFollows, Quiet
<1>4. intent.taken /\ Reached(intent.generation) => Reached(intent.generation)'
  BY <1>0 DEF Reached, Quiet
<1>5. done /\ errand[e].step = "sent" /\ errand[e].generation = intent.generation /\ intent.taken =>
        Reached(intent.generation)'
  BY <1>0 DEF DesktopInv, Commands, Reached, Quiet
<1>6. Past(journal')
  BY <1>0
<1> QED BY <1>0, <1>1, <1>2, <1>3, <1>4, <1>5, <1>6, ReplyKeeps DEF DesktopInv, DesktopTypes

\* The agent begins nothing while a takeover that is still asked for is confirmed.
AgentMoves ==
  \/ \E a \in Gesture : PostAction(a) \/ Perform(a) \/ AnswerPost(a)
  \/ Press \/ \E done, released \in BOOLEAN : Performed(done, released)

LEMMA AgentKeeps ==
  ASSUME DesktopInv, AgentMoves
  PROVE  DesktopInv'
<1>0. UNCHANGED <<intent, errand, adminCall, brokerSide>>
  BY DEF AgentMoves, PostAction, Perform, AnswerPost, Press, Performed
<1>1. DesktopTypes'
  <2>1. gesture' \in [Gesture -> {"absent", "started", "succeeded", "interrupted"}]
    BY DEF DesktopInv, DesktopTypes, AgentMoves, PostAction, Perform, AnswerPost, Press, Performed
  <2>2. active' \in Gesture \cup {NoGesture}
    BY DEF DesktopInv, DesktopTypes, AgentMoves, PostAction, Perform, AnswerPost, Press, Performed
  <2>3. pressed' \in BOOLEAN
    BY DEF DesktopInv, DesktopTypes, AgentMoves, PostAction, Perform, AnswerPost, Press, Performed
  <2> QED BY <1>0, <2>1, <2>2, <2>3 DEF DesktopInv, DesktopTypes, brokerSide
<1>2. journal.taken /\ broker.taken /\ Quiet => Quiet'
  BY DEF Quiet, AgentMoves, PostAction, Perform, AnswerPost, Press, Performed, Admits
<1>3. admin = {} /\ broker.reconciled /\ journal.taken => Quiet'
  BY <1>2 DEF DesktopInv, BrokerFollows
<1>4. IntentCopies' /\ Commands'
  BY <1>0 DEF DesktopInv, IntentCopies, Past, Commands, brokerSide
<1>5. BrokerFollows'
  BY <1>0, <1>3 DEF DesktopInv, DesktopTypes, BrokerFollows, brokerSide
<1>6. Reached(intent.generation) /\ intent.taken => Reached(intent.generation)'
  <2> SUFFICES ASSUME Reached(intent.generation), intent.taken PROVE Reached(intent.generation)'
    OBVIOUS
  <2>1. journal.taken
    BY DEF Reached, DesktopInv, IntentCopies, Past
  <2>2. broker.taken
    BY <2>1 DEF DesktopInv, BrokerFollows
  <2> QED BY <1>0, <1>2, <2>1, <2>2 DEF Reached, brokerSide
<1>7. Confirmations'
  BY <1>0, <1>6 DEF DesktopInv, Confirmations
<1> QED BY <1>1, <1>4, <1>5, <1>7 DEF DesktopInv

LEMMA RestartKeeps ==
  ASSUME DesktopInv, BrokerRestarts
  PROVE  DesktopInv'
<1>0. UNCHANGED <<intent, journal, pressed>> /\ admin' = {} /\ active' = NoGesture
  BY DEF BrokerRestarts
<1>1. /\ broker' \in [generation : Generations, reconciled : BOOLEAN, taken : BOOLEAN, confirmed : BOOLEAN]
      /\ ~broker'.reconciled /\ broker'.taken /\ ~broker'.confirmed
  BY DEF BrokerRestarts, Booted, DesktopInv, DesktopTypes
<1>2. /\ NoErrand \in ErrandRow /\ NoErrand.step = "none"
      /\ NoCommand \in CommandRow /\ ~NoCommand.there
  BY DEF NoErrand, NoCommand, ErrandRow, CommandRow
<1>3. /\ adminCall' \in [Carrier -> CommandRow] /\ errand' \in [Carrier -> ErrandRow]
      /\ \A e \in Carrier : adminCall'[e] = (IF e \in admin THEN NoCommand ELSE adminCall[e])
      /\ \A e \in Carrier : errand'[e] = (IF e \in admin /\ errand[e].step = "sent" THEN NoErrand ELSE errand[e])
  BY <1>2 DEF BrokerRestarts, DesktopInv, DesktopTypes
<1>4. gesture' \in [Gesture -> {"absent", "started", "succeeded", "interrupted"}]
  BY DEF BrokerRestarts, Reopened, DesktopInv, DesktopTypes
<1>5. DesktopTypes'
  <2>1. intent' \in IntentRow /\ journal' \in [generation : Generations, taken : BOOLEAN]
    BY <1>0 DEF DesktopInv, DesktopTypes
  <2>2. admin' \in SUBSET Carrier /\ active' \in Gesture \cup {NoGesture} /\ pressed' \in BOOLEAN
    BY <1>0 DEF DesktopInv, DesktopTypes
  <2> QED BY <1>1, <1>3, <1>4, <2>1, <2>2 DEF DesktopTypes
<1>6. IntentCopies'
  BY <1>0, <1>2, <1>3 DEF DesktopInv, IntentCopies, Past
<1>7. Commands'
  BY <1>0, <1>2, <1>3 DEF DesktopInv, Commands
<1>8. BrokerFollows'
  BY <1>0, <1>1 DEF BrokerFollows
<1>9. Confirmations'
  BY <1>0, <1>2, <1>3 DEF DesktopInv, Confirmations, Reached, Quiet
<1> QED BY <1>5, <1>6, <1>7, <1>8, <1>9 DEF DesktopInv

\* While the row says that the takeover it asks for was observed, the agent does not use the
\* desktop: an acknowledgement is accepted only for the generation it names, and a generation
\* is one intent, of which the copies in errands, commands and the broker's journal are past
\* ones (lifecycle.ts, packages/desktop/broker.ts).
THEOREM ConfirmedSafe == DesktopSpec => []ConfirmedIsQuiet
<1>1. DesktopInv /\ [DesktopNext]_desktopVars => DesktopInv'
  <2> SUFFICES ASSUME DesktopInv, [DesktopNext]_desktopVars PROVE DesktopInv'
    OBVIOUS
  <2>1. CASE DesktopNext
    BY <2>1, ExecutorMovesKeep, RequestKeeps, AdminBeginsKeeps, QuiesceKeeps, AgentKeeps, RestartKeeps DEF DesktopNext, ExecutorMoves, AgentMoves
  <2>2. CASE UNCHANGED desktopVars
    BY <2>2 DEF desktopVars, brokerSide, agentSide, DesktopInv, DesktopTypes, IntentCopies, Past, Commands, BrokerFollows, Quiet, Reached, Confirmations
  <2> QED BY <2>1, <2>2
<1>2. DesktopInv => ConfirmedIsQuiet
  BY DEF DesktopInv, Confirmations, Reached, Quiet, ConfirmedIsQuiet
<1> QED BY <1>1, <1>2, DesktopBegins, PTL DEF DesktopSpec

-----------------------------------------------------------------------------
\* The text of a response.

Saying == [text : Nat, end : {"no", "whole", "broken"}]
Rows(s) == [i \in 1..Len(s) |-> Contract!Whole(s[i])]

\* The executor of the daemon has the messages of the model, and knows which is under way.
VoiceInv ==
  /\ said \in Seq(Saying) /\ turns \in Nat /\ speaking \in {"no", "silent", "aloud"}
  /\ progress.messages = Rows(said) /\ progress.usage = turns /\ progress.version \in Nat
  /\ slot = IF speaking = "aloud" THEN Len(said) ELSE 0
  /\ speaking = "aloud" => /\ Len(said) # 0 /\ said[Len(said)].end = "no"
                           /\ said[Len(said)].text # 0

LEMMA WholeFields ==
  \A m : Contract!Whole(m).text = m.text /\ (Contract!Whole(m).complete <=> m.end = "whole")
  BY DEF Contract!Whole

LEMMA RowsType ==
  ASSUME NEW s \in Seq(Saying)
  PROVE  Rows(s) \in Seq(Row) /\ Len(Rows(s)) = Len(s) /\ \A i \in 1..Len(s) : Rows(s)[i] = Contract!Whole(s[i])
<1>1. \A i \in 1..Len(s) : s[i] \in Saying
  OBVIOUS
<1>2. \A i \in 1..Len(s) : Contract!Whole(s[i]) \in Row
  BY <1>1 DEF Contract!Whole, Row, Saying
<1> QED
  BY <1>2 DEF Rows

LEMMA SameRows ==
  ASSUME NEW a \in Seq(Row), NEW b \in Seq(Row), Len(a) = Len(b), \A i \in 1..Len(a) : a[i] = b[i]
  PROVE  a = b
<1>1. a = [i \in 1..Len(a) |-> a[i]] /\ b = [i \in 1..Len(b) |-> b[i]]
  OBVIOUS
<1> QED
  BY <1>1

LEMMA SayingsTyped ==
  ASSUME NEW s \in Seq(Saying)
  PROVE  Len(s) \in Nat /\ \A i \in 1..Len(s) : s[i] \in Saying /\ s[i].text \in Nat
<1>1. Len(s) \in Nat /\ \A i \in 1..Len(s) : s[i] \in Saying
  OBVIOUS
<1> QED
  BY <1>1 DEF Saying

LEMMA SaysMore ==
  ASSUME NEW s \in Seq(Saying), NEW m \in Saying
  PROVE  /\ Contract!Continues(s, s) /\ Contract!Continues(s, Append(s, m))
         /\ Len(Append(s, m)) = Len(s) + 1 /\ Append(s, m)[Len(s) + 1] = m
<1>1. /\ Len(Append(s, m)) = Len(s) + 1 /\ Append(s, m)[Len(s) + 1] = m
      /\ \A i \in 1..Len(s) : Append(s, m)[i] = s[i]
  OBVIOUS
<1>2. Contract!Continues(s, s)
  BY SayingsTyped DEF Contract!Continues
<1>3. Contract!Continues(s, Append(s, m))
  BY <1>1, SayingsTyped DEF Contract!Continues
<1> QED
  BY <1>1, <1>2, <1>3

LEMMA SaysOn ==
  ASSUME NEW s \in Seq(Saying), NEW m \in Saying, NEW n \in 1..Len(s), s[n].end = "no", s[n].text <= m.text
  PROVE  Contract!Continues(s, [s EXCEPT ![n] = m]) /\ [s EXCEPT ![n] = m][n] = m
<1> DEFINE t == [s EXCEPT ![n] = m]
<1>1. Len(t) = Len(s) /\ t[n] = m /\ \A i \in 1..Len(s) : i # n => t[i] = s[i]
  OBVIOUS
<1> HIDE DEF t
<1>2. \A i \in 1..Len(s) : s[i].text <= t[i].text /\ (s[i].end # "no" => t[i] = s[i])
  BY <1>1, SayingsTyped
<1>3. Contract!Continues(s, t)
  BY <1>1, <1>2, SayingsTyped DEF Contract!Continues
<1> QED
  BY <1>1, <1>3 DEF t

LEMMA RowsAppend ==
  ASSUME NEW s \in Seq(Saying), NEW m \in Saying
  PROVE  Append(s, m) \in Seq(Saying) /\ Rows(Append(s, m)) = Append(Rows(s), Contract!Whole(m))
<1> DEFINE more == Append(s, m)
           w == Contract!Whole(m)
           r == Rows(s)
<1>1. /\ more \in Seq(Saying) /\ Len(more) = Len(s) + 1 /\ more[Len(s) + 1] = m
      /\ Len(s) \in Nat /\ \A i \in 1..Len(s) : more[i] = s[i]
  OBVIOUS
<1>2. w \in Row
  BY DEF Contract!Whole, Row, Saying
<1>3. r \in Seq(Row) /\ Len(r) = Len(s) /\ \A i \in 1..Len(s) : r[i] = Contract!Whole(s[i])
  BY RowsType
<1>4. /\ Rows(more) \in Seq(Row) /\ Len(Rows(more)) = Len(s) + 1
      /\ \A i \in 1..(Len(s) + 1) : Rows(more)[i] = Contract!Whole(more[i])
  BY <1>1, RowsType
<1> HIDE DEF more, w, r
<1>5. /\ Append(r, w) \in Seq(Row) /\ Len(Append(r, w)) = Len(s) + 1
      /\ Append(r, w)[Len(s) + 1] = w /\ \A i \in 1..Len(s) : Append(r, w)[i] = r[i]
  BY <1>2, <1>3
<1>6. \A i \in 1..(Len(s) + 1) : Rows(more)[i] = Append(r, w)[i]
  <2> SUFFICES ASSUME NEW i \in 1..(Len(s) + 1) PROVE Rows(more)[i] = Append(r, w)[i]
    OBVIOUS
  <2>1. CASE i = Len(s) + 1
    <3>1. Rows(more)[i] = Contract!Whole(more[i]) /\ more[i] = m
      BY <2>1, <1>1, <1>4
    <3>2. Append(r, w)[i] = w
      BY <2>1, <1>5
    <3> QED
      BY <3>1, <3>2 DEF w
  <2>2. CASE i \in 1..Len(s)
    <3>1. Rows(more)[i] = Contract!Whole(more[i]) /\ more[i] = s[i]
      BY <2>2, <1>1, <1>4
    <3>2. Append(r, w)[i] = r[i] /\ r[i] = Contract!Whole(s[i])
      BY <2>2, <1>3, <1>5
    <3> QED
      BY <3>1, <3>2
  <2>3. i = Len(s) + 1 \/ i \in 1..Len(s)
    BY <1>1
  <2> QED
    BY <2>1, <2>2, <2>3
<1>7. Rows(more) = Append(r, w)
  BY <1>4, <1>5, <1>6, SameRows
<1> QED
  BY <1>1, <1>7 DEF more, r, w

LEMMA RowsReplace ==
  ASSUME NEW s \in Seq(Saying), NEW m \in Saying, NEW n \in 1..Len(s)
  PROVE  /\ [s EXCEPT ![n] = m] \in Seq(Saying) /\ Len([s EXCEPT ![n] = m]) = Len(s)
         /\ Rows([s EXCEPT ![n] = m]) = [Rows(s) EXCEPT ![n] = Contract!Whole(m)]
<1>1. [s EXCEPT ![n] = m] \in Seq(Saying) /\ Len([s EXCEPT ![n] = m]) = Len(s)
  OBVIOUS
<1>2. \A i \in 1..Len(s) : Contract!Whole([s EXCEPT ![n] = m][i]) = [Rows(s) EXCEPT ![n] = Contract!Whole(m)][i]
  BY DEF Rows
<1> QED
  BY <1>1, <1>2 DEF Rows

\* Messages that go on are shown by rows that go on.
LEMMA RowsExtend ==
  ASSUME NEW s \in Seq(Saying), NEW t \in Seq(Saying), Contract!Continues(s, t)
  PROVE  Contract!Extends(Rows(s), Rows(t))
<1>1. Len(s) <= Len(t) /\ \A i \in 1..Len(s) : s[i].text <= t[i].text /\ (s[i].end # "no" => t[i] = s[i])
  BY DEF Contract!Continues
<1>2. ASSUME NEW i \in 1..Len(s)
      PROVE  Rows(s)[i].text <= Rows(t)[i].text /\ (Rows(s)[i].complete => Rows(t)[i] = Rows(s)[i])
  <2>1. i \in 1..Len(t)
    BY <1>1
  <2>2. Rows(s)[i] = Contract!Whole(s[i]) /\ Rows(t)[i] = Contract!Whole(t[i])
    BY <2>1, RowsType
  <2>4. Rows(s)[i].text <= Rows(t)[i].text
    BY <1>1, <2>2, WholeFields
  <2>5. ASSUME Rows(s)[i].complete PROVE Rows(t)[i] = Rows(s)[i]
    <3>1. s[i].end = "whole"
      BY <2>2, <2>5, WholeFields
    <3> QED
      BY <1>1, <2>2, <3>1
  <2> QED
    BY <2>4, <2>5
<1> QED
  BY <1>1, <1>2, RowsType DEF Contract!Extends

LEMMA ExtendsTransitive ==
  ASSUME NEW a \in Seq(Row), NEW b \in Seq(Row), NEW c \in Seq(Row),
         Contract!Extends(a, b), Contract!Extends(b, c)
  PROVE  Contract!Extends(a, c)
<1>1. \A i \in 1..Len(a) : i \in 1..Len(b) /\ a[i] \in Row /\ b[i] \in Row
  BY DEF Contract!Extends
<1>2. \A i \in 1..Len(b) : i \in 1..Len(c) /\ c[i] \in Row
  BY DEF Contract!Extends
<1>3. Len(a) <= Len(c)
  BY DEF Contract!Extends
<1>4. ASSUME NEW i \in 1..Len(a) PROVE a[i].text <= c[i].text /\ (a[i].complete => c[i] = a[i])
  <2>1. a[i].text \in Nat /\ b[i].text \in Nat /\ c[i].text \in Nat
    BY <1>1, <1>2 DEF Row
  <2>2. a[i].text <= b[i].text /\ (a[i].complete => b[i] = a[i])
    BY DEF Contract!Extends
  <2>3. b[i].text <= c[i].text /\ (b[i].complete => c[i] = b[i])
    BY <1>1 DEF Contract!Extends
  <2> QED
    BY <2>1, <2>2, <2>3
<1> QED
  BY <1>3, <1>4 DEF Contract!Extends

LEMMA ExtendsItself ==
  ASSUME NEW a \in Seq(Row)
  PROVE  Contract!Extends(a, a)
<1>1. \A i \in 1..Len(a) : a[i] \in Row
  OBVIOUS
<1>2. \A i \in 1..Len(a) : a[i].text \in Nat
  BY <1>1 DEF Row
<1> QED
  BY <1>2 DEF Contract!Extends

\* ON CONFLICT writes what was read, because a row that is complete is also complete there.
LEMMA UpsertedIsRead ==
  ASSUME NEW new \in Seq(Row), chat \in Seq(Row), Contract!Extends(chat, new)
  PROVE  Upserted(new) = new
<1>1. \A i \in 1..Len(new) : (i <= Len(chat) /\ chat[i].complete) => new[i] = chat[i]
  BY DEF Contract!Extends
<1> QED
  BY <1>1 DEF Upserted

\* What the model and its executor do: the model goes on, and a copy is handed over or not.
Handed ==
  /\ phase = "running" /\ phase' \in {"running", "ended"}
  /\ VoiceInv' /\ Contract!Continues(said, said') /\ turns' >= turns
  /\ progress' \in Snapshot
  /\ \/ progress'.version = progress.version /\ kept' = kept /\ phase' = "running"
     \/ /\ progress'.version = progress.version + 1
        /\ kept' = IF status = "running" /\ kept.version < progress'.version THEN progress' ELSE kept
  /\ UNCHANGED <<status, publish, rowVars, troubles>>

SaidGoesOn ==
  /\ said' \in Seq(Saying) /\ Contract!Continues(said, said')
  /\ speaking' \in {"no", "silent", "aloud"}
  /\ speaking' = "aloud" => Len(said') # 0 /\ said'[Len(said')].end = "no" /\ said'[Len(said')].text # 0

ToldAs(text) ==
  /\ SaidGoesOn
  /\ SlotOf(progress.messages, slot, text) = (IF speaking' = "aloud" THEN Len(said') ELSE 0)
  /\ Updated(progress.messages, slot, text, FALSE) = Rows(said')

\* updateMessage does to the messages what the model did to what it said.
LEMMA SayStep ==
  ASSUME VoiceInv, NEW text \in Nat, text >= Spoken, Say(text)
  PROVE  ToldAs(text)
<1> DEFINE n == Len(said)
<1>0. said \in Seq(Saying) /\ n \in Nat /\ \A i \in 1..n : said[i] \in Saying /\ said[i].text \in Nat
  BY SayingsTyped DEF VoiceInv
<1>1. CASE speaking = "aloud"
  <2> DEFINE m == [text |-> text, end |-> "no"]
  <2>1. n \in 1..n /\ said[n].end = "no" /\ said[n].text # 0
    BY <1>0, <1>1 DEF VoiceInv
  <2>2. text # 0 /\ said[n].text <= text
    BY <1>0, <1>1, <2>1 DEF Spoken
  <2>3. m \in Saying /\ m.text = text /\ m.end = "no"
    BY DEF Saying
  <2>4. [said[n] EXCEPT !.text = text] = m
    BY <1>0, <2>1 DEF Saying
  <2>5. said' = [said EXCEPT ![n] = m] /\ speaking' = "aloud"
    BY <1>1, <2>2, <2>4 DEF Say
  <2> HIDE DEF m
  <2>6. said' \in Seq(Saying) /\ Len(said') = n /\ Rows(said') = [Rows(said) EXCEPT ![n] = Contract!Whole(m)]
    BY <1>0, <2>1, <2>3, <2>5, RowsReplace
  <2>7. Contract!Continues(said, said') /\ said'[n] = m
    BY <1>0, <2>1, <2>2, <2>3, <2>5, SaysOn
  <2>8. SaidGoesOn
    BY <2>1, <2>2, <2>3, <2>5, <2>6, <2>7 DEF SaidGoesOn
  <2>9. slot = n /\ n # 0 /\ progress.messages = Rows(said)
    BY <1>0, <1>1, <2>1 DEF VoiceInv
  <2>10. SlotOf(progress.messages, slot, text) = n
    BY <2>9 DEF SlotOf
  <2>11. [text |-> text, complete |-> Rows(said)[n].complete \/ FALSE] = Contract!Whole(m)
    <3>1. Rows(said)[n] = Contract!Whole(said[n])
      BY <1>0, <2>1, RowsType
    <3>2. ~Rows(said)[n].complete
      BY <2>1, <3>1, WholeFields
    <3>3. (Rows(said)[n].complete \/ FALSE) = FALSE
      BY <3>2
    <3>4. (m.end = "whole") = FALSE
      BY <2>3
    <3> QED
      BY <2>3, <3>3, <3>4 DEF Contract!Whole
  <2>12. Updated(progress.messages, slot, text, FALSE) = Rows(said')
    BY <2>2, <2>6, <2>9, <2>11 DEF Updated
  <2> QED
    BY <2>5, <2>6, <2>8, <2>10, <2>12 DEF ToldAs
<1>2. CASE speaking # "aloud" /\ text # 0
  <2> DEFINE m == [text |-> text, end |-> "no"]
  <2>1. m \in Saying /\ m.text = text /\ m.end = "no" /\ said' = Append(said, m) /\ speaking' = "aloud"
    BY <1>2 DEF Say, Saying
  <2>2. Contract!Whole(m) = [text |-> text, complete |-> FALSE]
    BY DEF Contract!Whole
  <2> HIDE DEF m
  <2>3. said' \in Seq(Saying) /\ Rows(said') = Append(Rows(said), Contract!Whole(m))
    BY <1>0, <2>1, RowsAppend
  <2>4. Contract!Continues(said, said') /\ Len(said') = n + 1 /\ said'[n + 1] = m
    BY <1>0, <2>1, SaysMore
  <2>5. SaidGoesOn
    BY <1>0, <1>2, <2>1, <2>3, <2>4 DEF SaidGoesOn
  <2>6. slot = 0 /\ progress.messages = Rows(said) /\ Len(Rows(said)) = n
    BY <1>0, <1>2, RowsType DEF VoiceInv
  <2>7. SlotOf(progress.messages, slot, text) = Len(said')
    BY <1>2, <2>4, <2>6 DEF SlotOf
  <2>8. Updated(progress.messages, slot, text, FALSE) = Rows(said')
    BY <1>2, <2>2, <2>3, <2>6 DEF Updated
  <2> QED
    BY <2>1, <2>5, <2>7, <2>8 DEF ToldAs
<1>3. CASE speaking # "aloud" /\ text = 0
  <2>1. said' = said /\ speaking' = "silent" /\ slot = 0 /\ progress.messages = Rows(said)
    BY <1>3 DEF Say, VoiceInv
  <2>2. Contract!Continues(said, said)
    BY <1>0, SayingsTyped DEF Contract!Continues
  <2>3. SaidGoesOn
    BY <1>0, <2>1, <2>2 DEF SaidGoesOn
  <2> QED
    BY <1>3, <2>1, <2>3 DEF ToldAs, Updated, SlotOf
<1> QED
  BY <1>1, <1>2, <1>3

LEMMA MessageStartHands == ASSUME VoiceInv, NEW text \in Nat, MessageStart(text) PROVE Handed
<1>1. Say(text) /\ speaking = "no" /\ Spoken = 0 /\ slot = 0 /\ text >= Spoken
  BY DEF MessageStart, VoiceInv, Spoken
<1>2. /\ SaidGoesOn
      /\ SlotOf(progress.messages, slot, text) = (IF speaking' = "aloud" THEN Len(said') ELSE 0)
      /\ Updated(progress.messages, slot, text, FALSE) = Rows(said')
  BY <1>1, SayStep DEF ToldAs
<1>3. /\ progress' = [messages |-> Rows(said'), usage |-> progress.usage,
                      version |-> IF text # 0 THEN progress.version + 1 ELSE progress.version]
      /\ slot' = IF speaking' = "aloud" THEN Len(said') ELSE 0
  BY <1>1, <1>2 DEF MessageStart, Emit, Progressed, Unsent
<1>4. progress'.messages = Rows(said') /\ progress'.usage = turns /\ progress'.version \in Nat
      /\ progress'.version = IF text # 0 THEN progress.version + 1 ELSE progress.version
  BY <1>3 DEF VoiceInv
<1>5. kept' = IF text # 0 /\ status = "running" /\ kept.version < progress'.version THEN progress' ELSE kept
  BY <1>3, <1>4, <1>2, <1>1 DEF MessageStart, Emit, Progressed, Unsent
<1>6. UNCHANGED <<turns, phase, status, publish, rowVars, troubles>> /\ phase = "running"
  BY DEF MessageStart
<1>7. VoiceInv'
  BY <1>2, <1>3, <1>4, <1>6 DEF VoiceInv, SaidGoesOn
<1>8. progress' \in Snapshot
  <2>1. Rows(said') \in Seq(Row)
    BY <1>2, RowsType DEF SaidGoesOn
  <2> QED
    BY <1>3, <1>4, <2>1 DEF Snapshot, VoiceInv
<1> QED
  BY <1>2, <1>4, <1>5, <1>6, <1>7, <1>8 DEF Handed, SaidGoesOn, VoiceInv

LEMMA MessageUpdateHands ==
  ASSUME VoiceInv, NEW text \in Nat, NEW due \in BOOLEAN, MessageUpdate(text, due) PROVE Handed
<1>1. Say(text) /\ text >= Spoken
  BY DEF MessageUpdate
<1>2. /\ SaidGoesOn
      /\ SlotOf(progress.messages, slot, text) = (IF speaking' = "aloud" THEN Len(said') ELSE 0)
      /\ Updated(progress.messages, slot, text, FALSE) = Rows(said')
  BY <1>1, SayStep DEF ToldAs
<1>3. /\ progress' = [messages |-> Rows(said'), usage |-> progress.usage,
                      version |-> IF due THEN progress.version + 1 ELSE progress.version]
      /\ slot' = IF speaking' = "aloud" THEN Len(said') ELSE 0
  BY <1>2 DEF MessageUpdate, Emit, Progressed, Unsent
<1>4. progress'.messages = Rows(said') /\ progress'.usage = turns /\ progress'.version \in Nat
      /\ progress'.version = IF due THEN progress.version + 1 ELSE progress.version
  BY <1>3 DEF VoiceInv
<1>5. kept' = IF due /\ status = "running" /\ kept.version < progress'.version THEN progress' ELSE kept
  BY <1>3, <1>4, <1>2 DEF MessageUpdate, Emit, Progressed, Unsent
<1>6. UNCHANGED <<turns, phase, status, publish, rowVars, troubles>> /\ phase = "running"
  BY DEF MessageUpdate
<1>7. VoiceInv'
  BY <1>2, <1>3, <1>4, <1>6 DEF VoiceInv, SaidGoesOn
<1>8. progress' \in Snapshot
  <2>1. Rows(said') \in Seq(Row)
    BY <1>2, RowsType DEF SaidGoesOn
  <2> QED
    BY <1>3, <1>4, <2>1 DEF Snapshot, VoiceInv
<1> QED
  BY <1>2, <1>4, <1>5, <1>6, <1>7, <1>8 DEF Handed, SaidGoesOn, VoiceInv

LEMMA EndStep ==
  ASSUME VoiceInv, NEW text \in Nat, NEW whole \in BOOLEAN, MessageEnd(text, whole)
  PROVE  /\ said' \in Seq(Saying) /\ Contract!Continues(said, said')
         /\ Updated(progress.messages, slot, text, whole) = Rows(said')
<1> DEFINE n == Len(said)
           end == IF whole THEN "whole" ELSE "broken"
<1>0. /\ said \in Seq(Saying) /\ n \in Nat /\ \A i \in 1..n : said[i] \in Saying /\ said[i].text \in Nat
      /\ end \in {"whole", "broken"} /\ progress.messages = Rows(said)
  BY SayingsTyped DEF VoiceInv
<1>1. CASE speaking = "aloud"
  <2> DEFINE words == IF text = 0 THEN said[n].text ELSE text
             m == [text |-> words, end |-> end]
  <2>1. n \in 1..n /\ said[n].end = "no" /\ said[n].text # 0 /\ slot = n /\ n # 0
    BY <1>0, <1>1 DEF VoiceInv
  <2>2. words \in Nat /\ said[n].text <= words
    BY <1>0, <1>1, <2>1 DEF MessageEnd, Spoken
  <2>3. said' = [said EXCEPT ![n] = m]
    BY <1>1 DEF MessageEnd
  <2> HIDE DEF words
  <2>4. m \in Saying /\ m.text = words /\ (m.end = "whole" <=> whole)
    BY <1>0, <2>2 DEF Saying
  <2>5. said' \in Seq(Saying) /\ Rows(said') = [Rows(said) EXCEPT ![n] = Contract!Whole(m)]
    BY <1>0, <2>1, <2>3, <2>4, RowsReplace
  <2>6. Contract!Continues(said, said')
    BY <1>0, <2>1, <2>2, <2>3, <2>4, SaysOn
  <2>7. Rows(said)[n].text = said[n].text /\ ~Rows(said)[n].complete
    BY <1>0, <2>1, RowsType, WholeFields
  <2>8. [text |-> IF text = 0 THEN Rows(said)[n].text ELSE text, complete |-> Rows(said)[n].complete \/ whole]
          = Contract!Whole(m)
    <3>1. (Rows(said)[n].complete \/ whole) = (m.end = "whole")
      BY <2>4, <2>7
    <3>2. (IF text = 0 THEN Rows(said)[n].text ELSE text) = m.text
      BY <2>4, <2>7 DEF words
    <3> HIDE DEF m
    <3> QED
      BY <3>1, <3>2 DEF Contract!Whole
  <2>9. Updated(progress.messages, slot, text, whole) = Rows(said')
    BY <1>0, <2>1, <2>5, <2>8 DEF Updated
  <2> QED
    BY <2>5, <2>6, <2>9
<1>2. CASE speaking # "aloud" /\ text # 0
  <2> DEFINE m == [text |-> text, end |-> end]
  <2>1. m \in Saying /\ said' = Append(said, m)
    BY <1>0, <1>2 DEF MessageEnd, Saying, VoiceInv
  <2>2. said' \in Seq(Saying) /\ Rows(said') = Append(Rows(said), Contract!Whole(m))
    BY <1>0, <2>1, RowsAppend
  <2>3. Contract!Continues(said, said')
    BY <1>0, <2>1, SaysMore
  <2>4. Contract!Whole(m) = [text |-> text, complete |-> whole]
    <3>1. (end = "whole") = whole
      OBVIOUS
    <3> QED
      BY <3>1 DEF Contract!Whole
  <2>5. slot = 0
    BY <1>2 DEF VoiceInv
  <2>6. Updated(progress.messages, slot, text, whole) = Rows(said')
    BY <1>0, <1>2, <2>2, <2>4, <2>5 DEF Updated
  <2> QED
    BY <2>2, <2>3, <2>6
<1>3. CASE speaking # "aloud" /\ text = 0
  <2>1. said' = said
    BY <1>3 DEF MessageEnd
  <2>2. Contract!Continues(said, said)
    BY <1>0, SayingsTyped DEF Contract!Continues
  <2>3. Updated(progress.messages, slot, text, whole) = Rows(said)
    BY <1>0, <1>3 DEF Updated, VoiceInv
  <2> QED
    BY <1>0, <2>1, <2>2, <2>3
<1> QED
  BY <1>1, <1>2, <1>3

LEMMA MessageEndHands ==
  ASSUME VoiceInv, NEW text \in Nat, NEW whole \in BOOLEAN, MessageEnd(text, whole) PROVE Handed
<1>1. /\ said' \in Seq(Saying) /\ Contract!Continues(said, said')
      /\ Updated(progress.messages, slot, text, whole) = Rows(said')
  BY EndStep
<1>2. progress' = [messages |-> Rows(said'), usage |-> progress.usage + 1, version |-> progress.version + 1]
  BY <1>1 DEF MessageEnd, Emit, Progressed
<1>3. progress'.messages = Rows(said') /\ progress'.usage = turns + 1 /\ progress'.version \in Nat
      /\ progress'.version = progress.version + 1
  BY <1>2 DEF VoiceInv
<1>4. kept' = IF status = "running" /\ kept.version < progress'.version THEN progress' ELSE kept
  BY <1>1, <1>2, <1>3 DEF MessageEnd, Emit, Progressed
<1>5. /\ turns' = turns + 1 /\ speaking' = "no" /\ slot' = 0 /\ phase = "running"
      /\ UNCHANGED <<phase, status, publish, rowVars, troubles>>
  BY DEF MessageEnd
<1>6. VoiceInv'
  BY <1>1, <1>3, <1>5 DEF VoiceInv
<1>7. progress' \in Snapshot
  BY <1>1, <1>2, <1>3, RowsType DEF Snapshot, VoiceInv
<1> QED
  BY <1>1, <1>3, <1>4, <1>5, <1>6, <1>7 DEF Handed, VoiceInv

LEMMA ResponseEndsHands ==
  ASSUME VoiceInv, NEW ok \in BOOLEAN, ResponseEnds(ok) PROVE Handed
<1>1. progress' = [messages |-> progress.messages, usage |-> progress.usage, version |-> progress.version + 1]
  BY DEF ResponseEnds, Emit, Progressed
<1>2. progress'.messages = progress.messages /\ progress'.usage = progress.usage
      /\ progress'.version = progress.version + 1
  BY <1>1
<1>3. kept' = IF status = "running" /\ kept.version < progress'.version THEN progress' ELSE kept
  BY <1>1, <1>2 DEF ResponseEnds, Emit, Progressed
<1>4. /\ speaking' = "no" /\ slot' = 0 /\ phase = "running" /\ phase' = "ended"
      /\ UNCHANGED <<said, turns, status, publish, rowVars, troubles>>
  BY DEF ResponseEnds
<1>5. VoiceInv'
  BY <1>2, <1>4 DEF VoiceInv
<1>6. Contract!Continues(said, said)
  BY SayingsTyped DEF Contract!Continues, VoiceInv
<1>7. progress' \in Snapshot
  BY <1>1, RowsType DEF Snapshot, VoiceInv
<1> QED
  BY <1>2, <1>3, <1>4, <1>5, <1>6, <1>7 DEF Handed, VoiceInv

\* Snapshots are ordered by their number, wherever they are held; the rows are those of the
\* snapshot whose number the run has.
Held == {kept} \cup {look[e].read : e \in Reader}
Follows(s, t) ==
  /\ s.version < t.version => Contract!Extends(s.messages, t.messages) /\ s.usage <= t.usage
  /\ s.version = t.version => s = t

SnapsInv ==
  /\ \A s \in Held : s \in Snapshot /\ s.version <= kept.version /\ (s.version = 0 => s = NoSnapshot)
  /\ \A s, t \in Held : Follows(s, t)
  /\ kept.version <= progress.version /\ kept.usage <= turns
  /\ Contract!Extends(kept.messages, progress.messages)

Behind(s) ==
  /\ version < s.version => Contract!Extends(chat, s.messages)
  /\ version = s.version => chat = s.messages

RowInv ==
  /\ version \in Nat /\ version <= kept.version /\ bill \in Nat /\ bill <= kept.usage
  /\ lane \in {"main", "background"}
  /\ lane = "main" => /\ chat \in Seq(Row) /\ (version = 0 => chat = <<>>)
                      /\ \A s \in Held : Behind(s)
  /\ lane = "background" /\ report # "succeeded" => chat = <<>>

LookRecord == [step : {"idle", "messages", "usage", "settle"}, read : Snapshot,
               status : Verdicts \cup {"running"}, publish : BOOLEAN]

\* A visit that read a success has read the last snapshot.
LookInv ==
  /\ look \in [Reader -> LookRecord] /\ leader \in Reader
  /\ status \in Verdicts \cup {"running"} /\ publish \in BOOLEAN
  /\ \A e \in Reader :
       /\ look[e].step = "settle" => look[e].status \in Verdicts
       /\ look[e].status = "succeeded" => status = "succeeded" /\ look[e].read = kept

LeaderInv ==
  LET mine == look[leader] IN
    mine.step # "idle" =>
      /\ report # "succeeded" /\ bill <= mine.read.usage
      /\ mine.step # "messages" => mine.read.version <= version
      /\ mine.step = "settle" /\ mine.read.version # 0 => bill = mine.read.usage

EndInv ==
  /\ phase \in {"running", "ended", "over"} /\ outcome \in {"succeeded", "failed"}
  /\ (phase = "ended" /\ status = "running") \/ status = "succeeded" => kept = progress /\ kept.version # 0
  /\ status = "succeeded" => phase = "over"

ResponseInv == VoiceInv /\ SnapsInv /\ RowInv /\ LookInv /\ LeaderInv /\ EndInv

LEMMA HandedStep == ASSUME ResponseInv, Handed, lane' = lane, outcome' \in {"succeeded", "failed"} PROVE ResponseInv'
<1>0. /\ said \in Seq(Saying) /\ said' \in Seq(Saying) /\ turns \in Nat /\ turns' \in Nat
      /\ progress.messages = Rows(said) /\ progress'.messages = Rows(said')
      /\ progress.version \in Nat /\ progress'.version \in Nat /\ progress'.usage = turns'
  BY DEF ResponseInv, VoiceInv, Handed
<1>1. /\ UNCHANGED <<chat, bill, version, report, leader, look, status, publish>>
      /\ phase = "running" /\ phase' \in {"running", "ended"} /\ turns' >= turns
      /\ progress' \in Snapshot /\ VoiceInv'
  BY DEF Handed, rowVars
<1>2. kept \in Snapshot /\ kept \in Held /\ kept.version \in Nat /\ kept.usage \in Nat /\ kept.messages \in Seq(Row)
      /\ kept.version <= progress.version /\ kept.usage <= turns
      /\ Contract!Extends(kept.messages, progress.messages)
  BY DEF ResponseInv, SnapsInv, Held, Snapshot
<1>3. Contract!Extends(kept.messages, progress'.messages)
  <2>1. Contract!Extends(Rows(said), Rows(said'))
    BY <1>0, RowsExtend DEF Handed
  <2>2. Rows(said) \in Seq(Row) /\ Rows(said') \in Seq(Row)
    BY <1>0, RowsType
  <2> QED
    BY <1>0, <1>2, <2>1, <2>2, ExtendsTransitive
<1>4. status # "succeeded"
  BY <1>1 DEF ResponseInv, EndInv
<1>5. CASE kept' = kept
  <2>1. Held' = Held /\ progress.version <= progress'.version
    BY <1>0, <1>1, <1>5 DEF Held, Handed
  <2>2. SnapsInv'
    BY <1>0, <1>1, <1>2, <1>3, <1>5, <2>1 DEF ResponseInv, SnapsInv, Follows
  <2>3. RowInv'
    BY <1>1, <1>5, <2>1 DEF ResponseInv, RowInv, Behind
  <2>4. LookInv' /\ LeaderInv'
    BY <1>1, <1>5 DEF ResponseInv, LookInv, LeaderInv
  <2>5. EndInv'
    <3>1. ~(phase' = "ended" /\ status' = "running")
      BY <1>0, <1>1, <1>2, <1>5 DEF Handed
    <3> QED
      BY <1>1, <1>4, <3>1 DEF EndInv
  <2> QED
    BY <1>1, <2>2, <2>3, <2>4, <2>5 DEF ResponseInv
<1>6. CASE kept' # kept
  <2>1. kept' = progress' /\ kept.version < progress'.version /\ status = "running"
    BY <1>6 DEF Handed
  <2>2. ASSUME NEW s \in Held
        PROVE  /\ s \in Snapshot /\ s.version < progress'.version /\ s.usage <= progress'.usage
               /\ Contract!Extends(s.messages, progress'.messages) /\ (s.version = 0 => s = NoSnapshot)
    <3>1. s \in Snapshot /\ s.version <= kept.version /\ (s.version = 0 => s = NoSnapshot) /\ Follows(s, kept)
      BY <1>2 DEF ResponseInv, SnapsInv
    <3>2. s.version \in Nat /\ s.usage \in Nat /\ s.messages \in Seq(Row)
      BY <3>1 DEF Snapshot
    <3>3. CASE s.version = kept.version
      <4>1. s = kept
        BY <3>1, <3>3 DEF Follows
      <4> QED
        BY <3>1, <4>1, <1>0, <1>1, <1>2, <1>3, <2>1
    <3>4. CASE s.version < kept.version
      <4>1. Contract!Extends(s.messages, kept.messages) /\ s.usage <= kept.usage
        BY <3>1, <3>4 DEF Follows
      <4>2. Contract!Extends(s.messages, progress'.messages)
        <5>1. progress'.messages \in Seq(Row)
          BY <1>1 DEF Snapshot
        <5> QED
          BY <1>2, <1>3, <3>2, <4>1, <5>1, ExtendsTransitive
      <4>3. s.version < progress'.version
        BY <1>0, <1>2, <2>1, <3>2, <3>4
      <4>4. s.usage <= progress'.usage
        BY <1>0, <1>1, <1>2, <3>2, <4>1
      <4> QED
        BY <3>1, <4>2, <4>3, <4>4
    <3> QED
      BY <1>2, <3>1, <3>2, <3>3, <3>4
  <2>3. Held' \subseteq Held \cup {progress'}
    BY <1>1, <2>1 DEF Held
  <2>4. progress'.version # 0 /\ Contract!Extends(progress'.messages, progress'.messages)
    BY <1>0, <1>1, <1>2, <2>1, ExtendsItself DEF Snapshot
  <2>5. SnapsInv'
    <3>1. \A s \in Held' : /\ s \in Snapshot /\ s.version <= kept'.version
                           /\ (s.version = 0 => s = NoSnapshot)
      BY <1>0, <1>1, <2>1, <2>2, <2>3, <2>4 DEF Snapshot
    <3>2. ASSUME NEW s \in Held', NEW u \in Held' PROVE Follows(s, u)
      <4>1. CASE s \in Held /\ u \in Held
        BY <4>1 DEF ResponseInv, SnapsInv
      <4>2. CASE s \in Held /\ u = progress'
        BY <4>2, <2>2, <1>0 DEF Follows, Snapshot
      <4>3. CASE s = progress' /\ u \in Held
        <5>1. u.version \in Nat /\ u.version < progress'.version
          BY <2>2, <4>3 DEF Snapshot
        <5> QED
          BY <1>0, <4>3, <5>1 DEF Follows
      <4>4. CASE s = progress' /\ u = progress'
        BY <1>0, <4>4 DEF Follows
      <4> QED
        BY <2>3, <4>1, <4>2, <4>3, <4>4
    <3> QED
      BY <1>0, <1>1, <2>1, <2>4, <3>1, <3>2 DEF SnapsInv
  <2>6. RowInv'
    <3>1. version <= kept'.version /\ version < progress'.version /\ bill <= kept'.usage /\ version \in Nat
          /\ bill \in Nat
      BY <1>0, <1>1, <1>2, <2>1 DEF ResponseInv, RowInv
    <3>2. ASSUME lane = "main", NEW s \in Held' PROVE Behind(s)
      <4>1. CASE s \in Held
        BY <3>2, <4>1 DEF ResponseInv, RowInv
      <4>2. CASE s = progress'
        <5>1. Behind(kept) /\ chat \in Seq(Row)
          BY <1>2, <3>2 DEF ResponseInv, RowInv
        <5>2. version < kept.version \/ version = kept.version
          BY <1>2 DEF ResponseInv, RowInv
        <5>3. Contract!Extends(chat, progress'.messages)
          <6>1. progress'.messages \in Seq(Row)
            BY <1>1 DEF Snapshot
          <6>2. CASE version < kept.version
            BY <1>2, <1>3, <5>1, <6>1, <6>2, ExtendsTransitive DEF Behind
          <6>3. CASE version = kept.version
            BY <1>3, <5>1, <6>3 DEF Behind
          <6> QED
            BY <5>2, <6>2, <6>3
        <5> QED
          BY <1>0, <3>1, <4>2, <5>3 DEF Behind
      <4> QED
        BY <2>3, <4>1, <4>2
    <3> QED
      BY <1>1, <3>1, <3>2 DEF ResponseInv, RowInv, Behind
  <2>7. LookInv' /\ LeaderInv'
    BY <1>1, <1>4 DEF ResponseInv, LookInv, LeaderInv
  <2>8. EndInv'
    BY <1>1, <1>4, <2>1, <2>4 DEF EndInv
  <2> QED
    BY <1>1, <2>5, <2>6, <2>7, <2>8 DEF ResponseInv
<1> QED
  BY <1>5, <1>6

\* The settlements of the journal leave the snapshot alone.
LEMMA SettlesStep ==
  ASSUME ResponseInv, lane' = lane, ChooseResult \/ JournalSettles \/ DaemonDies \/ \E o \in Verdicts : CancelSettles(o)
  PROVE  ResponseInv'
<1>1. /\ UNCHANGED <<said, turns, progress, kept, outcome, chat, bill, version, report, leader, look>>
      /\ UNCHANGED <<speaking, slot>> \/ (speaking' = "no" /\ slot' = 0)
  BY DEF ChooseResult, JournalSettles, DaemonDies, CancelSettles, modelVars, rowVars
<1>2. VoiceInv'
  BY <1>1 DEF ResponseInv, VoiceInv
<1>3. Held' = Held
  BY <1>1 DEF Held
<1>4. SnapsInv' /\ RowInv' /\ LeaderInv'
  BY <1>1, <1>3 DEF ResponseInv, SnapsInv, RowInv, Behind, LeaderInv
<1>5. /\ status' \in Verdicts \cup {"running"} /\ publish' \in BOOLEAN
      /\ status = "succeeded" => status' = "succeeded"
  BY DEF ResponseInv, LookInv, EndInv, ChooseResult, JournalSettles, DaemonDies, CancelSettles, Verdicts
<1>6. LookInv'
  BY <1>1, <1>5 DEF ResponseInv, LookInv
<1>7. EndInv'
  <2>1. CASE ChooseResult
    BY <2>1, <1>1 DEF ChooseResult, ResponseInv, EndInv
  <2>2. CASE JournalSettles
    BY <2>2, <1>1 DEF JournalSettles, ResponseInv, EndInv
  <2>3. CASE DaemonDies
    BY <2>3, <1>1 DEF DaemonDies, ResponseInv, EndInv
  <2>4. CASE \E o \in Verdicts : CancelSettles(o)
    BY <2>4, <1>1 DEF CancelSettles, ResponseInv, EndInv
  <2> QED
    BY <2>1, <2>2, <2>3, <2>4
<1> QED
  BY <1>2, <1>4, <1>6, <1>7 DEF ResponseInv

\* A visit begins, goes on, ends or is dropped; nothing else changes but rows.
Visited(e) ==
  /\ e \in Reader /\ look' \in [Reader -> LookRecord] /\ \A f \in Reader \ {e} : look'[f] = look[f]
  /\ look'[e].read \in Held \cup {NoSnapshot}
  /\ UNCHANGED daemonVars /\ lane' = lane

LEMMA VisitedSnaps == ASSUME ResponseInv, NEW e, Visited(e) PROVE VoiceInv' /\ SnapsInv' /\ EndInv'
                                                          /\ Held' \subseteq Held \cup {NoSnapshot}
<1>1. UNCHANGED <<said, turns, speaking, phase, outcome, progress, slot, kept, status>>
  BY DEF Visited, daemonVars
<1>2. Held' \subseteq Held \cup {NoSnapshot}
  BY <1>1 DEF Held, Visited
<1>3. NoSnapshot \in Snapshot /\ NoSnapshot.version = 0 /\ NoSnapshot.messages = <<>> /\ NoSnapshot.usage = 0
  BY DEF NoSnapshot, Snapshot
<1>4. \A s \in Held : s \in Snapshot /\ s.version \in Nat /\ s.usage \in Nat /\ s.messages \in Seq(Row)
                      /\ s.version <= kept.version /\ (s.version = 0 => s = NoSnapshot)
  BY DEF ResponseInv, SnapsInv, Snapshot
<1>5. kept \in Held
  BY DEF Held
<1>6. \A s \in Held' : s \in Snapshot /\ s.version <= kept.version /\ (s.version = 0 => s = NoSnapshot)
  BY <1>2, <1>3, <1>4, <1>5
<1>7. ASSUME NEW s \in Held', NEW u \in Held' PROVE Follows(s, u)
  <2>1. CASE s \in Held /\ u \in Held
    BY <2>1 DEF ResponseInv, SnapsInv
  <2>2. CASE s = NoSnapshot
    <3>1. u.version \in Nat /\ u.usage \in Nat /\ (u.version = 0 => u = NoSnapshot)
      BY <1>2, <1>3, <1>4
    <3>2. Contract!Extends(<<>>, u.messages)
      <4>1. u.messages \in Seq(Row)
        BY <1>2, <1>3, <1>4, <1>6 DEF Snapshot
      <4> QED
        BY <4>1 DEF Contract!Extends
    <3> QED
      BY <1>3, <2>2, <3>1, <3>2 DEF Follows
  <2>3. CASE u = NoSnapshot
    <3>1. s.version \in Nat /\ (s.version = 0 => s = NoSnapshot)
      BY <1>2, <1>3, <1>4
    <3> QED
      BY <1>3, <2>3, <3>1 DEF Follows
  <2> QED
    BY <1>2, <2>1, <2>2, <2>3
<1>8. SnapsInv'
  BY <1>1, <1>6, <1>7 DEF ResponseInv, SnapsInv
<1>9. VoiceInv' /\ EndInv'
  BY <1>1 DEF ResponseInv, VoiceInv, EndInv
<1> QED
  BY <1>2, <1>8, <1>9

LEMMA VisitedRows ==
  ASSUME ResponseInv, NEW e, Visited(e), UNCHANGED <<chat, version>>, bill' \in Nat, bill' <= kept.usage,
         report = "succeeded" => report' = "succeeded"
  PROVE  RowInv'
<1>1. Held' \subseteq Held \cup {NoSnapshot} /\ kept' = kept /\ lane' = lane
  BY VisitedSnaps DEF Visited, daemonVars
<1>2. lane = "main" => Behind(NoSnapshot)
  BY DEF ResponseInv, RowInv, Behind, NoSnapshot
<1>3. lane = "main" => \A s \in Held' : Behind(s)
  BY <1>1, <1>2 DEF ResponseInv, RowInv
<1>4. \A s \in Held' : Behind(s) => Behind(s)'
  BY DEF Behind
<1> QED
  BY <1>1, <1>3, <1>4 DEF ResponseInv, RowInv, Behind

LEMMA ReadResponseStep == ASSUME ResponseInv, lane' = lane, NEW e \in Reader, ReadResponse(e) PROVE ResponseInv'
<1> DEFINE r == [step |-> "messages", read |-> kept, status |-> status, publish |-> publish]
<1>1. /\ look' = [look EXCEPT ![e] = r] /\ leader = e /\ report = "running"
      /\ UNCHANGED <<said, turns, speaking, phase, outcome, chosen, progress, slot, kept, status, publish,
                      chat, bill, version, report, leader>>
  BY DEF ReadResponse, daemonVars
<1>2. kept \in Held /\ kept \in Snapshot /\ look \in [Reader -> LookRecord]
  BY DEF Held, ResponseInv, SnapsInv, LookInv
<1>3. r \in LookRecord
  BY <1>2 DEF LookRecord, ResponseInv, LookInv
<1>4. r.read = kept /\ r.step = "messages" /\ r.status = status
  OBVIOUS
<1> HIDE DEF r
<1>5. look' \in [Reader -> LookRecord] /\ look'[e] = r /\ \A f \in Reader \ {e} : look'[f] = look[f]
  BY <1>1, <1>2, <1>3
<1>6. Visited(e)
  BY <1>1, <1>2, <1>4, <1>5 DEF Visited, daemonVars
<1>7. RowInv'
  BY <1>1, <1>6, VisitedRows DEF ResponseInv, RowInv
<1>8. LookInv'
  BY <1>1, <1>4, <1>5 DEF ResponseInv, LookInv
<1>9. LeaderInv'
  BY <1>1, <1>4, <1>5 DEF ResponseInv, LeaderInv, RowInv
<1> QED
  BY <1>6, <1>7, <1>8, <1>9, VisitedSnaps DEF ResponseInv

\* A step of e's visit that keeps what was read.
WithStep(e, step) ==
  /\ look' \in [Reader -> LookRecord] /\ \A f \in Reader \ {e} : look'[f] = look[f]
  /\ look'[e].step = step /\ look'[e].read = look[e].read /\ look'[e].status = look[e].status

LEMMA WithStepIs ==
  ASSUME look \in [Reader -> LookRecord], NEW e \in Reader,
         NEW step \in {"idle", "messages", "usage", "settle"}, look' = [look EXCEPT ![e].step = step]
  PROVE  WithStep(e, step) /\ look[e].read \in Snapshot
<1>1. look[e] \in LookRecord
  OBVIOUS
<1> DEFINE r == [look[e] EXCEPT !.step = step]
<1>2. r = [step |-> step, read |-> look[e].read, status |-> look[e].status, publish |-> look[e].publish]
  BY <1>1 DEF LookRecord
<1>3. r \in LookRecord /\ r.step = step /\ r.read = look[e].read /\ r.status = look[e].status
  BY <1>1, <1>2 DEF LookRecord
<1>4. look' = [look EXCEPT ![e] = r]
  OBVIOUS
<1> HIDE DEF r
<1>5. look' \in [Reader -> LookRecord] /\ look'[e] = r /\ \A f \in Reader \ {e} : look'[f] = look[f]
  BY <1>3, <1>4
<1> QED
  BY <1>1, <1>3, <1>5 DEF WithStep, LookRecord

LEMMA SaveMessagesStep == ASSUME ResponseInv, lane' = lane, NEW e \in Reader, SaveMessages(e) PROVE ResponseInv'
<1> DEFINE read == look[e].read
<1>1. WithStep(e, "usage") /\ read \in Snapshot
  BY WithStepIs DEF SaveMessages, ResponseInv, LookInv
<1>2. read \in Held /\ look[e].step = "messages"
  BY DEF Held, SaveMessages
<1>3. Visited(e) /\ UNCHANGED <<kept, bill, report, leader, status, publish>>
  BY <1>1, <1>2 DEF Visited, WithStep, SaveMessages, daemonVars
<1>4. Held' \subseteq Held \cup {NoSnapshot}
  BY <1>3, VisitedSnaps
<1>5. read.version \in Nat /\ read.messages \in Seq(Row) /\ read.version <= kept.version
  BY <1>1, <1>2 DEF Snapshot, ResponseInv, SnapsInv
<1>6. RowInv'
  <2>1. CASE UNCHANGED <<version, chat>>
    BY <1>3, <2>1, VisitedRows DEF ResponseInv, RowInv
  <2>2. CASE ~UNCHANGED <<version, chat>>
    <3>1. /\ leader = e /\ version < read.version /\ version' = read.version
          /\ chat' = IF lane = "main" THEN Upserted(read.messages) ELSE chat
      BY <2>2 DEF SaveMessages
    <3>2. ASSUME lane = "main" PROVE chat' = read.messages
      <4>1. Contract!Extends(chat, read.messages) /\ chat \in Seq(Row)
        BY <1>2, <3>1, <3>2 DEF ResponseInv, RowInv, Behind
      <4> QED
        BY <1>5, <3>1, <3>2, <4>1, UpsertedIsRead
    <3>3. ASSUME lane = "main", NEW s \in Held'
          PROVE  /\ version' < s.version => Contract!Extends(chat', s.messages)
                 /\ version' = s.version => chat' = s.messages
      <4>1. CASE s \in Held
        <5>1. Follows(read, s)
          BY <1>2, <4>1 DEF ResponseInv, SnapsInv
        <5> QED
          BY <3>1, <3>2, <3>3, <5>1 DEF Follows
      <4>2. CASE s = NoSnapshot
        <5>1. s.version = 0 /\ version' # 0 /\ version' \in Nat
          BY <1>5, <3>1, <4>2 DEF NoSnapshot, ResponseInv, RowInv
        <5> QED
          BY <5>1
      <4> QED
        BY <1>4, <4>1, <4>2
    <3>4. version' \in Nat /\ version' <= kept'.version /\ version' # 0
      BY <1>3, <1>5, <3>1 DEF ResponseInv, RowInv
    <3> QED
      BY <1>3, <1>5, <3>1, <3>2, <3>3, <3>4 DEF ResponseInv, RowInv, Behind
  <2> QED
    BY <2>1, <2>2
<1>7. LookInv'
  BY <1>1, <1>3 DEF ResponseInv, LookInv, WithStep
<1>8. LeaderInv'
  <2>1. CASE leader = e
    <3>1. report # "succeeded" /\ bill <= read.usage
      BY <1>2, <2>1 DEF ResponseInv, LeaderInv
    <3>2. read.version <= version'
      BY <1>5, <2>1 DEF SaveMessages, ResponseInv, RowInv
    <3> QED
      BY <1>1, <1>3, <2>1, <3>1, <3>2 DEF LeaderInv, WithStep
  <2>2. CASE leader # e
    <3>1. look'[leader] = look[leader] /\ UNCHANGED <<version, chat>>
      BY <1>1, <2>2 DEF WithStep, SaveMessages, ResponseInv, LookInv
    <3> QED
      BY <1>3, <3>1 DEF ResponseInv, LeaderInv
  <2> QED
    BY <2>1, <2>2
<1> QED
  BY <1>3, <1>6, <1>7, <1>8, VisitedSnaps DEF ResponseInv

LEMMA SaveUsageStep == ASSUME ResponseInv, lane' = lane, NEW e \in Reader, SaveUsage(e) PROVE ResponseInv'
<1> DEFINE read == look[e].read
           step == IF look[e].status \in Verdicts THEN "settle" ELSE "idle"
<1>1. WithStep(e, step) /\ read \in Snapshot
  BY WithStepIs DEF SaveUsage, ResponseInv, LookInv
<1>2. read \in Held /\ look[e].step = "usage" /\ kept \in Held
  BY DEF Held, SaveUsage
<1>3. Visited(e) /\ UNCHANGED <<kept, chat, version, report, leader, status, publish>>
  BY <1>1, <1>2 DEF Visited, WithStep, SaveUsage, daemonVars
<1>4. bill' = IF leader = e /\ read.version # 0 THEN read.usage ELSE bill
  BY DEF SaveUsage
<1>5. read.usage \in Nat /\ read.usage <= kept.usage
  <2>1. Follows(read, kept) /\ read.version <= kept.version /\ kept \in Snapshot
    BY <1>2 DEF ResponseInv, SnapsInv
  <2> QED
    BY <1>1, <2>1 DEF Follows, Snapshot
<1>6. RowInv'
  BY <1>3, <1>4, <1>5, VisitedRows DEF ResponseInv, RowInv
<1>7. LookInv'
  BY <1>1, <1>3 DEF ResponseInv, LookInv, WithStep
<1>8. LeaderInv'
  <2>1. CASE leader = e
    <3>1. report # "succeeded" /\ bill <= read.usage /\ read.version <= version
      BY <1>2, <2>1 DEF ResponseInv, LeaderInv
    <3>2. bill' <= read.usage /\ (read.version # 0 => bill' = read.usage)
      BY <1>4, <1>5, <2>1, <3>1
    <3> QED
      BY <1>1, <1>3, <2>1, <3>1, <3>2 DEF LeaderInv, WithStep
  <2>2. CASE leader # e
    <3>1. look'[leader] = look[leader] /\ bill' = bill
      BY <1>1, <1>4, <2>2 DEF WithStep, ResponseInv, LookInv
    <3> QED
      BY <1>3, <3>1 DEF ResponseInv, LeaderInv
  <2> QED
    BY <2>1, <2>2
<1> QED
  BY <1>3, <1>6, <1>7, <1>8, VisitedSnaps DEF ResponseInv

LEMMA Dropped ==
  ASSUME ResponseInv, NEW e \in Reader, look' = [look EXCEPT ![e] = NoLook], UNCHANGED daemonVars, lane' = lane
  PROVE  Visited(e) /\ look'[e].step = "idle" /\ look'[e].status = "running"
<1>1. NoLook \in LookRecord /\ NoLook.read = NoSnapshot /\ NoLook.step = "idle" /\ NoLook.status = "running"
  BY DEF NoLook, LookRecord, NoSnapshot, Snapshot
<1>2. look \in [Reader -> LookRecord]
  BY DEF ResponseInv, LookInv
<1>3. look' \in [Reader -> LookRecord] /\ look'[e] = NoLook /\ \A f \in Reader \ {e} : look'[f] = look[f]
  BY <1>1, <1>2
<1> QED
  BY <1>1, <1>3 DEF Visited

LEMMA SettleResponseStep == ASSUME ResponseInv, lane' = lane, NEW e \in Reader, SettleResponse(e) PROVE ResponseInv'
<1>1. Visited(e) /\ look'[e].step = "idle" /\ look'[e].status = "running"
  BY Dropped DEF SettleResponse
<1>2. UNCHANGED <<kept, bill, version, leader, status, publish>>
  BY DEF SettleResponse, daemonVars
<1>3. (report = "succeeded" => report' = "succeeded") /\ (leader # e => report' = report)
  BY DEF SettleResponse
<1>4. RowInv'
  <2>1. CASE chat' = chat
    BY <1>1, <1>2, <1>3, <2>1, VisitedRows DEF ResponseInv, RowInv
  <2>2. CASE chat' # chat
    <3>1. lane = "background" /\ report' = "succeeded"
      BY <2>2 DEF SettleResponse
    <3> QED
      BY <1>2, <3>1 DEF ResponseInv, RowInv
  <2> QED
    BY <2>1, <2>2
<1>5. LookInv'
  BY <1>1, <1>2 DEF ResponseInv, LookInv, Visited, Verdicts
<1>6. LeaderInv'
  BY <1>1, <1>2, <1>3 DEF ResponseInv, LeaderInv, Visited, LookInv
<1> QED
  BY <1>1, <1>4, <1>5, <1>6, VisitedSnaps DEF ResponseInv

LEMMA GiveUpStep == ASSUME ResponseInv, lane' = lane, NEW o \in Verdicts, GiveUpResponse(o) PROVE ResponseInv'
<1>1. /\ UNCHANGED <<said, turns, speaking, phase, outcome, chosen, progress, slot, kept, status, publish,
                      chat, bill, version, leader, look>>
      /\ report = "running" /\ report' # "succeeded"
  BY DEF GiveUpResponse, daemonVars
<1>2. Held' = Held
  BY <1>1 DEF Held
<1>3. VoiceInv' /\ SnapsInv' /\ LookInv' /\ EndInv' /\ LeaderInv'
  BY <1>1, <1>2 DEF ResponseInv, VoiceInv, SnapsInv, LookInv, EndInv, LeaderInv
<1>4. RowInv'
  BY <1>1, <1>2 DEF ResponseInv, RowInv, Behind
<1> QED
  BY <1>3, <1>4 DEF ResponseInv

LEMMA HeadPassesStep == ASSUME ResponseInv, lane' = lane, NEW e \in Reader, HeadPasses(e) PROVE ResponseInv'
<1>1. Visited(e) /\ look'[e].step = "idle" /\ look'[e].status = "running"
  BY Dropped DEF HeadPasses
<1>2. UNCHANGED <<kept, bill, chat, version, report, status, publish>> /\ leader' = e
  BY DEF HeadPasses, daemonVars
<1>3. RowInv'
  BY <1>1, <1>2, VisitedRows DEF ResponseInv, RowInv
<1>4. LookInv'
  BY <1>1, <1>2 DEF ResponseInv, LookInv, Visited, Verdicts
<1>5. LeaderInv'
  BY <1>1, <1>2 DEF LeaderInv
<1> QED
  BY <1>1, <1>3, <1>4, <1>5, VisitedSnaps DEF ResponseInv

LEMMA ResponseInvInit == StreamInit => ResponseInv
<1> SUFFICES ASSUME StreamInit PROVE ResponseInv
  OBVIOUS
<1>1. /\ NoSnapshot \in Snapshot /\ NoSnapshot.messages = <<>> /\ NoSnapshot.usage = 0 /\ NoSnapshot.version = 0
      /\ NoLook \in LookRecord /\ NoLook.read = NoSnapshot /\ NoLook.step = "idle" /\ NoLook.status = "running"
  BY DEF NoLook, LookRecord, NoSnapshot, Snapshot
<1>2. Held = {NoSnapshot} /\ \A e \in Reader : look[e] = NoLook
  BY <1>1 DEF Held, StreamInit
<1>3. Rows(<<>>) = <<>> /\ Contract!Extends(<<>>, <<>>)
  BY DEF Rows, Contract!Extends
<1>4. VoiceInv
  BY <1>1, <1>3 DEF StreamInit, VoiceInv
<1>5. SnapsInv
  BY <1>1, <1>2, <1>3 DEF StreamInit, SnapsInv, Follows
<1>6. RowInv
  BY <1>1, <1>2 DEF StreamInit, RowInv, Behind
<1>7. LookInv
  BY <1>1, <1>2 DEF StreamInit, LookInv, Verdicts
<1>8. LeaderInv /\ EndInv
  BY <1>1, <1>2 DEF StreamInit, LeaderInv, EndInv
<1> QED
  BY <1>4, <1>5, <1>6, <1>7, <1>8 DEF ResponseInv

\* The steps of the model and its executor hand on a snapshot or not.
LEMMA ModelHands ==
  ASSUME ResponseInv,
         \/ \E text \in 0..MaxText : MessageStart(text)
         \/ \E text \in 0..MaxText, due \in BOOLEAN : MessageUpdate(text, due)
         \/ \E text \in 0..MaxText, whole \in BOOLEAN : MessageEnd(text, whole)
         \/ \E ok \in BOOLEAN : ResponseEnds(ok)
  PROVE  Handed /\ outcome' \in {"succeeded", "failed"}
<1>1. VoiceInv /\ outcome \in {"succeeded", "failed"} /\ 0..MaxText \subseteq Nat
  BY ResponseValues DEF ResponseInv, EndInv
<1>2. ASSUME NEW text \in 0..MaxText, MessageStart(text) PROVE Handed /\ outcome' \in {"succeeded", "failed"}
  BY <1>1, <1>2, MessageStartHands DEF MessageStart
<1>3. ASSUME NEW text \in 0..MaxText, NEW due \in BOOLEAN, MessageUpdate(text, due)
      PROVE Handed /\ outcome' \in {"succeeded", "failed"}
  BY <1>1, <1>3, MessageUpdateHands DEF MessageUpdate
<1>4. ASSUME NEW text \in 0..MaxText, NEW whole \in BOOLEAN, MessageEnd(text, whole)
      PROVE Handed /\ outcome' \in {"succeeded", "failed"}
  BY <1>1, <1>4, MessageEndHands DEF MessageEnd
<1>5. ASSUME NEW ok \in BOOLEAN, ResponseEnds(ok) PROVE Handed /\ outcome' \in {"succeeded", "failed"}
  BY <1>1, <1>5, ResponseEndsHands DEF ResponseEnds
<1> QED
  BY <1>2, <1>3, <1>4, <1>5

LEMMA ResponseInvStep == ResponseInv /\ [StreamNext /\ lane' = lane]_streamVars => ResponseInv'
<1> SUFFICES ASSUME ResponseInv, [StreamNext /\ lane' = lane]_streamVars PROVE ResponseInv'
  OBVIOUS
<1>1. CASE UNCHANGED streamVars
  BY <1>1 DEF streamVars, ResponseInv, VoiceInv, SnapsInv, Held, RowInv, Behind, LookInv, LeaderInv, EndInv
<1>2. CASE StreamNext /\ lane' = lane
  <2>1. CASE \/ \E text \in 0..MaxText : MessageStart(text)
             \/ \E text \in 0..MaxText, due \in BOOLEAN : MessageUpdate(text, due)
             \/ \E text \in 0..MaxText, whole \in BOOLEAN : MessageEnd(text, whole)
             \/ \E ok \in BOOLEAN : ResponseEnds(ok)
    BY <1>2, <2>1, ModelHands, HandedStep
  <2>2. CASE ChooseResult \/ JournalSettles \/ DaemonDies \/ \E o \in Verdicts : CancelSettles(o)
    BY <1>2, <2>2, SettlesStep
  <2>3. CASE \E o \in Verdicts : GiveUpResponse(o)
    BY <1>2, <2>3, GiveUpStep
  <2>4. CASE \E e \in Reader : ReadResponse(e)
    BY <1>2, <2>4, ReadResponseStep
  <2>5. CASE \E e \in Reader : SaveMessages(e)
    BY <1>2, <2>5, SaveMessagesStep
  <2>6. CASE \E e \in Reader : SaveUsage(e)
    BY <1>2, <2>6, SaveUsageStep
  <2>7. CASE \E e \in Reader : SettleResponse(e)
    BY <1>2, <2>7, SettleResponseStep
  <2>8. CASE \E e \in Reader : HeadPasses(e)
    BY <1>2, <2>8, HeadPassesStep
  <2> QED
    BY <1>2, <2>1, <2>2, <2>3, <2>4, <2>5, <2>6, <2>7, <2>8 DEF StreamNext
<1> QED
  BY <1>1, <1>2

\* Saving messages shows rows of what was said, and only more of it.
LEMMA SavesAreShown ==
  ASSUME ResponseInv, lane' = lane, NEW e \in Reader, SaveMessages(e)
  PROVE  Contract!Show \/ UNCHANGED Contract!responseVars
<1> DEFINE read == look[e].read
<1>1. UNCHANGED <<said, turns, bill, report>> /\ look[e].step = "messages" /\ read \in Held
  BY DEF SaveMessages, daemonVars, Held
<1>2. CASE chat' = chat
  BY <1>1, <1>2 DEF Contract!responseVars
<1>3. CASE chat' # chat
  <2>1. leader = e /\ version < read.version /\ lane = "main" /\ chat' = Upserted(read.messages)
    BY <1>3 DEF SaveMessages
  <2>2. report # "succeeded"
    BY <1>1, <2>1 DEF ResponseInv, LeaderInv
  <2>3. /\ kept \in Held /\ read \in Snapshot /\ kept \in Snapshot /\ read.version <= kept.version
        /\ Follows(read, kept) /\ chat \in Seq(Row) /\ Contract!Extends(chat, read.messages)
    BY <1>1, <2>1 DEF Held, ResponseInv, SnapsInv, RowInv, Behind
  <2>4. read.messages \in Seq(Row) /\ kept.messages \in Seq(Row) /\ read.version \in Nat /\ kept.version \in Nat
    BY <2>3 DEF Snapshot
  <2>5. chat' = read.messages
    BY <2>1, <2>3, <2>4, UpsertedIsRead
  <2>6. said \in Seq(Saying) /\ Contract!Extends(kept.messages, Rows(said))
    BY DEF ResponseInv, SnapsInv, VoiceInv
  <2>7. Contract!Extends(read.messages, Rows(said))
    <3>1. CASE read.version = kept.version
      BY <2>3, <2>6, <3>1 DEF Follows
    <3>2. CASE read.version < kept.version
      BY <2>3, <2>4, <2>6, <3>2, RowsType, ExtendsTransitive DEF Follows
    <3> QED
      BY <2>3, <2>4, <3>1, <3>2
  <2>8. Len(read.messages) <= Len(said) /\ \A i \in 1..Len(read.messages) : Contract!Shows(read.messages[i], said[i])
    <3>1. Len(read.messages) <= Len(said) /\ Len(said) \in Nat /\ Len(read.messages) \in Nat
      BY <2>4, <2>6, <2>7, RowsType DEF Contract!Extends
    <3>2. ASSUME NEW i \in 1..Len(read.messages) PROVE Contract!Shows(read.messages[i], said[i])
      <4>1. /\ Rows(said)[i].text = said[i].text /\ (Rows(said)[i].complete <=> said[i].end = "whole")
        BY <2>6, <3>1, RowsType, WholeFields
      <4>2. /\ read.messages[i].text <= Rows(said)[i].text
            /\ read.messages[i].complete => Rows(said)[i] = read.messages[i]
        BY <2>7 DEF Contract!Extends
      <4> QED
        BY <4>1, <4>2 DEF Contract!Shows
    <3> QED
      BY <3>1, <3>2
  <2> QED
    BY <1>1, <2>1, <2>2, <2>3, <2>5, <2>8 DEF Contract!Show
<1> QED
  BY <1>2, <1>3

LEMMA SavesAreCharged ==
  ASSUME ResponseInv, lane' = lane, NEW e \in Reader, SaveUsage(e)
  PROVE  Contract!Charge \/ UNCHANGED Contract!responseVars
<1> DEFINE read == look[e].read
<1>1. UNCHANGED <<said, turns, chat, report>> /\ look[e].step = "usage" /\ read \in Held
  BY DEF SaveUsage, daemonVars, Held
<1>2. CASE bill' = bill
  BY <1>1, <1>2 DEF Contract!responseVars
<1>3. CASE bill' # bill
  <2>1. leader = e /\ bill' = read.usage
    BY <1>3 DEF SaveUsage
  <2>2. report # "succeeded" /\ bill <= read.usage
    BY <1>1, <2>1 DEF ResponseInv, LeaderInv
  <2>3. read \in Snapshot /\ kept \in Snapshot /\ Follows(read, kept) /\ read.version <= kept.version
        /\ kept.usage <= turns /\ turns \in Nat
    BY <1>1 DEF ResponseInv, SnapsInv, Held, VoiceInv
  <2>4. read.usage <= turns
    BY <2>3 DEF Follows, Snapshot
  <2>5. bill \in Nat /\ read.usage \in Nat
    BY <2>3 DEF ResponseInv, RowInv, Snapshot
  <2> QED
    BY <1>1, <2>1, <2>2, <2>4, <2>5 DEF Contract!Charge
<1> QED
  BY <1>2, <1>3

\* A success is written when the rows and the usage are those of the last snapshot.
LEMMA SettlementsAreTrue ==
  ASSUME ResponseInv, lane' = lane, NEW e \in Reader, SettleResponse(e)
  PROVE  Contract!Succeed \/ Contract!Fail \/ UNCHANGED Contract!responseVars
<1> DEFINE read == look[e].read
<1>1. UNCHANGED <<said, turns, bill>> /\ look[e].step = "settle" /\ look[e].status \in Verdicts
  BY DEF SettleResponse, daemonVars, ResponseInv, LookInv
<1>2. CASE UNCHANGED <<report, chat>>
  BY <1>1, <1>2 DEF Contract!responseVars
<1>3. CASE leader = e /\ report = "running" /\ look[e].status # "succeeded"
  BY <1>1, <1>3 DEF SettleResponse, Contract!Fail, Verdicts
<1>4. CASE leader = e /\ report = "running" /\ look[e].status = "succeeded"
  <2>1. status = "succeeded" /\ read = kept /\ kept = progress /\ kept.version # 0
    BY <1>4 DEF ResponseInv, LookInv, EndInv
  <2>2. bill = read.usage /\ read.version <= version
    BY <1>1, <1>4, <2>1 DEF ResponseInv, LeaderInv
  <2>3. bill = turns /\ kept.messages = Rows(said)
    BY <2>1, <2>2 DEF ResponseInv, VoiceInv
  <2>4. report' = "succeeded"
        /\ chat' = IF lane = "background" /\ look[e].publish THEN <<Published>> ELSE chat
    BY <1>4 DEF SettleResponse
  <2>5. CASE lane = "background"
    <3>1. chat = <<>>
      BY <1>4, <2>5 DEF ResponseInv, RowInv
    <3> QED
      BY <1>1, <1>4, <2>3, <2>4, <2>5, <3>1 DEF Contract!Succeed
  <2>6. CASE lane = "main"
    <3>1. version = kept.version
      <4>1. kept.version \in Nat /\ version \in Nat /\ version <= kept.version
        BY DEF ResponseInv, SnapsInv, Held, Snapshot, RowInv
      <4> QED
        BY <2>1, <2>2, <4>1
    <3>2. chat = kept.messages
      BY <2>6, <3>1 DEF ResponseInv, RowInv, Behind, Held
    <3>3. chat = [i \in 1..Len(said) |-> Contract!Whole(said[i])]
      BY <2>3, <3>2 DEF Rows
    <3> QED
      BY <1>1, <1>4, <2>3, <2>4, <2>6, <3>3 DEF Contract!Succeed
  <2> QED
    BY <2>5, <2>6 DEF ResponseInv, RowInv
<1> QED
  BY <1>2, <1>3, <1>4 DEF SettleResponse

LEMMA StreamSteps ==
  ResponseInv /\ [StreamNext /\ lane' = lane]_streamVars => [Contract!RCNext]_Contract!responseVars
<1> SUFFICES ASSUME ResponseInv, [StreamNext /\ lane' = lane]_streamVars
             PROVE  [Contract!RCNext]_Contract!responseVars
  OBVIOUS
<1>1. CASE UNCHANGED streamVars
  BY <1>1 DEF streamVars, Contract!responseVars
<1>2. CASE StreamNext /\ lane' = lane
  <2>1. CASE \/ \E text \in 0..MaxText : MessageStart(text)
             \/ \E text \in 0..MaxText, due \in BOOLEAN : MessageUpdate(text, due)
             \/ \E text \in 0..MaxText, whole \in BOOLEAN : MessageEnd(text, whole)
             \/ \E ok \in BOOLEAN : ResponseEnds(ok)
    <3>1. Handed
      BY <2>1, ModelHands
    <3>2. Contract!Speak
      BY <3>1 DEF Handed, rowVars, Contract!Speak
    <3> QED
      BY <1>2, <3>2 DEF Contract!RCNext
  <2>2. CASE \/ ChooseResult \/ JournalSettles \/ DaemonDies \/ \E o \in Verdicts : CancelSettles(o)
             \/ \E e \in Reader : ReadResponse(e) \/ HeadPasses(e)
    BY <1>2, <2>2 DEF ChooseResult, JournalSettles, DaemonDies, CancelSettles, ReadResponse, HeadPasses,
                      daemonVars, modelVars, rowVars, Contract!responseVars
  <2>3. CASE \E o \in Verdicts : GiveUpResponse(o)
    <3>1. Contract!Fail
      BY <2>3 DEF GiveUpResponse, Contract!Fail, daemonVars, Verdicts
    <3> QED
      BY <1>2, <3>1 DEF Contract!RCNext
  <2>4. CASE \E e \in Reader : SaveMessages(e)
    BY <1>2, <2>4, SavesAreShown DEF Contract!RCNext
  <2>5. CASE \E e \in Reader : SaveUsage(e)
    BY <1>2, <2>5, SavesAreCharged DEF Contract!RCNext
  <2>6. CASE \E e \in Reader : SettleResponse(e)
    BY <1>2, <2>6, SettlementsAreTrue DEF Contract!RCNext
  <2> QED
    BY <1>2, <2>1, <2>2, <2>3, <2>4, <2>5, <2>6 DEF StreamNext
<1> QED
  BY <1>1, <1>2

\* What the chat shows of a response is what the model said, as far as it was said, and all of it
\* at a success, for any number of executors, messages and troubles.
THEOREM ResponseIsKept == StreamSpec => KeepsTheResponse
<1>1. StreamInit => Contract!RCInit
  BY DEF StreamInit, Contract!RCInit
<1> QED
  BY <1>1, ResponseInvInit, ResponseInvStep, StreamSteps, PTL DEF StreamSpec, KeepsTheResponse, Contract!RCSpec

-----------------------------------------------------------------------------
\* Event streams.

EventTypes ==
  /\ stage \in [Page -> {"idle", "starting", "open"}]
  /\ chunk \in [Page -> Events \cup {"none", "keepalive"}]
  /\ pending \in [Page -> Events \cup {"none"}]

\* What a stream has to tell is told by a timer that is set, and only an open stream of a
\* hub that has started has anything to tell.
StreamsOK ==
  /\ stale \subseteq Open /\ armed \subseteq Open
  /\ Open # {} => hub = "on"
  /\ \A s \in armed : pending[s] \in Events

EventInv == EventTypes /\ StreamsOK /\ NoChangeIsMissed

LEMMA EventTypesStep == EventTypes /\ [EventNext]_eventVars => EventTypes'
  BY DEF EventTypes, EventNext, eventVars, Events, Deliver, Watching, Cleanup, Unsubscribe, Change,
         Notified, LinkLost, Listens, Heard, Started, StartFails, SessionEnds, RequestEvents, Subscribe, Refused, Flush, Heartbeat,
         PageReads, LifetimeOver, SessionChecked, PageLeaves, Topics

LEMMA EventInvInit == EventInit => EventInv
  BY DEF EventInit, EventInv, EventTypes, StreamsOK, NoChangeIsMissed, Open, Events

LEMMA EventInvStep == EventInv /\ [EventNext]_eventVars => EventInv'
<1> SUFFICES ASSUME EventInv, [EventNext]_eventVars PROVE EventInv'
  OBVIOUS
<1> USE DEF EventInv, EventTypes, StreamsOK, NoChangeIsMissed, Open, Events
<1>1. ASSUME NEW c \in Topics, Change(c) PROVE EventInv'
  BY <1>1 DEF Change, Topics
<1>2. ASSUME NEW c \in Topics, Notified(c) PROVE EventInv'
  BY <1>2 DEF Notified, Deliver, Watching, Topics
<1>3. ASSUME LinkLost PROVE EventInv'
  BY <1>3 DEF LinkLost
<1>4. ASSUME Listens PROVE EventInv'
  BY <1>4 DEF Listens
<1>5. ASSUME Heard PROVE EventInv'
  BY <1>5 DEF Heard, Deliver
<1>6. ASSUME Started PROVE EventInv'
  BY <1>6 DEF Started
<1>7. ASSUME StartFails PROVE EventInv'
  BY <1>7 DEF StartFails
<1>8. ASSUME NEW s \in Page, SessionEnds(s) PROVE EventInv'
  BY <1>8 DEF SessionEnds
<1>9. ASSUME NEW s \in Page, RequestEvents(s) PROVE EventInv'
  BY <1>9 DEF RequestEvents
<1>10. ASSUME NEW s \in Page, Subscribe(s) PROVE EventInv'
  BY <1>10 DEF Subscribe
<1>11. ASSUME NEW s \in Page, Refused(s) PROVE EventInv'
  BY <1>11 DEF Refused
<1>12. ASSUME NEW s \in Page, Flush(s) PROVE EventInv'
  BY <1>12 DEF Flush
<1>13. ASSUME NEW s \in Page, Heartbeat(s) PROVE EventInv'
  BY <1>13 DEF Heartbeat
<1>14. ASSUME NEW s \in Page, PageReads(s) PROVE EventInv'
  BY <1>14 DEF PageReads
<1>15. ASSUME NEW s \in Page, LifetimeOver(s) \/ SessionChecked(s) \/ PageLeaves(s) PROVE EventInv'
  BY <1>15 DEF LifetimeOver, SessionChecked, PageLeaves, Cleanup, Unsubscribe
<1>16. CASE UNCHANGED eventVars
  BY <1>16 DEF eventVars
<1> QED
  BY <1>1, <1>2, <1>3, <1>4, <1>5, <1>6, <1>7, <1>8, <1>9, <1>10, <1>11, <1>12, <1>13, <1>14, <1>15, <1>16 DEF EventNext

\* A page that shows less than the database has will read again: NoChangeIsMissed, for any
\* pages, limits and losses of the connection.
THEOREM ChangesAreHeard == EventSpec => []NoChangeIsMissed
<1>1. EventInv => NoChangeIsMissed
  BY DEF EventInv
<1> QED
  BY <1>1, EventInvInit, EventInvStep, PTL DEF EventSpec

Of(ss, o) == {t \in ss : t.account = o}
PlacesInv == EventTypes /\ IsFiniteSet(Open) /\ counts \in [Accounts -> Nat] /\ PlacesAreCounted

\* The streams of an account among some and one more.
OneMore(ss, s, more, o) ==
  /\ IsFiniteSet(more) /\ Cardinality(more) = Cardinality(ss) + 1
  /\ Cardinality(Of(more, o)) = Cardinality(Of(ss, o)) + (IF s.account = o THEN 1 ELSE 0)
  /\ Cardinality(ss) \in Nat /\ Cardinality(Of(ss, o)) \in Nat

LEMMA OneMoreStream ==
  ASSUME NEW ss, IsFiniteSet(ss), NEW s, s \notin ss, NEW more, more = ss \cup {s}, NEW o
  PROVE  OneMore(ss, s, more, o)
<1> DEFINE of == {t \in ss : t.account = o}
           ofMore == {t \in more : t.account = o}
<1>1. IsFiniteSet(of) /\ s \notin of
  BY FS_Subset
<1>2. ofMore = IF s.account = o THEN of \cup {s} ELSE of
  OBVIOUS
<1> HIDE DEF of, ofMore
<1>3. Cardinality(of \cup {s}) = Cardinality(of) + 1 /\ Cardinality(of) \in Nat
  BY <1>1, FS_AddElement, FS_CardinalityType
<1>4. Cardinality(ofMore) = Cardinality(of) + (IF s.account = o THEN 1 ELSE 0)
  BY <1>2, <1>3
<1> QED
  BY <1>3, <1>4, FS_AddElement, FS_CardinalityType DEF of, ofMore, Of, OneMore

Enters(s) ==
  /\ s \in Page \ Open /\ HasPlace(s) /\ Open' = Open \cup {s}
  /\ counts' = [counts EXCEPT ![s.account] = @ + 1]
Exits(s) ==
  /\ s \in Open /\ Open' = Open \ {s}
  /\ counts' = [counts EXCEPT ![s.account] = @ - 1]

LEMMA PlacesMove ==
  EventTypes /\ [EventNext]_eventVars =>
    \/ Open' = Open /\ counts' = counts
    \/ \E s \in Page : Enters(s) \/ Exits(s)
<1> SUFFICES ASSUME EventTypes, [EventNext]_eventVars
             PROVE  \/ Open' = Open /\ counts' = counts
                    \/ \E s \in Page : Enters(s) \/ Exits(s)
  OBVIOUS
<1>1. ASSUME NEW s \in Page, Cleanup(s), s \in Open PROVE Exits(s)
  BY <1>1 DEF Cleanup, Unsubscribe, Exits, Open, EventTypes
<1>2. ASSUME NEW s \in Page, Subscribe(s) PROVE Enters(s)
  BY <1>2 DEF Subscribe, Enters, Open, EventTypes
<1>3. ASSUME NEW s \in Page, RequestEvents(s) \/ Refused(s) PROVE Open' = Open /\ counts' = counts
  BY <1>3 DEF RequestEvents, Refused, Open, EventTypes
<1>4. ASSUME StartFails PROVE Open' = Open /\ counts' = counts
  BY <1>4 DEF StartFails, Open, EventTypes
<1>5. ASSUME UNCHANGED <<stage, counts>> PROVE Open' = Open /\ counts' = counts
  BY <1>5 DEF Open
<1> QED
  BY <1>1, <1>2, <1>3, <1>4, <1>5
  DEF EventNext, eventVars, Change, Notified, LinkLost, Listens, Heard, Started, SessionEnds, Flush,
      Heartbeat, PageReads, LifetimeOver, SessionChecked, PageLeaves

LEMMA PlacesInvStep == PlacesInv /\ [EventNext]_eventVars => PlacesInv'
<1> SUFFICES ASSUME PlacesInv, [EventNext]_eventVars, EventTypes' PROVE PlacesInv'
  BY EventTypesStep DEF PlacesInv
<1>1. CASE Open' = Open /\ counts' = counts
  BY <1>1 DEF PlacesInv, PlacesAreCounted
<1>2. ASSUME NEW s \in Page, Enters(s) PROVE PlacesInv'
  <2>0. IsFiniteSet(Open) /\ s \notin Open /\ Open' = Open \cup {s}
    BY <1>2 DEF Enters, PlacesInv
  <2>1. IsFiniteSet(Open') /\ Cardinality(Open') = Cardinality(Open) + 1 /\ Cardinality(Open) \in Nat
    <3>1. OneMore(Open, s, Open', s.account)
      BY <2>0, OneMoreStream
    <3> QED
      BY <3>1 DEF OneMore
  <2>2. Cardinality(Open') <= Total
    BY <1>2, <2>1, StreamLimits DEF Enters, HasPlace
  <2>3. s.account \in Accounts /\ counts' \in [Accounts -> Nat]
    BY <1>2 DEF Enters, PlacesInv, Accounts
  <2>4. ASSUME NEW o \in Accounts
        PROVE  counts'[o] = Cardinality(Of(Open', o)) /\ counts'[o] <= PerAccount
    <3>1. Cardinality(Of(Open', o)) =
            Cardinality(Of(Open, o)) + (IF s.account = o THEN 1 ELSE 0)
      <4>1. OneMore(Open, s, Open', o)
        BY <2>0, OneMoreStream
      <4> QED
        BY <4>1 DEF OneMore
    <3>2. counts[o] = Cardinality(Of(Open, o)) /\ counts[o] <= PerAccount
          /\ counts[o] \in Nat
      BY DEF PlacesInv, PlacesAreCounted, Of
    <3>3. counts'[o] = counts[o] + (IF s.account = o THEN 1 ELSE 0)
      BY <1>2, <2>3, <3>2 DEF Enters, PlacesInv
    <3> QED
      BY <1>2, <3>1, <3>2, <3>3, StreamLimits DEF Enters, HasPlace
  <2> QED
    BY <2>1, <2>2, <2>3, <2>4 DEF PlacesInv, PlacesAreCounted, Of
<1>3. ASSUME NEW s \in Page, Exits(s) PROVE PlacesInv'
  <2>1. IsFiniteSet(Open') /\ s \notin Open' /\ Open = Open' \cup {s}
    BY <1>3, FS_Subset DEF Exits, PlacesInv
  <2>2. Cardinality(Open) = Cardinality(Open') + 1 /\ Cardinality(Open') \in Nat
    <3>1. OneMore(Open', s, Open, s.account)
      BY <2>1, OneMoreStream
    <3> QED
      BY <3>1 DEF OneMore
  <2>3. Cardinality(Open') <= Total
    BY <2>2, StreamLimits DEF PlacesInv, PlacesAreCounted
  <2>4. s.account \in Accounts
    BY DEF Accounts
  <2>5. ASSUME NEW o \in Accounts
        PROVE  /\ counts'[o] = Cardinality(Of(Open', o))
               /\ counts'[o] <= PerAccount /\ counts'[o] \in Nat
    <3>1. /\ Cardinality(Of(Open, o)) =
               Cardinality(Of(Open', o)) + (IF s.account = o THEN 1 ELSE 0)
          /\ Cardinality(Of(Open', o)) \in Nat
      <4>1. OneMore(Open', s, Open, o)
        BY <2>1, OneMoreStream
      <4> QED
        BY <4>1 DEF OneMore
    <3>2. counts[o] = Cardinality(Of(Open, o)) /\ counts[o] <= PerAccount
          /\ counts[o] \in Nat
      BY DEF PlacesInv, PlacesAreCounted, Of
    <3>3. counts'[o] = counts[o] - (IF s.account = o THEN 1 ELSE 0)
      BY <1>3, <2>4, <3>2 DEF Exits, PlacesInv
    <3> QED
      BY <3>1, <3>2, <3>3, StreamLimits
  <2>6. counts' \in [Accounts -> Nat]
    BY <1>3, <2>4, <2>5 DEF Exits, PlacesInv
  <2> QED
    BY <2>1, <2>3, <2>5, <2>6 DEF PlacesInv, PlacesAreCounted, Of
<1> QED
  BY <1>1, <1>2, <1>3, PlacesMove DEF PlacesInv

\* The places of the hub are those of the streams that are open: PlacesAreCounted, for any
\* pages and limits.
THEOREM PlacesHold == EventSpec => []PlacesAreCounted
<1>1. EventInit => PlacesInv
  <2> SUFFICES ASSUME EventInit PROVE PlacesInv
    OBVIOUS
  <2>1. Open = {} /\ EventTypes /\ counts \in [Accounts -> Nat] /\ \A o \in Accounts : counts[o] = 0
    BY DEF EventInit, Open, EventTypes, Events
  <2>2. \A o \in Accounts : {t \in Open : t.account = o} = {}
    BY <2>1
  <2> QED
    BY <2>1, <2>2, FS_EmptySet, StreamLimits DEF PlacesInv, PlacesAreCounted
<1>2. PlacesInv => PlacesAreCounted
  BY DEF PlacesInv
<1> QED
  BY <1>1, <1>2, PlacesInvStep, PTL DEF EventSpec

=============================================================================
