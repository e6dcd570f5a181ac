-------------------------- MODULE ControlCommands --------------------------
(***************************************************************************)
(* The control commands of a task.  A tool call of Pi is a durable request *)
(* in the daemon's outbox; the executor visits the daemon, claims each     *)
(* command in PostgreSQL before its effect, stores the result and posts    *)
(* it.  ask_user leaves a question instead: the task is parked until the   *)
(* human answers, and resumed through the claim of a new execution slot.   *)
(* Commands that stay on the machine are in LocalSkills.                   *)
(***************************************************************************)
EXTENDS Naturals, FiniteSets

CONSTANTS
  Command,     \* tool calls of one task, each with its own UUID
  Question,    \* those of them that are ask_user
  Server,      \* processes, of which one is the executor's leader
  MaxUpsets    \* bound: changes of the leader, crashes and failed calls

VARIABLES
  request,     \* the daemon's requests: status and result
  command,     \* control_commands: "none", "claimed", or the result
  acted,       \* how often the handler took effect
  question,    \* task_questions
  work,        \* runs: status and cancel_requested; and resume_requested_at
  parked,      \* the daemon's journal: the task is suspended
  visit,       \* observeRun of each process
  resultsSent, \* results on their way to the daemon, their sender having given up
  leading,
  upsets

controlVars == <<request, command, acted, question, work, parked, visit, resultsSent, leading, upsets>>

Results == {"done", "failed", "asked", "unknown", "refused", "answer"}
Visiting(phase, todo, c, result) == [phase |-> phase, todo |-> todo, on |-> c, result |-> result]
Away == Visiting("away", {}, "none", "none")
Interrupted == [status |-> "interrupted", result |-> "none"]

ControlInit ==
  /\ request = [c \in Command |-> [status |-> "none", result |-> "none"]]
  /\ command = [c \in Command |-> "none"]
  /\ acted = [c \in Command |-> 0]
  /\ question = [c \in Question |-> "none"]
  /\ work = [status |-> "running", cancel |-> FALSE, resume |-> FALSE]
  /\ parked = FALSE
  /\ visit = [s \in Server |-> Away]
  /\ resultsSent = {} /\ leading \in Server /\ upsets = 0

Upset == upsets < MaxUpsets /\ upsets' = upsets + 1
PendingRequests == {c \in Command : request[c].status = "pending"}
TaskOver == work.status = "over"
-----------------------------------------------------------------------------
(***************************************************************************)
(* The daemon.                                                             *)
(***************************************************************************)
CallTool(c) ==
  /\ request[c].status = "none" /\ ~TaskOver /\ ~parked
  /\ request' = [request EXCEPT ![c].status = "pending"]
  /\ UNCHANGED <<command, acted, question, work, parked, visit, resultsSent, leading, upsets>>

\* Two minutes, or two hours for a question, have passed, or the response was aborted.
CallEnds(c) ==
  /\ c \in PendingRequests /\ Upset
  /\ request' = [request EXCEPT ![c] = Interrupted]
  /\ UNCHANGED <<command, acted, question, work, parked, visit, resultsSent, leading>>

\* The daemon's own restart ends the task and never replays a request.
DaemonReturns ==
  /\ Upset /\ ~TaskOver
  /\ request' = [c \in Command |-> IF c \in PendingRequests THEN Interrupted ELSE request[c]]
  /\ work' = [work EXCEPT !.status = "over"] /\ parked' = FALSE
  /\ UNCHANGED <<command, acted, question, visit, resultsSent, leading>>
-----------------------------------------------------------------------------
(***************************************************************************)
(* One visit.  It observes this task or any other of the Companion, and    *)
(* reads the requests of all of them; controlBusy keeps it single in its   *)
(* process.  Visits are detached from the tick that claims tasks.          *)
(***************************************************************************)
VisitGoes(s, update) == visit' = [visit EXCEPT ![s] = update]
Onward(s) == Visiting("going", visit[s].todo \ {visit[s].on}, "none", "none")
Still(s, phase, result) == Visiting(phase, visit[s].todo, visit[s].on, result)

Observe(s) ==
  /\ s = leading /\ visit[s] = Away /\ PendingRequests # {}
  /\ VisitGoes(s, Visiting("going", PendingRequests, "none", "none"))
  /\ UNCHANGED <<request, command, acted, question, work, parked, resultsSent, leading, upsets>>

ObserveEnds(s) ==
  /\ visit[s].phase = "going" /\ visit[s].todo = {}
  /\ VisitGoes(s, Away)
  /\ UNCHANGED <<request, command, acted, question, work, parked, resultsSent, leading, upsets>>

\* A check of the leader fails: the visit ends where it is.
Stopped(s) ==
  /\ s # leading /\ visit[s].phase \notin {"away", "acting"}
  /\ VisitGoes(s, Away)
  /\ UNCHANGED <<request, command, acted, question, work, parked, resultsSent, leading, upsets>>

\* applyControl: the task must still have authority.
Authority == ~work.cancel /\ work.status \in {"running", "needs_input"}

TakeUp(s, c) ==
  /\ s = leading /\ visit[s].phase = "going" /\ c \in visit[s].todo
  /\ VisitGoes(s, IF Authority THEN Visiting("claiming", visit[s].todo, c, "none")
                               ELSE Visiting("posting", visit[s].todo, c, "refused"))
  /\ UNCHANGED <<request, command, acted, question, work, parked, resultsSent, leading, upsets>>

\* Mutant: a claim without a result is taken over.
ClaimableAgain(c) == command[c] \in {"none", "claimed"}
Claimable(c) == command[c] = "none"

\* What the row holds of an earlier visit: a claim without a result is an unknown outcome.
Previous(c) == IF command[c] = "claimed" THEN "unknown" ELSE command[c]

\* The claim is the insertion of the command's row, in a transaction fenced by the leader.
ClaimCommand(s) ==
  /\ s = leading /\ visit[s].phase = "claiming"
  /\ \E c \in {visit[s].on} :
       IF Claimable(c)
       THEN command' = [command EXCEPT ![c] = "claimed"] /\ VisitGoes(s, Still(s, "acting", "none"))
       ELSE /\ VisitGoes(s, Still(s, "posting", Previous(c)))
            /\ UNCHANGED command
  /\ UNCHANGED <<request, acted, question, work, parked, resultsSent, leading, upsets>>

\* The handler's own transaction is not fenced: it may commit for a leader that was lost
\* after the last check, and an error may hide a commit.
Handle(s, answered) ==
  /\ visit[s].phase = "acting"
  /\ \E c \in {visit[s].on}, takes \in {TRUE, answered} :
       /\ acted' = [acted EXCEPT ![c] = IF takes THEN @ + 1 ELSE @]
       /\ question' = IF takes /\ c \in Question /\ question[c] = "none"
                      THEN [question EXCEPT ![c] = "open"] ELSE question
       /\ VisitGoes(s, Still(s, "saving", IF ~answered THEN "failed"
                                          ELSE IF c \in Question THEN "asked" ELSE "done"))
  /\ IF answered THEN UNCHANGED upsets ELSE Upset
  /\ UNCHANGED <<request, command, work, parked, resultsSent, leading>>

SaveResult(s) ==
  /\ s = leading /\ visit[s].phase = "saving"
  /\ command' = [command EXCEPT ![visit[s].on] = visit[s].result]
  /\ VisitGoes(s, Still(s, "posting", visit[s].result))
  /\ UNCHANGED <<request, acted, question, work, parked, resultsSent, leading, upsets>>

\* The daemon takes a result only for a request that is still pending.
PostAs(c, result) ==
  request' = IF c \in PendingRequests THEN [request EXCEPT ![c] = [status |-> "resolved", result |-> result]]
             ELSE request

PostResult(s) ==
  /\ s = leading /\ visit[s].phase = "posting" /\ visit[s].result # "asked"
  /\ PostAs(visit[s].on, visit[s].result)
  /\ VisitGoes(s, Onward(s))
  /\ UNCHANGED <<command, acted, question, work, parked, resultsSent, leading, upsets>>

\* The call fails or times out: the visit ends, and the daemon may have the result already,
\* later, or never.
PostFails(s) ==
  /\ s = leading /\ visit[s].phase = "posting" /\ Upset
  /\ visit[s].result = "asked" => question[visit[s].on] = "answered" /\ work.status = "running"
  /\ resultsSent' = resultsSent \cup {[on |-> visit[s].on,
                             result |-> IF visit[s].result = "asked" THEN "answer" ELSE visit[s].result]}
  /\ VisitGoes(s, Away)
  /\ UNCHANGED <<request, command, acted, question, work, parked, leading>>

PostArrives(post) ==
  /\ post \in resultsSent /\ resultsSent' = resultsSent \ {post}
  /\ PostAs(post.on, post.result)
  /\ UNCHANGED <<command, acted, question, work, parked, visit, leading, upsets>>

\* A question without an answer suspends the task, at the daemon and then in PostgreSQL.
Suspend(s) ==
  /\ s = leading /\ visit[s].phase = "posting" /\ visit[s].result = "asked"
  /\ question[visit[s].on] = "open"
  /\ parked' = ~TaskOver
  /\ VisitGoes(s, IF TaskOver THEN Onward(s) ELSE Still(s, "suspending", "asked"))
  /\ UNCHANGED <<request, command, acted, question, work, resultsSent, leading, upsets>>

RecordSuspension(s) ==
  /\ s = leading /\ visit[s].phase = "suspending"
  /\ work' = IF work.status = "running" THEN [work EXCEPT !.status = "needs_input"] ELSE work
  /\ VisitGoes(s, Onward(s))
  /\ UNCHANGED <<request, command, acted, question, parked, resultsSent, leading, upsets>>

\* With an answer, a waiting task first asks for its slot again.
DeliverAnswer(s) ==
  /\ s = leading /\ visit[s].phase = "posting" /\ visit[s].result = "asked"
  /\ question[visit[s].on] = "answered"
  /\ work' = IF work.status = "needs_input" THEN [work EXCEPT !.resume = TRUE] ELSE work
  /\ IF work.status = "running" THEN PostAs(visit[s].on, "answer") ELSE UNCHANGED request
  /\ VisitGoes(s, Onward(s))
  /\ UNCHANGED <<command, acted, question, parked, resultsSent, leading, upsets>>
-----------------------------------------------------------------------------
(***************************************************************************)
(* The task's own life on the server.                                      *)
(***************************************************************************)
\* answerDelegationQuestion and answerDiscussionQuestion.
AnswerTask(c) ==
  /\ question[c] = "open" /\ work.status \in {"running", "needs_input"}
  /\ question' = [question EXCEPT ![c] = "answered"]
  /\ work' = [work EXCEPT !.resume = TRUE]
  /\ UNCHANGED <<request, command, acted, parked, visit, resultsSent, leading, upsets>>

\* claimQueuedRuns takes a waiting task whose resumption was asked for, and progressRun
\* toggles the daemon; while another task holds the lane there, it stays preparing.
ClaimResume ==
  /\ work.status = "needs_input" /\ work.resume
  /\ work' = [work EXCEPT !.status = "preparing"]
  /\ UNCHANGED <<request, command, acted, question, parked, visit, resultsSent, leading, upsets>>

Resume(s) ==
  /\ s = leading /\ work.status = "preparing"
  /\ parked' = FALSE
  /\ work' = IF work.cancel THEN [work EXCEPT !.status = "over"]
             ELSE [work EXCEPT !.status = "running", !.resume = FALSE]
  /\ UNCHANGED <<request, command, acted, question, visit, resultsSent, leading, upsets>>

\* The journal says that the daemon parked the task.
ObserveParked ==
  /\ parked /\ work.status = "running"
  /\ work' = [work EXCEPT !.status = "needs_input"]
  /\ UNCHANGED <<request, command, acted, question, parked, visit, resultsSent, leading, upsets>>

CancelTask ==
  /\ ~TaskOver /\ ~work.cancel
  /\ work' = [work EXCEPT !.cancel = TRUE]
  /\ UNCHANGED <<request, command, acted, question, parked, visit, resultsSent, leading, upsets>>

TaskEnds ==
  /\ ~TaskOver /\ (PendingRequests = {} \/ work.cancel)
  /\ work' = [work EXCEPT !.status = "over"] /\ parked' = FALSE
  /\ request' = [c \in Command |-> IF c \in PendingRequests THEN Interrupted ELSE request[c]]
  /\ UNCHANGED <<command, acted, question, visit, resultsSent, leading, upsets>>

\* The lease passes to another process; the old one may go on, or be killed.
LeaseMoves(s, killed) ==
  /\ s # leading /\ Upset
  /\ leading' = s
  /\ visit' = IF killed THEN [visit EXCEPT ![leading] = Away] ELSE visit
  /\ UNCHANGED <<request, command, acted, question, work, parked, resultsSent>>
-----------------------------------------------------------------------------
ControlNext ==
  \/ \E c \in Command : CallTool(c) \/ CallEnds(c)
  \/ DaemonReturns
  \/ \E s \in Server : Observe(s) \/ ObserveEnds(s) \/ Stopped(s) \/ ClaimCommand(s) \/ SaveResult(s)
       \/ PostResult(s) \/ Suspend(s) \/ RecordSuspension(s) \/ DeliverAnswer(s) \/ Resume(s)
  \/ \E s \in Server : PostFails(s)
  \/ \E post \in resultsSent : PostArrives(post)
  \/ \E s \in Server, c \in Command : TakeUp(s, c)
  \/ \E s \in Server, b \in BOOLEAN : Handle(s, b) \/ LeaseMoves(s, b)
  \/ \E c \in Question : AnswerTask(c)
  \/ ClaimResume \/ ObserveParked \/ CancelTask \/ TaskEnds

ControlSpec == ControlInit /\ [][ControlNext]_controlVars
-----------------------------------------------------------------------------
ControlTypeOK ==
  /\ \A c \in Command : request[c] \in [status : {"none", "pending", "resolved", "interrupted"},
                                        result : {"none"} \cup Results]
  /\ \A c \in Command : command[c] \in {"none", "claimed"} \cup Results /\ acted[c] \in Nat
  /\ work.status \in {"running", "needs_input", "preparing", "over"}
  /\ leading \in Server

\* Whatever leader dies or is replaced between the claim, the effect, the stored result and
\* its delivery, and whenever a result arrives, a command takes effect at most once, and the
\* agent is told of a success only if it did.
CommandActsOnce ==
  \A c \in Command :
    /\ acted[c] <= 1
    /\ request[c].result \in {"done", "answer"} => acted[c] = 1

\* What the documentation says of the wait: a question's call that is resolved while its
\* task goes on carries the human's answer.
AnswerIsDelivered ==
  \A c \in Question :
    request[c].result = "refused" => work.cancel \/ TaskOver
=============================================================================
