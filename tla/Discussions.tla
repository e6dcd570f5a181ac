---------------------------- MODULE Discussions ----------------------------
(***************************************************************************)
(* One group discussion of an owner: its participants, the turns of its    *)
(* coordinator (apps/server/src/discussion-executor.ts) and the tasks it   *)
(* delegates (discussions.ts, discussion-files.ts, discussions.sql).  Each *)
(* database transaction is one action.  A coordinator job belongs to the   *)
(* executor process that claimed the turn and may outlive its lease.       *)
(***************************************************************************)
EXTENDS Naturals, Sequences, Functions

CONSTANTS Companion,     \* the owner's permanent Companions
          Message,       \* client message identifiers
          Call,          \* tool-call identifiers a model uses in one turn
          MaxTasks,      \* bound on tasks
          MaxTurns,      \* bound on the turns that messages and invitations start
          MaxEdits,      \* bound on the owner's edits of the discussion
          MaxLeads       \* bound on changes of the executor lease

VARIABLES disc,       \* discussions row; the Companions its folder authorizes, none without a folder
          member,     \* discussion_participants: "none", "in" or "removed"
          retired,    \* Companions removed from the workspace
          central,    \* discussion_runs in order of creation, with the job of each
          tasks,      \* runs of this discussion
          calls,      \* discussion_tool_calls: <<turn, call>>
          proposals,  \* discussion_proposals
          sent,       \* discussion_sends
          pid,        \* the PostgreSQL backend that holds the executor lease
          edits

discussionVars == <<disc, member, retired, central, tasks, calls, proposals, sent, pid, edits>>

Nobody == "nobody"
TaskActive == {"queued", "running"}        \* preparing and needs_input are as running here
TaskOver == {"succeeded", "cancelled"}     \* failed and interrupted are as succeeded here
Ended == {"succeeded", "failed", "cancelled"}   \* interrupted is as failed here
Turns == 1..Len(central)
Tasks == 1..Len(tasks)
ByUser == [turn |-> 0, call |-> 0]

Turn(source, files) ==
  [st |-> "queued", cancel |-> FALSE, source |-> source, pid |-> 0, job |-> "none", files |-> files]
Task(c, by) == [comp |-> c, by |-> by, st |-> "queued", cancel |-> FALSE, reported |-> FALSE]

DiscussionTypeOK ==
  /\ disc \in [archived : BOOLEAN, direct : Companion \cup {Nobody}, defaults : SUBSET Companion]
  /\ member \in [Companion -> {"none", "in", "removed"}]
  /\ retired \subseteq Companion
  /\ \A r \in Turns : central[r] \in
       [st : {"queued", "running"} \cup Ended, cancel : BOOLEAN, source : 0..MaxTasks, pid : 0..MaxLeads,
        job : {"none", "run", "over"}, files : {"none", "missing", "stored", "ready"}]
  /\ \A t \in Tasks : tasks[t] \in
       [comp : Companion, by : [turn : Turns, call : Call] \cup {ByUser}, st : TaskActive \cup TaskOver,
        cancel : BOOLEAN, reported : BOOLEAN]
  /\ calls \subseteq Turns \X Call
  /\ proposals \in [Turns \X Companion -> {"none", "pending", "accepted", "declined"}]
  /\ sent \subseteq Message
  /\ pid \in 1..MaxLeads
  /\ edits \in 0..MaxEdits

\* createDiscussion, in a folder that authorizes every Companion; a direct discussion
\* has its Companion as participant from the start.
DiscussionInit ==
  /\ \E d \in Companion \cup {Nobody} :
       /\ disc = [archived |-> FALSE, direct |-> d, defaults |-> Companion]
       /\ member = [x \in Companion |-> IF x = d THEN "in" ELSE "none"]
  /\ retired = {}
  /\ central = <<>>
  /\ tasks = <<>>
  /\ calls = {}
  /\ proposals = [p \in {} |-> "none"]
  /\ sent = {}
  /\ pid = 1
  /\ edits = 0

-----------------------------------------------------------------------------
\* Helpers

\* A new turn brings no proposals of its own.
AddTurns(cs) ==
  /\ central' = cs
  /\ proposals' = [p \in (DOMAIN central') \X Companion |-> IF p[1] \in Turns THEN proposals[p] ELSE "none"]

Available(c) == c \notin retired
Authorized(c) ==
  \/ member[c] = "in"
  \/ member[c] = "none" /\ c \in disc.defaults

\* Asking a task to stop: a queued one ends at once.
Asked(task) == IF task.st \in TaskActive
               THEN [task EXCEPT !.cancel = TRUE, !.st = IF @ = "queued" THEN "cancelled" ELSE @]
               ELSE task

-----------------------------------------------------------------------------
\* The owner

Edit == edits < MaxEdits /\ edits' = edits + 1

UpdateDiscussion(archived) ==
  /\ Edit
  /\ disc' = [disc EXCEPT !.archived = archived]
  /\ disc' # disc
  /\ UNCHANGED <<member, retired, central, tasks, calls, proposals, sent, pid>>

\* Moving the discussion to a folder or out of one, saving a folder, deleting it.
ChangeFolder(cs) ==
  /\ Edit
  /\ cs \cap retired = {}
  /\ disc' = [disc EXCEPT !.defaults = cs]
  /\ disc' # disc
  /\ UNCHANGED <<member, retired, central, tasks, calls, proposals, sent, pid>>

ChangeParticipant(c, remove) ==
  /\ Edit
  /\ disc.direct = Nobody \/ (disc.direct = c /\ ~remove)
  /\ \/ remove /\ member[c] # "none" /\ member' = [member EXCEPT ![c] = "removed"]
     \/ ~remove /\ Available(c) /\ member' = [member EXCEPT ![c] = "in"]
  /\ member' # member
  /\ UNCHANGED <<disc, retired, central, tasks, calls, proposals, sent, pid>>

\* Retirement of a Companion (retirement.ts), as far as this discussion sees it.
RetireParticipant(c) ==
  /\ Edit
  /\ Available(c)
  /\ retired' = retired \cup {c}
  /\ tasks' = [t \in Tasks |-> IF tasks[t].comp = c THEN Asked(tasks[t]) ELSE tasks[t]]
  /\ UNCHANGED <<disc, member, central, calls, proposals, sent, pid>>

\* A repeated identifier returns the first answer and changes nothing.
AcceptMessage(m, target, files) ==
  /\ m \notin sent
  /\ ~disc.archived
  /\ disc.direct = Nobody \/ target = disc.direct
  /\ sent' = sent \cup {m}
  /\ \/ /\ target \in Companion
        /\ Available(target)
        /\ Len(tasks) < MaxTasks
        /\ files = "none"
        /\ member' = [member EXCEPT ![target] = "in"]
        /\ tasks' = Append(tasks, Task(target, ByUser))
        /\ UNCHANGED <<central, proposals>>
     \/ /\ target = Nobody
        /\ Len(central) < MaxTurns
        /\ AddTurns(Append(central, Turn(0, files)))
        /\ UNCHANGED <<member, tasks>>
  /\ UNCHANGED <<disc, retired, calls, pid, edits>>

\* storeDiscussionUpload: the row first, the object, then ready.
UploadRow(r) ==
  /\ central[r].st = "queued" /\ ~central[r].cancel
  /\ central[r].files = "missing"
  /\ central' = [central EXCEPT ![r].files = "stored"]
  /\ UNCHANGED <<disc, member, retired, tasks, calls, proposals, sent, pid, edits>>

UploadReady(r) ==
  /\ central[r].files = "stored"
  /\ central' = [central EXCEPT ![r].files = "ready"]
  /\ UNCHANGED <<disc, member, retired, tasks, calls, proposals, sent, pid, edits>>

CancelParticipant(c) ==
  /\ member[c] # "none"
  /\ \E t \in Tasks : tasks[t].comp = c /\ tasks[t].st \in TaskActive /\ ~tasks[t].cancel
  /\ tasks' = [t \in Tasks |-> IF tasks[t].comp = c THEN Asked(tasks[t]) ELSE tasks[t]]
  /\ UNCHANGED <<disc, member, retired, central, calls, proposals, sent, pid, edits>>

CancelChat ==
  /\ disc.direct = Nobody
  /\ \E r \in Turns : central[r].st \in {"queued", "running"} /\ ~central[r].cancel
  /\ central' = [r \in Turns |->
       IF central[r].st \in {"queued", "running"}
       THEN [central[r] EXCEPT !.cancel = TRUE, !.st = IF @ = "queued" THEN "cancelled" ELSE @]
       ELSE central[r]]
  /\ UNCHANGED <<disc, member, retired, tasks, calls, proposals, sent, pid, edits>>

ResolveProposal(r, c, accept) ==
  /\ proposals[<<r, c>>] = "pending"
  /\ Len(central) < MaxTurns
  /\ accept => Available(c)
  /\ member' = IF accept THEN [member EXCEPT ![c] = "in"] ELSE member
  /\ central' = Append(central, Turn(0, "none"))
  /\ proposals' = [p \in (1..Len(central) + 1) \X Companion |->
       IF p = <<r, c>> THEN (IF accept THEN "accepted" ELSE "declined")
       ELSE IF p[1] \in Turns THEN proposals[p] ELSE "none"]
  /\ UNCHANGED <<disc, retired, tasks, calls, sent, pid, edits>>

-----------------------------------------------------------------------------
\* The executor

\* The lease passes to another backend; the jobs of the old one may go on.
TakeLease ==
  /\ pid < MaxLeads
  /\ pid' = pid + 1
  /\ UNCHANGED <<disc, member, retired, central, tasks, calls, proposals, sent, edits>>

\* A turn that another process was running is over: it is never run again.
Interrupted == [r \in Turns |->
  IF central[r].st = "running" /\ central[r].pid # pid
  THEN [central[r] EXCEPT !.st = IF central[r].cancel THEN "cancelled" ELSE "failed"]
  ELSE central[r]]

Waiting(cs) == {r \in 1..Len(cs) : cs[r].st = "queued" /\ cs[r].files \notin {"none", "ready"}}
\* Mutant: a missing upload is waited for without end.
ExpiredNever(cs, late) == cs
Expired(cs, late) == [r \in 1..Len(cs) |-> IF r \in late THEN [cs[r] EXCEPT !.st = "failed"] ELSE cs[r]]

\* projectDiscussionResults: the results to report, and the turns they start.
Reportable == {t \in Tasks : tasks[t].st \in TaskOver /\ ~tasks[t].reported}
\* Mutant: only a turn that still runs is continued.
ContinuesLive(cs, t) ==
  /\ tasks[t].by # ByUser
  /\ cs[tasks[t].by.turn].st = "running"
  /\ \A r \in 1..Len(cs) : cs[r].source # t
Continues(cs, t) ==
  /\ tasks[t].by # ByUser
  /\ ~cs[tasks[t].by.turn].cancel
  /\ \A r \in 1..Len(cs) : cs[r].source # t
\* Turns created together have the same created_at and are ordered by a random id.
Continued(cs, started) == cs \o [i \in DOMAIN started |-> Turn(started[i], "none")]

\* The oldest queued turn, when none runs and its files are there.
Candidates(cs) == {r \in 1..Len(cs) :
  /\ cs[r].st = "queued" /\ ~cs[r].cancel
  /\ \A o \in 1..Len(cs) : ~(cs[o].st = "running" \/ (o < r /\ cs[o].st = "queued"))
  /\ cs[r].files \in {"none", "ready"}}
Claimed(cs, next, paid) == [r \in 1..Len(cs) |->
  IF r \notin next THEN cs[r]
  ELSE IF ~paid THEN [cs[r] EXCEPT !.st = "failed"]
  ELSE [cs[r] EXCEPT !.st = "running", !.pid = pid, !.job = "run"]]

\* claimDiscussionRuns, one transaction; "late" are the uploads older than five minutes.
Claim(late, paid) ==
  /\ \E cs \in {Expired(Interrupted, late)} :
     \E n \in 0..Len(tasks) : \E started \in Bijection(1..n, {t \in Reportable : Continues(cs, t)}) :
       \E all \in {Continued(cs, started)} : \E next \in {Candidates(all)} :
         AddTurns(Claimed(all, next, paid))
  /\ tasks' = [t \in Tasks |-> [tasks[t] EXCEPT !.reported = @ \/ t \in Reportable]]
  /\ UNCHANGED <<disc, member, retired, calls, sent, pid, edits>>

-----------------------------------------------------------------------------
\* The job of a turn: tool calls of the model and its end

\* Mutant: only the job itself is asked.
FencedByJob(r) == central[r].job = "run"
Fenced(r) == central[r].st = "running" /\ ~central[r].cancel /\ central[r].pid = pid

\* Mutant: a repeated call is not looked up.
JournalAgain(r, k) ==
  /\ central[r].job = "run"
  /\ Fenced(r)
  /\ calls' = calls \cup {<<r, k>>}

\* discussionTool up to its effect; a known call identifier returns its stored result.
Journal(r, k) ==
  /\ central[r].job = "run"
  /\ Fenced(r)
  /\ <<r, k>> \notin calls
  /\ calls' = calls \cup {<<r, k>>}

DelegateTool(r, k, c) ==
  /\ Len(tasks) < MaxTasks
  /\ disc.direct = Nobody
  /\ Available(c)
  /\ Journal(r, k)
  /\ \/ /\ Authorized(c)
        /\ member' = [member EXCEPT ![c] = "in"]
        /\ tasks' = Append(tasks, Task(c, [turn |-> r, call |-> k]))
        /\ UNCHANGED proposals
     \/ /\ ~Authorized(c)
        /\ proposals' = [proposals EXCEPT ![<<r, c>>] = IF @ = "none" THEN "pending" ELSE @]
        /\ UNCHANGED <<member, tasks>>
  /\ UNCHANGED <<disc, retired, central, sent, pid, edits>>

CancelTool(r, k, t) ==
  /\ Journal(r, k)
  /\ tasks[t].st \in TaskActive
  /\ tasks' = [tasks EXCEPT ![t] = Asked(@)]
  /\ UNCHANGED <<disc, member, retired, central, proposals, sent, pid, edits>>

TurnSucceeds(r) ==
  /\ central[r].job = "run"
  /\ Fenced(r)
  /\ central' = [central EXCEPT ![r].st = "succeeded", ![r].job = "over"]
  /\ UNCHANGED <<disc, member, retired, tasks, calls, proposals, sent, pid, edits>>

\* The stream failed, its ten minutes are over, its last transaction was refused,
\* or the process aborted it (it does so when the turn was asked to stop).
TurnFails(r) ==
  /\ central[r].job = "run"
  /\ central' = [central EXCEPT ![r].job = "over",
       ![r].st = IF @ # "running" \/ central[r].pid # pid THEN @
                 ELSE IF central[r].cancel THEN "cancelled" ELSE "failed"]
  /\ UNCHANGED <<disc, member, retired, tasks, calls, proposals, sent, pid, edits>>

-----------------------------------------------------------------------------
\* The Companion's side of a task (RunExecution has the detail)

TaskMoves(t) ==
  /\ \/ tasks[t].st = "queued" /\ tasks' = [tasks EXCEPT ![t].st = "running"]
     \/ tasks[t].st = "running" /\ tasks' = [tasks EXCEPT ![t].st = "succeeded"]
     \/ tasks[t].st = "running" /\ tasks[t].cancel /\ tasks' = [tasks EXCEPT ![t].st = "cancelled"]
  /\ UNCHANGED <<disc, member, retired, central, calls, proposals, sent, pid, edits>>

OwnerActs ==
  \/ \E archived \in BOOLEAN : UpdateDiscussion(archived)
  \/ \E cs \in SUBSET Companion : ChangeFolder(cs)
  \/ \E c \in Companion, remove \in BOOLEAN : ChangeParticipant(c, remove)
  \/ \E c \in Companion : RetireParticipant(c)
  \/ \E m \in Message, target \in Companion \cup {Nobody}, f \in {"none", "missing"} : AcceptMessage(m, target, f)
  \/ \E r \in Turns : UploadRow(r)
  \/ \E c \in Companion : CancelParticipant(c)
  \/ CancelChat
  \/ \E r \in Turns, c \in Companion, accept \in BOOLEAN : ResolveProposal(r, c, accept)

DiscussionNext ==
  \/ OwnerActs
  \/ \E r \in Turns : UploadReady(r)
  \/ TakeLease
  \/ \E late \in SUBSET Waiting(Interrupted), paid \in BOOLEAN : Claim(late, paid)
  \/ \E r \in Turns, k \in Call, c \in Companion : DelegateTool(r, k, c)
  \/ \E r \in Turns, k \in Call, t \in Tasks : CancelTool(r, k, t)
  \/ \E r \in Turns : TurnSucceeds(r) \/ TurnFails(r)
  \/ \E t \in Tasks : TaskMoves(t)

\* The executor polls for ever, a model call has a timeout of ten minutes, and a
\* task that runs ends; nobody has to answer a question or upload a file.
DiscussionFairness ==
  /\ WF_discussionVars(Claim(Waiting(Interrupted), TRUE))
  /\ \A r \in 1..(MaxTurns + MaxTasks) : WF_discussionVars(r \in Turns /\ TurnFails(r))

DiscussionSpec == DiscussionInit /\ [][DiscussionNext]_discussionVars /\ DiscussionFairness

-----------------------------------------------------------------------------
\* Properties

\* A result of a delegated task that was reported while its turn was not asked to
\* stop has started exactly one further turn of the coordinator
\* (discussion-executor.ts:108-117, UNIQUE source_run_id).
ResultContinuesOnce ==
  /\ \A r, s \in Turns : r # s /\ central[r].source # 0 => central[r].source # central[s].source
  /\ \A t \in Tasks : tasks[t].reported /\ tasks[t].by # ByUser /\ ~central[tasks[t].by.turn].cancel
       => \E r \in Turns : central[r].source = t

\* One tool call of a turn starts at most one task, however often it is delivered.
CallActsOnce == \A t, u \in Tasks : tasks[t].by = tasks[u].by /\ tasks[t].by # ByUser => t = u

\* A turn that ended stays as it ended, and a turn that ended, was asked to stop or
\* lost its executor acts no more, although its job may still be running.
ClosedTurnIsSilent ==
  [][\A r \in Turns :
       /\ central[r].st \in Ended => central'[r].st = central[r].st
       /\ central[r].st \in Ended \/ central[r].cancel \/ central[r].pid # pid
            => {k \in Call : <<r, k>> \in calls'} = {k \in Call : <<r, k>> \in calls}
    ]_discussionVars

\* Every turn that was accepted ends, whatever happens to its files, its executor
\* or its job.
TurnEnds == \A r \in 1..(MaxTurns + MaxTasks) : (r \in Turns /\ central[r].st \notin Ended) ~> (r \in Turns /\ central[r].st \in Ended)
=============================================================================
