------------------------------- MODULE Files -------------------------------
(***************************************************************************)
(* The files of one task: the owner's uploads before it starts and the     *)
(* outputs its agent shares while it runs.  storeAttachment puts the bytes *)
(* first and inserts the row after; browsers repeat an upload and two      *)
(* executors may harvest the same output, so several attempts at one file  *)
(* run at once, under one storage key.  The task declares one upload; the  *)
(* files the owner sends compete for that place.  A file has one content.  *)
(***************************************************************************)
EXTENDS Naturals

CONSTANTS
  Upload, Output,   \* files of either kind, every upload for the same place
  Request,          \* upload requests
  Harvester,        \* executor processes
  MaxMishaps        \* bound: lost answers, failures, changes of the leader

VARIABLES
  task,        \* "queued", "running", "resuming", then "ended" as its daemon did, or "interrupted"
  daemonOver,  \* the journal of the daemon says how the run ended
  outbox,      \* the daemon's outputs
  rows,        \* attachments
  objects,     \* the bytes in the bucket
  late,        \* INSERTs that PostgreSQL executes yet, though their senders wait no more
  attempt,     \* attempt[t]: a storeAttachment under way
  harvest,     \* harvest[e]: a collectOutputs, where in the observation, and what is left
  durable,     \* filesDurable was answered TRUE
  head,        \* the executor that leads
  mishaps,
  unwritten    \* history: files with an INSERT that failed before its row was written

fileVars == <<task, daemonOver, outbox, rows, objects, late, attempt, harvest, durable, head,
              mishaps, unwritten>>

NoFile == "none"
NoAttempt == [step |-> "none", file |-> NoFile]
NoHarvest == [step |-> "none", left |-> {}]
Trying == Request \cup Harvester

FilesInit ==
  /\ task = "queued" /\ daemonOver = FALSE /\ outbox = {}
  /\ rows = {} /\ objects = {} /\ late = {} /\ unwritten = {}
  /\ attempt = [t \in Trying |-> NoAttempt]
  /\ harvest = [e \in Harvester |-> NoHarvest]
  /\ durable = FALSE
  /\ head \in Harvester /\ mishaps = 0

Mishap == mishaps < MaxMishaps /\ mishaps' = mishaps + 1
taskSide == <<task, daemonOver, outbox, durable, head>>
inserts == <<late, unwritten>>
stored == <<rows, objects, inserts>>
AttemptGoes(t, step) == attempt' = [attempt EXCEPT ![t].step = step]
-----------------------------------------------------------------------------
(***************************************************************************)
(* storeAttachment.                                                        *)
(***************************************************************************)
\* An answer ends the attempt; a failure ends the harvest it belongs to.
Ends(t, ok) ==
  /\ attempt' = [attempt EXCEPT ![t] = NoAttempt]
  /\ harvest' = [e \in Harvester |->
       IF e # t THEN harvest[e]
       ELSE IF ok THEN [harvest[e] EXCEPT !.left = @ \ {attempt[t].file}] ELSE NoHarvest]

Accepts(f) == IF f \in Upload THEN task = "queued" ELSE task # "queued"

Check(t) ==
  /\ attempt[t].step = "check"
  /\ IF attempt[t].file \in rows \/ ~Accepts(attempt[t].file)
     THEN Ends(t, attempt[t].file \in rows)
     ELSE AttemptGoes(t, "put") /\ UNCHANGED harvest
  /\ UNCHANGED <<taskSide, stored, mishaps>>

Put(t) ==
  /\ attempt[t].step = "put"
  /\ objects' = objects \cup {attempt[t].file}
  /\ AttemptGoes(t, "insert")
  /\ UNCHANGED <<taskSide, rows, inserts, harvest, mishaps>>

PutFails(t) ==
  /\ attempt[t].step = "put" /\ Mishap
  /\ objects' \in {objects, objects \cup {attempt[t].file}}
  /\ Ends(t, FALSE)
  /\ UNCHANGED <<taskSide, rows, inserts>>

\* UNIQUE of the file's identity, and of the place of an upload.
Conflicts(f) == f \in rows \/ (f \in Upload /\ Upload \cap rows # {})

Insert(t) ==
  /\ attempt[t].step = "insert"
  /\ IF Conflicts(attempt[t].file)
     THEN AttemptGoes(t, "lookup") /\ UNCHANGED <<rows, harvest>>
     ELSE rows' = rows \cup {attempt[t].file} /\ Ends(t, TRUE)
  /\ UNCHANGED <<taskSide, objects, inserts, mishaps>>

InsertOutcome == {"written", "late", "never"}

\* The connection is lost or the statement is refused: the row was written, or will be when
\* the sender has given up, or never is.
InsertFails(t, outcome) ==
  /\ attempt[t].step = "insert" /\ Mishap
  /\ ~Conflicts(attempt[t].file)
  /\ rows' = IF outcome = "written" THEN rows \cup {attempt[t].file} ELSE rows
  /\ late' = IF outcome = "late" THEN late \cup {attempt[t].file} ELSE late
  /\ unwritten' = IF outcome = "written" THEN unwritten ELSE unwritten \cup {attempt[t].file}
  /\ AttemptGoes(t, "lookup")
  /\ UNCHANGED <<taskSide, objects, harvest>>

InsertLands(f) ==
  /\ f \in late /\ late' = late \ {f}
  /\ rows' = IF Conflicts(f) THEN rows ELSE rows \cup {f}
  /\ UNCHANGED <<taskSide, objects, unwritten, attempt, harvest, mishaps>>

\* Mutant: the bytes are taken for unreferenced without a look.
LookupBlindly(t) ==
  /\ attempt[t].step = "lookup"
  /\ AttemptGoes(t, "delete") /\ UNCHANGED <<taskSide, stored, harvest, mishaps>>
Lookup(t) ==
  /\ attempt[t].step = "lookup"
  /\ IF attempt[t].file \in rows THEN Ends(t, TRUE) ELSE AttemptGoes(t, "delete") /\ UNCHANGED harvest
  /\ UNCHANGED <<taskSide, stored, mishaps>>

\* A row may be hidden: the bytes stay.
LookupFails(t) ==
  /\ attempt[t].step = "lookup" /\ Mishap
  /\ Ends(t, FALSE)
  /\ UNCHANGED <<taskSide, stored>>

\* The deletion may fail in silence.
Delete(t) ==
  /\ attempt[t].step = "delete"
  /\ \/ objects' = objects \ {attempt[t].file} /\ UNCHANGED mishaps
     \/ Mishap /\ UNCHANGED objects
  /\ Ends(t, FALSE)
  /\ UNCHANGED <<taskSide, rows, inserts>>
-----------------------------------------------------------------------------
(***************************************************************************)
(* The owner and the agent.                                                *)
(***************************************************************************)
SendUpload(t, f) ==
  /\ attempt[t] = NoAttempt
  /\ attempt' = [attempt EXCEPT ![t] = [step |-> "check", file |-> f]]
  /\ UNCHANGED <<taskSide, stored, harvest, mishaps>>

\* filesForAgent: rows whose bytes the bucket has.
ForAgent == Upload \cap rows \cap objects

\* canPrepareRun holds, prepareRun stages the uploads, and the task is dispatched.
StageAndDispatch ==
  /\ task = "queued" /\ ForAgent # {}
  /\ task' = "running"
  /\ UNCHANGED <<daemonOver, outbox, stored, attempt, harvest, durable, head, mishaps>>

SendFile(f) ==
  /\ task # "queued" /\ ~daemonOver /\ f \notin outbox
  /\ outbox' = outbox \cup {f}
  /\ UNCHANGED <<task, daemonOver, stored, attempt, harvest, durable, head, mishaps>>

DaemonEnds ==
  /\ task # "queued" /\ ~daemonOver
  /\ daemonOver' = TRUE
  /\ UNCHANGED <<task, outbox, stored, attempt, harvest, durable, head, mishaps>>
-----------------------------------------------------------------------------
(***************************************************************************)
(* The executors: observeRun, GET /runs, beforeSettle, finish; and         *)
(* filesDurable of a delegated task.                                       *)
(***************************************************************************)
HarvestAt(e, step) == harvest[e].step = step /\ harvest[e].left = {} /\ attempt[e] = NoAttempt
List(e, step) == harvest' = [harvest EXCEPT ![e] = [step |-> step, left |-> outbox]]

ObserveOutputs(e) ==
  /\ head = e /\ task = "running" /\ HarvestAt(e, "none")
  /\ List(e, "observed")
  /\ UNCHANGED <<taskSide, stored, attempt, mishaps>>

\* The listing is not revised; assertActive passes before each output is stored.
HarvestOutput(e, f) ==
  /\ head = e /\ attempt[e] = NoAttempt /\ f \in harvest[e].left
  /\ attempt' = [attempt EXCEPT ![e] = [step |-> "check", file |-> f]]
  /\ UNCHANGED <<taskSide, stored, harvest, mishaps>>

ReadJournal(e) ==
  /\ HarvestAt(e, "observed")
  /\ harvest' = [harvest EXCEPT ![e].step = IF daemonOver THEN "over" ELSE "none"]
  /\ UNCHANGED <<taskSide, stored, attempt, mishaps>>

\* Mutant: what was harvested before the journal was read is taken for all of it.
CollectEarlier(e) ==
  /\ harvest' = [harvest EXCEPT ![e].step = "settle"]
Collect(e) == List(e, "settle")

BeforeSettle(e) ==
  /\ HarvestAt(e, "over") /\ Collect(e)
  /\ UNCHANGED <<taskSide, stored, attempt, mishaps>>

\* finish, that is settle: by the leader, of a task that is not settled.
FinishTask(e, outcome) ==
  /\ harvest' = [harvest EXCEPT ![e] = NoHarvest]
  /\ task' = IF head = e /\ task \in {"running", "resuming"} THEN outcome ELSE task
  /\ UNCHANGED <<daemonOver, outbox, stored, attempt, durable, head, mishaps>>

SettleRun(e) == HarvestAt(e, "settle") /\ FinishTask(e, "ended")

\* A deadline passes, or the run of the daemon is lost.
Interrupt ==
  /\ task \in {"running", "resuming"}
  /\ task' = "interrupted"
  /\ UNCHANGED <<daemonOver, outbox, stored, attempt, harvest, durable, head, mishaps>>

\* The task waited for an answer, which came: its lane is claimed again.
ClaimAnswered ==
  /\ task = "running" /\ task' = "resuming"
  /\ UNCHANGED <<daemonOver, outbox, stored, attempt, harvest, durable, head, mishaps>>

ResumingGoes(e, step) ==
  /\ head = e /\ task = "resuming" /\ HarvestAt(e, "none")
  /\ harvest' = [harvest EXCEPT ![e].step = step]
  /\ UNCHANGED <<taskSide, stored, attempt, mishaps>>

\* Asked to stop or past its deadline, the daemon is told so and the task is settled with
\* what was harvested before.
StopResuming(e) == ResumingGoes(e, "stop")
FinishStopped(e) == HarvestAt(e, "stop") /\ FinishTask(e, "interrupted")
PeekResuming(e) == ResumingGoes(e, IF daemonOver THEN "over" ELSE "resume")

ResumeRun(e) ==
  /\ HarvestAt(e, "resume")
  /\ harvest' = [harvest EXCEPT ![e] = NoHarvest]
  /\ task' = IF head = e /\ task = "resuming" THEN "running" ELSE task
  /\ UNCHANGED <<daemonOver, outbox, stored, attempt, durable, head, mishaps>>

\* A request failed, or another run holds the lane: the next visit begins anew.
BreakOff(e) ==
  /\ harvest[e].step \in {"observed", "stop", "resume"} /\ HarvestAt(e, harvest[e].step)
  /\ harvest' = [harvest EXCEPT ![e] = NoHarvest]
  /\ UNCHANGED <<taskSide, stored, attempt, mishaps>>

CollectDelegated(e) ==
  /\ head = e /\ task \in {"ended", "interrupted"} /\ daemonOver /\ ~durable /\ HarvestAt(e, "none")
  /\ List(e, "verify")
  /\ UNCHANGED <<taskSide, stored, attempt, mishaps>>

FilesDurable(e) ==
  /\ HarvestAt(e, "verify")
  /\ harvest' = [harvest EXCEPT ![e] = NoHarvest]
  /\ durable' = (durable \/ (head = e /\ outbox \subseteq objects))
  /\ UNCHANGED <<task, daemonOver, outbox, stored, attempt, head, mishaps>>

HeadMoves(e) ==
  /\ head # e /\ Mishap /\ head' = e
  /\ UNCHANGED <<task, daemonOver, outbox, stored, attempt, harvest, durable>>

\* assertActive refuses the former leader.
StopHarvest(e) ==
  /\ head # e /\ attempt[e] = NoAttempt /\ harvest[e].left # {}
  /\ harvest' = [harvest EXCEPT ![e] = NoHarvest]
  /\ UNCHANGED <<taskSide, stored, attempt, mishaps>>

FilesNext ==
  \/ \E t \in Trying : Check(t) \/ Put(t) \/ PutFails(t) \/ Insert(t)
                       \/ Lookup(t) \/ LookupFails(t) \/ Delete(t)
  \/ \E t \in Trying, o \in InsertOutcome : InsertFails(t, o)
  \/ \E f \in Upload \cup Output : InsertLands(f)
  \/ \E t \in Request, f \in Upload : SendUpload(t, f)
  \/ \E f \in Output : SendFile(f)
  \/ StageAndDispatch \/ DaemonEnds \/ Interrupt \/ ClaimAnswered
  \/ \E e \in Harvester, f \in Output : HarvestOutput(e, f)
  \/ \E e \in Harvester : ObserveOutputs(e) \/ ReadJournal(e) \/ BeforeSettle(e) \/ SettleRun(e)
       \/ StopResuming(e) \/ FinishStopped(e) \/ PeekResuming(e) \/ ResumeRun(e) \/ BreakOff(e)
       \/ CollectDelegated(e) \/ FilesDurable(e) \/ HeadMoves(e) \/ StopHarvest(e)

FilesSpec == FilesInit /\ [][FilesNext]_fileVars
-----------------------------------------------------------------------------
FilesTypeOK ==
  /\ outbox \subseteq Output
  /\ \A files \in {rows, objects, late, unwritten} : files \subseteq Upload \cup Output
  /\ \A e \in Harvester : harvest[e].left \subseteq Output
  /\ \A t \in Trying : attempt[t].file \in Upload \cup Output \cup {NoFile}

(***************************************************************************)
(* Attempts at a file that overlap or give way to each other, that lose    *)
(* the answer of an INSERT or cannot look whether it was written, never    *)
(* take the bytes of a row away.  Only one whose INSERT had not written    *)
(* its row when it looked may do that, to the row of a later INSERT.       *)
(***************************************************************************)
BytesAreKept == rows \subseteq objects \cup unwritten

(***************************************************************************)
(* docs/files.md:57: "If object upload succeeds but metadata persistence   *)
(* fails, the helper deletes that unreferenced object."  Between the look  *)
(* and the deletion another attempt may insert the row of the same file,   *)
(* or the INSERT that seemed to fail may be executed.                      *)
(***************************************************************************)
FileHasBytes == rows \subseteq objects

\* A task that ended as its daemon did, or whose files were reported durable, has a row for every output its
\* agent shared, the ones of its last moment included.
HarvestIsComplete == task = "ended" \/ durable => outbox \subseteq rows
=============================================================================
