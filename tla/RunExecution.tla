----------------------------- MODULE RunExecution -----------------------------
(***************************************************************************)
(* The execution of a Companion's runs: the rows of table runs, the        *)
(* executor processes that claim and progress them under an advisory lock  *)
(* (apps/server/src/executor.ts), the owner's and the tools' requests that *)
(* change the same rows, and the agent daemon of the Companion's computer  *)
(* (DaemonContract), reached by requests that may be lost, delayed past    *)
(* their timeout or answered late.                                         *)
(*                                                                         *)
(* A job is one progressRun of one run by one executor.  Between its       *)
(* awaits anything may happen; job[<<e, r>>].pc says which await it is at, ep  *)
(* is the endpoint it captured when it read the row, and out is the answer *)
(* or the verdict it carries to its next step.                             *)
(***************************************************************************)
EXTENDS Naturals, DaemonContract

CONSTANTS
  Executor,     \* executor processes; one acquires again with a new session
  MaxEndpoint   \* bound on the endpoint generations lifecycle issues

ASSUME ExecutorAssumption == None \notin Executor /\ MaxEndpoint \in Nat \ {0}

VARIABLES
  status,      \* runs.status, "none" before the run is accepted
  dispatched,  \* runs.dispatched: the durable intent to PUT
  cancelReq,   \* runs.cancel_requested
  resumeReq,   \* runs.resume_requested_at IS NOT NULL
  age,         \* 0, 1: past the 5 minutes of preparation, 2: past the limits
               \* of a dispatched run (10 minutes without answer, 2 hours)
  endpoint,    \* companions.endpoint_secret: 0 for null, else its generation
  issued,      \* generations issued so far
  prepareReq,  \* companions.prepare_requested
  life,        \* "live", "retired" (retired_at), "archived" (archived_at)
  leader,      \* the executor whose session holds lock 721440139
  tick,        \* the statement the leader's tick is at
  job,         \* job[<<e, r>>]
  net,         \* requests on their way to the daemon
  puts         \* puts[r]: PUT /runs/r requests ever sent (history)

rowVars == <<status, dispatched, cancelReq, resumeReq>>
machineVars == <<endpoint, issued, prepareReq>>
vars == <<daemonVars, rowVars, age, machineVars, life, leader, tick, job, net, puts>>

Active == {"preparing", "running", "needs_input"}
Status == {"none", "queued"} \cup Active \cup Terminal

\* The awaits of progressRun before its run is dispatched, and after.
AdmissionPc == {"wake", "probe", "prior", "orphan", "unready", "stage", "recheck", "dispatch"}
DispatchPc == {"send", "putting"}
ResumePc == {"stop", "stopping", "peek", "peeked", "resuming", "resumed"}
ObservePc == {"cancel", "cancelling", "observe", "apply"}
SettlePc == {"settle", "settleLost", "drop"}
Pc == {"idle"} \cup AdmissionPc \cup DispatchPc \cup ResumePc \cup ObservePc \cup SettlePc

Job == [pc : Pc, ep : 0..MaxEndpoint, out : JournalStatus \cup Run \cup {None}]
Idle == [pc |-> "idle", ep |-> 0, out |-> None]
Message == [type : {"put", "cancel", "resume"}, run : Run]

TypeOK ==
  /\ DaemonTypeOK
  /\ status \in [Run -> Status]
  /\ dispatched \in [Run -> BOOLEAN]
  /\ cancelReq \in [Run -> BOOLEAN]
  /\ resumeReq \in [Run -> BOOLEAN]
  /\ age \in [Run -> 0..2]
  /\ endpoint \in 0..MaxEndpoint
  /\ issued \in 0..MaxEndpoint
  /\ prepareReq \in BOOLEAN
  /\ life \in {"live", "retired", "archived"}
  /\ leader \in Executor \cup {None}
  /\ tick \in {"new", "wake", "loop"}
  /\ job \in [Executor \X Run -> Job]
  /\ net \subseteq Message
  /\ puts \in [Run -> Nat]

Init ==
  /\ DaemonInit
  /\ status = [r \in Run |-> "none"]
  /\ dispatched = [r \in Run |-> FALSE]
  /\ cancelReq = [r \in Run |-> FALSE]
  /\ resumeReq = [r \in Run |-> FALSE]
  /\ age = [r \in Run |-> 0]
  /\ endpoint = 0 /\ issued = 0 /\ prepareReq = FALSE
  /\ life = "live"
  /\ leader = None
  /\ tick = "new"
  /\ job = [j \in Executor \X Run |-> Idle]
  /\ net = {}
  /\ puts = [r \in Run |-> 0]

-------------------------------------------------------------------------------
(* Leadership and the tick                                                 *)

\* A session takes the advisory lock.  The jobs of a process's former session
\* carry the former pid, so a process is reused here only once they ended.
Acquire(e) ==
  /\ leader = None
  /\ \A r \in Run : job[<<e, r>>].pc = "idle"
  /\ leader' = e
  /\ UNCHANGED <<daemonVars, rowVars, age, machineVars, life, tick, job, net, puts>>

\* The connection or the process is lost; detached jobs may go on.
Lose ==
  /\ leader # None
  /\ leader' = None /\ tick' = "new"
  /\ UNCHANGED <<daemonVars, rowVars, age, machineVars, life, job, net, puts>>

\* Mutant: the denial reaches dispatched runs.
DenyDispatched ==
  /\ leader # None /\ tick # "wake"
  /\ status' = [r \in Run |->
       IF status[r] \in {"queued", "preparing"}
       THEN IF cancelReq[r] THEN "cancelled" ELSE "failed" ELSE status[r]]
  /\ UNCHANGED <<daemonVars, dispatched, cancelReq, resumeReq, age, machineVars,
                 life, leader, tick, job, net, puts>>

\* tick: the owner may not start work; accepted work keeps a visible denial.
Deny ==
  /\ leader # None /\ tick # "wake"
  /\ status' = [r \in Run |->
       IF ~dispatched[r] /\ status[r] \in {"queued", "preparing"}
       THEN IF cancelReq[r] THEN "cancelled" ELSE "failed" ELSE status[r]]
  /\ UNCHANGED <<daemonVars, dispatched, cancelReq, resumeReq, age, machineVars,
                 life, leader, tick, job, net, puts>>

SameLane(r) == {q \in Run : Lane(q) = Lane(r)}

Claimable(r) ==
  /\ life = "live"
  /\ status[r] = "queued" \/ (status[r] = "needs_input" /\ resumeReq[r])
  /\ \A q \in SameLane(r) : status[q] # "preparing"
  /\ r \in Background => \A q \in SameLane(r) : status[q] # "running"

\* SELECT DISTINCT ON lane: one claimable run of every lane that has one.
ClaimChoice(C) ==
  /\ \A r \in C : Claimable(r) /\ C \cap SameLane(r) = {r}
  /\ \A r \in Run : Claimable(r) => C \cap SameLane(r) # {}

\* Unique index one_active_background_run, which counts needs_input too.
IndexConflict(C) ==
  \E r \in C \cap Background : \E q \in Background \ {r} : status[q] \in Active

\* A violated index aborts the whole UPDATE, and with it the tick and the
\* executor's main loop.
Claim ==
  /\ leader # None /\ tick # "wake"
  /\ \E C \in SUBSET Run :
       /\ ClaimChoice(C)
       /\ IF IndexConflict(C)
          THEN leader' = None /\ tick' = "new" /\ UNCHANGED status
          ELSE /\ status' = [r \in Run |-> IF r \in C THEN "preparing" ELSE status[r]]
               /\ tick' = "wake" /\ UNCHANGED leader
  /\ UNCHANGED <<daemonVars, dispatched, cancelReq, resumeReq, age, machineVars,
                 life, job, net, puts>>

\* tick: a preparing run on a machine that is not ready asks for preparation,
\* unless a dispatched run still uses the machine.
Wake ==
  /\ leader # None /\ tick = "wake"
  /\ tick' = "loop"
  /\ prepareReq' = \/ prepareReq
                   \/ /\ life = "live" /\ endpoint = 0
                      /\ \E r \in Run : status[r] = "preparing" /\ ~dispatched[r]
                      /\ \A r \in Run : ~(dispatched[r] /\ status[r] \in Active)
  /\ UNCHANGED <<daemonVars, rowVars, age, endpoint, issued, life, leader, job, net, puts>>

-------------------------------------------------------------------------------
(* Jobs                                                                    *)

\* assertActive and requestAgent: check(sql, generation).
Authority(e, r) ==
  /\ leader = e /\ life = "live"
  /\ job[<<e, r>>].ep # 0 => endpoint = job[<<e, r>>].ep

\* The guard of checkpoint: check without the generation.
Fenced(e) == leader = e /\ life = "live"

Go(e, r, pc, out) ==
  job' = [job EXCEPT ![<<e, r>>] = [@ EXCEPT !.pc = pc, !.out = out]]
\* Mutant: a null endpoint is captured as such.
BeginWithNull(e, r, pc, out) ==
  job' = [job EXCEPT ![<<e, r>>] =
    [pc |-> pc, ep |-> IF endpoint = 0 THEN None ELSE endpoint, out |-> out]]
Begin(e, r, pc, out) ==
  job' = [job EXCEPT ![<<e, r>>] = [pc |-> pc, ep |-> endpoint, out |-> out]]
Stop(e, r) == job' = [job EXCEPT ![<<e, r>>] = Idle]

At(e, r, pc) == job[<<e, r>>].pc = pc
Send(type, r) == net' = net \cup {[type |-> type, run |-> r]}

\* What a job step leaves alone unless it says otherwise.
StepLocal == UNCHANGED <<daemonVars, rowVars, age, machineVars, life, leader, tick, net, puts>>

\* RunCoordinator.schedule takes r, progressGroup reads the row again and
\* assertActive passes.  Background runs of a Companion share one job.
Scheduled(e, r) ==
  /\ tick = "loop" /\ leader = e /\ life = "live"
  /\ status[r] \in Active
  /\ At(e, r, "idle")
  /\ r \in Background => \A q \in Background : At(e, q, "idle")

\* cancel_requested before dispatch.
StartCancelled(e, r) ==
  /\ Scheduled(e, r) /\ cancelReq[r] /\ ~dispatched[r]
  /\ Begin(e, r, "settle", "cancelled")
  /\ StepLocal

\* A preparing run that was dispatched before: it is resumed, never PUT.
StartResume(e, r) ==
  /\ Scheduled(e, r) /\ status[r] = "preparing" /\ dispatched[r]
  /\ IF endpoint = 0 THEN Begin(e, r, "settle", "interrupted")
     ELSE IF cancelReq[r] THEN Begin(e, r, "stop", "cancelled")
     ELSE IF age[r] = 2 THEN Begin(e, r, "stop", "interrupted")
     ELSE Begin(e, r, "peek", None)
  /\ StepLocal

\* Mutant: a resumed run takes the path of a new one.
StartAdmissionReplays(e, r) ==
  /\ Scheduled(e, r) /\ status[r] = "preparing" /\ ~cancelReq[r]
  /\ ~prepareReq /\ endpoint # 0 /\ age[r] = 0 /\ Begin(e, r, "probe", None)
  /\ StepLocal

\* A preparing run never dispatched.  The owner may be refused, files may be
\* missing (the job ends), the machine may be under preparation.
StartAdmission(e, r) ==
  /\ Scheduled(e, r) /\ status[r] = "preparing" /\ ~dispatched[r] /\ ~cancelReq[r]
  /\ \/ Begin(e, r, "settle", "failed")
     \/ ~prepareReq /\ endpoint = 0 /\ Begin(e, r, "wake", None)
     \/ ~prepareReq /\ endpoint # 0 /\ age[r] = 0 /\ Begin(e, r, "probe", None)
  /\ StepLocal

StartObservation(e, r) ==
  /\ Scheduled(e, r) /\ status[r] \in LiveStatus
  /\ IF endpoint = 0 THEN Begin(e, r, "settle", "interrupted")
     ELSE IF cancelReq[r] THEN Begin(e, r, "cancel", None)
     ELSE Begin(e, r, "observe", None)
  /\ StepLocal

\* Mutant: settle does not look at the row's status.
SettleAnyway(e, r) ==
  /\ At(e, r, "settle") \/ At(e, r, "settleLost")
  /\ status' = IF leader = e THEN [status EXCEPT ![r] = job[<<e, r>>].out] ELSE status
  /\ IF At(e, r, "settleLost") THEN Go(e, r, "drop", None) ELSE Stop(e, r)
  /\ UNCHANGED <<daemonVars, dispatched, cancelReq, resumeReq, age, machineVars,
                 life, leader, tick, net, puts>>

\* settle: the verdict is written if the row is still active and the captured
\* session still leads.
Settle(e, r) ==
  /\ At(e, r, "settle") \/ At(e, r, "settleLost")
  /\ status' = IF leader = e /\ status[r] \in Active
               THEN [status EXCEPT ![r] = job[<<e, r>>].out] ELSE status
  /\ IF At(e, r, "settleLost") THEN Go(e, r, "drop", None) ELSE Stop(e, r)
  /\ UNCHANGED <<daemonVars, dispatched, cancelReq, resumeReq, age, machineVars,
                 life, leader, tick, net, puts>>

\* After a lost machine: status='error', endpoint_secret=null.
DropEndpoint(e, r) ==
  /\ At(e, r, "drop")
  /\ endpoint' = IF Fenced(e) THEN 0 ELSE endpoint
  /\ Stop(e, r)
  /\ UNCHANGED <<daemonVars, rowVars, age, issued, prepareReq, life, leader, tick, net, puts>>

\* A request is about to be sent but authority changed: ExecutionStopped.
SendingPc == {"probe", "prior", "stage", "send", "stop", "peek", "peeked", "cancel", "observe"}
StopWithoutAuthority(e, r) ==
  /\ job[<<e, r>>].pc \in SendingPc /\ ~Authority(e, r)
  /\ Stop(e, r)
  /\ StepLocal

\* A request, staging or the harvest of the outbox failed.  The catch of
\* progressRun: nothing without authority; a dispatched local run may
\* reconnect to its container; a run past its limit is settled.  The limit is
\* that of the row the job read: the PUT of a first dispatch is judged by the
\* limit of an undispatched run.
FailingPc == {"stage", "putting", "stop", "stopping", "peek", "peeked", "resuming",
              "cancel", "cancelling", "observe", "apply"}
ReadDispatched(e, r) == job[<<e, r>>].pc \notin AdmissionPc \cup DispatchPc
\* Mutant: only an undispatched run has a limit.
PastFirstLimit(e, r) == ~ReadDispatched(e, r) /\ age[r] >= 1
PastLimit(e, r) == IF ReadDispatched(e, r) THEN age[r] = 2 ELSE age[r] >= 1
Fail(e, r) ==
  /\ job[<<e, r>>].pc \in FailingPc
  /\ At(e, r, "apply") => job[<<e, r>>].out \in Terminal
  /\ At(e, r, "peeked") => job[<<e, r>>].out \in Terminal \cup {"needs_input"}
  /\ IF Authority(e, r) /\ PastLimit(e, r)
     THEN Go(e, r, "settleLost", IF ReadDispatched(e, r) THEN "interrupted" ELSE "failed")
     ELSE Stop(e, r)
  /\ \/ UNCHANGED <<endpoint, issued>>
     \/ /\ Authority(e, r) /\ ReadDispatched(e, r) /\ issued < MaxEndpoint
        /\ endpoint' = issued + 1 /\ issued' = issued + 1
  /\ UNCHANGED <<daemonVars, rowVars, age, prepareReq, life, leader, tick, net, puts>>

(* Admission *)

AskPreparation(e, r) ==
  /\ At(e, r, "wake")
  /\ prepareReq' = (prepareReq \/ Fenced(e))
  /\ Stop(e, r)
  /\ UNCHANGED <<daemonVars, rowVars, age, endpoint, issued, life, leader, tick, net, puts>>

\* The daemon still works on a run that is over for the control plane.
Orphaned(a) == cancelReq[a] \/ status[a] \in {"interrupted", "cancelled", "failed"}

\* GET /health answers: the lane is free, or a run holds it.
Probe(e, r) ==
  /\ At(e, r, "probe") /\ Authority(e, r)
  /\ LET a == active[Lane(r)] IN
       IF a = None THEN Go(e, r, "stage", None) ELSE Go(e, r, "prior", a)
  /\ StepLocal

\* The row of the run that held the lane is read: an orphan is cancelled first,
\* a background run waits, a main message may steer.
Prior(e, r) ==
  /\ At(e, r, "prior") /\ Authority(e, r)
  /\ \E a \in Run :
       /\ job[<<e, r>>].out = a
       /\ IF Orphaned(a) THEN Go(e, r, "orphan", a) /\ Send("cancel", a)
          ELSE /\ IF r \in Background THEN Stop(e, r) ELSE Go(e, r, "stage", None)
               /\ UNCHANGED net
  /\ UNCHANGED <<daemonVars, rowVars, age, machineVars, life, leader, tick, puts>>

\* The probe, the read of the row or the orphan's cancellation failed;
\* assertActive passes.
ProbeFails(e, r) ==
  /\ job[<<e, r>>].pc \in {"probe", "prior", "orphan"}
  /\ IF Authority(e, r) THEN Go(e, r, "unready", None) ELSE Stop(e, r)
  /\ StepLocal

\* The checkpoint that requests repair checks no endpoint generation.
Unready(e, r) ==
  /\ At(e, r, "unready")
  /\ IF Fenced(e) THEN endpoint' = 0 /\ prepareReq' = TRUE
                  ELSE UNCHANGED <<endpoint, prepareReq>>
  /\ Stop(e, r)
  /\ UNCHANGED <<daemonVars, rowVars, age, issued, life, leader, tick, net, puts>>

\* prepareRun staged configuration and files.
Stage(e, r) ==
  /\ At(e, r, "stage") /\ Authority(e, r)
  /\ Go(e, r, "recheck", None)
  /\ StepLocal

\* The owner or a cancellation may have changed during staging.
Recheck(e, r) ==
  /\ At(e, r, "recheck")
  /\ \/ Go(e, r, "settle", "failed")
     \/ IF life # "live" THEN Stop(e, r)
        ELSE IF cancelReq[r] THEN Go(e, r, "settle", "cancelled")
        ELSE Go(e, r, "dispatch", None)
  /\ StepLocal

\* The durable intent, before the network effect.
MayDispatch(e, r) ==
  /\ leader = e /\ life = "live"
  /\ status[r] = "preparing" /\ ~cancelReq[r]
  /\ ~prepareReq /\ endpoint = job[<<e, r>>].ep
Dispatch(e, r) ==
  /\ At(e, r, "dispatch")
  /\ IF MayDispatch(e, r)
     THEN /\ status' = [status EXCEPT ![r] = "running"]
          /\ dispatched' = [dispatched EXCEPT ![r] = TRUE]
          /\ Go(e, r, "send", None)
     ELSE UNCHANGED <<status, dispatched>> /\ Stop(e, r)
  /\ UNCHANGED <<daemonVars, cancelReq, resumeReq, age, machineVars, life, leader,
                 tick, net, puts>>

SendPut(e, r) ==
  /\ At(e, r, "send") /\ Authority(e, r)
  /\ Send("put", r) /\ puts' = [puts EXCEPT ![r] = @ + 1]
  /\ Go(e, r, "putting", None)
  /\ UNCHANGED <<daemonVars, rowVars, age, machineVars, life, leader, tick>>

(* Resuming a run whose question was answered *)

\* Mutant: the verdict does not wait for the machine.
StopRunAsync(e, r) ==
  /\ At(e, r, "stop") /\ Authority(e, r)
  /\ Send("cancel", r)
  /\ Go(e, r, "settle", job[<<e, r>>].out)
  /\ UNCHANGED <<daemonVars, rowVars, age, machineVars, life, leader, tick, puts>>

\* A cancelled or expired run is cancelled on the machine, then settled.
StopRun(e, r) ==
  /\ At(e, r, "stop") /\ Authority(e, r)
  /\ Send("cancel", r)
  /\ Go(e, r, "stopping", job[<<e, r>>].out)
  /\ UNCHANGED <<daemonVars, rowVars, age, machineVars, life, leader, tick, puts>>

Peek(e, r) ==
  /\ At(e, r, "peek") /\ Authority(e, r)
  /\ Go(e, r, "peeked", journal[r])
  /\ StepLocal

\* Nothing in the journal: not replayed.  Terminal: harvested and settled.
\* Parked: resumed unless another run holds the background lane.
Peeked(e, r) ==
  /\ At(e, r, "peeked")
  /\ LET seen == job[<<e, r>>].out IN
       \/ seen = "none" /\ Go(e, r, "settle", "interrupted") /\ UNCHANGED net
       \/ seen \in Terminal /\ Go(e, r, "settle", seen) /\ UNCHANGED net
       \/ seen = "running" /\ Go(e, r, "resumed", None) /\ UNCHANGED net
       \/ /\ seen = "needs_input" /\ Authority(e, r)
          /\ IF r \in Background /\ active["background"] \notin {None, r}
             THEN Stop(e, r) /\ UNCHANGED net
             ELSE Go(e, r, "resuming", None) /\ Send("resume", r)
  /\ UNCHANGED <<daemonVars, rowVars, age, machineVars, life, leader, tick, puts>>

Resumed(e, r) ==
  /\ At(e, r, "resumed")
  /\ IF leader = e /\ status[r] = "preparing"
     THEN /\ status' = [status EXCEPT ![r] = "running"]
          /\ resumeReq' = [resumeReq EXCEPT ![r] = FALSE]
     ELSE UNCHANGED <<status, resumeReq>>
  /\ Stop(e, r)
  /\ UNCHANGED <<daemonVars, dispatched, cancelReq, age, machineVars, life, leader,
                 tick, net, puts>>

(* Observing a dispatched run *)

CancelRun(e, r) ==
  /\ At(e, r, "cancel") /\ Authority(e, r)
  /\ Send("cancel", r)
  /\ Go(e, r, "cancelling", None)
  /\ UNCHANGED <<daemonVars, rowVars, age, machineVars, life, leader, tick, puts>>

Observe(e, r) ==
  /\ At(e, r, "observe") /\ Authority(e, r)
  /\ Go(e, r, "apply", journal[r])
  /\ StepLocal

\* Mutant: a run the daemon does not know is taken for cancelled.
ApplyUnknownAsCancelled(e, r) ==
  /\ At(e, r, "apply") /\ job[<<e, r>>].out = "none"
  /\ Go(e, r, "settle", "cancelled")
  /\ StepLocal
Apply(e, r) ==
  /\ At(e, r, "apply")
  /\ LET seen == job[<<e, r>>].out IN
       \/ seen = "none" /\ Go(e, r, "settle", "interrupted") /\ UNCHANGED status
       \/ seen \in Terminal /\ Go(e, r, "settle", seen) /\ UNCHANGED status
       \/ /\ seen \in LiveStatus /\ age[r] = 2
          /\ Go(e, r, "stop", "interrupted") /\ UNCHANGED status
       \/ /\ seen \in LiveStatus /\ age[r] < 2
          /\ status' = IF seen = "needs_input" /\ leader = e /\ status[r] = "running"
                       THEN [status EXCEPT ![r] = "needs_input"] ELSE status
          /\ Stop(e, r)
  /\ UNCHANGED <<daemonVars, dispatched, cancelReq, resumeReq, age, machineVars, life,
                 leader, tick, net, puts>>

-------------------------------------------------------------------------------
(* The daemon answers                                                      *)

Waiting(m) ==
  {j \in Executor \X Run :
     \/ m.type = "put" /\ job[j].pc = "putting" /\ j[2] = m.run
     \/ m.type = "cancel" /\ job[j].pc = "orphan" /\ job[j].out = m.run
     \/ m.type = "cancel" /\ job[j].pc \in {"stopping", "cancelling"} /\ j[2] = m.run
     \/ m.type = "resume" /\ job[j].pc = "resuming" /\ j[2] = m.run}

\* What the answer makes of a waiting job.
Answered(jb, running) ==
  CASE jb.pc = "cancelling" -> [jb EXCEPT !.pc = "observe"]
    [] jb.pc = "stopping" -> [jb EXCEPT !.pc = "settle"]
    [] jb.pc = "resuming" /\ running -> [jb EXCEPT !.pc = "resumed"]
    [] OTHER -> Idle

\* Any of the jobs that wait for this request may get the answer; the others
\* have lost it, and fail later.
Reply(m, running) ==
  \E W \in SUBSET Waiting(m) :
    job' = [j \in Executor \X Run |-> IF j \in W THEN Answered(job[j], running) ELSE job[j]]

DeliverFrame(m) ==
  /\ m \in net
  /\ net' = net \ {m}
  /\ UNCHANGED <<rowVars, age, machineVars, life, leader, tick, puts>>

\* PUT /runs/r: a known id is only read back; a new one is accepted.
DeliverPut(m) ==
  /\ m.type = "put" /\ DeliverFrame(m)
  /\ \/ journal[m.run] # "none" /\ UNCHANGED daemonVars
     \/ AcceptRoot(m.run)
     \/ \E rt \in Run : AcceptSteer(m.run, rt)
  /\ Reply(m, TRUE)

\* Mutant: the cancellation stops whatever the lane is at.
DeliverCancelToLane(m) ==
  /\ m.type = "cancel" /\ DeliverFrame(m)
  /\ \/ active[Lane(m.run)] = None /\ UNCHANGED daemonVars
     \/ AbortRoot(active[Lane(m.run)], "cancelled")
  /\ Reply(m, FALSE)

\* POST /runs/r/cancel: stops the whole response of r; the aborted agent may
\* return first.
DeliverCancel(m) ==
  /\ m.type = "cancel" /\ DeliverFrame(m)
  /\ \/ ~Live(m.run) /\ UNCHANGED daemonVars
     \/ AbortRoot(root[m.run], "cancelled")
     \/ FinishRoot(root[m.run], "cancelled")
  /\ Reply(m, FALSE)

\* POST /runs/r/resume: answers the row as it then is.
DeliverResume(m) ==
  /\ m.type = "resume" /\ DeliverFrame(m)
  /\ IF journal[m.run] = "needs_input" THEN ResumeRoot(root[m.run]) ELSE UNCHANGED daemonVars
  /\ Reply(m, journal[m.run] \in LiveStatus)

\* Answered with an error: BUSY, MAINTENANCE, CANCELLING, RUN_NOT_AVAILABLE,
\* or an abort that failed and interrupted the response.
Refuse(m) ==
  /\ DeliverFrame(m)
  /\ \/ m.type # "cancel" /\ UNCHANGED daemonVars
     \/ m.type = "cancel" /\ Live(m.run) /\ AbortRoot(root[m.run], "interrupted")
  /\ UNCHANGED job

\* What the daemon does by itself: the agent ends, parks on a question (the
\* suspend of observeRun), loses a steer, or restarts.
DaemonAlone ==
  /\ life # "archived"
  /\ \/ \E rt \in Run, st \in {"succeeded", "failed"} : FinishRoot(rt, st)
     \/ \E rt \in Run : Release(rt) \/ ParkRoot(rt) \/ SteerFails(rt)
     \/ Restart
  /\ UNCHANGED <<rowVars, age, machineVars, life, leader, tick, job, net, puts>>

-------------------------------------------------------------------------------
(* Requests to the control plane, lifecycle and time                       *)

EnvFrame == UNCHANGED <<daemonVars, issued, leader, tick, job, net, puts>>

\* acceptMessage, enqueueBackground.
Submit(r) ==
  /\ life = "live" /\ status[r] = "none"
  /\ status' = [status EXCEPT ![r] = "queued"]
  /\ UNCHANGED <<dispatched, cancelReq, resumeReq, age, endpoint, prepareReq, life>> /\ EnvFrame

\* cancelTask of the tasks API: a dispatched main run shares its response and
\* is refused.
CancelTask(r) ==
  /\ life = "live" /\ status[r] \in {"queued"} \cup Active
  /\ ~(r \notin Background /\ dispatched[r])
  /\ cancelReq' = [cancelReq EXCEPT ![r] = TRUE]
  /\ status' = IF status[r] = "queued" THEN [status EXCEPT ![r] = "cancelled"] ELSE status
  /\ UNCHANGED <<dispatched, resumeReq, age, endpoint, prepareReq, life>> /\ EnvFrame

\* cancel of the chat: every main run.
CancelChat ==
  /\ \E r \in Run \ Background : status[r] \in {"queued"} \cup Active
  /\ status' = [r \in Run |-> IF r \notin Background /\ status[r] = "queued"
                              THEN "cancelled" ELSE status[r]]
  /\ cancelReq' = [r \in Run |-> cancelReq[r] \/ (r \notin Background /\ status[r] \in Active)]
  /\ UNCHANGED <<dispatched, resumeReq, age, endpoint, prepareReq, life>> /\ EnvFrame

\* Mutant: a dispatched run is over at once too.
CancelRowAtOnce(S) ==
  /\ cancelReq' = [r \in Run |-> cancelReq[r] \/ r \in S]
  /\ status' = [r \in Run |-> IF r \in S THEN "cancelled" ELSE status[r]]

\* The row an undispatched run is left with by task_cancel and retirement.
CancelRow(S) ==
  /\ cancelReq' = [r \in Run |-> cancelReq[r] \/ r \in S]
  /\ status' = [r \in Run |-> IF r \in S /\ ~dispatched[r] THEN "cancelled" ELSE status[r]]

\* task_cancel, a tool of a run that still has control authority.
ToolCancel(r) ==
  /\ life = "live" /\ status[r] \in {"queued"} \cup Active
  /\ \E q \in Run : status[q] \in LiveStatus /\ ~cancelReq[q]
  /\ CancelRow({r})
  /\ UNCHANGED <<dispatched, resumeReq, age, endpoint, prepareReq, life>> /\ EnvFrame

\* requestRunResume, once the question of r is answered.
Answer(r) ==
  /\ status[r] \in LiveStatus /\ ~resumeReq[r]
  /\ resumeReq' = [resumeReq EXCEPT ![r] = TRUE]
  /\ UNCHANGED <<status, dispatched, cancelReq, age, endpoint, prepareReq, life>> /\ EnvFrame

\* retireCompanion.
Retire ==
  /\ life = "live"
  /\ life' = "retired" /\ prepareReq' = FALSE
  /\ CancelRow({r \in Run : status[r] \in {"queued"} \cup Active})
  /\ UNCHANGED <<dispatched, resumeReq, age, endpoint>> /\ EnvFrame

\* progressRetirements cancels a dispatched run on the machine, and settles it
\* once the daemon answered that it is over.
RetireCancel(r) ==
  /\ life = "retired" /\ leader # None /\ endpoint # 0
  /\ dispatched[r] /\ status[r] \in Active /\ Live(r)
  /\ AbortRoot(root[r], "cancelled")
  /\ UNCHANGED <<rowVars, age, machineVars, life, leader, tick, job, net, puts>>
RetireSettle(r) ==
  /\ life = "retired" /\ leader # None /\ endpoint # 0
  /\ dispatched[r] /\ status[r] \in Active /\ journal[r] \in Terminal
  /\ status' = [status EXCEPT ![r] = "cancelled"]
  /\ cancelReq' = [cancelReq EXCEPT ![r] = TRUE]
  /\ UNCHANGED <<dispatched, resumeReq, age, endpoint, prepareReq, life>> /\ EnvFrame

\* The machine is archived: its processes are gone, no request reaches it, and
\* every open run is over.
Archive ==
  /\ life = "retired" /\ leader # None
  /\ life' = "archived" /\ endpoint' = 0 /\ prepareReq' = FALSE
  /\ Restart
  /\ LET open == {r \in Run : status[r] \in {"queued"} \cup Active} IN
       /\ status' = [r \in Run |-> IF r \in open THEN "cancelled" ELSE status[r]]
       /\ cancelReq' = [r \in Run |-> cancelReq[r] \/ r \in open]
  /\ net' = {}
  /\ UNCHANGED <<dispatched, resumeReq, age, issued, leader, tick, job, puts>>

\* Lifecycle ends a preparation: a new endpoint (asked for again while skills
\* wait to be exported), or a failure that fails the runs that waited for it.
\* It waits for dispatched runs.
MachineReady ==
  /\ prepareReq /\ leader # None /\ life = "live" /\ issued < MaxEndpoint
  /\ \A r \in Run : ~(dispatched[r] /\ status[r] \in Active)
  /\ issued' = issued + 1 /\ endpoint' = issued + 1 /\ prepareReq' \in BOOLEAN
  /\ UNCHANGED <<daemonVars, rowVars, age, life, leader, tick, job, net, puts>>
MachineFails ==
  /\ prepareReq /\ leader # None /\ life = "live"
  /\ \A r \in Run : ~(dispatched[r] /\ status[r] \in Active)
  /\ prepareReq' = FALSE
  /\ status' = [r \in Run |-> IF status[r] \in {"queued", "preparing"} /\ ~dispatched[r]
                              THEN "failed" ELSE status[r]]
  /\ UNCHANGED <<dispatched, cancelReq, resumeReq, age, endpoint, life>> /\ EnvFrame

\* The owner may not start work, or the queue of machine starts is full.
MachineRefused ==
  /\ prepareReq /\ leader # None /\ life = "live"
  /\ prepareReq' = FALSE
  /\ UNCHANGED <<rowVars, age, endpoint, life>> /\ EnvFrame

\* observeBox found that the provider archived the idle computer.
MachineAsleep ==
  /\ ~prepareReq /\ endpoint # 0 /\ leader # None /\ life = "live"
  /\ endpoint' = 0
  /\ UNCHANGED <<rowVars, age, prepareReq, life>> /\ EnvFrame

Elapse(r) ==
  /\ status[r] \in Active /\ age[r] < 2
  /\ age' = [age EXCEPT ![r] = @ + 1]
  /\ UNCHANGED <<rowVars, endpoint, prepareReq, life>> /\ EnvFrame

-------------------------------------------------------------------------------
Tick == Lose \/ Deny \/ Claim \/ Wake \/ \E e \in Executor : Acquire(e)

Start(e, r) ==
  StartCancelled(e, r) \/ StartResume(e, r) \/ StartAdmission(e, r) \/ StartObservation(e, r)

Step(e, r) ==
  \/ Settle(e, r) \/ DropEndpoint(e, r) \/ StopWithoutAuthority(e, r)
  \/ AskPreparation(e, r) \/ Probe(e, r) \/ Prior(e, r) \/ Unready(e, r) \/ Stage(e, r)
  \/ Recheck(e, r) \/ Dispatch(e, r) \/ SendPut(e, r)
  \/ StopRun(e, r) \/ Peek(e, r) \/ Peeked(e, r) \/ Resumed(e, r)
  \/ CancelRun(e, r) \/ Observe(e, r) \/ Apply(e, r)

Error(e, r) == Fail(e, r) \/ ProbeFails(e, r)

Daemon ==
  \/ \E m \in net : DeliverPut(m) \/ DeliverCancel(m) \/ DeliverResume(m) \/ Refuse(m)
  \/ DaemonAlone

Environment ==
  \/ CancelChat \/ Retire \/ Archive \/ MachineReady \/ MachineFails \/ MachineRefused
  \/ MachineAsleep
  \/ \E r \in Run : \/ Submit(r) \/ CancelTask(r) \/ ToolCancel(r) \/ Answer(r)
                    \/ RetireCancel(r) \/ RetireSettle(r) \/ Elapse(r)

Next ==
  \/ Tick \/ Daemon \/ Environment
  \/ \E e \in Executor, r \in Run : Start(e, r) \/ Step(e, r) \/ Error(e, r)

Spec == Init /\ [][Next]_vars

\* A job never stops by itself: each await ends, with an answer or an error.
\* The executor's loop comes back to every active run (RunCoordinator takes the
\* least recently scheduled first), time passes, progressRetirements archives
\* what was retired and lifecycle ends a preparation that is asked for again
\* and again: its deadline of five minutes sees to that once it is admitted.
Fairness ==
  /\ WF_vars(Claim) /\ WF_vars(Wake)
  /\ SF_vars(MachineReady \/ MachineFails) /\ WF_vars(Archive)
  /\ \A r \in Run : WF_vars(Elapse(r))
  /\ \A e \in Executor, r \in Run :
       SF_vars(Start(e, r)) /\ WF_vars(Step(e, r) \/ Error(e, r))

FairSpec == Spec /\ Fairness

-------------------------------------------------------------------------------
(* Properties                                                              *)

\* A run is PUT to the daemon at most once, over all executors, restarts,
\* retries and reconnections: "recovery only observes this id".
AtMostOnePut == \A r \in Run : puts[r] <= 1

\* What the owner sees as cancelled the machine no longer works on, and never
\* will, a request still on its way included.
CancelledIsStopped ==
  \A r \in Run : status[r] = "cancelled" =>
    ~Live(r) /\ (journal[r] = "none" => [type |-> "put", run |-> r] \notin net)

\* Nobody is told "cancelled" of a dispatched run that nobody cancelled and that is within
\* its limit: stopping an orphan or a sibling hits no other background task, and a main
\* message only with the response it shares.  A run past its limit is cancelled on the
\* machine and settled as interrupted, unless the lead is lost in between: then the next
\* executor reads "cancelled" in the journal.
CancelledWasAsked ==
  \A r \in Run : dispatched[r] /\ status[r] = "cancelled" =>
    \/ cancelReq[r] \/ age[r] = 2
    \/ \E q \in Run \ {r} :
         root[r] # None /\ root[q] = root[r] /\ (Orphaned(q) \/ age[q] = 2)

\* The runs of RunExecution keep the contract: a queued or active run is open,
\* a parked run is working.
Contract == INSTANCE RunContract WITH
  report <- [r \in Run |-> IF status[r] \in {"queued"} \cup Active THEN "open" ELSE status[r]],
  intent <- dispatched,
  work <- [r \in Run |-> IF Live(r) THEN "working" ELSE journal[r]]

KeepsContract == Contract!Spec

\* While an executor keeps the lead, every claimed run is settled: a lost
\* machine, a lost answer or an unanswered question ends at its deadline.
ClaimedRunSettles ==
  <>[](leader # None) => \A r \in Run : status[r] \in Active ~> status[r] \in Terminal

\* docs/v0.md:71: "A suspended background task releases its lane": a background
\* task that the executor picks can be claimed although another one waits for
\* an answer.
SuspendedReleasesLane ==
  \A r, q \in Background :
    Claimable(r) /\ r # q /\ status[q] = "needs_input" => ~IndexConflict({r})

\* apps/server/src/tasks.ts:42: "Native steers share a Pi response root; only the
\* chat stop action may stop that group", all of the main lane at once.
ResponseStoppedFromChat ==
  [][\A r \in Run \ Background : dispatched[r] /\ ~cancelReq[r] /\ cancelReq'[r] =>
       \A q \in LiveGroup(root[r]) : cancelReq'[q]]_vars

\* docs/testing.md:188: "an ambiguous dispatch [...] is observed or
\* interrupted": only what the journal says failed is reported as failed.
AmbiguousIsInterrupted ==
  \A r \in Run : dispatched[r] /\ status[r] = "failed" => journal[r] = "failed"
===============================================================================
