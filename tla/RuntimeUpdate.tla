--------------------------- MODULE RuntimeUpdate ---------------------------
(***************************************************************************)
(* The runtime update of one Companion (apps/server/src/runtime-updates.ts)*)
(* driven by the executors over the installer of its Box.  An executor     *)
(* walks progressRuntimeUpdate one database transaction or one request at  *)
(* a time; between two of them the lease may pass to the other executor,   *)
(* which starts from the row.  A request to the Box may be delivered late, *)
(* and its sender may give up before the answer.                           *)
(***************************************************************************)
EXTENDS RuntimeInstaller

ASSUME Executors == Caller # {}

VARIABLES leader,      \* the executor that holds advisory lock 721440139
          past,        \* those that held it: an executor is its backend, a lock lost is lost to it
          job,         \* runtime_updates.state of each update; "none" before its row exists
          status,      \* companions.runtime_update_status
          run,         \* the Companion's run: "none", "claimed" in PostgreSQL, "sent" to the daemon
          ex,          \* the position of each executor and the job.state it remembers
          inbox        \* commands on their way to the Box

updateVars == <<leader, past, job, status, run, ex, inbox>>
vars == <<installerVars, updateVars>>

Open == {"staging", "draining", "applying", "verifying"}
Closed == {"succeeded", "deferred", "failed"}
Steps == {"idle", "health", "stage", "settle", "install", "drain", "apply", "await",
          "inspect", "accept", "verify", "close", "reopen", "commit"}
NoWork == [at |-> "idle", u |-> Nobody, js |-> "none", cmd |-> "none", code |-> "none", got |-> "none"]
Fenced == {"updating", "blocked"}

TypeOK ==
  /\ InstallerTypeOK
  /\ leader \in Caller
  /\ past \subseteq Caller
  /\ job \in [Update -> {"none"} \cup Open \cup Closed]
  /\ status \in {"pending", "updating", "blocked", "current", "deferred", "failed"}
  /\ run \in {"none", "claimed", "sent"}
  /\ ex \in [Caller -> [at : Steps \ {"idle"}, u : Update, js : Open, cmd : Commands \cup {"none", "status"},
                        code : Closed \cup {"none"}, got : Results] \cup {NoWork}]
  /\ inbox \subseteq [cmd : Commands, u : Update, owner : Caller \cup {Nobody}]

Init ==
  /\ InstallerInit
  /\ leader = CHOOSE e \in Caller : TRUE     \* the executors are alike
  /\ past = {}
  /\ job = [u \in Update |-> "none"]
  /\ status = "pending"
  /\ run = "none"
  /\ ex = [e \in Caller |-> NoWork]
  /\ inbox = {}

-----------------------------------------------------------------------------
\* Helpers

box == <<installed, candidate, retained, spare, journal, proc, faults>>
OpenJobs == {u \in Update : job[u] \in Open}
Go(e, step) == ex' = [ex EXCEPT ![e].at = step]
Leave(e) == ex' = [ex EXCEPT ![e] = NoWork]

\* guard(): the lease is held and the Companion is still the update's.
Guard(e) == leader = e /\ status \in Fenced

\* /health answers only from a daemon that runs.
Reachable == daemon.unit = "active"
IdleAgent == Reachable /\ ~daemon.run

\* Mutant: a transport error closes the update whatever its state was.
CaughtUnblocked(e) ==
  IF ~Guard(e) THEN Leave(e) /\ UNCHANGED status
  ELSE ex' = [ex EXCEPT ![e].at = "close", ![e].code = "deferred", ![e].js = "staging"] /\ UNCHANGED status

\* The catch of progressRuntimeUpdate: an update that only staged is deferred, any other is blocked.
\* An executor that lost its authority stops without a word.
Caught(e) ==
  IF ~Guard(e) THEN Leave(e) /\ UNCHANGED status
  ELSE IF ex[e].js = "staging"
       THEN ex' = [ex EXCEPT ![e].at = "close", ![e].code = "deferred"] /\ UNCHANGED status
       ELSE Leave(e) /\ status' = "blocked"

Close(e, code) == ex' = [ex EXCEPT ![e].at = "close", ![e].code = code, ![e].cmd = "none", ![e].got = "none"]

\* The sender is gone: what it sent may still run, its answer reaches nobody.
Abandoned(e) ==
  /\ answer' = [answer EXCEPT ![e] = "none"]
  /\ proc' = IF proc.owner = e THEN [proc EXCEPT !.owner = Nobody] ELSE proc
  /\ inbox' = {[m EXCEPT !.owner = IF @ = e THEN Nobody ELSE @] : m \in inbox}

\* phase(): written after the guard; the row keeps its verdict once it is closed.
Phase(e, state) ==
  LET u == ex[e].u IN job' = [job EXCEPT ![u] = IF job[u] \in Open THEN state ELSE @]

-----------------------------------------------------------------------------
\* The lease and the runs

TakeLease(e) ==
  /\ e \notin past \cup {leader}
  /\ leader' = e /\ past' = past \cup {leader}
  /\ UNCHANGED <<installerVars, job, status, run, ex, inbox>>

\* Mutant: the fence lets a blocked Companion's runs through.
ClaimBlocked ==
  /\ run = "none" /\ status # "updating"
  /\ run' = "claimed"
  /\ UNCHANGED <<installerVars, leader, past, job, status, ex, inbox>>

\* claimQueuedRuns locks the Companion row and passes a fenced one by.
Claim ==
  /\ run = "none" /\ status \notin Fenced
  /\ run' = "claimed"
  /\ UNCHANGED <<installerVars, leader, past, job, status, ex, inbox>>

Dispatch ==
  /\ run = "claimed" /\ Reachable
  /\ ~daemon.drained
  /\ run' = "sent"
  /\ daemon' = [daemon EXCEPT !.run = TRUE]
  /\ UNCHANGED <<box, answer, leader, past, job, status, ex, inbox>>

\* The run ends in the daemon and is settled, or the restarted daemon does not know it.
RunEnds ==
  /\ run \in {"claimed", "sent"}
  /\ run' = "none"
  /\ daemon' = [daemon EXCEPT !.run = FALSE]
  /\ UNCHANGED <<box, answer, leader, past, job, status, ex, inbox>>

-----------------------------------------------------------------------------
\* progressRuntimeUpdate

\* One tick: continue the open update, or admit one if nothing runs.
Tick(e) ==
  /\ ex[e] = NoWork /\ leader = e
  /\ \/ \E u \in OpenJobs :
          /\ ex' = [ex EXCEPT ![e] = [NoWork EXCEPT !.u = u, !.js = job[u],
               !.at = CASE job[u] = "staging" -> "health" [] job[u] = "draining" -> "install" [] OTHER -> "inspect",
               !.cmd = IF job[u] \in {"applying", "verifying"} THEN "status" ELSE "none"]]
          /\ UNCHANGED <<job, status>>
     \/ /\ OpenJobs = {} /\ status \notin {"current", "failed"} /\ run # "none"
        /\ status' = "deferred"                                  \* AGENT_BUSY
        /\ UNCHANGED <<job, ex>>
     \/ /\ OpenJobs = {} /\ status \notin {"current", "failed"} /\ run = "none"
        /\ \E u \in Update :
             /\ job[u] = "none"
             /\ job' = [job EXCEPT ![u] = "staging"]
             /\ ex' = [ex EXCEPT ![e] = [NoWork EXCEPT !.at = "health", !.u = u, !.js = "staging"]]
        /\ status' = "updating"
  /\ UNCHANGED <<installerVars, leader, past, run, inbox>>

\* staging: the machine may sleep, already run the target, or be busy.
StagingHealth(e) ==
  /\ ex[e].at = "health"
  /\ \/ Close(e, "deferred") /\ UNCHANGED <<daemon, status>>            \* not awake, or busy
     \/ /\ Reachable /\ daemon.exe = "new"
        /\ daemon' = [daemon EXCEPT !.drained = FALSE]
        /\ Close(e, "succeeded")
        /\ UNCHANGED status
     \/ IdleAgent /\ daemon.exe # "new" /\ Go(e, "stage") /\ UNCHANGED <<daemon, status>>
     \/ Caught(e) /\ UNCHANGED daemon
  /\ UNCHANGED <<box, answer, leader, past, job, run, inbox>>

\* Uploads, each after a guard; the probe may defer them.
Stage(e) ==
  /\ ex[e].at = "stage"
  /\ \/ Guard(e) /\ Close(e, "deferred") /\ UNCHANGED status
     \/ Guard(e) /\ Go(e, "settle") /\ UNCHANGED status
     \/ Caught(e)
  /\ UNCHANGED <<installerVars, leader, past, job, run, inbox>>

Settle(e) ==
  /\ ex[e].at = "settle"
  /\ \/ /\ IdleAgent /\ Guard(e)
        /\ Phase(e, "draining")
        /\ ex' = [ex EXCEPT ![e].at = "install", ![e].js = "draining"]
        /\ UNCHANGED status
     \/ Caught(e) /\ UNCHANGED job
  /\ UNCHANGED <<installerVars, leader, past, run, inbox>>

InstallHealth(e) ==
  /\ ex[e].at = "install"
  /\ \/ IdleAgent /\ Go(e, "drain") /\ UNCHANGED status
     \/ Caught(e)
  /\ UNCHANGED <<installerVars, leader, past, job, run, inbox>>

\* POST /maintenance: refused while the daemon works; its answer may be lost.
Drain(e) ==
  /\ ex[e].at = "drain"
  /\ \/ /\ IdleAgent
        /\ daemon' = [daemon EXCEPT !.drained = TRUE]
        /\ \/ Go(e, "apply") /\ UNCHANGED status
           \/ Caught(e)
     \/ Caught(e) /\ UNCHANGED daemon
  /\ UNCHANGED <<box, answer, leader, past, job, run, inbox>>

\* The phase is written before the command leaves.
SendApply(e) ==
  /\ ex[e].at = "apply"
  /\ \/ /\ Guard(e)
        /\ Phase(e, "applying")
        /\ \/ inbox' = inbox \cup {[cmd |-> "apply", u |-> ex[e].u, owner |-> e]}
           \/ UNCHANGED inbox                               \* lost on its way
        /\ ex' = [ex EXCEPT ![e].at = "await", ![e].js = "applying", ![e].cmd = "apply"]
        /\ UNCHANGED status
     \/ Caught(e) /\ UNCHANGED <<job, inbox>>
  /\ UNCHANGED <<installerVars, leader, past, run>>

\* The Box starts a command: its own update.lock decides what it does.
Deliver ==
  /\ \E m \in inbox :
       /\ inbox' = inbox \ {m}
       /\ Begin(m.cmd, m.u, m.owner)
  /\ UNCHANGED <<installed, candidate, retained, spare, journal, daemon, faults, leader, past, job, status, run, ex>>

\* The answer of apply, reconcile or rollback, or none within 120 seconds: the command lives on.
Await(e) ==
  /\ ex[e].at = "await"
  /\ \/ /\ answer[e] # "none"
        /\ answer' = [answer EXCEPT ![e] = "none"]
        /\ ex' = [ex EXCEPT ![e].at = "accept", ![e].cmd = "none", ![e].got = answer[e]]
        /\ UNCHANGED <<proc, inbox, status>>
     \/ /\ Abandoned(e)
        /\ Caught(e)
  /\ UNCHANGED <<installed, candidate, retained, spare, journal, daemon, faults, leader, past, job, run>>

\* Mutant: an unfinished journal is taken for an installer at work.
InspectPatient(e) ==
  /\ ex[e].at = "inspect"
  /\ LET s == Status(ex[e].u) IN
     \/ /\ Guard(e) /\ ex[e].cmd = "status"
        /\ ex' = [ex EXCEPT ![e].at = "accept", ![e].got = IF s = "pending" THEN "in_progress" ELSE s]
        /\ UNCHANGED <<inbox, status>>
     \/ /\ Guard(e) /\ ex[e].cmd = "rollback"
        /\ inbox' = inbox \cup {[cmd |-> "rollback", u |-> ex[e].u, owner |-> e]}
        /\ Go(e, "await")
        /\ UNCHANGED status
  /\ UNCHANGED <<installerVars, leader, past, job, run>>

\* status, then reconcile if the journal is unfinished or failed.
Inspect(e) ==
  /\ ex[e].at = "inspect"
  /\ LET u == ex[e].u
         s == Status(u) IN
     \/ /\ Guard(e) /\ ex[e].cmd = "status" /\ s \notin {"pending", "failed"}
        /\ ex' = [ex EXCEPT ![e].at = "accept", ![e].cmd = "none", ![e].got = s]
        /\ UNCHANGED <<inbox, status>>
     \/ /\ Guard(e) /\ ex[e].cmd = "status" /\ s \in {"pending", "failed"}
        /\ ex' = [ex EXCEPT ![e].cmd = "reconcile"]
        /\ UNCHANGED <<inbox, status>>
     \/ /\ Guard(e) /\ ex[e].cmd \in {"reconcile", "rollback"}
        /\ inbox' = inbox \cup {[cmd |-> ex[e].cmd, u |-> u, owner |-> e]}
        /\ Go(e, "await")
        /\ UNCHANGED status
     \/ Caught(e) /\ UNCHANGED inbox
  /\ UNCHANGED <<installerVars, leader, past, job, run>>

Accept(e) ==
  /\ ex[e].at = "accept"
  /\ CASE ex[e].got = "in_progress" -> Leave(e) /\ UNCHANGED <<job, status>>
       [] ex[e].got = "succeeded" ->
            \/ /\ Guard(e)
               /\ Phase(e, "verifying")
               /\ ex' = [ex EXCEPT ![e].at = "verify", ![e].js = "verifying", ![e].got = "none"]
               /\ UNCHANGED status
            \/ ~Guard(e) /\ Caught(e) /\ UNCHANGED job
       [] ex[e].got = "deferred" -> Close(e, "deferred") /\ UNCHANGED <<job, status>>
       [] ex[e].got = "rolled_back" -> Close(e, "failed") /\ UNCHANGED <<job, status>>
       [] OTHER -> Caught(e) /\ UNCHANGED job
  /\ UNCHANGED <<installerVars, leader, past, run, inbox>>

\* Five health polls for the target version; if they fail, the installer is asked to roll back.
Verify(e) ==
  /\ ex[e].at = "verify"
  /\ \/ /\ Reachable /\ daemon.exe = "new"
        /\ daemon' = [daemon EXCEPT !.drained = FALSE]
        /\ Close(e, "succeeded")
        /\ UNCHANGED status
     \/ /\ ex' = [ex EXCEPT ![e].at = "inspect", ![e].cmd = "rollback"]
        /\ UNCHANGED <<daemon, status>>
     \/ Caught(e) /\ UNCHANGED daemon
  /\ UNCHANGED <<box, answer, leader, past, job, run, inbox>>

\* finish(): the guard comes first; a daemon that was drained is reopened once it answers idle.
FinishGuard(e) ==
  /\ ex[e].at = "close"
  /\ \/ /\ Guard(e)
        /\ Go(e, IF ex[e].code = "succeeded" \/ ex[e].js = "staging" THEN "commit" ELSE "reopen")
        /\ UNCHANGED status
     \/ /\ ~Guard(e) \/ ex[e].js # "staging"
        /\ Caught(e)
  /\ UNCHANGED <<installerVars, leader, past, job, run, inbox>>

FinishReopen(e) ==
  /\ ex[e].at = "reopen"
  /\ \/ /\ IdleAgent
        /\ daemon' = [daemon EXCEPT !.drained = FALSE]
        /\ Go(e, "commit")
        /\ UNCHANGED status
     \/ Caught(e) /\ UNCHANGED daemon
  /\ UNCHANGED <<box, answer, leader, past, job, run, inbox>>

\* The transaction: the guard and the two updates.
FinishCommit(e) ==
  /\ ex[e].at = "commit"
  /\ IF Guard(e)
     THEN /\ job' = [job EXCEPT ![ex[e].u] = ex[e].code]
          /\ status' = IF ex[e].code = "succeeded" THEN "current" ELSE ex[e].code
          /\ Leave(e)
     ELSE Leave(e) /\ UNCHANGED <<job, status>>
  /\ UNCHANGED <<installerVars, leader, past, run, inbox>>

\* The process of an executor dies with its position.
ExecutorDies(e) ==
  /\ ex[e] # NoWork
  /\ Fault
  /\ Leave(e)
  /\ Abandoned(e)
  /\ UNCHANGED <<installed, candidate, retained, spare, journal, daemon, leader, past, job, status, run>>

\* A step of the Box leaves PostgreSQL and the executors alone.
Box(Step) == Step /\ UNCHANGED updateVars

Next ==
  \/ Box(ApplyRead) \/ Box(ApplyPreflight) \/ Box(ApplyCopy) \/ Box(ApplyReady)
  \/ Box(ApplyFreeze) \/ Box(ApplyFrozen) \/ Box(ApplyStop) \/ Box(ApplyExchange)
  \/ Box(ApplyRename) \/ Box(ApplyStart) \/ Box(ApplyVerify)
  \/ Box(RollbackBegin) \/ Box(RollbackStop) \/ Box(RollbackSwap) \/ Box(RollbackStart)
  \/ Box(ReconcileRead) \/ Box(ReconcileStart)
  \/ Box(RollbackRead) \/ Box(RollbackCopy) \/ Box(RequestedStop) \/ Box(RequestedSwap)
  \/ Box(RequestedStart) \/ Box(Killed) \/ Box(DaemonRestarts) \/ Box(BoxRestarts)
  \/ Claim \/ Dispatch \/ RunEnds \/ Deliver
  \/ \E e \in Caller :
       \/ TakeLease(e) \/ Tick(e) \/ StagingHealth(e) \/ Stage(e) \/ Settle(e) \/ InstallHealth(e)
       \/ Drain(e) \/ SendApply(e) \/ Await(e) \/ Inspect(e) \/ Accept(e) \/ Verify(e)
       \/ FinishGuard(e) \/ FinishReopen(e) \/ FinishCommit(e) \/ ExecutorDies(e)

\* Each job of an executor takes its next step (ExecutorManager runs it, requests time out), the
\* leader ticks, the Box runs what it received and the installer, while it lives, goes on.
Fairness ==
  /\ WF_vars(Box(Installing))
  /\ WF_vars(Deliver)
  /\ \A e \in Caller :
       WF_vars(\/ Tick(e) \/ StagingHealth(e) \/ Stage(e) \/ Settle(e) \/ InstallHealth(e) \/ Drain(e)
               \/ SendApply(e) \/ Await(e) \/ Inspect(e) \/ Accept(e) \/ Verify(e)
               \/ FinishGuard(e) \/ FinishReopen(e) \/ FinishCommit(e))

Spec == Init /\ [][Next]_vars /\ Fairness

-----------------------------------------------------------------------------
\* Properties

\* A run is never in the daemon when an installation stops it: the fence, the idle checks and the
\* maintenance flag keep every dispatch out until the update is closed, across timeouts, changes of
\* the lease and restarts.
StopFindsNoRun ==
  [][daemon.unit # "stopped" /\ daemon'.unit = "stopped" /\ daemon.run => proc.cmd = "rollback"]_vars

\* The old runtime files stay in some directory of the Box, wherever the installer or the Box
\* stopped: an update can always be taken back.
OldFilesKept == \/ installed = "old"
                \/ \E u \in Update : "old" \in {candidate[u], retained[u], spare[u]}

RollbackUnderWay == \/ proc.cmd = "rollback"
                    \/ \E m \in inbox : m.cmd = "rollback"
                    \/ \E u \in Update : job[u] = "succeeded" /\ journal[u].state # "succeeded"

\* When the fence is down no installer is past its journal, and the daemon runs the files that the
\* verdict names.  A rollback asked for by an executor that gave up is the one exception.
OpenedIsQuiet ==
  (status \in {"deferred", "failed"} \/ (status = "current" /\ ~RollbackUnderWay)) =>
    /\ proc.at \in {"idle", "read"}
    /\ daemon.unit = "active"
    /\ daemon.exe = installed
    /\ installed = IF status = "current" THEN "new" ELSE "old"

\* An admitted update reaches a verdict or is reported blocked: the fence is never up in silence.
UpdateSettles == \A u \in Update : job[u] \in Open ~> (job[u] \in Closed \/ status = "blocked")

\* docs/runtime-updates.md says the phase of an update is recorded before external effects and that
\* dispatch resumes once the new runtime is confirmed: a Companion marked current keeps the target.
\* The request to roll back is not recorded, so a later tick can overtake it.
CurrentKeepsTarget == status = "current" => installed = "new"

\* docs/runtime-updates.md says a deferred update leaves normal work available.
DeferredLeavesWork == status = "deferred" => ~daemon.drained
=============================================================================
