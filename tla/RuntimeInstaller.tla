-------------------------- MODULE RuntimeInstaller --------------------------
(***************************************************************************)
(* The installer that replaces the runtime files of a Box                  *)
(* (packages/box/linux/update-runtime.py), beside the daemon it stops and  *)
(* starts.  One process at a time holds update.lock; it may die between    *)
(* any two of its effects, and the Box may restart.  A step below is one   *)
(* effect on the Box together with the journal entry written before it;    *)
(* proc.at names the effect that comes next.  The four runtime files are   *)
(* one value, "old" or "new"; RuntimeUpdate gives the commands.            *)
(***************************************************************************)
EXTENDS Naturals, FiniteSets

CONSTANTS Update,     \* identities of updates: each names its own journal and directories
          Caller,     \* executors that may wait for an answer
          MaxFaults   \* bound on deaths of the installer and restarts of the Box

\* An identity is a UUID, a caller a backend PID; neither is the mark of an absent one.
ASSUME Nobodies == "nobody" \notin Update \cup Caller
ASSUME FaultBound == MaxFaults \in Nat

VARIABLES installed,  \* what /opt/companions holds
          candidate,  \* -runtime-new-<id>: a copy in the making, "torn" while unfinished
          retained,   \* -runtime-old-<id>
          spare,      \* -runtime-rollback-<id>-<attempt>, the one the journal names
          journal,    \* the journal of each update, as last replaced on disk
          daemon,     \* the agent service: its unit state, its executable, its maintenance flag, its run
          proc,       \* the installer process that holds update.lock
          answer,     \* the result printed to a caller that still waits
          faults

installerVars == <<installed, candidate, retained, spare, journal, daemon, proc, answer, faults>>

Nobody == "nobody"
Files == {"none", "torn", "old", "new"}
States == {"pending", "deferred", "succeeded", "rolled_back", "failed"}
Results == {"none", "not_started", "in_progress"} \cup States
Phases == {"preflight_pending", "preflight", "copy_pending", "candidate_ready", "freeze_pending",
           "frozen", "stop_pending", "swap_pending", "start_pending", "complete", "failed",
           "rolled_back", "rollback_stop_pending", "rollback_copy_pending", "rollback_swap_pending"}
Places == {"idle", "read", "preflight", "copy", "ready", "freeze", "frozen", "stop", "exchange",
           "rename", "start", "verify", "rb", "rb_stop", "rb_swap", "rb_start", "rc_start",
           "rr_copy", "rr_stop", "rr_swap", "rr_start"}
Commands == {"apply", "reconcile", "rollback"}

NoJournal == [state |-> "none", phase |-> "none", old |-> "none", wasActive |-> FALSE, frozen |-> FALSE]
Idle == [cmd |-> "none", u |-> Nobody, at |-> "idle", owner |-> Nobody]

InstallerTypeOK ==
  /\ installed \in {"old", "new"}
  /\ candidate \in [Update -> Files]
  /\ retained \in [Update -> Files]
  /\ spare \in [Update -> Files]
  /\ journal \in [Update -> [state : States, phase : Phases, old : {"old", "new"},
                             wasActive : BOOLEAN, frozen : BOOLEAN] \cup {NoJournal}]
  /\ daemon \in [unit : {"active", "frozen", "stopped"}, exe : {"none", "old", "new"},
                 drained : BOOLEAN, run : BOOLEAN]
  /\ proc \in [cmd : Commands, u : Update, at : Places \ {"idle"}, owner : Caller \cup {Nobody}] \cup {Idle}
  /\ answer \in [Caller -> Results]
  /\ faults \in 0..MaxFaults

InstallerInit ==
  /\ installed = "old"
  /\ candidate = [u \in Update |-> "none"]
  /\ retained = [u \in Update |-> "none"]
  /\ spare = [u \in Update |-> "none"]
  /\ journal = [u \in Update |-> NoJournal]
  /\ daemon = [unit |-> "active", exe |-> "old", drained |-> FALSE, run |-> FALSE]
  /\ proc = Idle
  /\ answer = [c \in Caller |-> "none"]
  /\ faults = 0

-----------------------------------------------------------------------------
\* What the effects do.

dirs == <<installed, candidate, retained, spare>>
id == proc.u

At(place) == proc' = [proc EXCEPT !.at = place]
\* Mutant: the two arguments of persist change places.
PersistSwapped(phase, state) == journal' = [journal EXCEPT ![id].phase = state, ![id].state = phase]
Persist(phase, state) == journal' = [journal EXCEPT ![id].phase = phase, ![id].state = state]
Mark(phase, frozen) == journal' = [journal EXCEPT ![id].phase = phase, ![id].frozen = frozen]
Keep == UNCHANGED journal

\* The process prints its result and exits; update.lock is released with it.
End(result) ==
  /\ proc' = Idle
  /\ answer' = IF proc.owner \in Caller THEN [answer EXCEPT ![proc.owner] = result] ELSE answer

Running == [unit |-> "active", exe |-> installed, drained |-> FALSE, run |-> FALSE]
Stopped == [unit |-> "stopped", exe |-> "none", drained |-> FALSE, run |-> FALSE]
\* systemctl start leaves a service alone that is already active.
Start == daemon' = IF daemon.unit = "stopped" THEN Running ELSE daemon
Stop == daemon' = Stopped
Thaw == daemon' = IF daemon.unit = "frozen" THEN [daemon EXCEPT !.unit = "active"] ELSE daemon
Active == daemon.unit # "stopped"    \* systemctl is-active holds of a frozen unit too

\* The lowest names of a journal that may have left the service frozen.
MayBeFrozen(j) == j.frozen \/ j.phase \in {"freeze_pending", "frozen", "stop_pending"}

\* preflight(): every refusal is one of the DEFERRED codes.  A stopped service is always refused,
\* a run that has a child process is; the other checks may refuse at any time.
Preflight(ok) == ok => Active

-----------------------------------------------------------------------------
\* apply()

ApplyRead ==
  /\ proc.at = "read" /\ proc.cmd = "apply"
  /\ LET j == journal[id] IN
     \/ /\ j.state \in {"succeeded", "rolled_back", "failed"}
        /\ End(j.state)
        /\ Keep
     \/ /\ \/ j.state = "pending"            \* RECOVERY_REQUIRED
           \/ j.state \in {"none", "deferred"}   \* the staged files are refused
        /\ End("failed")
        /\ Keep
     \/ /\ j.state \in {"none", "deferred"}
        /\ journal' = [journal EXCEPT ![id] =
             [state |-> "pending", phase |-> "preflight_pending", old |-> installed,
              wasActive |-> Active, frozen |-> FALSE]]
        /\ At("preflight")
        /\ UNCHANGED answer
  /\ UNCHANGED <<dirs, daemon, faults>>

ApplyPreflight ==
  /\ proc.at = "preflight"
  /\ \E ok \in BOOLEAN :
       /\ Preflight(ok)
       /\ IF ok THEN /\ Persist("copy_pending", "pending")
                     /\ At("copy")
                     /\ UNCHANGED answer
                ELSE /\ Persist("preflight", "deferred")
                     /\ End("deferred")
  /\ UNCHANGED <<dirs, daemon, faults>>

\* The copy of the installed directory receives the staged files; an earlier copy is only checked.
ApplyCopy ==
  /\ proc.at = "copy"
  /\ \/ candidate[id] = "none" /\ candidate' = [candidate EXCEPT ![id] = "torn"] /\ At("copy")
     \/ candidate[id] # "none" /\ candidate' = [candidate EXCEPT ![id] = "new"] /\ At("ready")
     \/ UNCHANGED candidate /\ At("rb")
  /\ UNCHANGED <<installed, retained, spare, journal, daemon, answer, faults>>

\* candidate_ready, and the second preflight: its refusal is an error of the installation.
ApplyReady ==
  /\ proc.at = "ready"
  /\ \E ok \in BOOLEAN :
       /\ Preflight(ok)
       /\ IF ok THEN Persist("freeze_pending", "pending") /\ At("freeze")
                ELSE Persist("candidate_ready", "pending") /\ At("rb")
  /\ UNCHANGED <<dirs, daemon, answer, faults>>

ApplyFreeze ==
  /\ proc.at = "freeze"
  /\ \/ /\ Active
        /\ daemon' = [daemon EXCEPT !.unit = "frozen"]
        /\ At("frozen")
        /\ UNCHANGED <<journal, answer>>
     \/ /\ Thaw                                  \* FREEZE_UNAVAILABLE
        /\ Persist("preflight", "deferred")
        /\ End("deferred")
  /\ UNCHANGED <<dirs, faults>>

\* The third preflight, while no process of the service can start another.
ApplyFrozen ==
  /\ proc.at = "frozen"
  /\ \E ok \in BOOLEAN :
       /\ Preflight(ok)
       /\ IF ok THEN /\ Mark("stop_pending", TRUE)
                     /\ At("stop")
                     /\ UNCHANGED <<daemon, answer>>
                ELSE /\ Thaw
                     /\ Persist("preflight", "deferred")
                     /\ End("deferred")
  /\ UNCHANGED <<dirs, faults>>

ApplyStop ==
  /\ proc.at = "stop"
  /\ \/ /\ Stop
        /\ Mark("swap_pending", FALSE)
        /\ At("exchange")
     \/ UNCHANGED <<daemon, journal>> /\ At("rb")
  /\ UNCHANGED <<dirs, answer, faults>>

\* Mutant: the candidate is moved over the installed directory.
ApplyReplace ==
  /\ proc.at = "exchange"
  /\ installed' = candidate[id]
  /\ candidate' = [candidate EXCEPT ![id] = "none"]
  /\ At("rename")
  /\ UNCHANGED <<retained, spare, journal, daemon, answer, faults>>

\* renameat2 exchanges the two directories in one step; the new name of the old one is a second step.
ApplyExchange ==
  /\ proc.at = "exchange"
  /\ \/ /\ installed' = candidate[id]
        /\ candidate' = [candidate EXCEPT ![id] = installed]
        /\ At("rename")
     \/ UNCHANGED <<installed, candidate>> /\ At("rb")
  /\ UNCHANGED <<retained, spare, journal, daemon, answer, faults>>

ApplyRename ==
  /\ proc.at = "rename"
  /\ \/ /\ retained' = [retained EXCEPT ![id] = candidate[id]]
        /\ candidate' = [candidate EXCEPT ![id] = "none"]
        /\ Persist("start_pending", "pending")
        /\ At("start")
     \/ UNCHANGED <<retained, candidate, journal>> /\ At("rb")
  /\ UNCHANGED <<installed, spare, daemon, answer, faults>>

ApplyStart ==
  /\ proc.at = "start"
  /\ \/ Start /\ At("verify")
     \/ UNCHANGED daemon /\ At("rb")
  /\ UNCHANGED <<dirs, journal, answer, faults>>

ApplyVerify ==
  /\ proc.at = "verify"
  /\ \/ /\ installed = "new" /\ Active /\ daemon.exe = "new"
        /\ Persist("complete", "succeeded")
        /\ End("succeeded")
     \/ At("rb") /\ UNCHANGED <<journal, answer>>
  /\ UNCHANGED <<dirs, daemon, faults>>

-----------------------------------------------------------------------------
\* rollback(): what a failed apply or reconcile does before it prints its result.

RollbackFails ==
  /\ Persist("failed", "failed")
  /\ End("failed")

RollbackBegin ==
  /\ proc.at = "rb"
  /\ IF MayBeFrozen(journal[id]) THEN Thaw ELSE UNCHANGED daemon
  /\ LET swapped == installed = "new" /\ retained[id] # "none" IN
     /\ Mark(IF swapped THEN "rollback_stop_pending" ELSE journal[id].phase, FALSE)
     /\ At(IF swapped THEN "rb_stop" ELSE "rb_start")
  /\ UNCHANGED <<dirs, answer, faults>>

RollbackStop ==
  /\ proc.at = "rb_stop"
  /\ \/ Stop /\ Persist("rollback_swap_pending", "pending") /\ At("rb_swap") /\ UNCHANGED answer
     \/ RollbackFails /\ UNCHANGED daemon
  /\ UNCHANGED <<dirs, faults>>

RollbackSwap ==
  /\ proc.at = "rb_swap"
  /\ \/ /\ installed' = retained[id]
        /\ retained' = [retained EXCEPT ![id] = installed]
        /\ At("rb_start")
        /\ UNCHANGED <<journal, answer>>
     \/ RollbackFails /\ UNCHANGED <<installed, retained>>
  /\ UNCHANGED <<candidate, spare, daemon, faults>>

\* The old daemon must answer, from the old files.
RollbackStart ==
  /\ proc.at = "rb_start"
  /\ \/ /\ IF journal[id].wasActive THEN Start /\ daemon'.exe = journal[id].old
                                    ELSE UNCHANGED daemon
        /\ installed = journal[id].old
        /\ Persist("rolled_back", "rolled_back")
        /\ End("rolled_back")
     \/ /\ \/ journal[id].wasActive /\ Start
           \/ UNCHANGED daemon
        /\ RollbackFails
  /\ UNCHANGED <<dirs, faults>>

-----------------------------------------------------------------------------
\* reconcile(): finishes what a process left pending, forward if the new files are in place.

ReconcileRead ==
  /\ proc.at = "read" /\ proc.cmd = "reconcile"
  /\ LET j == journal[id] IN
     \/ j.state = "none" /\ End("not_started")
     \/ j.state \notin {"none", "pending"} /\ End(j.state)
     \/ /\ j.state = "pending"
        /\ proc' = IF j.phase \in {"rollback_stop_pending", "rollback_copy_pending", "rollback_swap_pending"}
                   THEN [proc EXCEPT !.cmd = "rollback"]
                   ELSE [proc EXCEPT !.at = IF installed = "new" THEN "rc_start" ELSE "rb"]
        /\ UNCHANGED answer
  /\ UNCHANGED <<dirs, journal, daemon, faults>>

\* The rename and the start that may be missing, then the verdict.
ReconcileStart ==
  /\ proc.at = "rc_start"
  /\ LET rename == retained[id] = "none" /\ candidate[id] # "none" IN
     /\ retained' = [retained EXCEPT ![id] = IF rename THEN candidate[id] ELSE @]
     /\ candidate' = [candidate EXCEPT ![id] = IF rename THEN "none" ELSE @]
  /\ \/ /\ IF journal[id].wasActive THEN Start ELSE UNCHANGED daemon
        /\ Persist("complete", "succeeded")
        /\ End("succeeded")
     \/ UNCHANGED daemon /\ At("rb") /\ UNCHANGED <<journal, answer>>
  /\ UNCHANGED <<installed, spare, faults>>

-----------------------------------------------------------------------------
\* requested_rollback(): the executor found the new daemon unhealthy, or a rollback was interrupted.

RollbackRead ==
  /\ proc.at = "read" /\ proc.cmd = "rollback"
  /\ LET j == journal[id] IN
     \/ /\ j.state \in {"none", "rolled_back"}
        /\ End(IF j.state = "none" THEN "not_started" ELSE "rolled_back")
        /\ UNCHANGED <<journal, daemon>>
     \/ /\ j.state \notin {"none", "rolled_back"} /\ installed = j.old
        /\ daemon' = CASE MayBeFrozen(j) /\ daemon.unit = "frozen" -> [daemon EXCEPT !.unit = "active"]
                       [] j.wasActive /\ daemon.unit = "stopped" -> Running
                       [] OTHER -> daemon
        /\ \/ /\ j.wasActive => daemon'.exe = j.old
              /\ journal' = [journal EXCEPT ![id] =
                   [@ EXCEPT !.frozen = FALSE, !.phase = "rolled_back", !.state = "rolled_back"]]
              /\ End("rolled_back")
           \/ End("failed") /\ Keep                     \* ROLLBACK_FAILED
     \/ /\ j.state \notin {"none", "rolled_back"} /\ installed # j.old
        /\ IF retained[id] # j.old
           THEN End("failed") /\ Keep                   \* ROLLBACK_UNAVAILABLE
           ELSE /\ IF spare[id] # j.old
                   THEN Persist("rollback_copy_pending", "pending")
                   ELSE Keep
                /\ At("rr_copy")
                /\ UNCHANGED answer
        /\ UNCHANGED daemon
  /\ UNCHANGED <<dirs, faults>>

\* A spare that does not hold the old files is left behind for a fresh name.
RollbackCopy ==
  /\ proc.at = "rr_copy"
  /\ \/ /\ spare[id] = journal[id].old
        /\ Persist("rollback_stop_pending", "pending")
        /\ At("rr_stop")
        /\ UNCHANGED <<spare, answer>>
     \/ /\ spare[id] # journal[id].old
        /\ spare' = [spare EXCEPT ![id] = IF spare[id] = "torn" THEN journal[id].old ELSE "torn"]
        /\ At("rr_copy")
        /\ UNCHANGED <<journal, answer>>
     \/ /\ spare[id] # journal[id].old
        /\ End("failed")
        /\ UNCHANGED <<spare, journal>>
  /\ UNCHANGED <<installed, candidate, retained, daemon, faults>>

RequestedStop ==
  /\ proc.at = "rr_stop"
  /\ \/ Stop /\ Persist("rollback_swap_pending", "pending") /\ At("rr_swap") /\ UNCHANGED answer
     \/ End("failed") /\ UNCHANGED <<daemon, journal>>
  /\ UNCHANGED <<dirs, faults>>

RequestedSwap ==
  /\ proc.at = "rr_swap"
  /\ \/ /\ installed' = spare[id]
        /\ spare' = [spare EXCEPT ![id] = installed]
        /\ At("rr_start")
        /\ UNCHANGED answer
     \/ End("failed") /\ UNCHANGED <<installed, spare>>
  /\ UNCHANGED <<candidate, retained, journal, daemon, faults>>

RequestedStart ==
  /\ proc.at = "rr_start"
  /\ IF journal[id].wasActive THEN Start ELSE UNCHANGED daemon
  /\ \/ /\ journal[id].wasActive => daemon'.exe = journal[id].old
        /\ Persist("rolled_back", "rolled_back")
        /\ End("rolled_back")
     \/ journal[id].wasActive /\ End("failed") /\ Keep
  /\ UNCHANGED <<dirs, faults>>

-----------------------------------------------------------------------------
\* Faults: the installer is killed, the daemon dies and systemd restarts it, the Box restarts.

Fault == faults < MaxFaults /\ faults' = faults + 1

Killed ==
  /\ proc # Idle
  /\ Fault
  /\ proc' = Idle
  /\ UNCHANGED <<dirs, journal, daemon, answer>>

DaemonRestarts ==
  /\ daemon.unit = "active"
  /\ Fault
  /\ daemon' = Running
  /\ UNCHANGED <<dirs, journal, proc, answer>>

BoxRestarts ==
  /\ Fault
  /\ daemon' = Running
  /\ proc' = Idle
  /\ UNCHANGED <<dirs, journal, answer>>

Installing ==
  \/ ApplyRead \/ ApplyPreflight \/ ApplyCopy \/ ApplyReady \/ ApplyFreeze \/ ApplyFrozen
  \/ ApplyStop \/ ApplyExchange \/ ApplyRename \/ ApplyStart \/ ApplyVerify
  \/ RollbackBegin \/ RollbackStop \/ RollbackSwap \/ RollbackStart
  \/ ReconcileRead \/ ReconcileStart
  \/ RollbackRead \/ RollbackCopy \/ RequestedStop \/ RequestedSwap \/ RequestedStart

\* The lock: a command that finds it held reports UPDATE_IN_PROGRESS and does nothing.
Begin(cmd, update, owner) ==
  IF proc # Idle
  THEN /\ answer' = IF owner \in Caller THEN [answer EXCEPT ![owner] = "in_progress"] ELSE answer
       /\ UNCHANGED proc
  ELSE /\ proc' = [cmd |-> cmd, u |-> update, at |-> "read", owner |-> owner]
       /\ UNCHANGED answer

\* status takes no lock and reads the journal as it stands.
Status(update) == IF journal[update].state = "none" THEN "not_started" ELSE journal[update].state
=============================================================================
