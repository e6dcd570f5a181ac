---------------------------- MODULE DaemonContract ----------------------------
(***************************************************************************)
(* What the agent daemon of one computer promises its controller about the *)
(* run ids it is sent (packages/agent/src/journal.ts and daemon.ts): a     *)
(* durable journal that takes an id once, settles a response root together *)
(* with the messages steered into it, parks and resumes a root while a     *)
(* human is asked, and interrupts whatever a restart cut short.            *)
(*                                                                         *)
(* RunExecution composes the control plane with this contract;             *)
(* AgentDaemon is the daemon with its awaits, shown to implement it.       *)
(***************************************************************************)
EXTENDS FiniteSets

CONSTANTS
  Run,         \* the run ids of one Companion
  Background,  \* those of the background lane; the others are main-lane chat
  None

ASSUME DaemonAssumption == Background \subseteq Run /\ None \notin Run

VARIABLES
  journal,  \* journal[r]: status of r in runs.sqlite, "none" without a row
  root,     \* root[r]: the response root r was accepted into
  active    \* active[l]: activeRuns of the daemon, as /health reports it

daemonVars == <<journal, root, active>>

Lanes == {"main", "background"}
Lane(r) == IF r \in Background THEN "background" ELSE "main"
Terminal == {"succeeded", "failed", "interrupted", "cancelled"}
LiveStatus == {"running", "needs_input"}
JournalStatus == {"none"} \cup LiveStatus \cup Terminal

Live(r) == journal[r] \in LiveStatus

\* The live rows settleGroup and parkGroup update: WHERE response_root_id=...
LiveGroup(rt) == {q \in Run : root[q] = rt /\ Live(q)}

DaemonTypeOK ==
  /\ journal \in [Run -> JournalStatus]
  /\ root \in [Run -> Run \cup {None}]
  /\ active \in [Lanes -> Run \cup {None}]

DaemonInit ==
  /\ journal = [r \in Run |-> "none"]
  /\ root = [r \in Run |-> None]
  /\ active = [l \in Lanes |-> None]

-------------------------------------------------------------------------------

SetGroup(rt, st) ==
  journal' = [q \in Run |-> IF q \in LiveGroup(rt) THEN st ELSE journal[q]]

Vacate(rt) == active' = [l \in Lanes |-> IF active[l] = rt THEN None ELSE active[l]]

\* put, nothing accepts steers in the lane: r becomes a response root.
AcceptRoot(r) ==
  /\ journal[r] = "none"
  /\ r \in Background => active["background"] = None
  /\ journal' = [journal EXCEPT ![r] = "running"]
  /\ root' = [root EXCEPT ![r] = r]
  /\ active' = [active EXCEPT ![Lane(r)] = r]

\* put of a main message while the root rt accepts steers: r joins it, and is
\* parked if the root is.
AcceptSteer(r, rt) ==
  /\ journal[r] = "none" /\ r \notin Background
  /\ rt \notin Background /\ root[rt] = rt /\ Live(rt)
  /\ journal' = [journal EXCEPT ![r] = journal[rt]]
  /\ root' = [root EXCEPT ![r] = rt]
  /\ UNCHANGED active

\* Pi refused the steer: the accepted id is settled by itself.
SteerFails(r) ==
  /\ root[r] # r /\ Live(r)
  /\ journal' = [journal EXCEPT ![r] = "interrupted"]
  /\ UNCHANGED <<root, active>>

\* run() returns: the group settles and the lane is vacated in the same turn.
FinishRoot(rt, st) ==
  /\ LiveGroup(rt) # {} /\ st \in {"succeeded", "failed", "cancelled"}
  /\ SetGroup(rt, st)
  /\ Vacate(rt)
  /\ UNCHANGED root

\* cancel: the group settles; run() has yet to return and vacate the lane.
AbortRoot(rt, st) ==
  /\ LiveGroup(rt) # {} /\ st \in {"cancelled", "interrupted"}
  /\ SetGroup(rt, st)
  /\ UNCHANGED <<root, active>>

\* The aborted root's run() returns.
Release(rt) ==
  /\ \E l \in Lanes : active[l] = rt
  /\ LiveGroup(rt) = {}
  /\ Vacate(rt)
  /\ UNCHANGED <<journal, root>>

\* suspend: a background root leaves its lane, a main one keeps it.
ParkRoot(rt) ==
  /\ LiveGroup(rt) # {}
  /\ SetGroup(rt, "needs_input")
  /\ IF rt \in Background THEN Vacate(rt) ELSE UNCHANGED active
  /\ UNCHANGED root

\* resume: refused for a background root while another one holds the lane.
ResumeRoot(rt) ==
  /\ LiveGroup(rt) # {}
  /\ rt \in Background => active["background"] \in {None, rt}
  /\ SetGroup(rt, "running")
  /\ active' = [active EXCEPT ![Lane(rt)] = rt]
  /\ UNCHANGED root

\* A new daemon process: interruptUnfinished, and nothing in memory.
Restart ==
  /\ journal' = [r \in Run |-> IF Live(r) THEN "interrupted" ELSE journal[r]]
  /\ active' = [l \in Lanes |-> None]
  /\ UNCHANGED root

DaemonNext ==
  \/ \E r \in Run : AcceptRoot(r) \/ SteerFails(r)
  \/ \E r, rt \in Run : AcceptSteer(r, rt)
  \/ \E rt \in Run, st \in Terminal : FinishRoot(rt, st) \/ AbortRoot(rt, st)
  \/ \E rt \in Run : Release(rt) \/ ParkRoot(rt) \/ ResumeRoot(rt)
  \/ Restart

DaemonSpec == DaemonInit /\ [][DaemonNext]_daemonVars
===============================================================================
