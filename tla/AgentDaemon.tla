------------------------------ MODULE AgentDaemon ------------------------------
(***************************************************************************)
(* The agent daemon of a Companion's computer (packages/agent/src/         *)
(* daemon.ts) with the executor it drives (pi-executor.ts).  It is one     *)
(* thread, so a handler runs alone between two awaits; what interleaves is *)
(* the rest of a cancel, which waits for the session to abort, the rest of *)
(* a suspend or resume, an execution that cleans up after its agent ended, *)
(* and steered submissions.  The daemon implements DaemonContract.         *)
(***************************************************************************)
EXTENDS Naturals, FiniteSets

CONSTANTS
  Run,         \* the run ids of one Companion
  Background,  \* those of the background lane; the others are main-lane chat
  None,
  MaxCalls     \* bound on concurrent cancels of a response, and on uploads

ASSUME AgentAssumption == Background \subseteq Run /\ None \notin Run /\ MaxCalls \in Nat \ {0}

VARIABLES
  journal, root, active,  \* as in DaemonContract
  cancelling,   \* roots a cancel is under way for
  parkedRuns,   \* roots parked on a question
  resuming,     \* resumingBackground
  maintenance,
  mutations,    \* configuration or file requests under way
  exec,         \* exec[r]: "none", "working", "closing" (cleaning up)
  result,       \* result[r]: what the agent of a closing execution made of it
  accepting,    \* executions that take steered messages
  held,         \* executions parked in the executor (ActiveExecution.parked)
  submitted,    \* steered messages not yet taken by their session
  aborts,       \* aborts[r]: cancels of root r that wait for its session
  parks         \* suspends and resumes that wait for the executor

execVars == <<exec, result, accepting, held>>
callVars == <<submitted, aborts, parks>>
vars == <<journal, root, active, cancelling, parkedRuns, resuming, maintenance, mutations,
          execVars, callVars>>

Contract == INSTANCE DaemonContract

Lane(r) == Contract!Lane(r)
Live(r) == Contract!Live(r)
SetGroup(rt, st) == Contract!SetGroup(rt, st)
Park == [run : Run, parked : BOOLEAN]

TypeOK ==
  /\ Contract!DaemonTypeOK
  /\ cancelling \subseteq Run /\ parkedRuns \subseteq Run
  /\ resuming \in BOOLEAN /\ maintenance \in BOOLEAN
  /\ mutations \in 0..MaxCalls
  /\ exec \in [Run -> {"none", "working", "closing"}]
  /\ result \in [Run -> {"succeeded", "failed"}]
  /\ accepting \subseteq Run /\ held \subseteq Run /\ submitted \subseteq Run
  /\ aborts \in [Run -> 0..MaxCalls]
  /\ parks \subseteq Park

Init ==
  /\ journal = [r \in Run |-> "none"]
  /\ root = [r \in Run |-> None]
  /\ active = [l \in Contract!Lanes |-> None]
  /\ cancelling = {} /\ parkedRuns = {} /\ resuming = FALSE
  /\ maintenance = FALSE /\ mutations = 0
  /\ exec = [r \in Run |-> "none"]
  /\ result = [r \in Run |-> "failed"]
  /\ accepting = {} /\ held = {} /\ submitted = {}
  /\ aborts = [r \in Run |-> 0]
  /\ parks = {}

-------------------------------------------------------------------------------
(* PUT /runs/r of an id the journal does not know                          *)

\* acceptingRoot: the executions of r's lane that take messages.
Open(r) == {q \in accepting : Lane(q) = Lane(r) /\ (q \in Background => q \notin held)}

\* r starts a response of its own; execute refuses while its lane has an open
\* execution, and the response fails.
PutRoot(r) ==
  /\ journal[r] = "none" /\ ~maintenance
  /\ IF r \in Background THEN ~resuming /\ active["background"] = None ELSE Open(r) = {}
  /\ journal' = [journal EXCEPT ![r] = "running"]
  /\ root' = [root EXCEPT ![r] = r]
  /\ active' = [active EXCEPT ![Lane(r)] = r]
  /\ IF Open(r) = {}
     THEN /\ exec' = [exec EXCEPT ![r] = "working"] /\ accepting' = accepting \cup {r}
          /\ UNCHANGED result
     ELSE /\ exec' = [exec EXCEPT ![r] = "closing"] /\ result' = [result EXCEPT ![r] = "failed"]
          /\ UNCHANGED accepting
  /\ UNCHANGED <<cancelling, parkedRuns, resuming, maintenance, mutations, held, callVars>>

\* Mutant: the lane's occupant is asked instead of the executor.
PutSteerActive(r, rt) ==
  /\ journal[r] = "none" /\ ~maintenance /\ r \notin Background
  /\ rt = active["main"] /\ rt \notin cancelling
  /\ journal' = [journal EXCEPT ![r] = IF journal[rt] = "needs_input" THEN "needs_input" ELSE "running"]
  /\ root' = [root EXCEPT ![r] = rt]
  /\ submitted' = submitted \cup {r}
  /\ UNCHANGED <<active, cancelling, parkedRuns, resuming, maintenance, mutations, execVars,
                 aborts, parks>>

\* r joins the open response rt of the main lane; it is journaled, as parked if
\* rt is, before the session sees it.
PutSteer(r, rt) ==
  /\ journal[r] = "none" /\ ~maintenance /\ r \notin Background
  /\ rt \in Open(r) /\ rt \notin cancelling
  /\ journal' = [journal EXCEPT ![r] = IF journal[rt] = "needs_input" THEN "needs_input" ELSE "running"]
  /\ root' = [root EXCEPT ![r] = rt]
  /\ submitted' = submitted \cup {r}
  /\ UNCHANGED <<active, cancelling, parkedRuns, resuming, maintenance, mutations, execVars,
                 aborts, parks>>

\* The session took the message, or refused it: then the id alone is settled.
Submitted(r) ==
  /\ r \in submitted
  /\ submitted' = submitted \ {r}
  /\ journal' = journal \/ journal' = [journal EXCEPT ![r] = IF Live(r) THEN "interrupted" ELSE @]
  /\ UNCHANGED <<root, active, cancelling, parkedRuns, resuming, maintenance, mutations, execVars,
                 aborts, parks>>

-------------------------------------------------------------------------------
(* The execution of a response                                             *)

\* The agent is done, and no submission is left, or it failed or was aborted.
AgentEnds(rt, st) ==
  /\ exec[rt] = "working"
  /\ st = "succeeded" => rt \in accepting /\ \A q \in submitted : root[q] # rt
  /\ exec' = [exec EXCEPT ![rt] = "closing"]
  /\ result' = [result EXCEPT ![rt] = st]
  /\ accepting' = accepting \ {rt}
  /\ UNCHANGED <<journal, root, active, cancelling, parkedRuns, resuming, maintenance, mutations,
                 held, callVars>>

\* Mutant: run() returns early when a cancel has settled the group.
ReturnEarly(rt) ==
  /\ exec[rt] = "closing"
  /\ SetGroup(rt, IF rt \in cancelling THEN "cancelled" ELSE result[rt])
  /\ IF Contract!LiveGroup(rt) = {} THEN UNCHANGED active ELSE Contract!Vacate(rt)
  /\ exec' = [exec EXCEPT ![rt] = "none"] /\ result' = [result EXCEPT ![rt] = "failed"]
  /\ held' = held \ {rt} /\ parkedRuns' = parkedRuns \ {rt}
  /\ UNCHANGED <<root, cancelling, resuming, maintenance, mutations, accepting, callVars>>

\* Its tools are closed: run() settles the group and vacates the lane, unless
\* the lane belongs to another response by now.
Return(rt) ==
  /\ exec[rt] = "closing"
  /\ SetGroup(rt, IF rt \in cancelling THEN "cancelled" ELSE result[rt])
  /\ Contract!Vacate(rt)
  /\ exec' = [exec EXCEPT ![rt] = "none"] /\ result' = [result EXCEPT ![rt] = "failed"]
  /\ held' = held \ {rt} /\ parkedRuns' = parkedRuns \ {rt}
  /\ UNCHANGED <<root, cancelling, resuming, maintenance, mutations, accepting, callVars>>

-------------------------------------------------------------------------------
(* POST /runs/r/cancel                                                     *)

\* The response of r stops taking messages and its session is told to abort.
Cancel(r) ==
  LET rt == root[r] IN
    /\ Live(r) /\ aborts[rt] < MaxCalls
    /\ cancelling' = cancelling \cup {rt}
    /\ aborts' = [aborts EXCEPT ![rt] = @ + 1]
    /\ accepting' = accepting \ {rt}
    /\ UNCHANGED <<journal, root, active, parkedRuns, resuming, maintenance, mutations, exec,
                   result, held, submitted, parks>>

\* The session aborted, or could not be.
Aborted(rt) ==
  /\ aborts[rt] > 0
  /\ \E st \in {"cancelled", "interrupted"} : SetGroup(rt, st)
  /\ cancelling' = cancelling \ {rt}
  /\ aborts' = [aborts EXCEPT ![rt] = @ - 1]
  /\ UNCHANGED <<root, active, parkedRuns, resuming, maintenance, mutations, execVars, submitted,
                 parks>>

-------------------------------------------------------------------------------
(* POST /runs/r/suspend and /resume                                        *)

Suspend(r) ==
  LET rt == root[r] IN
    /\ journal[r] = "running" /\ rt \notin cancelling /\ rt \in accepting
    /\ held' = held \cup {rt}
    /\ parks' = parks \cup {[run |-> r, parked |-> TRUE]}
    /\ UNCHANGED <<journal, root, active, cancelling, parkedRuns, resuming, maintenance,
                   mutations, exec, result, accepting, submitted, aborts>>

\* Mutant: nothing keeps the background lane free while its resume is awaited.
ResumeWithoutFlag(r) ==
  LET rt == root[r] IN
    /\ journal[r] = "needs_input" /\ rt \notin cancelling /\ rt \in accepting
    /\ r \in Background => active["background"] \in {None, rt} /\ Open(r) \subseteq {rt}
    /\ held' = held \ {rt}
    /\ parks' = parks \cup {[run |-> r, parked |-> FALSE]}
    /\ UNCHANGED <<journal, root, active, cancelling, parkedRuns, resuming, maintenance,
                   mutations, exec, result, accepting, submitted, aborts>>

\* A background response needs its lane back, and keeps it free meanwhile.
Resume(r) ==
  LET rt == root[r] IN
    /\ journal[r] = "needs_input" /\ rt \notin cancelling /\ rt \in accepting
    /\ r \in Background =>
         ~resuming /\ active["background"] \in {None, rt} /\ Open(r) \subseteq {rt}
    /\ resuming' = (resuming \/ r \in Background)
    /\ held' = held \ {rt}
    /\ parks' = parks \cup {[run |-> r, parked |-> FALSE]}
    /\ UNCHANGED <<journal, root, active, cancelling, parkedRuns, maintenance, mutations, exec,
                   result, accepting, submitted, aborts>>

\* The executor answered: the group is parked or resumed if r is still live.
Parked(p) ==
  LET rt == root[p.run] IN
    /\ p \in parks
    /\ parks' = parks \ {p}
    /\ resuming' = (resuming /\ (p.parked \/ p.run \notin Background))
    /\ IF Live(p.run)
       THEN /\ SetGroup(rt, IF p.parked THEN "needs_input" ELSE "running")
            /\ IF p.parked
               THEN /\ parkedRuns' = parkedRuns \cup {rt}
                    /\ IF rt \in Background THEN Contract!Vacate(rt) ELSE UNCHANGED active
               ELSE /\ parkedRuns' = parkedRuns \ {rt}
                    /\ active' = [active EXCEPT ![Lane(rt)] = rt]
       ELSE UNCHANGED <<journal, parkedRuns, active>>
    /\ UNCHANGED <<root, cancelling, maintenance, mutations, execVars, submitted, aborts>>

-------------------------------------------------------------------------------
(* Maintenance, uploads and restart                                        *)

\* Mutant: parked responses do not keep the machine from maintenance.
EnterWithParked ==
  /\ mutations = 0 /\ \A l \in Contract!Lanes : active[l] = None
  /\ ~resuming /\ cancelling = {}
  /\ maintenance' = TRUE
  /\ UNCHANGED <<journal, root, active, cancelling, parkedRuns, resuming, mutations, execVars,
                 callVars>>

EnterMaintenance ==
  /\ mutations = 0 /\ \A l \in Contract!Lanes : active[l] = None
  /\ parkedRuns = {} /\ ~resuming /\ cancelling = {}
  /\ maintenance' = TRUE
  /\ UNCHANGED <<journal, root, active, cancelling, parkedRuns, resuming, mutations, execVars,
                 callVars>>

LeaveMaintenance ==
  /\ maintenance' = FALSE
  /\ UNCHANGED <<journal, root, active, cancelling, parkedRuns, resuming, mutations, execVars,
                 callVars>>

\* handleRequest: configuration and files.
Mutation ==
  /\ \/ ~maintenance /\ mutations < MaxCalls /\ mutations' = mutations + 1
     \/ mutations > 0 /\ mutations' = mutations - 1
  /\ UNCHANGED <<journal, root, active, cancelling, parkedRuns, resuming, maintenance, execVars,
                 callVars>>

\* A new process: interruptUnfinished, and nothing in memory.
Restart ==
  /\ journal' = [r \in Run |-> IF Live(r) THEN "interrupted" ELSE journal[r]]
  /\ active' = [l \in Contract!Lanes |-> None]
  /\ cancelling' = {} /\ parkedRuns' = {} /\ resuming' = FALSE
  /\ maintenance' = FALSE /\ mutations' = 0
  /\ exec' = [r \in Run |-> "none"]
  /\ result' = [r \in Run |-> "failed"]
  /\ accepting' = {} /\ held' = {} /\ submitted' = {}
  /\ aborts' = [r \in Run |-> 0]
  /\ parks' = {}
  /\ UNCHANGED root

-------------------------------------------------------------------------------
Execution(rt) == Return(rt) \/ Aborted(rt) \/ (rt \notin accepting /\ AgentEnds(rt, "failed"))

Next ==
  \/ \E r \in Run : PutRoot(r) \/ Submitted(r) \/ Cancel(r) \/ Suspend(r) \/ Resume(r)
  \/ \E r, rt \in Run : PutSteer(r, rt)
  \/ \E rt \in Run : Return(rt) \/ Aborted(rt)
  \/ \E rt \in Run, st \in {"succeeded", "failed"} : AgentEnds(rt, st)
  \/ \E p \in parks : Parked(p)
  \/ EnterMaintenance \/ LeaveMaintenance \/ Mutation \/ Restart

Spec == Init /\ [][Next]_vars

\* An aborted session comes to rest, tools are closed and continuations run.
FairSpec ==
  /\ Spec
  /\ \A rt \in Run : WF_vars(Execution(rt))
  /\ \A p \in Park : WF_vars(Parked(p))

-------------------------------------------------------------------------------
(* Properties                                                              *)

\* The daemon with its awaits keeps the promises RunExecution relies on.
ImplementsContract == Contract!DaemonSpec

\* An accepted id is executed: put, which looks at the lanes, and park, which
\* gives a lane back and takes it again over an await, never leave execute a
\* reason to fail the id with EXECUTOR_BUSY after it is in the journal.
NeverBusy ==
  [][\A r \in Run : journal[r] = "none" /\ root'[r] = r => exec'[r] = "working"]_vars

\* Maintenance, under which files are replaced and the process is stopped, is
\* never granted over an upload or a background execution, parked, resuming,
\* aborting or cleaning up.
MaintenanceWaits ==
  maintenance => mutations = 0 /\ \A r \in Background : exec[r] = "none"

\* What no longer takes messages leaves its lane: the executor's probe waits
\* for that, cancelling the orphan it sees in /health again and again.
LaneIsVacated ==
  \A r \in Run : active[Lane(r)] = r /\ r \notin accepting ~> active[Lane(r)] # r

\* docs/v0.md:35-36: "Main messages use Pi's native steer behavior against one
\* persistent chat session": no second execution opens that session while the
\* agent of the first still works in it.
OneMainSession == Cardinality({r \in Run \ Background : exec[r] = "working"}) <= 1
===============================================================================
