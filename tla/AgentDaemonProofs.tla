--------------------------- MODULE AgentDaemonProofs ---------------------------
(***************************************************************************)
(* For any run ids, and any bound on concurrent calls: the daemon with its *)
(* awaits implements DaemonContract, which RunExecution builds on, never   *)
(* fails an id it accepted for want of a lane, and enters maintenance over *)
(* no background execution.                                                *)
(*                                                                         *)
(* What a handler relies on after its await is kept by what the others     *)
(* check before theirs: a response that is cancelled takes no messages, so *)
(* nobody joins, parks or resumes it, and a resume that is awaited keeps   *)
(* other responses out of the background lane.                             *)
(***************************************************************************)
EXTENDS AgentDaemon, TLAPS

\* An id is accepted into a response of its lane; background responses are alone.
Rooted ==
  \A q \in Run :
    /\ journal[q] = "none" <=> root[q] = None
    /\ root[q] # None => root[root[q]] = root[q]
    /\ root[q] # None /\ q \in Background => root[q] = q
    /\ root[q] # None /\ q \notin Background => root[q] \notin Background

\* What takes messages is a live response whose agent works and nobody cancels.
Accepting ==
  \A q \in Run :
    /\ q \in accepting => exec[q] = "working" /\ root[q] = q /\ Live(q) /\ aborts[q] = 0
    /\ aborts[q] > 0 => root[q] # None
    /\ q \in submitted => root[q] # None /\ root[q] # q

Suspending(q) == [run |-> q, parked |-> TRUE] \in parks
Resumes(q) == [run |-> q, parked |-> FALSE] \in parks

\* A background response that waits for the executor is parked or resumed from the
\* status it had.
Waiting ==
  \A q \in Run :
    /\ Suspending(q) \/ Resumes(q) => root[q] # None
    /\ q \in Background /\ Live(q) /\ Suspending(q) => journal[q] = "running"
    /\ q \in Background /\ Live(q) /\ Resumes(q) => journal[q] = "needs_input"
    /\ q \in Background /\ Suspending(q) /\ q \in accepting => q \in held

\* One background response at a time is resumed, and its lane is kept free.
Returning ==
  \A q \in Background : Resumes(q) =>
    /\ resuming
    /\ Live(q) => active["background"] \in {None, q}
    /\ \A b \in Background : Resumes(b) => b = q

\* A background execution that takes messages has its lane, or is parked in the
\* executor, or is about to have the lane again; one that runs has it or is parked.
Occupied ==
  \A q \in Background :
    /\ q \in accepting => active["background"] = q \/ q \in held \/ Resumes(q)
    /\ exec[q] # "none" => active["background"] = q \/ q \in parkedRuns

IInv == TypeOK /\ Rooted /\ Accepting /\ Waiting /\ Returning /\ Occupied /\ MaintenanceWaits

\* A step as the controller sees it.
Visible == Contract!DaemonNext \/ UNCHANGED <<journal, root, active>>

OneStepNotBusy == \A r \in Run : journal[r] = "none" /\ root'[r] = r => exec'[r] = "working"

-------------------------------------------------------------------------------
(* Groups and lanes.                                                       *)

\* The live ids of a group move, and no other.
LEMMA GroupMoves ==
  ASSUME TypeOK, NEW rt, NEW st \in Contract!JournalStatus, SetGroup(rt, st)
  PROVE  /\ journal' \in [Run -> Contract!JournalStatus]
         /\ \A q \in Run : journal'[q] = IF root[q] = rt /\ Live(q) THEN st ELSE journal[q]
         /\ Contract!LiveGroup(rt) = {} => journal' = journal
BY DEF TypeOK, Contract!DaemonTypeOK, SetGroup, Contract!SetGroup, Contract!LiveGroup, Live

LEMMA LaneEmpties ==
  ASSUME TypeOK, NEW rt \in Run, Contract!Vacate(rt)
  PROVE  /\ active' \in [Contract!Lanes -> Run \cup {None}]
         /\ \A l \in Contract!Lanes : active'[l] = IF active[l] = rt THEN None ELSE active[l]
         /\ (\A l \in Contract!Lanes : active[l] # rt) => active' = active
BY DEF TypeOK, Contract!DaemonTypeOK, Contract!Vacate

LEMMA LanesAre == /\ Contract!Lanes = {"main", "background"}
                  /\ \A r \in Run : Lane(r) \in Contract!Lanes
BY DEF Contract!Lanes, Lane, Contract!Lane

LEMMA StatusesAre ==
  /\ \A q \in Run : Live(q) <=> journal[q] \in {"running", "needs_input"}
  /\ \A q \in Run : Live(q)' <=> journal'[q] \in {"running", "needs_input"}
  /\ Contract!JournalStatus = {"none", "running", "needs_input", "succeeded", "failed",
                               "interrupted", "cancelled"}
BY DEF Live, Contract!Live, Contract!LiveStatus, Contract!JournalStatus, Contract!Terminal

\* A step that roots no id accepts none.
LEMMA RootsKept ==
  ASSUME Rooted, root' = root
  PROVE  OneStepNotBusy
BY AgentAssumption DEF AgentAssumption, Rooted, OneStepNotBusy

-------------------------------------------------------------------------------
(* New ids.                                                                *)

LEMMA PutRootSteps ==
  ASSUME IInv, NEW r \in Run, PutRoot(r)
  PROVE  IInv' /\ Visible /\ OneStepNotBusy
<1> USE AgentAssumption DEF AgentAssumption
<1>1. /\ TypeOK /\ Rooted /\ Accepting /\ Waiting /\ Returning /\ Occupied /\ MaintenanceWaits
  BY DEF IInv
<1>2. /\ journal[r] = "none" /\ ~maintenance
      /\ r \in Background => ~resuming /\ active["background"] = None
      /\ UNCHANGED <<cancelling, parkedRuns, resuming, maintenance, mutations, held, submitted,
                     aborts, parks>>
  BY DEF PutRoot, callVars
<1>3. Open(r) = {}
  <2>1. CASE r \notin Background BY <2>1 DEF PutRoot
  <2>2. CASE r \in Background
    <3> SUFFICES ASSUME NEW q \in accepting, Lane(q) = Lane(r), q \notin held PROVE FALSE
      BY <2>2 DEF Open, Lane, Contract!Lane
    <3>1. q \in Background BY <2>2 DEF Lane, Contract!Lane
    <3>2. q \in Run BY <1>1 DEF TypeOK
    <3>3. Resumes(q) BY <1>1, <1>2, <2>2, <3>1, <3>2 DEF Occupied
    <3> QED BY <1>1, <1>2, <2>2, <3>1, <3>2, <3>3 DEF Returning
  <2> QED BY <2>1, <2>2
<1>4. /\ journal' = [journal EXCEPT ![r] = "running"] /\ root' = [root EXCEPT ![r] = r]
      /\ active' = [active EXCEPT ![Lane(r)] = r]
      /\ exec' = [exec EXCEPT ![r] = "working"] /\ accepting' = accepting \cup {r} /\ result' = result
  BY <1>3 DEF PutRoot
<1>5. TypeOK'
  BY <1>1, <1>2, <1>4, LanesAre, StatusesAre DEF TypeOK, Contract!DaemonTypeOK
<1>6. /\ journal'[r] = "running" /\ root'[r] = r /\ exec'[r] = "working"
      /\ \A q \in Run : q # r =>
           journal'[q] = journal[q] /\ root'[q] = root[q] /\ exec'[q] = exec[q]
      /\ active'[Lane(r)] = r /\ \A l \in Contract!Lanes : l # Lane(r) => active'[l] = active[l]
  BY <1>1, <1>4, LanesAre DEF TypeOK, Contract!DaemonTypeOK
<1>7. root[r] = None BY <1>1, <1>2 DEF Rooted
<1>8. \A q \in Run : root[q] # r BY <1>1, <1>7 DEF Rooted, TypeOK, Contract!DaemonTypeOK
<1>9. Rooted' BY <1>1, <1>6, <1>7, <1>8 DEF Rooted, TypeOK, Contract!DaemonTypeOK
<1>10. Accepting'
  <2>1. aborts[r] = 0 /\ r \notin submitted BY <1>1, <1>7 DEF Accepting, TypeOK
  <2> QED BY <1>1, <1>2, <1>4, <1>6, <2>1, StatusesAre DEF Accepting
<1>11. Waiting' /\ Returning'
  <2>1. ~Suspending(r) /\ ~Resumes(r) BY <1>1, <1>7 DEF Waiting
  <2>2. \A q \in Run : Suspending(q)' = Suspending(q) /\ Resumes(q)' = Resumes(q)
    BY <1>2 DEF Suspending, Resumes
  <2>3. r \in Background => \A q \in Background : ~Resumes(q) BY <1>1, <1>2 DEF Returning
  <2>4. r \notin Background => active'["background"] = active["background"]
    BY <1>6, LanesAre DEF Lane, Contract!Lane
  <2>5. Waiting' BY <1>1, <1>2, <1>4, <1>6, <2>1, <2>2, StatusesAre DEF Waiting
  <2>6. Returning' BY <1>1, <1>2, <1>6, <2>1, <2>2, <2>3, <2>4, StatusesAre DEF Returning
  <2> QED BY <2>5, <2>6
<1>12. Occupied'
  <2>1. r \notin Background => active'["background"] = active["background"]
    BY <1>6, LanesAre DEF Lane, Contract!Lane
  <2>2. r \in Background => active["background"] = None /\ active'["background"] = r
    BY <1>2, <1>6 DEF Lane, Contract!Lane
  <2> QED BY ZenonT(30), <1>1, <1>2, <1>4, <1>6, <2>1, <2>2 DEF Occupied, Resumes
<1>13. MaintenanceWaits' BY <1>2 DEF MaintenanceWaits
<1>14. Visible
  <2>1. Contract!AcceptRoot(r) BY <1>2, <1>4 DEF Contract!AcceptRoot, Lane
  <2> QED BY <2>1 DEF Visible, Contract!DaemonNext
<1>15. OneStepNotBusy BY <1>1, <1>6 DEF OneStepNotBusy, Rooted
<1> QED BY <1>5, <1>9, <1>10, <1>11, <1>12, <1>13, <1>14, <1>15 DEF IInv

LEMMA PutSteerSteps ==
  ASSUME IInv, NEW r \in Run, NEW rt \in Run, PutSteer(r, rt)
  PROVE  IInv' /\ Visible /\ OneStepNotBusy
<1> USE AgentAssumption DEF AgentAssumption
<1>1. /\ TypeOK /\ Rooted /\ Accepting /\ Waiting /\ Returning /\ Occupied /\ MaintenanceWaits
  BY DEF IInv
<1>2. /\ journal[r] = "none" /\ r \notin Background /\ rt \in accepting /\ rt \notin Background
      /\ root' = [root EXCEPT ![r] = rt] /\ submitted' = submitted \cup {r}
      /\ UNCHANGED <<active, cancelling, parkedRuns, resuming, maintenance, mutations, exec, result,
                     accepting, held, aborts, parks>>
  BY DEF PutSteer, Open, Lane, Contract!Lane, execVars
<1>3. root[rt] = rt /\ Live(rt) BY <1>1, <1>2 DEF Accepting
<1>4. journal' = [journal EXCEPT ![r] = journal[rt]] BY <1>3, StatusesAre DEF PutSteer
<1>5. rt # r BY <1>2, <1>3, StatusesAre
<1>6. TypeOK'
  BY <1>1, <1>2, <1>4 DEF TypeOK, Contract!DaemonTypeOK
<1>7. /\ journal'[r] = journal[rt] /\ root'[r] = rt
      /\ \A q \in Run : q # r => journal'[q] = journal[q] /\ root'[q] = root[q]
  BY <1>1, <1>2, <1>4 DEF TypeOK, Contract!DaemonTypeOK
<1>8. root[r] = None BY <1>1, <1>2 DEF Rooted
<1>9. \A q \in Run : root[q] # r BY <1>1, <1>8 DEF Rooted, TypeOK, Contract!DaemonTypeOK
<1>10. Rooted'
  BY <1>1, <1>2, <1>3, <1>5, <1>7, <1>9, StatusesAre DEF Rooted, TypeOK, Contract!DaemonTypeOK
<1>11. Accepting'
  <2>1. r \notin accepting BY <1>1, <1>8 DEF Accepting
  <2> QED BY <1>1, <1>2, <1>5, <1>7, <2>1, StatusesAre DEF Accepting
<1>12. Waiting' /\ Returning'
  <2>1. \A q \in Run : Suspending(q)' = Suspending(q) /\ Resumes(q)' = Resumes(q)
    BY <1>2 DEF Suspending, Resumes
  <2>2. ~Suspending(r) /\ ~Resumes(r) BY <1>1, <1>8 DEF Waiting
  <2>3. Waiting' BY <1>1, <1>2, <1>7, <2>1, <2>2, StatusesAre DEF Waiting
  <2>4. Returning' BY <1>1, <1>2, <1>7, <2>1, <2>2, StatusesAre DEF Returning
  <2> QED BY <2>3, <2>4
<1>13. Occupied' BY <1>1, <1>2 DEF Occupied, Resumes
<1>14. MaintenanceWaits' BY <1>1, <1>2 DEF MaintenanceWaits
<1>15. Visible
  <2>1. Contract!AcceptSteer(r, rt)
    BY <1>2, <1>3, <1>4 DEF Contract!AcceptSteer, Live
  <2> QED BY <2>1 DEF Visible, Contract!DaemonNext
<1>16. OneStepNotBusy BY <1>1, <1>5, <1>7 DEF OneStepNotBusy, Rooted
<1> QED BY <1>6, <1>10, <1>11, <1>12, <1>13, <1>14, <1>15, <1>16 DEF IInv

-------------------------------------------------------------------------------
(* Responses that end.                                                     *)

\* Live ids may be settled, and the background lane left.
Settles ==
  /\ root' = root /\ parks' = parks /\ resuming' = resuming /\ accepting' \subseteq accepting
  /\ \A q \in Run : \/ journal'[q] = journal[q]
                    \/ Live(q) /\ journal'[q] \in Contract!Terminal
  /\ active'["background"] \in {active["background"], None}
  /\ \A q \in accepting' : q \in held => q \in held'

LEMMA SettlesKeeps ==
  ASSUME TypeOK, Rooted, Waiting, Returning, Settles
  PROVE  Rooted' /\ Waiting' /\ Returning'
<1> USE AgentAssumption DEF AgentAssumption, Contract!Terminal
<1>1. \A q \in Run : Suspending(q)' = Suspending(q) /\ Resumes(q)' = Resumes(q)
  BY DEF Settles, Suspending, Resumes
<1>2. \A q \in Run : /\ Live(q)' => Live(q) /\ journal'[q] = journal[q]
                     /\ journal'[q] = "none" <=> journal[q] = "none"
  BY StatusesAre DEF Settles
<1>3. Rooted' BY <1>2 DEF Rooted, Settles
<1>4. Waiting' BY <1>1, <1>2 DEF Waiting, Settles
<1>5. Returning' BY <1>1, <1>2 DEF Returning, Settles
<1> QED BY <1>3, <1>4, <1>5

LEMMA SubmittedSteps ==
  ASSUME IInv, NEW r \in Run, Submitted(r)
  PROVE  IInv' /\ Visible /\ OneStepNotBusy
<1>1. /\ TypeOK /\ Rooted /\ Accepting /\ Waiting /\ Returning /\ Occupied /\ MaintenanceWaits
  BY DEF IInv
<1>2. /\ r \in submitted /\ submitted' = submitted \ {r}
      /\ UNCHANGED <<root, active, cancelling, parkedRuns, resuming, maintenance, mutations, exec,
                     result, accepting, held, aborts, parks>>
  BY DEF Submitted, execVars
<1>3. root[r] # None /\ root[r] # r BY <1>1, <1>2 DEF Accepting
<1>4. \/ journal' = journal
      \/ Live(r) /\ journal' = [journal EXCEPT ![r] = "interrupted"]
  <2>1. CASE Live(r) BY <2>1 DEF Submitted
  <2>2. CASE ~Live(r)
    <3>1. journal' = journal \/ journal' = [journal EXCEPT ![r] = journal[r]]
      BY <2>2 DEF Submitted
    <3> QED BY <1>1, <3>1 DEF TypeOK, Contract!DaemonTypeOK
  <2> QED BY <2>1, <2>2
<1>5. journal' \in [Run -> Contract!JournalStatus] BY <1>1, <1>4, StatusesAre
  DEF TypeOK, Contract!DaemonTypeOK
<1>6. TypeOK' BY <1>1, <1>2, <1>5 DEF TypeOK, Contract!DaemonTypeOK
<1>7. \A q \in Run : /\ q # r => journal'[q] = journal[q]
                     /\ \/ journal'[q] = journal[q]
                        \/ Live(q) /\ journal'[q] \in Contract!Terminal
  BY <1>1, <1>4 DEF TypeOK, Contract!DaemonTypeOK, Contract!Terminal
<1>8. Settles BY <1>2, <1>7 DEF Settles
<1>9. Accepting' BY <1>1, <1>2, <1>3, <1>7, StatusesAre DEF Accepting
<1>10. Occupied' BY <1>1, <1>2 DEF Occupied, Resumes
<1>11. MaintenanceWaits' BY <1>1, <1>2 DEF MaintenanceWaits
<1>12. Visible
  <2>1. CASE journal' = journal BY <1>2, <2>1 DEF Visible
  <2>2. CASE Live(r) /\ journal' = [journal EXCEPT ![r] = "interrupted"]
    <3>1. Contract!SteerFails(r) BY <1>2, <1>3, <2>2 DEF Contract!SteerFails, Live
    <3> QED BY <3>1 DEF Visible, Contract!DaemonNext
  <2> QED BY <1>4, <2>1, <2>2
<1> QED BY <1>1, <1>2, <1>6, <1>8, <1>9, <1>10, <1>11, <1>12, SettlesKeeps, RootsKept DEF IInv

LEMMA AgentEndsSteps ==
  ASSUME IInv, NEW rt \in Run, NEW st \in {"succeeded", "failed"}, AgentEnds(rt, st)
  PROVE  IInv' /\ Visible /\ OneStepNotBusy
<1>1. /\ TypeOK /\ Rooted /\ Accepting /\ Waiting /\ Returning /\ Occupied /\ MaintenanceWaits
  BY DEF IInv
<1>2. /\ exec[rt] = "working" /\ exec' = [exec EXCEPT ![rt] = "closing"]
      /\ result' = [result EXCEPT ![rt] = st] /\ accepting' = accepting \ {rt}
      /\ UNCHANGED <<journal, root, active, cancelling, parkedRuns, resuming, maintenance, mutations,
                     held, submitted, aborts, parks>>
  BY DEF AgentEnds, callVars
<1>3. TypeOK' BY <1>1, <1>2 DEF TypeOK, Contract!DaemonTypeOK
<1>4. /\ \A q \in Run : q # rt => exec'[q] = exec[q]
      /\ \A q \in Run : exec'[q] = "none" <=> exec[q] = "none"
  BY <1>1, <1>2 DEF TypeOK
<1>5. Settles BY <1>2 DEF Settles
<1>6. Accepting' BY <1>1, <1>2, <1>4, StatusesAre DEF Accepting
<1>7. Occupied' BY <1>1, <1>2, <1>4, AgentAssumption DEF Occupied, Resumes, AgentAssumption
<1>8. MaintenanceWaits'
  BY <1>1, <1>2, <1>4, AgentAssumption DEF MaintenanceWaits, AgentAssumption
<1>9. Visible BY <1>2 DEF Visible
<1> QED BY <1>1, <1>2, <1>3, <1>5, <1>6, <1>7, <1>8, <1>9, SettlesKeeps, RootsKept DEF IInv

\* A response that does not take messages any more leaves its lane or its parking
\* place with its execution.
LEMMA ReturnSteps ==
  ASSUME IInv, NEW rt \in Run, Return(rt)
  PROVE  IInv' /\ Visible /\ OneStepNotBusy
<1> DEFINE st == IF rt \in cancelling THEN "cancelled" ELSE result[rt]
<1>1. /\ TypeOK /\ Rooted /\ Accepting /\ Waiting /\ Returning /\ Occupied /\ MaintenanceWaits
  BY DEF IInv
<1>2. /\ exec[rt] = "closing" /\ SetGroup(rt, st) /\ Contract!Vacate(rt)
      /\ exec' = [exec EXCEPT ![rt] = "none"] /\ result' = [result EXCEPT ![rt] = "failed"]
      /\ held' = held \ {rt} /\ parkedRuns' = parkedRuns \ {rt}
      /\ UNCHANGED <<root, cancelling, resuming, maintenance, mutations, accepting, submitted,
                     aborts, parks>>
  BY DEF Return, callVars
<1>3. st \in {"succeeded", "failed", "cancelled"} BY <1>1 DEF TypeOK
<1> HIDE DEF st
<1>4. /\ journal' \in [Run -> Contract!JournalStatus]
      /\ \A q \in Run : journal'[q] = IF root[q] = rt /\ Live(q) THEN st ELSE journal[q]
      /\ Contract!LiveGroup(rt) = {} => journal' = journal
  BY <1>1, <1>2, <1>3, StatusesAre, GroupMoves
<1>5. /\ active' \in [Contract!Lanes -> Run \cup {None}]
      /\ \A l \in Contract!Lanes : active'[l] = IF active[l] = rt THEN None ELSE active[l]
      /\ (\A l \in Contract!Lanes : active[l] # rt) => active' = active
  BY <1>1, <1>2, LaneEmpties
<1>6. rt \notin accepting BY <1>1, <1>2 DEF Accepting
<1>7. TypeOK' BY <1>1, <1>2, <1>4, <1>5 DEF TypeOK, Contract!DaemonTypeOK
<1>8. /\ exec'[rt] = "none" /\ \A q \in Run : q # rt => exec'[q] = exec[q]
  BY <1>1, <1>2 DEF TypeOK
<1>9. active'["background"] = IF active["background"] = rt THEN None ELSE active["background"]
  BY <1>5, LanesAre
<1>10. Settles
  BY <1>2, <1>3, <1>4, <1>6, <1>9 DEF Settles, Contract!Terminal
<1>11. Accepting' BY <1>1, <1>2, <1>4, <1>6, <1>8, StatusesAre DEF Accepting
<1>12. Occupied'
  BY <1>1, <1>2, <1>6, <1>8, <1>9, AgentAssumption DEF Occupied, Resumes, AgentAssumption
<1>13. MaintenanceWaits'
  BY <1>1, <1>2, <1>8, AgentAssumption DEF MaintenanceWaits, AgentAssumption
<1>14. Visible
  <2>1. CASE Contract!LiveGroup(rt) # {}
    <3>1. Contract!FinishRoot(rt, st)
      BY <1>2, <1>3, <2>1 DEF Contract!FinishRoot, SetGroup
    <3> QED BY <1>3, <3>1 DEF Visible, Contract!DaemonNext, Contract!Terminal
  <2>2. CASE Contract!LiveGroup(rt) = {} /\ \E l \in Contract!Lanes : active[l] = rt
    <3>1. Contract!Release(rt) BY <1>2, <1>4, <2>2 DEF Contract!Release
    <3> QED BY <3>1 DEF Visible, Contract!DaemonNext
  <2>3. CASE Contract!LiveGroup(rt) = {} /\ \A l \in Contract!Lanes : active[l] # rt
    BY <1>2, <1>4, <1>5, <2>3 DEF Visible
  <2> QED BY <2>1, <2>2, <2>3
<1> QED BY <1>1, <1>2, <1>7, <1>10, <1>11, <1>12, <1>13, <1>14, SettlesKeeps, RootsKept DEF IInv

\* A cancelled response takes no message from then on.
LEMMA CancelSteps ==
  ASSUME IInv, NEW r \in Run, Cancel(r)
  PROVE  IInv' /\ Visible /\ OneStepNotBusy
<1> DEFINE rt == root[r]
<1>1. /\ TypeOK /\ Rooted /\ Accepting /\ Waiting /\ Returning /\ Occupied /\ MaintenanceWaits
  BY DEF IInv
<1>2. /\ Live(r) /\ aborts[rt] < MaxCalls
      /\ cancelling' = cancelling \cup {rt} /\ aborts' = [aborts EXCEPT ![rt] = @ + 1]
      /\ accepting' = accepting \ {rt}
      /\ UNCHANGED <<journal, root, active, parkedRuns, resuming, maintenance, mutations, exec,
                     result, held, submitted, parks>>
  BY DEF Cancel
<1>3. rt \in Run /\ root[rt] # None
  BY <1>1, <1>2, StatusesAre, AgentAssumption
  DEF Rooted, TypeOK, Contract!DaemonTypeOK, AgentAssumption
<1> HIDE DEF rt
<1>4. TypeOK'
  <2>1. aborts[rt] + 1 \in 0..MaxCalls BY <1>1, <1>2, <1>3, AgentAssumption DEF TypeOK, AgentAssumption
  <2> QED BY <1>1, <1>2, <1>3, <2>1 DEF TypeOK, Contract!DaemonTypeOK
<1>5. \A q \in Run : q # rt => aborts'[q] = aborts[q] BY <1>1, <1>2 DEF TypeOK
<1>6. Settles BY <1>2 DEF Settles
<1>7. Accepting' BY <1>1, <1>2, <1>3, <1>5, StatusesAre DEF Accepting
<1>8. Occupied' BY <1>1, <1>2 DEF Occupied, Resumes
<1>9. MaintenanceWaits' BY <1>1, <1>2 DEF MaintenanceWaits
<1>10. Visible BY <1>2 DEF Visible
<1> QED BY <1>1, <1>2, <1>4, <1>6, <1>7, <1>8, <1>9, <1>10, SettlesKeeps, RootsKept DEF IInv

LEMMA AbortedSteps ==
  ASSUME IInv, NEW rt \in Run, Aborted(rt)
  PROVE  IInv' /\ Visible /\ OneStepNotBusy
<1>1. /\ TypeOK /\ Rooted /\ Accepting /\ Waiting /\ Returning /\ Occupied /\ MaintenanceWaits
  BY DEF IInv
<1>2. /\ aborts[rt] > 0 /\ cancelling' = cancelling \ {rt}
      /\ aborts' = [aborts EXCEPT ![rt] = @ - 1]
      /\ UNCHANGED <<root, active, parkedRuns, resuming, maintenance, mutations, exec, result,
                     accepting, held, submitted, parks>>
  BY DEF Aborted, execVars
<1>3. PICK st \in {"cancelled", "interrupted"} : SetGroup(rt, st) BY DEF Aborted
<1>4. /\ journal' \in [Run -> Contract!JournalStatus]
      /\ \A q \in Run : journal'[q] = IF root[q] = rt /\ Live(q) THEN st ELSE journal[q]
      /\ Contract!LiveGroup(rt) = {} => journal' = journal
  BY <1>1, <1>3, StatusesAre, GroupMoves
<1>5. rt \notin accepting /\ root[rt] # None BY <1>1, <1>2 DEF Accepting, TypeOK
<1>6. aborts[rt] - 1 \in 0..MaxCalls BY <1>1, <1>2, AgentAssumption DEF TypeOK, AgentAssumption
<1>7. TypeOK' BY <1>1, <1>2, <1>4, <1>6 DEF TypeOK, Contract!DaemonTypeOK
<1>8. \A q \in Run : q # rt => aborts'[q] = aborts[q] BY <1>1, <1>2 DEF TypeOK
<1>9. Settles BY <1>2, <1>4 DEF Settles, Contract!Terminal
<1>10. Accepting' BY <1>1, <1>2, <1>4, <1>5, <1>8, StatusesAre DEF Accepting
<1>11. Occupied' BY <1>1, <1>2 DEF Occupied, Resumes
<1>12. MaintenanceWaits' BY <1>1, <1>2 DEF MaintenanceWaits
<1>13. Visible
  <2>1. CASE Contract!LiveGroup(rt) # {}
    <3>1. Contract!AbortRoot(rt, st) BY <1>2, <1>3, <2>1 DEF Contract!AbortRoot, SetGroup
    <3> QED BY <3>1 DEF Visible, Contract!DaemonNext, Contract!Terminal
  <2>2. CASE Contract!LiveGroup(rt) = {} BY <1>2, <1>4, <2>2 DEF Visible
  <2> QED BY <2>1, <2>2
<1> QED BY <1>1, <1>2, <1>7, <1>9, <1>10, <1>11, <1>12, <1>13, SettlesKeeps, RootsKept DEF IInv

-------------------------------------------------------------------------------
(* Responses that wait for a human.                                        *)

LEMMA SuspendSteps ==
  ASSUME IInv, NEW r \in Run, Suspend(r)
  PROVE  IInv' /\ Visible /\ OneStepNotBusy
<1> USE AgentAssumption DEF AgentAssumption
<1> DEFINE rt == root[r]
<1>1. /\ TypeOK /\ Rooted /\ Accepting /\ Waiting /\ Returning /\ Occupied /\ MaintenanceWaits
  BY DEF IInv
<1>2. /\ journal[r] = "running" /\ rt \in accepting /\ held' = held \cup {rt}
      /\ parks' = parks \cup {[run |-> r, parked |-> TRUE]}
      /\ UNCHANGED <<journal, root, active, cancelling, parkedRuns, resuming, maintenance,
                     mutations, exec, result, accepting, submitted, aborts>>
  BY DEF Suspend
<1>3. rt \in Run BY <1>1, <1>2 DEF TypeOK
<1>4. root[r] # None /\ (r \in Background => rt = r) BY <1>1, <1>2 DEF Rooted
<1>5. TypeOK'
  <2>1. [run |-> r, parked |-> TRUE] \in Park BY DEF Park
  <2> QED BY <1>1, <1>2, <1>3, <2>1 DEF TypeOK, Contract!DaemonTypeOK
<1>6. /\ \A q \in Run : (Resumes(q)' <=> Resumes(q))
      /\ \A q \in Run : (Suspending(q)' <=> (Suspending(q) \/ q = r))
  <2>1. \A q \in Run : (Resumes(q)' <=> Resumes(q)) BY <1>2 DEF Resumes
  <2>2. \A q \in Run : (Suspending(q)' <=> (Suspending(q) \/ q = r)) BY <1>2 DEF Suspending
  <2> QED BY <2>1, <2>2
<1>7. Rooted' BY <1>1, <1>2 DEF Rooted
<1>8. Accepting' BY <1>1, <1>2, StatusesAre DEF Accepting
<1>9. Waiting' BY <1>1, <1>2, <1>4, <1>6, StatusesAre DEF Waiting
<1>10. Returning' BY <1>1, <1>2, <1>6, StatusesAre DEF Returning
<1>11. Occupied' BY <1>1, <1>2, <1>6 DEF Occupied
<1>12. MaintenanceWaits' BY <1>1, <1>2 DEF MaintenanceWaits
<1>13. Visible BY <1>2 DEF Visible
<1> QED BY <1>1, <1>2, <1>5, <1>7, <1>8, <1>9, <1>10, <1>11, <1>12, <1>13, RootsKept DEF IInv

LEMMA ResumeSteps ==
  ASSUME IInv, NEW r \in Run, Resume(r)
  PROVE  IInv' /\ Visible /\ OneStepNotBusy
<1> USE AgentAssumption DEF AgentAssumption
<1> DEFINE rt == root[r]
<1>1. /\ TypeOK /\ Rooted /\ Accepting /\ Waiting /\ Returning /\ Occupied /\ MaintenanceWaits
  BY DEF IInv
<1>2. /\ journal[r] = "needs_input" /\ rt \in accepting /\ held' = held \ {rt}
      /\ r \in Background => ~resuming /\ active["background"] \in {None, rt}
      /\ resuming' = (resuming \/ r \in Background)
      /\ parks' = parks \cup {[run |-> r, parked |-> FALSE]}
      /\ UNCHANGED <<journal, root, active, cancelling, parkedRuns, maintenance, mutations, exec,
                     result, accepting, submitted, aborts>>
  BY DEF Resume
<1>3. /\ root[r] # None /\ (r \in Background => rt = r) /\ (r \notin Background => rt \notin Background)
  BY <1>1, <1>2 DEF Rooted
<1>4. TypeOK'
  <2>1. [run |-> r, parked |-> FALSE] \in Park BY DEF Park
  <2>2. (resuming \/ r \in Background) \in BOOLEAN OBVIOUS
  <2>3. resuming' \in BOOLEAN BY <1>2, <2>2
  <2> QED BY <1>1, <1>2, <2>1, <2>3 DEF TypeOK, Contract!DaemonTypeOK
<1>5. /\ \A q \in Run : (Suspending(q)' <=> Suspending(q))
      /\ \A q \in Run : (Resumes(q)' <=> (Resumes(q) \/ q = r))
  <2>1. \A q \in Run : (Suspending(q)' <=> Suspending(q)) BY <1>2 DEF Suspending
  <2>2. \A q \in Run : (Resumes(q)' <=> (Resumes(q) \/ q = r)) BY <1>2 DEF Resumes
  <2> QED BY <2>1, <2>2
<1>6. Rooted' BY <1>1, <1>2 DEF Rooted
<1>7. Accepting' BY <1>1, <1>2, StatusesAre DEF Accepting
<1>8. Waiting' BY <1>1, <1>2, <1>3, <1>5, StatusesAre DEF Waiting
<1>9. Returning'
  <2>1. r \in Background => \A b \in Background : ~Resumes(b) BY <1>1, <1>2 DEF Returning
  <2>2. (resuming => resuming') /\ (r \in Background => resuming') BY <1>2
  <2> QED BY <1>1, <1>2, <1>3, <1>5, <2>1, <2>2, StatusesAre DEF Returning
<1>10. Occupied' BY <1>1, <1>2, <1>3, <1>5 DEF Occupied
<1>11. MaintenanceWaits' BY <1>1, <1>2 DEF MaintenanceWaits
<1>12. Visible BY <1>2 DEF Visible
<1> QED BY <1>1, <1>2, <1>4, <1>6, <1>7, <1>8, <1>9, <1>10, <1>11, <1>12, RootsKept DEF IInv

\* The executor has answered a suspend: a background response gives its lane back.
LEMMA ParkSteps ==
  ASSUME IInv, NEW p \in parks, Parked(p), p.parked, Live(p.run)
  PROVE  IInv' /\ Visible /\ OneStepNotBusy
<1> USE AgentAssumption DEF AgentAssumption
<1> DEFINE r == p.run  rt == root[p.run]
<1>1. /\ TypeOK /\ Rooted /\ Accepting /\ Waiting /\ Returning /\ Occupied /\ MaintenanceWaits
  BY DEF IInv
<1>2. r \in Run /\ p = [run |-> r, parked |-> TRUE] BY <1>1 DEF TypeOK, Park
<1> HIDE DEF r
<1>3. /\ p.run = r /\ parks' = parks \ {p} /\ Live(r) /\ rt = root[r] BY DEF Parked, r
<1>4. /\ SetGroup(rt, "needs_input") /\ parkedRuns' = parkedRuns \cup {rt}
      /\ rt \in Background => Contract!Vacate(rt)
      /\ rt \notin Background => active' = active
      /\ resuming' = resuming
      /\ UNCHANGED <<root, cancelling, maintenance, mutations, exec, result, accepting, held,
                     submitted, aborts>>
  <2>1. resuming \in BOOLEAN /\ resuming' = (resuming /\ (p.parked \/ p.run \notin Background))
    BY <1>1 DEF Parked, TypeOK
  <2> QED BY <2>1 DEF Parked, execVars
<1>5. /\ rt \in Run /\ root[rt] = rt /\ root[r] # None
      /\ r \in Background => rt = r
      /\ r \notin Background => rt \notin Background
  BY <1>1, <1>2, <1>3, StatusesAre DEF Rooted, TypeOK, Contract!DaemonTypeOK
<1> HIDE DEF rt
<1>6. /\ journal' \in [Run -> Contract!JournalStatus]
      /\ \A q \in Run : journal'[q] = IF root[q] = rt /\ Live(q) THEN "needs_input" ELSE journal[q]
  BY <1>1, <1>4, StatusesAre, GroupMoves
<1>7. /\ active' \in [Contract!Lanes -> Run \cup {None}]
      /\ active'["background"] = IF active["background"] = rt /\ rt \in Background
                                 THEN None ELSE active["background"]
  <2>1. CASE rt \in Background BY <1>1, <1>4, <1>5, <2>1, LaneEmpties, LanesAre
  <2>2. CASE rt \notin Background
    BY <1>1, <1>4, <2>2 DEF TypeOK, Contract!DaemonTypeOK
  <2> QED BY <2>1, <2>2
<1>8. TypeOK' BY <1>1, <1>3, <1>4, <1>5, <1>6, <1>7 DEF TypeOK, Contract!DaemonTypeOK
<1>9. /\ \A q \in Run : (Resumes(q)' <=> Resumes(q))
      /\ \A q \in Run : (Suspending(q)' <=> (Suspending(q) /\ q # r))
  <2>1. \A q \in Run : (Resumes(q)' <=> Resumes(q)) BY <1>2, <1>3 DEF Resumes
  <2>2. \A q \in Run : (Suspending(q)' <=> (Suspending(q) /\ q # r)) BY <1>2, <1>3 DEF Suspending
  <2> QED BY <2>1, <2>2
<1>10. Suspending(r) BY <1>2 DEF Suspending
<1>11. /\ \A q \in Run : (Live(q)' <=> Live(q))
       /\ \A q \in Run : (journal'[q] = "none" <=> journal[q] = "none")
       /\ \A q \in Run : (q \in Background /\ q # r => journal'[q] = journal[q])
  <2>1. \A q \in Run : q \in Background /\ root[q] = rt /\ Live(q) => q = r
    BY <1>1, <1>5, StatusesAre DEF Rooted
  <2>2. \A q \in Run : (Live(q)' <=> Live(q)) BY <1>6, StatusesAre
  <2>3. \A q \in Run : (journal'[q] = "none" <=> journal[q] = "none") BY <1>6, StatusesAre
  <2>4. \A q \in Run : (q \in Background /\ q # r => journal'[q] = journal[q]) BY <1>6, <2>1
  <2> QED BY <2>2, <2>3, <2>4
<1>12. Rooted' BY <1>1, <1>4, <1>11 DEF Rooted
<1>13. Accepting' BY <1>1, <1>4, <1>11 DEF Accepting
<1>14. r \in Background => ~Resumes(r)
  BY <1>1, <1>2, <1>3, <1>10 DEF Waiting
<1>15. Waiting' BY <1>1, <1>4, <1>9, <1>11, <1>14 DEF Waiting
<1>16. Returning' BY <1>1, <1>4, <1>7, <1>9, <1>11 DEF Returning
<1>17. Occupied' BY <1>1, <1>2, <1>4, <1>5, <1>7, <1>9, <1>10 DEF Occupied, Waiting
<1>18. MaintenanceWaits' BY <1>1, <1>4 DEF MaintenanceWaits
<1>19. Visible
  <2>1. r \in Contract!LiveGroup(rt)
    BY <1>2, <1>3 DEF Contract!LiveGroup, Live
  <2>2. Contract!ParkRoot(rt) BY <1>4, <2>1 DEF Contract!ParkRoot, SetGroup
  <2> QED BY <1>5, <2>2 DEF Visible, Contract!DaemonNext
<1> QED BY <1>1, <1>4, <1>8, <1>12, <1>13, <1>15, <1>16, <1>17, <1>18, <1>19, RootsKept DEF IInv

\* The executor has answered a resume: nobody took the background lane meanwhile.
LEMMA ReturnedSteps ==
  ASSUME IInv, NEW p \in parks, Parked(p), ~p.parked, Live(p.run)
  PROVE  IInv' /\ Visible /\ OneStepNotBusy
<1> USE AgentAssumption DEF AgentAssumption
<1> DEFINE r == p.run  rt == root[p.run]
<1>1. /\ TypeOK /\ Rooted /\ Accepting /\ Waiting /\ Returning /\ Occupied /\ MaintenanceWaits
  BY DEF IInv
<1>2. r \in Run /\ p = [run |-> r, parked |-> FALSE] BY <1>1 DEF TypeOK, Park
<1> HIDE DEF r
<1>3. /\ p.run = r /\ parks' = parks \ {p} /\ Live(r) /\ rt = root[r] BY DEF Parked, r
<1>4. /\ SetGroup(rt, "running") /\ parkedRuns' = parkedRuns \ {rt}
      /\ active' = [active EXCEPT ![Lane(rt)] = rt]
      /\ UNCHANGED <<root, cancelling, maintenance, mutations, exec, result, accepting, held,
                     submitted, aborts>>
  BY DEF Parked, execVars
<1>5. /\ rt \in Run /\ root[rt] = rt /\ root[r] # None
      /\ r \in Background => rt = r
      /\ r \notin Background => rt \notin Background
  BY <1>1, <1>2, <1>3, StatusesAre DEF Rooted, TypeOK, Contract!DaemonTypeOK
<1>6. resuming' \in BOOLEAN /\ (r \notin Background => resuming' = resuming)
  <2>1. resuming \in BOOLEAN /\ resuming' = (resuming /\ (p.parked \/ p.run \notin Background))
    BY <1>1 DEF Parked, TypeOK
  <2>2. (resuming /\ (p.parked \/ p.run \notin Background)) \in BOOLEAN OBVIOUS
  <2>3. resuming' \in BOOLEAN BY <2>1, <2>2
  <2> QED BY <1>3, <2>1, <2>3
<1> HIDE DEF rt
<1>7. /\ journal' \in [Run -> Contract!JournalStatus]
      /\ \A q \in Run : journal'[q] = IF root[q] = rt /\ Live(q) THEN "running" ELSE journal[q]
  BY <1>1, <1>4, StatusesAre, GroupMoves
<1>8. /\ active' \in [Contract!Lanes -> Run \cup {None}]
      /\ active'["background"] = IF rt \in Background THEN rt ELSE active["background"]
  BY <1>1, <1>4, <1>5, LanesAre DEF TypeOK, Contract!DaemonTypeOK, Lane, Contract!Lane
<1>9. TypeOK' BY <1>1, <1>3, <1>4, <1>5, <1>6, <1>7, <1>8 DEF TypeOK, Contract!DaemonTypeOK
<1>10. /\ \A q \in Run : (Suspending(q)' <=> Suspending(q))
       /\ \A q \in Run : (Resumes(q)' <=> (Resumes(q) /\ q # r))
  <2>1. \A q \in Run : (Suspending(q)' <=> Suspending(q)) BY <1>2, <1>3 DEF Suspending
  <2>2. \A q \in Run : (Resumes(q)' <=> (Resumes(q) /\ q # r)) BY <1>2, <1>3 DEF Resumes
  <2> QED BY <2>1, <2>2
<1>11. Resumes(r) BY <1>2 DEF Resumes
<1>12. r \in Background => /\ active["background"] \in {None, r}
                           /\ \A b \in Background : b # r => ~Resumes(b)
  BY <1>1, <1>3, <1>11 DEF Returning
<1>13. /\ \A q \in Run : (Live(q)' <=> Live(q))
       /\ \A q \in Run : (journal'[q] = "none" <=> journal[q] = "none")
       /\ \A q \in Run : (q \in Background /\ q # r => journal'[q] = journal[q])
  <2>1. \A q \in Run : q \in Background /\ root[q] = rt /\ Live(q) => q = r
    BY <1>1, <1>5, StatusesAre DEF Rooted
  <2>2. \A q \in Run : (Live(q)' <=> Live(q)) BY <1>7, StatusesAre
  <2>3. \A q \in Run : (journal'[q] = "none" <=> journal[q] = "none") BY <1>7, StatusesAre
  <2>4. \A q \in Run : (q \in Background /\ q # r => journal'[q] = journal[q]) BY <1>7, <2>1
  <2> QED BY <2>2, <2>3, <2>4
<1>14. Rooted' BY <1>1, <1>4, <1>13 DEF Rooted
<1>15. Accepting' BY <1>1, <1>4, <1>13 DEF Accepting
<1>16. r \in Background => ~Suspending(r)
  BY <1>1, <1>2, <1>3, <1>11 DEF Waiting
<1>17. Waiting' BY <1>1, <1>4, <1>10, <1>13, <1>16 DEF Waiting
<1>18. Returning'
  <2>1. CASE r \in Background
    <3>1. \A b \in Background : ~Resumes(b)' BY <1>10, <1>12, <2>1
    <3> QED BY <3>1 DEF Returning
  <2>2. CASE r \notin Background
    <3>1. resuming' = resuming /\ active'["background"] = active["background"]
      BY <1>5, <1>6, <1>8, <2>2
    <3>2. \A b \in Background : (Resumes(b)' <=> Resumes(b)) BY <1>10, <2>2
    <3>3. \A b \in Background : (Live(b)' <=> Live(b)) BY <1>13
    <3> QED BY <1>1, <3>1, <3>2, <3>3 DEF Returning
  <2> QED BY <2>1, <2>2
<1>19. Occupied' BY <1>1, <1>4, <1>5, <1>8, <1>10, <1>12 DEF Occupied
<1>20. MaintenanceWaits' BY <1>1, <1>4 DEF MaintenanceWaits
<1>21. Visible
  <2>1. r \in Contract!LiveGroup(rt)
    BY <1>2, <1>3 DEF Contract!LiveGroup, Live
  <2>2. Contract!ResumeRoot(rt)
    BY <1>4, <1>5, <1>12, <2>1 DEF Contract!ResumeRoot, SetGroup, Lane
  <2> QED BY <1>5, <2>2 DEF Visible, Contract!DaemonNext
<1> QED BY <1>1, <1>4, <1>9, <1>14, <1>15, <1>17, <1>18, <1>19, <1>20, <1>21, RootsKept DEF IInv

\* The id was settled while the executor was asked.
LEMMA TooLateSteps ==
  ASSUME IInv, NEW p \in parks, Parked(p), ~Live(p.run)
  PROVE  IInv' /\ Visible /\ OneStepNotBusy
<1> USE AgentAssumption DEF AgentAssumption
<1> DEFINE r == p.run
<1>1. /\ TypeOK /\ Rooted /\ Accepting /\ Waiting /\ Returning /\ Occupied /\ MaintenanceWaits
  BY DEF IInv
<1>2. r \in Run /\ p = [run |-> r, parked |-> p.parked] /\ p.parked \in BOOLEAN
  BY <1>1 DEF TypeOK, Park
<1>3. /\ parks' = parks \ {p} /\ ~Live(r)
      /\ UNCHANGED <<journal, root, active, cancelling, parkedRuns, maintenance, mutations, exec,
                     result, accepting, held, submitted, aborts>>
  BY DEF Parked, execVars
<1>4. resuming' \in BOOLEAN /\ (resuming' = resuming \/ (r \in Background /\ Resumes(r)))
  <2>1. resuming \in BOOLEAN /\ resuming' = (resuming /\ (p.parked \/ p.run \notin Background))
    BY <1>1 DEF Parked, TypeOK
  <2>2. (resuming /\ (p.parked \/ p.run \notin Background)) \in BOOLEAN OBVIOUS
  <2>3. resuming' \in BOOLEAN BY <2>1, <2>2
  <2>4. CASE p.parked \/ p.run \notin Background BY <2>1, <2>3, <2>4
  <2>5. CASE ~(p.parked \/ p.run \notin Background)
    <3>1. p = [run |-> r, parked |-> FALSE] BY <1>2, <2>5
    <3> QED BY <2>3, <2>5, <3>1 DEF Resumes
  <2> QED BY <2>4, <2>5
<1> HIDE DEF r
<1>5. TypeOK' BY <1>1, <1>3, <1>4 DEF TypeOK, Contract!DaemonTypeOK
<1>6. \A q \in Run : /\ Suspending(q)' => Suspending(q)
                     /\ Resumes(q)' => Resumes(q)
                     /\ q # r => (Resumes(q)' <=> Resumes(q))
  BY <1>2, <1>3 DEF Suspending, Resumes
<1>7. r \notin accepting BY <1>1, <1>2, <1>3 DEF Accepting
<1>8. Rooted' BY <1>1, <1>3 DEF Rooted
<1>9. Accepting' BY <1>1, <1>3, StatusesAre DEF Accepting
<1>10. Waiting' BY <1>1, <1>3, <1>6, StatusesAre DEF Waiting
<1>11. resuming' = resuming \/ \A b \in Background : ~Resumes(b)'
  <2>1. CASE resuming' = resuming BY <2>1
  <2>2. CASE r \in Background /\ Resumes(r)
    <3>1. \A b \in Background : Resumes(b) => b = r BY <1>1, <2>2 DEF Returning
    <3>2. CASE Resumes(r)'
      <4>1. p.parked = TRUE BY <1>2, <1>3, <3>2 DEF Resumes, r
      <4>2. resuming \in BOOLEAN /\ resuming' = (resuming /\ TRUE)
        BY <1>1, <4>1 DEF Parked, TypeOK
      <4> QED BY <4>2
    <3>3. CASE ~Resumes(r)' BY <1>6, <3>1, <3>3
    <3> QED BY <3>2, <3>3
  <2> QED BY <1>4, <2>1, <2>2
<1>12. Returning' BY <1>1, <1>3, <1>6, <1>11, StatusesAre DEF Returning
<1>13. Occupied' BY <1>1, <1>3, <1>6, <1>7 DEF Occupied
<1>14. MaintenanceWaits' BY <1>1, <1>3 DEF MaintenanceWaits
<1>15. Visible BY <1>3 DEF Visible
<1> QED BY <1>1, <1>3, <1>5, <1>8, <1>9, <1>10, <1>12, <1>13, <1>14, <1>15, RootsKept DEF IInv

-------------------------------------------------------------------------------
(* Maintenance, uploads and restart.                                       *)

\* With the lane empty and nothing parked, no background execution is left.
LEMMA EnterMaintenanceSteps ==
  ASSUME IInv, EnterMaintenance
  PROVE  IInv' /\ Visible /\ OneStepNotBusy
<1>1. /\ TypeOK /\ Rooted /\ Accepting /\ Waiting /\ Returning /\ Occupied /\ MaintenanceWaits
  BY DEF IInv
<1>2. /\ mutations = 0 /\ active["background"] = None /\ parkedRuns = {} /\ maintenance'
      /\ UNCHANGED <<journal, root, active, cancelling, parkedRuns, resuming, mutations, exec,
                     result, accepting, held, submitted, aborts, parks>>
  BY LanesAre DEF EnterMaintenance, execVars, callVars
<1>3. maintenance' \in BOOLEAN BY DEF EnterMaintenance
<1>4. TypeOK' BY <1>1, <1>2, <1>3 DEF TypeOK, Contract!DaemonTypeOK
<1>5. Settles BY <1>2 DEF Settles
<1>6. Accepting' BY <1>1, <1>2, StatusesAre DEF Accepting
<1>7. Occupied' BY <1>1, <1>2 DEF Occupied, Resumes
<1>8. MaintenanceWaits'
  <2>1. \A r \in Background : exec[r] = "none"
    BY <1>1, <1>2, AgentAssumption DEF Occupied, AgentAssumption
  <2> QED BY <1>2, <2>1 DEF MaintenanceWaits
<1>9. Visible BY <1>2 DEF Visible
<1> QED BY <1>1, <1>2, <1>4, <1>5, <1>6, <1>7, <1>8, <1>9, SettlesKeeps, RootsKept DEF IInv

\* Leaving maintenance and uploads, which wait for its end, touch no response.
LEMMA QuietSteps ==
  ASSUME IInv, LeaveMaintenance \/ Mutation \/ UNCHANGED vars
  PROVE  IInv' /\ Visible /\ OneStepNotBusy
<1>1. /\ TypeOK /\ Rooted /\ Accepting /\ Waiting /\ Returning /\ Occupied /\ MaintenanceWaits
  BY DEF IInv
<1>2. UNCHANGED <<journal, root, active, cancelling, parkedRuns, resuming, exec, result, accepting,
                  held, submitted, aborts, parks>>
  BY DEF LeaveMaintenance, Mutation, vars, execVars, callVars
<1>3. mutations' \in 0..MaxCalls
  BY <1>1, AgentAssumption
  DEF TypeOK, AgentAssumption, LeaveMaintenance, Mutation, vars
<1>4. maintenance' \in BOOLEAN BY <1>1 DEF TypeOK, LeaveMaintenance, Mutation, vars
<1>5. TypeOK' BY <1>1, <1>2, <1>3, <1>4 DEF TypeOK, Contract!DaemonTypeOK
<1>6. Settles BY <1>2 DEF Settles
<1>7. Accepting' BY <1>1, <1>2, StatusesAre DEF Accepting
<1>8. Occupied' BY <1>1, <1>2 DEF Occupied, Resumes
<1>9. MaintenanceWaits'
  <2>1. maintenance' => maintenance /\ mutations' = mutations
    <3>1. CASE LeaveMaintenance BY <3>1 DEF LeaveMaintenance
    <3>2. CASE UNCHANGED vars BY <3>2 DEF vars
    <3>3. CASE Mutation
      <4>1. maintenance' = maintenance BY <3>3 DEF Mutation
      <4>2. maintenance => mutations = 0 /\ ~(mutations > 0) BY <1>1 DEF MaintenanceWaits
      <4>3. maintenance => FALSE BY <3>3, <4>2 DEF Mutation
      <4> QED BY <4>1, <4>3
    <3> QED BY <3>1, <3>2, <3>3
  <2> QED BY <1>1, <1>2, <2>1 DEF MaintenanceWaits
<1>10. Visible BY <1>2 DEF Visible
<1> QED BY <1>1, <1>2, <1>5, <1>6, <1>7, <1>8, <1>9, <1>10, SettlesKeeps, RootsKept DEF IInv

LEMMA RestartSteps ==
  ASSUME IInv, Restart
  PROVE  IInv' /\ Visible /\ OneStepNotBusy
<1> USE AgentAssumption DEF AgentAssumption
<1>1. /\ TypeOK /\ Rooted /\ Accepting /\ Waiting /\ Returning /\ Occupied /\ MaintenanceWaits
  BY DEF IInv
<1>2. /\ journal' = [r \in Run |-> IF Live(r) THEN "interrupted" ELSE journal[r]]
      /\ active' = [l \in Contract!Lanes |-> None] /\ root' = root
      /\ cancelling' = {} /\ parkedRuns' = {} /\ resuming' = FALSE
      /\ maintenance' = FALSE /\ mutations' = 0
      /\ exec' = [r \in Run |-> "none"] /\ result' = [r \in Run |-> "failed"]
      /\ accepting' = {} /\ held' = {} /\ submitted' = {}
      /\ aborts' = [r \in Run |-> 0] /\ parks' = {}
  BY DEF Restart
<1>3. \A q \in Run : journal'[q] = IF Live(q) THEN "interrupted" ELSE journal[q] BY <1>2
<1>4. TypeOK'
  <2>1. journal' \in [Run -> Contract!JournalStatus]
    BY <1>1, <1>2, StatusesAre DEF TypeOK, Contract!DaemonTypeOK
  <2>2. Contract!DaemonTypeOK'
    BY <1>1, <1>2, <2>1 DEF TypeOK, Contract!DaemonTypeOK
  <2>3. resuming' \in BOOLEAN /\ maintenance' \in BOOLEAN BY <1>2
  <2>4. 0 \in 0..MaxCalls OBVIOUS
  <2>5. mutations' \in 0..MaxCalls /\ aborts' \in [Run -> 0..MaxCalls] BY <1>2, <2>4
  <2> QED BY <1>2, <2>2, <2>3, <2>5 DEF TypeOK
<1>5. Rooted' BY <1>1, <1>2, <1>3, StatusesAre DEF Rooted
<1>6. Accepting' BY <1>2 DEF Accepting
<1>7. Waiting' /\ Returning' BY <1>2 DEF Waiting, Returning, Suspending, Resumes
<1>8. Occupied' BY <1>2 DEF Occupied
<1>9. MaintenanceWaits' BY <1>2 DEF MaintenanceWaits
<1>10. Visible
  <2>1. Contract!Restart BY <1>2 DEF Contract!Restart, Live
  <2> QED BY <2>1 DEF Visible, Contract!DaemonNext
<1> QED BY <1>1, <1>2, <1>4, <1>5, <1>6, <1>7, <1>8, <1>9, <1>10, RootsKept DEF IInv

-------------------------------------------------------------------------------
LEMMA InitInv ==
  ASSUME Init
  PROVE  IInv /\ Contract!DaemonInit
<1> USE AgentAssumption DEF AgentAssumption
<1>1. /\ journal = [r \in Run |-> "none"] /\ root = [r \in Run |-> None]
      /\ active = [l \in Contract!Lanes |-> None]
      /\ cancelling = {} /\ parkedRuns = {} /\ resuming = FALSE
      /\ maintenance = FALSE /\ mutations = 0
      /\ exec = [r \in Run |-> "none"] /\ result = [r \in Run |-> "failed"]
      /\ accepting = {} /\ held = {} /\ submitted = {}
      /\ aborts = [r \in Run |-> 0] /\ parks = {}
  BY DEF Init
<1>2. Contract!DaemonInit /\ Contract!DaemonTypeOK
  BY <1>1, StatusesAre DEF Contract!DaemonInit, Contract!DaemonTypeOK
<1>3. /\ resuming \in BOOLEAN /\ maintenance \in BOOLEAN
      /\ mutations \in 0..MaxCalls /\ aborts \in [Run -> 0..MaxCalls]
  <2>1. resuming \in BOOLEAN /\ maintenance \in BOOLEAN BY <1>1
  <2>2. 0 \in 0..MaxCalls OBVIOUS
  <2>3. mutations \in 0..MaxCalls /\ aborts \in [Run -> 0..MaxCalls] BY <1>1, <2>2
  <2> QED BY <2>1, <2>3
<1>4. TypeOK BY <1>1, <1>2, <1>3 DEF TypeOK
<1>5. Rooted /\ Accepting BY <1>1 DEF Rooted, Accepting
<1>6. Waiting /\ Returning BY <1>1 DEF Waiting, Returning, Suspending, Resumes
<1>7. Occupied /\ MaintenanceWaits BY <1>1 DEF Occupied, MaintenanceWaits
<1> QED BY <1>2, <1>4, <1>5, <1>6, <1>7 DEF IInv

LEMMA NextSteps ==
  ASSUME IInv, [Next]_vars
  PROVE  IInv' /\ Visible /\ OneStepNotBusy
<1>1. CASE \E r \in Run : PutRoot(r) \/ Submitted(r) \/ Cancel(r) \/ Suspend(r) \/ Resume(r)
  BY <1>1, PutRootSteps, SubmittedSteps, CancelSteps, SuspendSteps, ResumeSteps
<1>2. CASE \E r, rt \in Run : PutSteer(r, rt) BY <1>2, PutSteerSteps
<1>3. CASE \E rt \in Run : Return(rt) \/ Aborted(rt) BY <1>3, ReturnSteps, AbortedSteps
<1>4. CASE \E rt \in Run, st \in {"succeeded", "failed"} : AgentEnds(rt, st)
  BY <1>4, AgentEndsSteps
<1>5. CASE \E p \in parks : Parked(p)
  <2>1. PICK p \in parks : Parked(p) BY <1>5
  <2>2. CASE Live(p.run) /\ p.parked BY <2>1, <2>2, ParkSteps
  <2>3. CASE Live(p.run) /\ ~p.parked BY <2>1, <2>3, ReturnedSteps
  <2>4. CASE ~Live(p.run) BY <2>1, <2>4, TooLateSteps
  <2> QED BY <2>2, <2>3, <2>4
<1>6. CASE EnterMaintenance BY <1>6, EnterMaintenanceSteps
<1>7. CASE LeaveMaintenance \/ Mutation \/ UNCHANGED vars BY <1>7, QuietSteps
<1>8. CASE Restart BY <1>8, RestartSteps
<1> QED BY <1>1, <1>2, <1>3, <1>4, <1>5, <1>6, <1>7, <1>8 DEF Next

\* The inductive invariant of the daemon: responses, calls that wait, and the lanes.
THEOREM DaemonInvariant == Spec => []IInv
<1>1. Init => IInv BY InitInv
<1>2. IInv /\ [Next]_vars => IInv' BY NextSteps
<1> QED BY <1>1, <1>2, PTL DEF Spec

\* Every variable of the daemon keeps its type, whichever handlers interleave.
THEOREM TypeCorrect == Spec => []TypeOK
<1>1. IInv => TypeOK BY DEF IInv
<1> QED BY <1>1, DaemonInvariant, PTL

\* The daemon takes no maintenance over an upload or a background execution,
\* though it looks only at its lanes, its parked responses and its counters.
THEOREM MaintenanceIsSafe == Spec => []MaintenanceWaits
<1>1. IInv => MaintenanceWaits BY DEF IInv
<1> QED BY <1>1, DaemonInvariant, PTL

\* An id that put accepts is given to an executor that takes it.
THEOREM AcceptedIsExecuted == Spec => NeverBusy
<1>1. IInv /\ [Next]_vars => [OneStepNotBusy]_vars BY NextSteps
<1>2. Spec => [][OneStepNotBusy]_vars BY <1>1, DaemonInvariant, PTL DEF Spec
<1> QED BY <1>2 DEF NeverBusy, OneStepNotBusy

\* The daemon with its awaits implements the contract the control plane relies on.
THEOREM DaemonImplementsContract == Spec => ImplementsContract
<1>1. Init => Contract!DaemonInit BY InitInv
<1>2. IInv /\ [Next]_vars => [Contract!DaemonNext]_(Contract!daemonVars)
  BY NextSteps DEF Visible, Contract!daemonVars
<1> QED BY <1>1, <1>2, DaemonInvariant, PTL DEF Spec, ImplementsContract, Contract!DaemonSpec
=============================================================================
