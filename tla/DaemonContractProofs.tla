------------------------- MODULE DaemonContractProofs -------------------------
(***************************************************************************)
(* Theorems about DaemonContract: its types, and that the journal only     *)
(* moves forward: an id is taken once and a settled id stays settled.      *)
(***************************************************************************)
EXTENDS DaemonContract, TLAPS

\* How a daemon step may move the journal, S being the ids it accepts.
Forward(S) ==
  \A q \in Run :
    \/ journal'[q] = journal[q]
    \/ Live(q) /\ journal'[q] \in LiveStatus \cup Terminal
    \/ q \in S /\ journal[q] = "none" /\ journal'[q] \in LiveStatus

LEMMA LaneType == \A r \in Run : Lane(r) \in Lanes
BY DEF Lane, Lanes

LEMMA AcceptRootForward ==
  ASSUME DaemonTypeOK, NEW r \in Run, AcceptRoot(r)
  PROVE  DaemonTypeOK' /\ Forward({r}) /\ Live(r)'
BY LaneType DEF DaemonTypeOK, AcceptRoot, Forward, JournalStatus, LiveStatus, Live

LEMMA AcceptSteerForward ==
  ASSUME DaemonTypeOK, NEW r \in Run, NEW rt \in Run, AcceptSteer(r, rt)
  PROVE  DaemonTypeOK' /\ Forward({r}) /\ Live(r)'
BY DEF DaemonTypeOK, AcceptSteer, Forward, JournalStatus, LiveStatus, Live

LEMMA SteerFailsForward ==
  ASSUME DaemonTypeOK, NEW r \in Run, SteerFails(r)
  PROVE  DaemonTypeOK' /\ Forward({})
BY DEF DaemonTypeOK, SteerFails, Forward, JournalStatus, LiveStatus, Terminal, Live

\* SetGroup moves live ids only, those of the group all to st.
LEMMA SetGroupForward ==
  ASSUME DaemonTypeOK, NEW rt \in Run \cup {None}, NEW st \in LiveStatus \cup Terminal,
         SetGroup(rt, st)
  PROVE  /\ journal' \in [Run -> JournalStatus] /\ Forward({})
         /\ \A q \in Run : root[q] = rt /\ Live(q) => journal'[q] = st
BY DEF DaemonTypeOK, SetGroup, LiveGroup, Forward, JournalStatus, Live

LEMMA VacateType ==
  ASSUME DaemonTypeOK, NEW rt, Vacate(rt)
  PROVE  active' \in [Lanes -> Run \cup {None}]
BY DEF DaemonTypeOK, Vacate

LEMMA FinishRootForward ==
  ASSUME DaemonTypeOK, NEW rt \in Run \cup {None}, NEW st, FinishRoot(rt, st)
  PROVE  /\ DaemonTypeOK' /\ Forward({})
         /\ \A q \in Run : root[q] = rt /\ Live(q) => journal'[q] = st
BY SetGroupForward, VacateType DEF FinishRoot, Terminal, DaemonTypeOK

LEMMA AbortRootForward ==
  ASSUME DaemonTypeOK, NEW rt \in Run \cup {None}, NEW st, AbortRoot(rt, st)
  PROVE  /\ DaemonTypeOK' /\ Forward({})
         /\ \A q \in Run : root[q] = rt /\ Live(q) => journal'[q] = st
BY SetGroupForward DEF AbortRoot, Terminal, DaemonTypeOK

LEMMA ReleaseForward ==
  ASSUME DaemonTypeOK, NEW rt, Release(rt)
  PROVE  DaemonTypeOK' /\ Forward({})
BY VacateType DEF Release, DaemonTypeOK, Forward

LEMMA ParkRootForward ==
  ASSUME DaemonTypeOK, NEW rt \in Run, ParkRoot(rt)
  PROVE  DaemonTypeOK' /\ Forward({})
BY SetGroupForward, VacateType DEF ParkRoot, LiveStatus, DaemonTypeOK

LEMMA ResumeRootForward ==
  ASSUME DaemonTypeOK, NEW rt \in Run \cup {None}, ResumeRoot(rt)
  PROVE  DaemonTypeOK' /\ Forward({})
<1>1. Lane(rt) \in Lanes  BY DEF Lane, Lanes
<1> QED  BY <1>1, SetGroupForward DEF ResumeRoot, LiveStatus, DaemonTypeOK

LEMMA RestartForward ==
  ASSUME DaemonTypeOK, Restart
  PROVE  DaemonTypeOK' /\ Forward({}) /\ \A q \in Run : ~Live(q)'
BY DEF Restart, DaemonTypeOK, Forward, JournalStatus, LiveStatus, Terminal, Live

-------------------------------------------------------------------------------

\* An id has a response root from its acceptance on, and keeps it.
RootsRecorded == \A q \in Run : journal[q] = "none" <=> root[q] = None
RootsKept == \A q \in Run : root[q] # None => root'[q] = root[q]

LEMMA RootsUnchanged ==
  ASSUME RootsRecorded, Forward({}), UNCHANGED root
  PROVE  RootsRecorded' /\ RootsKept
BY DEF RootsRecorded, RootsKept, Forward, Live, LiveStatus, Terminal

LEMMA RootsAccepted ==
  ASSUME DaemonTypeOK, RootsRecorded, NEW r \in Run,
         AcceptRoot(r) \/ \E rt \in Run : AcceptSteer(r, rt)
  PROVE  RootsRecorded' /\ RootsKept
<1>1. PICK rt \in Run, st \in LiveStatus :
        /\ journal' = [journal EXCEPT ![r] = st] /\ root' = [root EXCEPT ![r] = rt]
        /\ journal[r] = "none"
  BY DEF AcceptRoot, AcceptSteer, Live, LiveStatus
<1>2. rt # None /\ st # "none"
  BY DaemonAssumption DEF LiveStatus
<1> QED  BY <1>1, <1>2 DEF DaemonTypeOK, RootsRecorded, RootsKept

-------------------------------------------------------------------------------

LEMMA StepForward ==
  ASSUME DaemonTypeOK, [DaemonNext]_daemonVars
  PROVE  DaemonTypeOK' /\ Forward(Run)
<1>1. CASE \E r \in Run : AcceptRoot(r)
  BY <1>1, AcceptRootForward DEF Forward
<1>2. CASE \E r \in Run : SteerFails(r)
  BY <1>2, SteerFailsForward DEF Forward
<1>3. CASE \E r, rt \in Run : AcceptSteer(r, rt)
  BY <1>3, AcceptSteerForward DEF Forward
<1>4. CASE \E rt \in Run, st \in Terminal : FinishRoot(rt, st) \/ AbortRoot(rt, st)
  BY <1>4, FinishRootForward, AbortRootForward DEF Forward
<1>5. CASE \E rt \in Run : Release(rt) \/ ParkRoot(rt) \/ ResumeRoot(rt)
  BY <1>5, ReleaseForward, ParkRootForward, ResumeRootForward DEF Forward
<1>6. CASE Restart
  BY <1>6, RestartForward DEF Forward
<1>7. CASE UNCHANGED daemonVars
  BY <1>7 DEF daemonVars, DaemonTypeOK, Forward
<1> QED  BY <1>1, <1>2, <1>3, <1>4, <1>5, <1>6, <1>7 DEF DaemonNext

\* The variables of the daemon keep their types.
THEOREM DaemonTypes == DaemonSpec => []DaemonTypeOK
<1>1. DaemonInit => DaemonTypeOK
  BY DEF DaemonInit, DaemonTypeOK, JournalStatus
<1>2. DaemonTypeOK /\ [DaemonNext]_daemonVars => DaemonTypeOK'
  BY StepForward
<1> QED  BY <1>1, <1>2, PTL DEF DaemonSpec

\* An id in the journal is never forgotten, and one that is settled is never
\* touched again: accept ignores a known id, settleGroup only live rows.
THEOREM JournalIsForward ==
  DaemonSpec => [][\A q \in Run : /\ journal[q] # "none" => journal'[q] # "none"
                                  /\ journal[q] \in Terminal => journal'[q] = journal[q]]_daemonVars
<1> DEFINE Keeps == \A q \in Run : /\ journal[q] # "none" => journal'[q] # "none"
                                   /\ journal[q] \in Terminal => journal'[q] = journal[q]
<1>1. DaemonTypeOK /\ [DaemonNext]_daemonVars => [Keeps]_daemonVars
  BY StepForward DEF Forward, Live, LiveStatus, Terminal
<1> QED  BY <1>1, DaemonTypes, PTL DEF DaemonSpec
===============================================================================
