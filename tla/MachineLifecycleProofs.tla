----------------------- MODULE MachineLifecycleProofs ------------------------
(***************************************************************************)
(* For any number of Companions and executors, and any capacity: the types *)
(* of MachineLifecycle; a place is taken only within the capacity configured *)
(* at that time; a computer that runs has its place, and a removal is complete *)
(* only when nothing runs or will.                                         *)
(*                                                                         *)
(* A step that gives a Companion a computer (the intent to create it, its  *)
(* identity, its readiness) adds nobody to the occupants, because the job  *)
(* of the leader went on only with an admitted request, and none but that  *)
(* job closes the request: this is HeldPlace.                              *)
(*                                                                         *)
(* A resume that nobody waits for any more may wake a computer at any time; *)
(* the last two say what is true in spite of it, and that no request the   *)
(* server waits for does worse.  Their argument looks at one Companion at a *)
(* time, and of the jobs only at that of the leader: Fine says what the    *)
(* row, the requests on their way, the computer, that job and the          *)
(* observation know of each other.                                         *)
(***************************************************************************)
EXTENDS MachineLifecycle, FiniteSetTheorems, TLAPS

-----------------------------------------------------------------------------
\* Types, and places within the capacity.

Pcs == {"idle"} \cup PreparePc \cup RetirePc

LEMMA JobGoes ==
  ASSUME TypeOK, NEW e \in Executor, NEW c \in Companion, NEW pc \in Pcs, Go(e, c, pc),
         pc \in {"inspect", "resuming", "archive"} => job[<<e, c>>].box
  PROVE  job' \in [Executor \X Companion -> Job]
<1>1. job[<<e, c>>] \in Job BY DEF TypeOK
<1>2. [job[<<e, c>>] EXCEPT !.pc = pc] \in Job BY <1>1 DEF Job, Pcs
<1>3. <<e, c>> \in Executor \X Companion OBVIOUS
<1> QED BY <1>2, <1>3 DEF Go, TypeOK

LEMMA JobStops ==
  ASSUME TypeOK, NEW e \in Executor, NEW c \in Companion, Stop(e, c)
  PROVE  job' \in [Executor \X Companion -> Job]
<1>1. Idle \in Job BY DEF Idle, Job
<1> QED BY <1>1 DEF Stop, TypeOK

LEMMA DecideTypes ==
  ASSUME TypeOK, NEW c \in Companion, Decide(c)
  PROVE  /\ prepare' \in [Companion -> BOOLEAN]
         /\ admission' \in [Companion -> {"none", "queued", "admitted"}]
<1>1. (prepare[c] \/ ~retired[c]) \in BOOLEAN OBVIOUS
<1> QED BY <1>1 DEF Decide, TypeOK

LEMMA GiveUpTypes ==
  ASSUME TypeOK, NEW e \in Executor, NEW c \in Companion, GiveUp(e, c)
  PROVE  TypeOK'
<1>1. job' \in [Executor \X Companion -> Job] BY JobStops DEF GiveUp
<1> QED BY <1>1 DEF GiveUp, TypeOK, JobFrame, rowVars, outsideVars, endVars, intentVars

-------------------------------------------------------------------------------
(* The steps of a preparation keep the types.                              *)

LEMMA BeginPrepareTypes ==
  ASSUME TypeOK, NEW e \in Executor, NEW c \in Companion, BeginPrepare(e, c)
  PROVE  TypeOK'
<1> DEFINE j == [pc |-> "admit", box |-> box[c],
                 reuse |-> status[c] = "ready" /\ endpoint[c] /\ box[c] /\ digest[c]]
<1>1. box[c] \in BOOLEAN /\ (status[c] = "ready" /\ endpoint[c] /\ box[c] /\ digest[c]) \in BOOLEAN
  BY DEF TypeOK
<1>2. j \in Job BY <1>1 DEF Job, PreparePc
<1>3. job' = [job EXCEPT ![<<e, c>>] = j] BY DEF BeginPrepare
<1>4. job' \in [Executor \X Companion -> Job] BY <1>2, <1>3 DEF TypeOK
<1> QED BY <1>4 DEF BeginPrepare, TypeOK, JobLocal, JobFrame, rowVars, outsideVars, endVars, intentVars

LEMMA AdmitTypes ==
  ASSUME TypeOK, NEW e \in Executor, NEW c \in Companion, Admit(e, c)
  PROVE  TypeOK'
<1>1. job' \in [Executor \X Companion -> Job]
  BY JobStops, JobGoes DEF Admit, Pcs, PreparePc
<1>2. /\ prepare' \in [Companion -> BOOLEAN]
      /\ admission' \in [Companion -> {"none", "queued", "admitted"}]
  <2>1. CASE admission[c] = "none" /\ ~retired[c] BY <2>1, DecideTypes DEF Admit
  <2>2. CASE ~(admission[c] = "none" /\ ~retired[c]) BY <2>2 DEF Admit, TypeOK
  <2> QED BY <2>1, <2>2
<1> QED BY <1>1, <1>2 DEF Admit, TypeOK, JobFrame, rowVars, outsideVars, endVars

LEMMA AllowTypes ==
  ASSUME TypeOK, NEW e \in Executor, NEW c \in Companion, Allow(e, c) \/ Disallow(e, c)
  PROVE  TypeOK'
<1>1. CASE Allow(e, c)
  <2>1. job' \in [Executor \X Companion -> Job]
    BY <1>1, JobStops, JobGoes DEF Allow, Pcs, PreparePc
  <2> QED BY <1>1, <2>1 DEF Allow, TypeOK, JobFrame, intentVars, outsideVars, endVars
<1>2. CASE Disallow(e, c)
  <2>1. job' \in [Executor \X Companion -> Job] BY <1>2, JobStops DEF Disallow
  <2> QED BY <1>2, <2>1 DEF Disallow, TypeOK, JobFrame, outsideVars, endVars
<1> QED BY <1>1, <1>2

LEMMA IntendTypes ==
  ASSUME TypeOK, NEW e \in Executor, NEW c \in Companion, Intend(e, c)
  PROVE  TypeOK'
<1>1. CASE started[c] = "late" BY <1>1, GiveUpTypes DEF Intend
<1>2. CASE started[c] # "late"
  <2>1. job' \in [Executor \X Companion -> Job]
    <3>1. CASE job[<<e, c>>].reuse
      BY <1>2, <3>1, JobGoes DEF Intend, Pcs, PreparePc
    <3>2. CASE ~job[<<e, c>>].reuse /\ job[<<e, c>>].box
      BY <1>2, <3>2, JobGoes DEF Intend, Pcs, PreparePc
    <3>3. CASE ~job[<<e, c>>].reuse /\ ~job[<<e, c>>].box
      BY <1>2, <3>3, JobGoes DEF Intend, Pcs, PreparePc
    <3> QED BY <3>1, <3>2, <3>3
  <2> QED BY ZenonT(30), <1>2, <2>1 DEF Intend, TypeOK, JobFrame, outsideVars, endVars
<1> QED BY <1>1, <1>2

LEMMA CreateTypes ==
  ASSUME TypeOK, NEW e \in Executor, NEW c \in Companion,
         Create(e, c) \/ Created(e, c) \/ CreateFails(e, c) \/ ImageMissing(e, c)
  PROVE  TypeOK'
<1>1. CASE Create(e, c)
  <2>1. CASE GiveUp(e, c) BY <2>1, GiveUpTypes
  <2>2. CASE ~GiveUp(e, c)
    <3>1. Go(e, c, "creating") /\ wire' = wire \cup {[type |-> "create", to |-> c]}
      BY <1>1, <2>2 DEF Create
    <3>2. job' \in [Executor \X Companion -> Job] BY <3>1, JobGoes DEF Pcs, PreparePc
    <3> QED BY <1>1, <2>2, <3>1, <3>2 DEF Create, TypeOK, JobFrame, rowVars, intentVars, endVars
  <2> QED BY <2>1, <2>2
<1>2. CASE Created(e, c)
  <2> DEFINE j == [job[<<e, c>>] EXCEPT !.pc = "inspect", !.box = TRUE]
  <2>1. job[<<e, c>>] \in Job BY DEF TypeOK
  <2>2. j \in Job BY <2>1 DEF Job, PreparePc
  <2>3. job' = [job EXCEPT ![<<e, c>>] = j] BY <1>2 DEF Created
  <2>4. job' \in [Executor \X Companion -> Job] BY <2>2, <2>3 DEF TypeOK
  <2> QED BY <1>2, <2>4 DEF Created, TypeOK, JobFrame, intentVars, outsideVars, endVars
<1>3. CASE CreateFails(e, c) BY <1>3, GiveUpTypes DEF CreateFails
<1>4. CASE ImageMissing(e, c)
  <2>1. job' \in [Executor \X Companion -> Job] BY <1>4, JobStops DEF ImageMissing
  <2> QED BY <1>4, <2>1 DEF ImageMissing, TypeOK, JobFrame, rowVars, endVars
<1> QED BY <1>1, <1>2, <1>3, <1>4

LEMMA InspectTypes ==
  ASSUME TypeOK, NEW e \in Executor, NEW c \in Companion,
         Inspect(e, c) \/ SetupFailed(e, c) \/ Resumed(e, c)
  PROVE  TypeOK'
<1>1. CASE Inspect(e, c)
  <2>1. job[<<e, c>>] \in Job BY DEF TypeOK
  <2>2. job[<<e, c>>].box BY <1>1, <2>1 DEF Inspect, At, Job
  <2>3. \/ Go(e, c, "resuming") \/ Go(e, c, "health") \/ Stop(e, c)
    BY <1>1 DEF Inspect
  <2>4. job' \in [Executor \X Companion -> Job]
    BY <2>2, <2>3, JobGoes, JobStops DEF Pcs, PreparePc
  <2>5. wire' \subseteq [type : {"create", "resume", "stray"}, to : Companion]
    BY <1>1 DEF Inspect, TypeOK
  <2>6. digest' \in [Companion -> BOOLEAN] BY <1>1 DEF Inspect, TypeOK
  <2> QED BY <1>1, <2>4, <2>5, <2>6 DEF Inspect, TypeOK, JobFrame, intentVars, endVars
<1>2. CASE SetupFailed(e, c) BY <1>2, GiveUpTypes DEF SetupFailed
<1>3. CASE Resumed(e, c)
  <2>1. job' \in [Executor \X Companion -> Job] BY <1>3, JobStops DEF Resumed
  <2>2. wire' \subseteq [type : {"create", "resume", "stray"}, to : Companion]
    BY <1>3 DEF Resumed, Astray, TypeOK
  <2> QED BY <1>3, <2>1, <2>2 DEF Resumed, TypeOK, JobFrame, rowVars, intentVars, endVars
<1> QED BY <1>1, <1>2, <1>3

LEMMA ReadyTypes ==
  ASSUME TypeOK, NEW e \in Executor, NEW c \in Companion,
         Health(e, c) \/ Ready(e, c) \/ Abandon(e, c)
  PROVE  TypeOK'
<1>1. CASE Health(e, c)
  <2>1. job' \in [Executor \X Companion -> Job]
    BY <1>1, JobStops, JobGoes DEF Health, Pcs, PreparePc
  <2> QED BY <1>1, <2>1 DEF Health, TypeOK, JobFrame, intentVars, outsideVars, endVars
<1>2. CASE Ready(e, c)
  <2>1. job' \in [Executor \X Companion -> Job] BY <1>2, JobStops DEF Ready
  <2>2. watch' \in Watch \cup {None}
    <3>1. CASE ~job[<<e, c>>].reuse /\ watch # None /\ watch.on = c
      <4>1. watch \in Watch BY <3>1 DEF TypeOK
      <4>2. [watch EXCEPT !.current = FALSE] \in Watch BY <4>1 DEF Watch
      <4> QED BY <1>2, <3>1, <4>2 DEF Ready
    <3>2. CASE ~(~job[<<e, c>>].reuse /\ watch # None /\ watch.on = c)
      BY <1>2, <3>2 DEF Ready, TypeOK
    <3> QED BY <3>1, <3>2
  <2> QED BY <1>2, <2>1, <2>2 DEF Ready, TypeOK, outsideVars
<1>3. CASE Abandon(e, c)
  <2>1. job' \in [Executor \X Companion -> Job] BY <1>3, JobStops DEF Abandon
  <2> QED BY <1>3, <2>1
      DEF Abandon, TypeOK, JobLocal, JobFrame, rowVars, outsideVars, endVars, intentVars
<1> QED BY <1>1, <1>2, <1>3

LEMMA RetireStepTypes ==
  ASSUME TypeOK, NEW e \in Executor, NEW c \in Companion, RetireStep(e, c)
  PROVE  TypeOK'
<1>1. CASE BeginRetire(e, c)
  <2> DEFINE j == [pc |-> IF box[c] THEN "archive" ELSE "remove", box |-> box[c], reuse |-> FALSE]
  <2>1. box[c] \in BOOLEAN BY DEF TypeOK
  <2>2. j \in Job BY <2>1 DEF Job, RetirePc
  <2>3. job' = [job EXCEPT ![<<e, c>>] = j] BY <1>1 DEF BeginRetire
  <2>4. job' \in [Executor \X Companion -> Job] BY <2>2, <2>3 DEF TypeOK
  <2> QED BY <1>1, <2>4
      DEF BeginRetire, TypeOK, JobLocal, JobFrame, rowVars, outsideVars, endVars, intentVars
<1>2. CASE ArchiveBox(e, c)
  <2>1. job' \in [Executor \X Companion -> Job]
    BY <1>2, JobStops, JobGoes DEF ArchiveBox, Pcs, RetirePc
  <2>2. machine' \in [Companion -> {"none", "running", "archived"}]
    BY <1>2 DEF ArchiveBox, TypeOK
  <2>3. woken' \subseteq Companion BY <1>2 DEF ArchiveBox, TypeOK
  <2> QED BY <1>2, <2>1, <2>2, <2>3 DEF ArchiveBox, TypeOK, JobFrame, rowVars, intentVars, endVars
<1>3. CASE Remove(e, c)
  <2>1. job' \in [Executor \X Companion -> Job] BY <1>3, JobStops DEF Remove
  <2> QED BY <1>3, <2>1 DEF Remove, TypeOK, outsideVars
<1> QED BY <1>1, <1>2, <1>3 DEF RetireStep

-------------------------------------------------------------------------------
(* So do the steps of everybody else.                                      *)

LEMMA WatchTypes ==
  ASSUME TypeOK, Seen \/ Observed \/ \E e \in Executor, c \in Companion : Observe(e, c)
  PROVE  TypeOK'
<1>1. CASE Seen
  <2>1. watch \in Watch BY <1>1 DEF Seen, TypeOK
  <2>2. machine[watch.on] \in {"running", "archived"} BY <1>1, <2>1 DEF Seen, TypeOK, Watch
  <2>3. [watch EXCEPT !.seen = machine[watch.on]] \in Watch BY <2>1, <2>2 DEF Watch
  <2> QED BY <1>1, <2>3 DEF Seen, TypeOK, rowVars, outsideVars, endVars, intentVars
<1>2. CASE Observed
  <2>1. watch \in Watch BY <1>2 DEF Observed, TypeOK
  <2>2. watch.on \in Companion BY <2>1 DEF Watch
  <2>3. /\ status' \in [Companion -> {"new", "preparing", "ready", "error", "archived"}]
        /\ archived' \in [Companion -> {"no", "asleep", "removed"}]
        /\ endpoint' \in [Companion -> BOOLEAN]
    BY ZenonT(30), <1>2, <2>2 DEF Observed, TypeOK
  <2> QED BY <1>2, <2>3 DEF Observed, TypeOK, outsideVars, intentVars
<1>3. ASSUME NEW e \in Executor, NEW c \in Companion, Observe(e, c) PROVE TypeOK'
  <2>1. [on |-> c, by |-> e, current |-> TRUE, seen |-> "unasked"] \in Watch BY DEF Watch
  <2> QED BY <1>3, <2>1 DEF Observe, TypeOK, rowVars, outsideVars, endVars, intentVars
<1> QED BY <1>1, <1>2, <1>3

LEMMA LeaseTypes ==
  ASSUME TypeOK, ConfigureLimits \/ Lose \/ \E e \in Executor : Acquire(e)
  PROVE  TypeOK'
<1>1. CASE ConfigureLimits
  BY <1>1 DEF ConfigureLimits, TypeOK, rowVars, outsideVars, endVars, intentVars
<1>2. CASE Lose BY <1>2 DEF Lose, TypeOK, rowVars, outsideVars, endVars, intentVars
<1>3. ASSUME NEW e \in Executor, Acquire(e) PROVE TypeOK'
  <2>1. [c \in Companion |-> FALSE] \in [Companion -> BOOLEAN] OBVIOUS
  <2>2. digest' \in [Companion -> BOOLEAN] BY <1>3, <2>1 DEF Acquire, TypeOK
  <2>3. wire' \subseteq [type : {"create", "resume", "stray"}, to : Companion]
    BY <1>3 DEF Acquire, Astray, TypeOK
  <2> QED BY <1>3, <2>2, <2>3 DEF Acquire, TypeOK, endVars, intentVars
<1> QED BY <1>1, <1>2, <1>3

LEMMA WorldTypes ==
  ASSUME TypeOK, NEW c \in Companion,
         \/ RequestPreparation(c) \/ AdmitQueued(c) \/ Retire(c) \/ FallAsleep(c) \/ Elapse(c)
         \/ Want(c) \/ LoseEndpoint(c)
  PROVE  TypeOK'
<1>1. CASE RequestPreparation(c) \/ AdmitQueued(c)
  <2>1. Decide(c) BY <1>1 DEF RequestPreparation, AdmitQueued
  <2>2. /\ prepare' \in [Companion -> BOOLEAN]
        /\ admission' \in [Companion -> {"none", "queued", "admitted"}]
    BY <2>1, DecideTypes
  <2> QED BY <1>1, <2>2
      DEF RequestPreparation, AdmitQueued, TypeOK, rowVars, outsideVars, endVars
<1>2. CASE Retire(c) BY <1>2 DEF Retire, TypeOK, rowVars, outsideVars
<1>3. CASE FallAsleep(c) BY <1>3 DEF FallAsleep, TypeOK, rowVars, endVars, intentVars
<1>4. CASE Elapse(c) BY <1>4 DEF Elapse, TypeOK, rowVars, outsideVars, endVars
<1>5. CASE Want(c) BY <1>5 DEF Want, TypeOK, rowVars, outsideVars, endVars
<1>6. CASE LoseEndpoint(c) BY <1>6 DEF LoseEndpoint, TypeOK, outsideVars, endVars
<1> QED BY <1>1, <1>2, <1>3, <1>4, <1>5, <1>6

LEMMA DeliverTypes ==
  ASSUME TypeOK, NEW m \in wire, Deliver(m)
  PROVE  TypeOK'
<1>1. m.to \in Companion BY DEF TypeOK
<1>2. machine' \in [Companion -> {"none", "running", "archived"}]
  BY <1>1 DEF Deliver, TypeOK
<1>3. wire' \subseteq [type : {"create", "resume", "stray"}, to : Companion] BY DEF Deliver, TypeOK
<1>4. woken' \subseteq Companion BY <1>1 DEF Deliver, TypeOK
<1> QED BY <1>2, <1>3, <1>4 DEF Deliver, TypeOK, rowVars, endVars, intentVars

\* Every variable keeps its type, and a job only looks at a Box it knows.
THEOREM TypeCorrect == Spec => []TypeOK
<1>1. Init => TypeOK
  <2>1. Idle \in Job BY DEF Idle, Job
  <2> QED BY <2>1 DEF Init, TypeOK
<1>2. TypeOK /\ [Next]_vars => TypeOK'
  <2> SUFFICES ASSUME TypeOK, [Next]_vars PROVE TypeOK' OBVIOUS
  <2>1. CASE UNCHANGED vars
    BY <2>1 DEF vars, TypeOK, rowVars, outsideVars, endVars, intentVars
  <2>2. CASE Next
    <3>1. CASE ConfigureLimits \/ Lose \/ \E e \in Executor : Acquire(e) BY <3>1, LeaseTypes
    <3>2. CASE Seen \/ Observed \/ \E e \in Executor, c \in Companion : Observe(e, c)
      BY <3>2, WatchTypes
    <3>3. CASE \E m \in wire : Deliver(m) BY <3>3, DeliverTypes
    <3>4. ASSUME NEW c \in Companion,
                 \/ RequestPreparation(c) \/ AdmitQueued(c) \/ Retire(c) \/ FallAsleep(c)
                 \/ Elapse(c) \/ Want(c) \/ LoseEndpoint(c)
          PROVE  TypeOK'
      BY <3>4, WorldTypes
    <3>5. ASSUME NEW e \in Executor, NEW c \in Companion,
                 \/ BeginPrepare(e, c) \/ PrepareStep(e, c) \/ RetireStep(e, c) \/ Abandon(e, c)
          PROVE  TypeOK'
      BY <3>5, BeginPrepareTypes, AdmitTypes, AllowTypes, IntendTypes, CreateTypes, InspectTypes,
         ReadyTypes, RetireStepTypes DEF PrepareStep
    <3> QED BY <2>2, <3>1, <3>2, <3>3, <3>4, <3>5 DEF Next
  <2> QED BY <2>1, <2>2
<1> QED BY <1>1, <1>2, PTL DEF Spec

-------------------------------------------------------------------------------
(* A place is held by the job that fills it.                               *)

Past == PreparePc \ {"admit"}

\* The request under which the leader's job goes on stays admitted, unless the
\* Companion is removed.
HeldPlace ==
  \A e \in Executor, c \in Companion :
    leader = e /\ job[<<e, c>>].pc \in Past => retired[c] \/ admission[c] = "admitted"

IInv == TypeOK /\ HeldPlace

JobsGoOn ==
  \A e \in Executor, c \in Companion : job'[<<e, c>>].pc \in Past => job[<<e, c>>].pc \in Past

LEMMA GoingOn ==
  ASSUME HeldPlace, JobsGoOn, UNCHANGED <<retired, admission, leader>>
  PROVE  HeldPlace'
BY DEF HeldPlace, JobsGoOn

LEMMA JobMoves ==
  ASSUME TypeOK, NEW e \in Executor, NEW c \in Companion, NEW j \in Job,
         job' = [job EXCEPT ![<<e, c>>] = j],
         j.pc \in Past => job[<<e, c>>].pc \in Past
  PROVE  JobsGoOn
<1> SUFFICES ASSUME NEW e2 \in Executor, NEW c2 \in Companion, job'[<<e2, c2>>].pc \in Past
             PROVE  job[<<e2, c2>>].pc \in Past
  BY DEF JobsGoOn
<1>1. <<e, c>> \in Executor \X Companion /\ <<e2, c2>> \in Executor \X Companion OBVIOUS
<1>2. CASE <<e2, c2>> = <<e, c>> BY <1>1, <1>2 DEF TypeOK
<1>3. CASE <<e2, c2>> # <<e, c>> BY <1>1, <1>3 DEF TypeOK
<1> QED BY <1>2, <1>3

LEMMA StopEnds ==
  ASSUME TypeOK, NEW e \in Executor, NEW c \in Companion, Stop(e, c)
  PROVE  JobsGoOn
<1>1. Idle \in Job /\ Idle.pc \notin Past BY DEF Idle, Job, Past, PreparePc
<1> QED BY <1>1, JobMoves DEF Stop

LEMMA GoGoesOn ==
  ASSUME TypeOK, NEW e \in Executor, NEW c \in Companion, NEW pc \in Pcs, Go(e, c, pc),
         pc \in {"inspect", "resuming", "archive"} => job[<<e, c>>].box,
         pc \in Past => job[<<e, c>>].pc \in Past
  PROVE  JobsGoOn
<1> DEFINE j == [job[<<e, c>>] EXCEPT !.pc = pc]
<1>1. job[<<e, c>>] \in Job BY DEF TypeOK
<1>2. j \in Job BY <1>1 DEF Job, Pcs
<1>3. j.pc = pc BY <1>1 DEF Job
<1>4. job' = [job EXCEPT ![<<e, c>>] = j] BY DEF Go
<1> QED BY <1>2, <1>3, <1>4, JobMoves

\* The step leaves the requests, the lease and the occupants alone, or takes
\* occupants away.
Settled == HeldPlace' /\ Occupants' \subseteq Occupants

LEMMA Unmoved ==
  ASSUME HeldPlace, JobsGoOn, UNCHANGED <<retired, admission, leader, archived, endpoint, box, created>>
  PROVE  Settled
<1>1. HeldPlace' BY GoingOn
<1>2. Occupants' = Occupants BY DEF Occupants, Awake
<1> QED BY <1>1, <1>2 DEF Settled

LEMMA GiveUpSettles ==
  ASSUME IInv, NEW e \in Executor, NEW c \in Companion, GiveUp(e, c)
  PROVE  Settled
<1>1. TypeOK /\ HeldPlace BY DEF IInv
<1>2. JobsGoOn BY <1>1, StopEnds DEF GiveUp
<1> QED BY <1>1, <1>2, Unmoved DEF GiveUp, JobFrame, endVars

LEMMA CreationSettles ==
  ASSUME IInv, NEW e \in Executor, NEW c \in Companion,
         Intend(e, c) \/ Create(e, c) \/ Created(e, c) \/ CreateFails(e, c) \/ ImageMissing(e, c)
  PROVE  Settled
<1>1. TypeOK /\ HeldPlace BY DEF IInv
<1>2. CASE Intend(e, c)
  <2>1. CASE started[c] = "late" BY <1>2, <2>1, GiveUpSettles DEF Intend
  <2>2. CASE started[c] # "late"
    <3>1. leader = e /\ job[<<e, c>>].pc \in Past BY <1>2 DEF Intend, At, Past, PreparePc
    <3>2. retired[c] \/ admission[c] = "admitted" BY <1>1, <3>1 DEF HeldPlace
    <3>3. JobsGoOn
      <4>1. CASE job[<<e, c>>].reuse
        BY <1>1, <1>2, <2>2, <3>1, <4>1, GoGoesOn DEF Intend, Pcs, PreparePc
      <4>2. CASE ~job[<<e, c>>].reuse /\ job[<<e, c>>].box
        BY <1>1, <1>2, <2>2, <3>1, <4>2, GoGoesOn DEF Intend, Pcs, PreparePc
      <4>3. CASE ~job[<<e, c>>].reuse /\ ~job[<<e, c>>].box
        BY <1>1, <1>2, <2>2, <3>1, <4>3, GoGoesOn DEF Intend, Pcs, PreparePc
      <4> QED BY <4>1, <4>2, <4>3
    <3>4. UNCHANGED <<retired, admission, leader, archived, endpoint, box>>
      BY <1>2, <2>2 DEF Intend, JobFrame, endVars
    <3>5. \A d \in Companion : d # c => created'[d] = created[d]
      BY <1>1, <1>2, <2>2 DEF Intend, TypeOK
    <3>6. Occupants' \subseteq Occupants BY <3>2, <3>4, <3>5 DEF Occupants, Awake
    <3> QED BY <1>1, <3>3, <3>4, <3>6, GoingOn DEF Settled
  <2> QED BY <2>1, <2>2
<1>3. CASE Create(e, c)
  <2>1. CASE GiveUp(e, c) BY <2>1, GiveUpSettles
  <2>2. CASE ~GiveUp(e, c)
    <3>1. /\ At(e, c, "create") /\ Go(e, c, "creating")
          /\ UNCHANGED <<intentVars, rowVars, admission, machine>> /\ JobFrame
      BY <1>3, <2>2 DEF Create
    <3>2. JobsGoOn BY <1>1, <3>1, GoGoesOn DEF Pcs, PreparePc, Past, At
    <3> QED BY <1>1, <3>1, <3>2, Unmoved DEF JobFrame, endVars, rowVars, intentVars
  <2> QED BY <2>1, <2>2
<1>4. CASE Created(e, c)
  <2> DEFINE j == [job[<<e, c>>] EXCEPT !.pc = "inspect", !.box = TRUE]
  <2>1. leader = e /\ job[<<e, c>>].pc \in Past BY <1>4 DEF Created, At, Past, PreparePc
  <2>2. retired[c] \/ admission[c] = "admitted" BY <1>1, <2>1 DEF HeldPlace
  <2>3. job[<<e, c>>] \in Job BY <1>1 DEF TypeOK
  <2>4. j \in Job BY <2>3 DEF Job, PreparePc
  <2>5. job' = [job EXCEPT ![<<e, c>>] = j] BY <1>4 DEF Created
  <2>6. JobsGoOn BY <1>1, <2>1, <2>4, <2>5, JobMoves
  <2>7. UNCHANGED <<retired, admission, leader, archived, endpoint, created>>
    BY <1>4 DEF Created, JobFrame, endVars, intentVars
  <2>8. \A d \in Companion : d # c => box'[d] = box[d] BY <1>1, <1>4 DEF Created, TypeOK
  <2>9. Occupants' \subseteq Occupants BY <2>2, <2>7, <2>8 DEF Occupants, Awake
  <2> QED BY <1>1, <2>6, <2>7, <2>9, GoingOn DEF Settled
<1>5. CASE CreateFails(e, c) BY <1>5, GiveUpSettles DEF CreateFails
<1>6. CASE ImageMissing(e, c)
  <2>1. JobsGoOn BY <1>1, <1>6, StopEnds DEF ImageMissing
  <2>2. UNCHANGED <<retired, admission, leader, archived, endpoint, box>>
    BY <1>6 DEF ImageMissing, JobFrame, endVars, rowVars
  <2>3. \A d \in Companion : created'[d] => created[d] BY <1>1, <1>6 DEF ImageMissing, TypeOK
  <2>4. Occupants' \subseteq Occupants BY <2>2, <2>3 DEF Occupants, Awake
  <2> QED BY <1>1, <2>1, <2>2, <2>4, GoingOn DEF Settled
<1> QED BY <1>2, <1>3, <1>4, <1>5, <1>6

LEMMA PreparationSettles ==
  ASSUME IInv, NEW e \in Executor, NEW c \in Companion,
         \/ BeginPrepare(e, c) \/ Allow(e, c) \/ Disallow(e, c) \/ Inspect(e, c)
         \/ SetupFailed(e, c) \/ Resumed(e, c) \/ Health(e, c) \/ Abandon(e, c)
  PROVE  Settled
<1>1. TypeOK /\ HeldPlace BY DEF IInv
<1>2. CASE BeginPrepare(e, c)
  <2> DEFINE j == [pc |-> "admit", box |-> box[c],
                   reuse |-> status[c] = "ready" /\ endpoint[c] /\ box[c] /\ digest[c]]
  <2>1. box[c] \in BOOLEAN /\ (status[c] = "ready" /\ endpoint[c] /\ box[c] /\ digest[c]) \in BOOLEAN
    BY <1>1 DEF TypeOK
  <2>2. j \in Job /\ j.pc \notin Past BY <2>1 DEF Job, PreparePc, Past
  <2>3. job' = [job EXCEPT ![<<e, c>>] = j] BY <1>2 DEF BeginPrepare
  <2>4. JobsGoOn BY <1>1, <2>2, <2>3, JobMoves
  <2> QED BY <1>1, <1>2, <2>4, Unmoved
      DEF BeginPrepare, JobLocal, JobFrame, endVars, rowVars, intentVars
<1>3. CASE Allow(e, c)
  <2>1. JobsGoOn
    BY <1>1, <1>3, StopEnds, GoGoesOn DEF Allow, At, Pcs, PreparePc, Past
  <2> QED BY <1>1, <1>3, <2>1, Unmoved DEF Allow, JobFrame, endVars, intentVars
<1>4. CASE Disallow(e, c)
  <2>1. JobsGoOn BY <1>1, <1>4, StopEnds DEF Disallow
  <2> QED BY <1>1, <1>4, <2>1, Unmoved DEF Disallow, JobFrame, endVars
<1>5. CASE Inspect(e, c)
  <2>1. job[<<e, c>>] \in Job BY <1>1 DEF TypeOK
  <2>2. job[<<e, c>>].box BY <1>5, <2>1 DEF Inspect, At, Job
  <2>3. job[<<e, c>>].pc \in Past BY <1>5 DEF Inspect, At, Past, PreparePc
  <2>4. Go(e, c, "resuming") \/ Go(e, c, "health") \/ Stop(e, c) BY <1>5 DEF Inspect
  <2>5. JobsGoOn BY <1>1, <2>2, <2>3, <2>4, StopEnds, GoGoesOn DEF Pcs, PreparePc
  <2> QED BY <1>1, <1>5, <2>5, Unmoved DEF Inspect, JobFrame, endVars, intentVars
<1>6. CASE SetupFailed(e, c) BY <1>6, GiveUpSettles DEF SetupFailed
<1>7. CASE Resumed(e, c)
  <2>1. JobsGoOn BY <1>1, <1>7, StopEnds DEF Resumed
  <2> QED BY <1>1, <1>7, <2>1, Unmoved DEF Resumed, JobFrame, endVars, rowVars, intentVars
<1>8. CASE Health(e, c)
  <2>1. JobsGoOn BY <1>1, <1>8, StopEnds, GoGoesOn DEF Health, At, Pcs, PreparePc, Past
  <2>2. UNCHANGED <<retired, admission, leader, archived, box, created>>
    BY <1>8 DEF Health, JobFrame, endVars, intentVars
  <2>3. \A d \in Companion : endpoint'[d] => endpoint[d] BY <1>1, <1>8 DEF Health, TypeOK
  <2>4. Occupants' \subseteq Occupants BY <2>2, <2>3 DEF Occupants, Awake
  <2> QED BY <1>1, <2>1, <2>2, <2>4, GoingOn DEF Settled
<1>9. CASE Abandon(e, c)
  <2>1. JobsGoOn BY <1>1, <1>9, StopEnds DEF Abandon
  <2> QED BY <1>1, <1>9, <2>1, Unmoved
      DEF Abandon, JobLocal, JobFrame, endVars, rowVars, intentVars
<1> QED BY <1>2, <1>3, <1>4, <1>5, <1>6, <1>7, <1>8, <1>9

\* The end of the leader's job closes the request: no other job of the leader
\* works for that Companion.
LEMMA EndSettles ==
  ASSUME IInv, NEW e \in Executor, NEW c \in Companion,
         Ready(e, c) \/ RetireStep(e, c)
  PROVE  Settled
<1>1. TypeOK /\ HeldPlace BY DEF IInv
<1>2. ASSUME leader = e, Stop(e, c), UNCHANGED <<retired, leader>>,
             \A d \in Companion : d # c => admission'[d] = admission[d]
      PROVE  HeldPlace'
  <2> SUFFICES ASSUME NEW e2 \in Executor, NEW d \in Companion,
                      leader' = e2, job'[<<e2, d>>].pc \in Past
               PROVE  retired'[d] \/ admission'[d] = "admitted"
    BY DEF HeldPlace
  <2>1. JobsGoOn BY <1>1, <1>2, StopEnds
  <2>2. job[<<e2, d>>].pc \in Past BY <2>1 DEF JobsGoOn
  <2>3. e2 = e BY <1>2
  <2>4. d # c BY <1>1, <1>2, <2>3 DEF Stop, Idle, Past, PreparePc, TypeOK
  <2>5. retired[d] \/ admission[d] = "admitted" BY <1>1, <1>2, <2>2 DEF HeldPlace
  <2> QED BY <1>2, <2>4, <2>5
<1>3. CASE Ready(e, c)
  <2>1. leader = e /\ job[<<e, c>>].pc \in Past BY <1>3 DEF Ready, At, Past, PreparePc
  <2>2. retired[c] \/ admission[c] = "admitted" BY <1>1, <2>1 DEF HeldPlace
  <2>3. \A d \in Companion : d # c =>
          admission'[d] = admission[d] /\ endpoint'[d] = endpoint[d] /\ archived'[d] = archived[d]
    BY <1>1, <1>3 DEF Ready, TypeOK
  <2>4. HeldPlace' BY <1>2, <1>3, <2>3 DEF Ready
  <2>5. UNCHANGED <<retired, box, created>> BY <1>3 DEF Ready
  <2>6. Occupants' \subseteq Occupants BY <2>2, <2>3, <2>5 DEF Occupants, Awake
  <2> QED BY <2>4, <2>6 DEF Settled
<1>4. CASE BeginRetire(e, c)
  <2> DEFINE j == [pc |-> IF box[c] THEN "archive" ELSE "remove", box |-> box[c], reuse |-> FALSE]
  <2>1. box[c] \in BOOLEAN BY <1>1 DEF TypeOK
  <2>2. j \in Job /\ j.pc \notin Past BY <2>1 DEF Job, RetirePc, Past, PreparePc
  <2>3. job' = [job EXCEPT ![<<e, c>>] = j] BY <1>4 DEF BeginRetire
  <2>4. JobsGoOn BY <1>1, <2>2, <2>3, JobMoves
  <2> QED BY <1>1, <1>4, <2>4, Unmoved
      DEF BeginRetire, JobLocal, JobFrame, endVars, rowVars, intentVars
<1>5. CASE ArchiveBox(e, c)
  <2>1. JobsGoOn
    BY <1>1, <1>5, StopEnds, GoGoesOn DEF ArchiveBox, Pcs, RetirePc, Past, PreparePc
  <2> QED BY <1>1, <1>5, <2>1, Unmoved DEF ArchiveBox, JobFrame, endVars, rowVars, intentVars
<1>6. CASE Remove(e, c)
  <2>1. \A d \in Companion : d # c => admission'[d] = admission[d] BY <1>1, <1>6 DEF Remove, TypeOK
  <2>2. HeldPlace' BY <1>2, <1>6, <2>1 DEF Remove
  <2>3. \A d \in Companion :
          /\ admission'[d] = "admitted" => admission[d] = "admitted"
          /\ endpoint'[d] => endpoint[d]
          /\ archived'[d] = "no" => archived[d] = "no"
    BY <1>1, <1>6 DEF Remove, TypeOK
  <2>4. UNCHANGED <<retired, box, created>> BY <1>6 DEF Remove
  <2>5. Occupants' \subseteq Occupants BY <2>3, <2>4 DEF Occupants, Awake
  <2> QED BY <2>2, <2>5 DEF Settled
<1> QED BY <1>3, <1>4, <1>5, <1>6 DEF RetireStep

LEMMA OthersSettle ==
  ASSUME IInv,
         \/ ConfigureLimits \/ Lose \/ Seen \/ Observed
         \/ \E e \in Executor : Acquire(e)
         \/ \E m \in wire : Deliver(m)
         \/ \E e \in Executor, c \in Companion : Observe(e, c)
  PROVE  Settled
<1>1. TypeOK /\ HeldPlace BY DEF IInv
<1>2. CASE ConfigureLimits
  BY <1>1, <1>2, Unmoved DEF ConfigureLimits, JobsGoOn, intentVars, rowVars, endVars
<1>3. CASE Seen BY <1>1, <1>3, Unmoved DEF Seen, JobsGoOn, intentVars, rowVars, endVars
<1>4. CASE \E m \in wire : Deliver(m)
  BY <1>1, <1>4, Unmoved DEF Deliver, JobsGoOn, intentVars, rowVars, endVars
<1>5. CASE \E e \in Executor, c \in Companion : Observe(e, c)
  BY <1>1, <1>5, Unmoved DEF Observe, JobsGoOn, intentVars, rowVars, endVars
<1>6. CASE Lose
  <2>1. Occupants' = Occupants BY <1>6 DEF Lose, Occupants, Awake, intentVars, rowVars, endVars
  <2>2. HeldPlace' BY <1>6, LifecycleAssumption DEF Lose, HeldPlace
  <2> QED BY <2>1, <2>2 DEF Settled
<1>7. ASSUME NEW e \in Executor, Acquire(e) PROVE Settled
  <2>1. Occupants' = Occupants BY <1>7 DEF Acquire, Occupants, Awake, intentVars, endVars
  <2>2. HeldPlace' BY <1>7 DEF Acquire, HeldPlace, Past, PreparePc
  <2> QED BY <2>1, <2>2 DEF Settled
<1>8. CASE Observed
  <2>1. watch \in Watch BY <1>1, <1>8 DEF Observed, TypeOK
  <2>2. watch.on \in Companion BY <2>1 DEF Watch
  <2>3. \A d \in Companion : /\ endpoint'[d] => endpoint[d]
                             /\ archived'[d] = "no" => archived[d] = "no"
    BY <1>1, <1>8, <2>2 DEF Observed, TypeOK
  <2>4. UNCHANGED <<retired, admission, leader, box, created>> BY <1>8 DEF Observed, intentVars
  <2>5. Occupants' \subseteq Occupants BY <2>3, <2>4 DEF Occupants, Awake
  <2>6. JobsGoOn BY <1>8 DEF Observed, JobsGoOn
  <2> QED BY <1>1, <2>4, <2>5, <2>6, GoingOn DEF Settled
<1> QED BY <1>2, <1>3, <1>4, <1>5, <1>6, <1>7, <1>8

LEMMA WorldSettles ==
  ASSUME IInv, NEW c \in Companion,
         Retire(c) \/ FallAsleep(c) \/ Elapse(c) \/ Want(c) \/ LoseEndpoint(c)
  PROVE  Settled
<1>1. TypeOK /\ HeldPlace BY DEF IInv
<1>2. CASE Retire(c)
  <2>1. \A d \in Companion : retired[d] => retired'[d] BY <1>1, <1>2 DEF Retire, TypeOK
  <2>2. UNCHANGED <<job, leader, admission, archived, box, endpoint, created>>
    BY <1>2 DEF Retire, rowVars
  <2>3. HeldPlace' BY <1>1, <2>1, <2>2 DEF HeldPlace
  <2>4. Occupants' \subseteq Occupants BY <2>1, <2>2 DEF Occupants, Awake
  <2> QED BY <2>3, <2>4 DEF Settled
<1>3. CASE FallAsleep(c)
  BY <1>1, <1>3, Unmoved DEF FallAsleep, JobsGoOn, intentVars, rowVars, endVars
<1>4. CASE Elapse(c) BY <1>1, <1>4, Unmoved DEF Elapse, JobsGoOn, rowVars, endVars
<1>5. CASE Want(c) BY <1>1, <1>5, Unmoved DEF Want, JobsGoOn, rowVars, endVars
<1>6. CASE LoseEndpoint(c)
  <2>1. \A d \in Companion : endpoint'[d] => endpoint[d] BY <1>1, <1>6 DEF LoseEndpoint, TypeOK
  <2>2. UNCHANGED <<job, leader, retired, admission, archived, box, created>>
    BY <1>6 DEF LoseEndpoint, endVars
  <2>3. Occupants' \subseteq Occupants BY <2>1, <2>2 DEF Occupants, Awake
  <2>4. HeldPlace' BY <1>1, <2>2 DEF HeldPlace
  <2> QED BY <2>3, <2>4 DEF Settled
<1> QED BY <1>2, <1>3, <1>4, <1>5, <1>6

-------------------------------------------------------------------------------
(* Only a decision adds an occupant, and it counts them.                   *)

OneStepWithinLimit == Occupants' \ Occupants # {} => Cardinality(Occupants') <= limit'

LEMMA DecideCounts ==
  ASSUME TypeOK, NEW c \in Companion, Decide(c),
         UNCHANGED <<retired, archived, endpoint, box, created, limit>>
  PROVE  OneStepWithinLimit
<1>1. IsFiniteSet(Companion) /\ Limits \subseteq Nat BY LifecycleAssumption DEF LifecycleAssumption
<1>2. IsFiniteSet(Occupants) BY <1>1, FS_Subset DEF Occupants
<1>3. \A d \in Companion : d # c => admission'[d] = admission[d] BY DEF Decide, TypeOK
<1>4. Occupants' \subseteq Occupants \cup {c} BY <1>3 DEF Occupants, Awake
<1>5. CASE Awake(c)
  <2>1. c \in Occupants' => c \in Occupants BY <1>5 DEF Occupants
  <2> QED BY <1>4, <2>1 DEF OneStepWithinLimit
<1>6. CASE Cardinality(Occupants) < limit
  <2>1. IsFiniteSet(Occupants \cup {c})
        /\ Cardinality(Occupants \cup {c}) <= Cardinality(Occupants) + 1
    <3>1. Cardinality(Occupants) \in Nat BY <1>2, FS_CardinalityType
    <3>2. IsFiniteSet(Occupants \cup {c}) BY <1>2, FS_AddElement
    <3>3. CASE c \in Occupants
      <4>1. Occupants \cup {c} = Occupants BY <3>3
      <4>2. Cardinality(Occupants \cup {c}) = Cardinality(Occupants) BY <4>1
      <4> QED BY <3>1, <3>2, <4>2
    <3>4. CASE c \notin Occupants
      <4>1. Cardinality(Occupants \cup {c}) = Cardinality(Occupants) + 1
        BY <1>2, <3>4, FS_AddElement
      <4> QED BY <3>1, <3>2, <4>1
    <3> QED BY <3>3, <3>4
  <2>2. Cardinality(Occupants') <= Cardinality(Occupants \cup {c}) BY <1>4, <2>1, FS_Subset
  <2>3. IsFiniteSet(Occupants') BY <1>4, <2>1, FS_Subset
  <2>4. /\ Cardinality(Occupants) \in Nat /\ Cardinality(Occupants') \in Nat
        /\ Cardinality(Occupants \cup {c}) \in Nat /\ limit \in Nat
    BY <1>1, <1>2, <2>1, <2>3, FS_CardinalityType DEF TypeOK
  <2> QED BY <1>6, <2>1, <2>2, <2>4 DEF OneStepWithinLimit
<1>7. CASE ~Awake(c) /\ ~(Cardinality(Occupants) < limit)
  <2>1. admission' = [admission EXCEPT ![c] = "queued"] BY <1>7 DEF Decide
  <2>2. c \notin Occupants' BY <1>7, <2>1 DEF Occupants, Awake, TypeOK
  <2> QED BY <1>4, <2>2 DEF OneStepWithinLimit
<1> QED BY <1>5, <1>6, <1>7

\* A decision is asked for where no request is admitted, so it holds no place.
LEMMA DecideHolds ==
  ASSUME TypeOK, HeldPlace, NEW c \in Companion, Decide(c), admission[c] # "admitted",
         UNCHANGED <<retired, leader>>,
         \A e \in Executor, d \in Companion : d # c /\ job'[<<e, d>>].pc \in Past => job[<<e, d>>].pc \in Past,
         \A e \in Executor : job'[<<e, c>>].pc \in Past =>
           job[<<e, c>>].pc \in Past \/ admission'[c] = "admitted"
  PROVE  HeldPlace'
<1> SUFFICES ASSUME NEW e \in Executor, NEW d \in Companion, leader' = e, job'[<<e, d>>].pc \in Past
             PROVE  retired'[d] \/ admission'[d] = "admitted"
  BY DEF HeldPlace
<1>1. CASE d # c
  <2>1. retired[d] \/ admission[d] = "admitted" BY <1>1 DEF HeldPlace
  <2>2. admission'[d] = admission[d] BY <1>1 DEF Decide, TypeOK
  <2> QED BY <2>1, <2>2
<1>2. CASE d = c BY <1>2 DEF HeldPlace
<1> QED BY <1>1, <1>2

LEMMA RequestSteps ==
  ASSUME IInv, NEW c \in Companion, RequestPreparation(c) \/ AdmitQueued(c)
  PROVE  HeldPlace' /\ OneStepWithinLimit
<1>1. TypeOK /\ HeldPlace BY DEF IInv
<1>2. /\ Decide(c) /\ admission[c] # "admitted"
      /\ UNCHANGED <<retired, leader, archived, endpoint, box, created, limit, job>>
  BY DEF RequestPreparation, AdmitQueued, rowVars, endVars
<1> QED BY <1>1, <1>2, DecideCounts, DecideHolds

LEMMA AdmitSteps ==
  ASSUME IInv, NEW e \in Executor, NEW c \in Companion, Admit(e, c)
  PROVE  HeldPlace' /\ OneStepWithinLimit
<1>1. TypeOK /\ HeldPlace BY DEF IInv
<1>2. UNCHANGED <<retired, leader, archived, endpoint, box, created, limit>>
  BY DEF Admit, JobFrame, rowVars, endVars
<1>3. <<e, c>> \in Executor \X Companion OBVIOUS
<1>4. \A e2 \in Executor, d \in Companion : <<e2, d>> # <<e, c>> => job'[<<e2, d>>] = job[<<e2, d>>]
  BY <1>1, <1>3 DEF Admit, Go, Stop, TypeOK
<1>5. job'[<<e, c>>].pc \in Past => admission'[c] = "admitted"
  BY <1>1, <1>3 DEF Admit, Go, Stop, Idle, Past, PreparePc, TypeOK
<1>6. CASE admission[c] = "none" /\ ~retired[c]
  <2>1. Decide(c) BY <1>6 DEF Admit
  <2> QED BY <1>1, <1>2, <1>4, <1>5, <1>6, <2>1, DecideCounts, DecideHolds
<1>7. CASE ~(admission[c] = "none" /\ ~retired[c])
  <2>1. UNCHANGED admission BY <1>7 DEF Admit
  <2>2. Occupants' = Occupants BY <1>2, <2>1 DEF Occupants, Awake
  <2>3. HeldPlace' BY <1>1, <1>2, <1>4, <1>5, <2>1 DEF HeldPlace
  <2> QED BY <2>2, <2>3 DEF OneStepWithinLimit
<1> QED BY <1>6, <1>7

LEMMA StepWithinLimit ==
  ASSUME IInv, [Next]_vars
  PROVE  HeldPlace' /\ OneStepWithinLimit
<1>1. Settled => HeldPlace' /\ OneStepWithinLimit BY DEF Settled, OneStepWithinLimit
<1>2. CASE UNCHANGED vars
  BY <1>2, <1>1, Unmoved DEF vars, IInv, JobsGoOn, intentVars, rowVars, endVars
<1>3. CASE Next
  <2>1. CASE \/ ConfigureLimits \/ Lose \/ Seen \/ Observed
             \/ \E e \in Executor : Acquire(e)
             \/ \E m \in wire : Deliver(m)
             \/ \E e \in Executor, c \in Companion : Observe(e, c)
    BY <1>1, <2>1, OthersSettle
  <2>2. ASSUME NEW c \in Companion,
               \/ RequestPreparation(c) \/ AdmitQueued(c) \/ Retire(c) \/ FallAsleep(c)
               \/ Elapse(c) \/ Want(c) \/ LoseEndpoint(c)
        PROVE  HeldPlace' /\ OneStepWithinLimit
    BY <1>1, <2>2, RequestSteps, WorldSettles
  <2>3. ASSUME NEW e \in Executor, NEW c \in Companion,
               \/ BeginPrepare(e, c) \/ PrepareStep(e, c) \/ RetireStep(e, c) \/ Abandon(e, c)
        PROVE  HeldPlace' /\ OneStepWithinLimit
    BY <1>1, <2>3, AdmitSteps, CreationSettles, PreparationSettles, EndSettles DEF PrepareStep
  <2> QED BY <1>3, <2>1, <2>2, <2>3 DEF Next
<1> QED BY <1>2, <1>3

\* However many Companions ask, and whatever the executors crash over, a place
\* is taken only while fewer than active_limit are.
THEOREM Capacity == Spec => WithinLimit
<1>1. Init => HeldPlace BY DEF Init, HeldPlace, Idle, Past, PreparePc
<1>2. TypeOK /\ HeldPlace /\ [Next]_vars => HeldPlace' BY StepWithinLimit DEF IInv
<1>3. TypeOK /\ HeldPlace /\ [Next]_vars => [OneStepWithinLimit]_vars
  BY StepWithinLimit DEF IInv
<1>4. [OneStepWithinLimit]_vars =>
        [Occupants' \ Occupants # {} => Cardinality(Occupants') <= limit']_vars
  BY DEF OneStepWithinLimit
<1> QED BY <1>1, <1>2, <1>3, <1>4, TypeCorrect, PTL DEF Spec, WithinLimit

-----------------------------------------------------------------------------
\* Running computers and removals.

\* The job of the leader for a Companion: what older executors still do is stopped
\* by the guard of its next effect.
Led(c) == IF leader = None THEN Idle ELSE job[<<leader, c>>]

Sent(type, c) == [type |-> type, to |-> c] \in wire

\* The observation under way counts when it is answered.
Observing(c) ==
  /\ watch # None /\ ~retired[c]
  /\ watch.on = c /\ watch.by = leader /\ watch.current

Unready(c) == status[c] # "ready" \/ ~endpoint[c]
AfterIntent == PreparePc \ {"admit", "allow", "intent"}

\* A Box is made on a durable intent, and what may still make or wake one is known.
Traced(c) ==
  /\ box[c] => created[c]
  /\ machine[c] # "none" => created[c]
  /\ started[c] # "no" => created[c]
  /\ Sent("create", c) => created[c] /\ ~box[c]
  /\ Sent("resume", c) \/ Sent("stray", c) => box[c]
  /\ Sent("resume", c) /\ leader # None => Led(c).pc = "resuming"
  /\ Led(c).pc # "idle" /\ Led(c).box => box[c]
  /\ Led(c).pc \in {"create", "creating"} => created[c] /\ ~Led(c).box

\* A removal goes on only with a Box that sleeps, or with none.
Ending(c) ==
  /\ Led(c).pc \in RetirePc => retired[c]
  /\ Led(c).pc = "remove" /\ ~Led(c).box => ~created[c]
  /\ Led(c).pc = "remove" /\ Led(c).box => machine[c] = "archived" \/ c \in woken
  /\ archived[c] = "removed" => /\ retired[c] /\ (machine[c] # "running" \/ c \in woken)
                                /\ ~Sent("create", c) /\ ~Sent("resume", c)

\* A preparation of the leader has its intent, and takes a computer for usable only
\* with the configuration of now.
Intended(c) ==
  /\ ~prepare[c] /\ ~retired[c] => started[c] = "no"
  /\ Led(c).pc \in PreparePc /\ ~retired[c] => prepare[c]
  /\ Led(c).pc \in AfterIntent => started[c] # "no"
  /\ Led(c).pc \in {"health", "ready"} => Led(c).box
  /\ Led(c).pc \in PreparePc /\ Led(c).reuse =>
       Led(c).box /\ digest[c] /\ Led(c).pc \notin {"inspect", "resuming"}
  /\ endpoint[c] => box[c]

\* A computer that was seen asleep wakes only in a place that is held until a new
\* ready event makes the observation stale.
Witnessed(c) ==
  Observing(c) =>
    /\ box[c]
    /\ status[c] = "ready" /\ endpoint[c] /\ ~digest[c] => started[c] = "no"
    /\ Led(c).pc \in PreparePc /\ ~Led(c).reuse => Unready(c) \/ ~digest[c]
    /\ Led(c).pc \in AfterIntent /\ ~Led(c).reuse => Unready(c)
    /\ watch.seen = "archived" /\ machine[c] # "archived" /\ c \notin woken =>
         /\ admission[c] = "admitted" /\ Unready(c)
         /\ Led(c).pc \in PreparePc => ~Led(c).reuse

\* A computer that wakes after it was put to sleep has its place.
Placed(c) ==
  /\ ~box[c] /\ ~retired[c] => archived[c] = "no"
  /\ ~retired[c] /\ archived[c] # "no" /\ machine[c] = "running" /\ c \notin woken =>
       admission[c] = "admitted"
  /\ ~retired[c] /\ Sent("resume", c) => admission[c] = "admitted"

Fine(c) == Traced(c) /\ Ending(c) /\ Intended(c) /\ Witnessed(c) /\ Placed(c)
AllFine == \A c \in Companion : Fine(c)

-------------------------------------------------------------------------------
(* The job of the leader.                                                  *)

LEMMA LedJob ==
  ASSUME NEW e \in Executor, NEW c \in Companion, leader = e
  PROVE  Led(c) = job[<<e, c>>]
BY LifecycleAssumption DEF LifecycleAssumption, Led

LEMMA LedTypes ==
  ASSUME TypeOK, NEW c \in Companion
  PROVE  Led(c) \in Job
<1>1. Idle \in Job BY DEF Idle, Job
<1> QED BY <1>1 DEF Led, TypeOK

\* A step of a job is seen in Led by the leader's alone.
LEMMA LedMoves ==
  ASSUME TypeOK, NEW e \in Executor, NEW c \in Companion, NEW j,
         job' = [job EXCEPT ![<<e, c>>] = j], leader' = leader
  PROVE  /\ leader = e => Led(c)' = j
         /\ leader # e => Led(c)' = Led(c)
         /\ \A d \in Companion : d # c => Led(d)' = Led(d)
<1>1. <<e, c>> \in Executor \X Companion OBVIOUS
<1>2. leader = e => Led(c)' = j
  BY <1>1, LifecycleAssumption DEF LifecycleAssumption, Led, TypeOK
<1>3. leader # e => Led(c)' = Led(c)
  <2> SUFFICES ASSUME leader # e, leader # None PROVE job'[<<leader, c>>] = job[<<leader, c>>]
    BY DEF Led
  <2>1. <<leader, c>> \in Executor \X Companion /\ <<leader, c>> # <<e, c>> BY DEF TypeOK
  <2> QED BY <2>1 DEF TypeOK
<1>4. ASSUME NEW d \in Companion, d # c PROVE Led(d)' = Led(d)
  <2> SUFFICES ASSUME leader # None PROVE job'[<<leader, d>>] = job[<<leader, d>>]
    BY DEF Led
  <2>1. <<leader, d>> \in Executor \X Companion /\ <<leader, d>> # <<e, c>> BY <1>4 DEF TypeOK
  <2> QED BY <2>1 DEF TypeOK
<1> QED BY <1>2, <1>3, <1>4

LEMMA LedStops ==
  ASSUME TypeOK, NEW e \in Executor, NEW c \in Companion, Stop(e, c), leader' = leader
  PROVE  /\ leader = e => Led(c)'.pc = "idle"
         /\ leader # e => Led(c)' = Led(c)
         /\ \A d \in Companion : d # c => Led(d)' = Led(d)
<1>1. Idle.pc = "idle" BY DEF Idle
<1>2. job' = [job EXCEPT ![<<e, c>>] = Idle] BY DEF Stop
<1> QED BY <1>1, <1>2, LedMoves

LEMMA LedGoes ==
  ASSUME TypeOK, NEW e \in Executor, NEW c \in Companion, NEW pc \in Pcs, Go(e, c, pc),
         leader' = leader
  PROVE  /\ leader = e => /\ Led(c)'.pc = pc
                          /\ Led(c)'.box = Led(c).box /\ Led(c)'.reuse = Led(c).reuse
         /\ leader # e => Led(c)' = Led(c)
         /\ \A d \in Companion : d # c => Led(d)' = Led(d)
<1> DEFINE j == [job[<<e, c>>] EXCEPT !.pc = pc]
<1>1. job[<<e, c>>] \in Job BY DEF TypeOK
<1>2. job' = [job EXCEPT ![<<e, c>>] = j] BY DEF Go
<1>3. j.pc = pc /\ j.box = job[<<e, c>>].box /\ j.reuse = job[<<e, c>>].reuse BY <1>1 DEF Job
<1> HIDE DEF j
<1> QED BY <1>2, <1>3, LedMoves, LedJob

-------------------------------------------------------------------------------
(* Steps that give a Companion nothing.                                    *)

\* What a Companion has is kept or lost, with the job of the leader going on or ended.
Ebbs(d) ==
  /\ box'[d] = box[d] /\ created'[d] = created[d] /\ digest'[d] = digest[d]
  /\ archived'[d] = archived[d]
  /\ retired[d] => retired'[d]
  /\ endpoint'[d] => endpoint[d]
  /\ status'[d] = "ready" => status[d] = "ready"
  /\ admission[d] = "admitted" => admission'[d] = "admitted"
  /\ \/ machine'[d] = machine[d] /\ (d \in woken' <=> d \in woken)
     \/ machine[d] # "none" /\ machine'[d] = "archived"
  /\ Sent("create", d)' => Sent("create", d)
  /\ Sent("resume", d)' => Sent("resume", d)
  /\ Sent("stray", d)' => Sent("resume", d) \/ Sent("stray", d)
  /\ Observing(d)' => Observing(d) /\ watch'.seen = watch.seen
  /\ \/ /\ Led(d)' = Led(d) /\ leader' = leader
        /\ started'[d] = "no" <=> started[d] = "no"
        /\ prepare[d] /\ ~retired'[d] => prepare'[d]
     \/ /\ Led(d)'.pc = "idle" /\ (leader' = None \/ ~Sent("resume", d)')
        /\ \/ started'[d] = "no"
           \/ started'[d] = started[d] /\ (prepare[d] /\ ~retired'[d] => prepare'[d])

LEMMA EbbsFine ==
  ASSUME TypeOK, NEW d \in Companion, Fine(d), Ebbs(d)
  PROVE  Fine(d)'
<1>1. Traced(d)' BY DEF Fine, Ebbs, Traced
<1>2. Ending(d)' BY DEF Fine, Ebbs, Ending, RetirePc
<1>3. Intended(d)' BY DEF Fine, Ebbs, Intended, PreparePc, AfterIntent
<1>4. Witnessed(d)' BY DEF Fine, Ebbs, Witnessed, Unready, PreparePc, AfterIntent
<1>5. Placed(d)'
  <2>1. ~retired'[d] => ~retired[d] BY DEF Ebbs
  <2> QED BY <2>1 DEF Fine, Ebbs, Placed
<1> QED BY <1>1, <1>2, <1>3, <1>4, <1>5 DEF Fine

\* The job of the leader is elsewhere than at a resume that is on its way.
LEMMA NoResume ==
  ASSUME NEW c \in Companion, Fine(c), leader # None, Led(c).pc # "resuming"
  PROVE  ~Sent("resume", c)
BY DEF Fine, Traced

LEMMA WorldEbbs ==
  ASSUME TypeOK, NEW c \in Companion, NEW d \in Companion,
         \/ RequestPreparation(c) \/ AdmitQueued(c) \/ Retire(c) \/ FallAsleep(c) \/ Elapse(c)
         \/ Want(c) \/ LoseEndpoint(c)
  PROVE  Ebbs(d)
<1> USE DEF Ebbs, TypeOK, Sent, Observing, Led
<1>1. CASE RequestPreparation(c) \/ AdmitQueued(c)
  <2>1. Decide(c) /\ admission[c] # "admitted"
    BY <1>1 DEF RequestPreparation, AdmitQueued
  <2>2. (prepare[d] => prepare'[d]) /\ (admission[d] = "admitted" => admission'[d] = "admitted")
    BY <2>1 DEF Decide
  <2> QED BY <1>1, <2>2
    DEF RequestPreparation, AdmitQueued, rowVars, endVars, outsideVars
<1>2. CASE Retire(c) BY <1>2 DEF Retire, rowVars, outsideVars
<1>3. CASE FallAsleep(c) BY <1>3 DEF FallAsleep, rowVars, endVars, intentVars
<1>4. CASE Elapse(c) BY <1>4 DEF Elapse, rowVars, outsideVars, endVars
<1>5. CASE Want(c) BY <1>5 DEF Want, rowVars, outsideVars, endVars
<1>6. CASE LoseEndpoint(c) BY <1>6 DEF LoseEndpoint, outsideVars, endVars
<1> QED BY <1>1, <1>2, <1>3, <1>4, <1>5, <1>6

\* Neither does a lease that is lost: its jobs are no longer those of the leader.
LEMMA LoseEbbs ==
  ASSUME TypeOK, NEW d \in Companion, ConfigureLimits \/ Lose \/ UNCHANGED vars
  PROVE  Ebbs(d)
<1> USE DEF Ebbs, TypeOK, Sent, Observing, rowVars, outsideVars, endVars, intentVars
<1>1. CASE ConfigureLimits \/ UNCHANGED vars BY <1>1 DEF ConfigureLimits, vars, Led
<1>2. CASE Lose
  <2>1. Led(d)'.pc = "idle" BY <1>2 DEF Lose, Led, Idle
  <2>2. watch # None => watch.by # None
    BY LifecycleAssumption DEF LifecycleAssumption, Watch
  <2> QED BY <1>2, <2>1, <2>2 DEF Lose
<1> QED BY <1>1, <1>2

\* A job that ends without a checkpoint, its resume answered or not sent.
LEMMA StopEbbs ==
  ASSUME TypeOK, NEW e \in Executor, NEW c \in Companion, NEW d \in Companion, Fine(c),
         Stop(e, c), \A k \in {"create", "resume"} : Sent(k, d)' => Sent(k, d),
         Sent("stray", d)' => Sent("stray", d) \/ Sent("resume", d),
         UNCHANGED <<leader, box, created, digest, archived, retired, admission, watch>>,
         endpoint'[d] => endpoint[d],
         status'[d] = "ready" => status[d] = "ready",
         UNCHANGED <<machine, woken>>,
         (prepare'[d] = prepare[d] /\ started'[d] = started[d])
           \/ (d = c /\ leader = e /\ started'[d] = "no"),
         Led(c).pc # "resuming" \/ ~Sent("resume", c)'
  PROVE  Ebbs(d)
<1>1. Observing(d)' => Observing(d) /\ watch'.seen = watch.seen BY DEF Observing
<1>2. \A t \in {"create", "resume"} : Sent(t, d)' => Sent(t, d) OBVIOUS
<1>3. CASE d # c \/ leader # e
  <2>1. Led(d)' = Led(d) BY <1>3, LedStops
  <2> QED BY <1>1, <1>2, <1>3, <2>1 DEF Ebbs
<1>4. CASE d = c /\ leader = e
  <2>1. Led(d)'.pc = "idle" BY <1>4, LedStops
  <2>2. leader # None BY <1>4, LifecycleAssumption DEF LifecycleAssumption
  <2>3. ~Sent("resume", d)' BY <1>2, <1>4, <2>2, NoResume
  <2> QED BY <1>1, <1>2, <1>4, <2>1, <2>3 DEF Ebbs
<1> QED BY <1>3, <1>4

\* The requests on their way stay so, or are answered.
LEMMA StillSent ==
  ASSUME NEW d \in Companion, wire' \subseteq wire
  PROVE  /\ \A k \in {"create", "resume"} : Sent(k, d)' => Sent(k, d)
         /\ Sent("stray", d)' => Sent("stray", d) \/ Sent("resume", d)
BY DEF Sent

LEMMA GiveUpEbbs ==
  ASSUME TypeOK, NEW e \in Executor, NEW c \in Companion, NEW d \in Companion, Fine(c),
         GiveUp(e, c), job[<<e, c>>].pc # "resuming"
  PROVE  Ebbs(d)
<1>1. leader = e /\ Led(c).pc # "resuming" BY LedJob DEF GiveUp
<1>2. /\ Stop(e, c) /\ wire' \subseteq wire
      /\ UNCHANGED <<leader, box, created, digest, archived, retired, admission, watch, machine, woken,
                     endpoint>>
  BY DEF GiveUp, JobFrame, endVars, outsideVars
<1>3. /\ status'[d] = "ready" => status[d] = "ready"
      /\ (prepare'[d] = prepare[d] /\ started'[d] = started[d]) \/ (d = c /\ started'[d] = "no")
  BY DEF GiveUp, TypeOK
<1> QED BY <1>1, <1>2, <1>3, StopEbbs, StillSent

\* The job of an executor that does not lead is at no resume of the leader.
LEMMA JobEndEbbs ==
  ASSUME TypeOK, NEW e \in Executor, NEW c \in Companion, NEW d \in Companion, Fine(c),
         \/ Abandon(e, c) \/ Disallow(e, c) \/ SetupFailed(e, c) \/ CreateFails(e, c)
         \/ Resumed(e, c)
  PROVE  Ebbs(d)
<1>1. CASE SetupFailed(e, c) \/ CreateFails(e, c)
  BY <1>1, GiveUpEbbs DEF SetupFailed, CreateFails, At
<1>2. CASE Disallow(e, c)
  <2>1. leader = e /\ Led(c).pc # "resuming" BY <1>2, LedJob DEF Disallow, At
  <2>2. /\ Stop(e, c) /\ wire' \subseteq wire
        /\ UNCHANGED <<leader, box, created, digest, archived, retired, admission, watch, machine,
                       woken, endpoint>>
    BY <1>2 DEF Disallow, JobFrame, endVars, outsideVars
  <2>3. /\ status'[d] = "ready" => status[d] = "ready"
        /\ (prepare'[d] = prepare[d] /\ started'[d] = started[d]) \/ (d = c /\ started'[d] = "no")
    BY <1>2 DEF Disallow, TypeOK
  <2> QED BY <2>1, <2>2, <2>3, StopEbbs, StillSent
<1>3. CASE Resumed(e, c)
  <2>1. /\ Stop(e, c) /\ (leader = e => ~Sent("resume", c)')
        /\ UNCHANGED <<leader, box, created, digest, archived, retired, admission, watch, machine,
                       woken, endpoint, status, prepare, started>>
    BY <1>3 DEF Resumed, Astray, JobFrame, endVars, rowVars, intentVars, Sent
  <2>2. /\ \A k \in {"create", "resume"} : Sent(k, d)' => Sent(k, d)
        /\ Sent("stray", d)' => Sent("stray", d) \/ Sent("resume", d)
    BY <1>3 DEF Resumed, Astray, Sent
  <2>3. CASE leader = e
    BY <2>1, <2>2, <2>3, StopEbbs
  <2>4. CASE leader # e
    <3>1. Led(d)' = Led(d) BY <2>1, <2>4, LedStops
    <3> QED BY <2>1, <2>2, <3>1 DEF Ebbs, Observing
  <2> QED BY <2>3, <2>4
<1>4. CASE Abandon(e, c)
  <2>1. /\ Stop(e, c) /\ wire' = wire
        /\ UNCHANGED <<leader, box, created, digest, archived, retired, admission, watch, machine,
                       woken, endpoint, status, prepare, started>>
    BY <1>4 DEF Abandon, JobLocal, JobFrame, endVars, rowVars, intentVars, outsideVars
  <2>2. CASE leader = e
    <3>1. Led(c).pc # "resuming" BY <1>4, <2>2, LedJob DEF Abandon
    <3> QED BY <2>1, <3>1, StopEbbs, StillSent
  <2>3. CASE leader # e
    <3>1. Led(d)' = Led(d) BY <2>1, <2>3, LedStops
    <3> QED BY <2>1, <3>1 DEF Ebbs, Sent, Observing
  <2> QED BY <2>2, <2>3
<1> QED BY <1>1, <1>2, <1>3, <1>4

-------------------------------------------------------------------------------
(* Steps of a job that goes on.                                            *)

\* What a step leaves alone for another Companion.
Apart(c) == \A d \in Companion : d # c => Ebbs(d)

LEMMA BeginFine ==
  ASSUME TypeOK, NEW e \in Executor, NEW c \in Companion, Fine(c),
         BeginPrepare(e, c) \/ BeginRetire(e, c)
  PROVE  Fine(c)' /\ Apart(c)
<1>1. /\ leader = e /\ leader' = leader /\ leader # None /\ Led(c).pc = "idle"
      /\ UNCHANGED <<intentVars, rowVars, admission, outsideVars, endVars, watch>>
  BY LedJob, LifecycleAssumption
  DEF LifecycleAssumption, BeginPrepare, BeginRetire, At, JobLocal, JobFrame
<1>2. ~Sent("resume", c) BY <1>1, NoResume
<1>3. PICK j : job' = [job EXCEPT ![<<e, c>>] = j] /\ j.box = box[c] /\
                \/ /\ j.pc = "admit" /\ ~retired[c] /\ prepare[c]
                   /\ j.reuse = (status[c] = "ready" /\ endpoint[c] /\ box[c] /\ digest[c])
                \/ /\ j.pc = (IF box[c] THEN "archive" ELSE "remove") /\ retired[c]
                   /\ (box[c] \/ ~created[c]) /\ j.reuse = FALSE
  BY DEF BeginPrepare, BeginRetire
<1>4. Led(c)' = j /\ \A d \in Companion : d # c => Led(d)' = Led(d) BY <1>1, <1>3, LedMoves
<1>5. \A d \in Companion : /\ Sent("create", d)' = Sent("create", d)
                           /\ Sent("resume", d)' = Sent("resume", d)
                           /\ Sent("stray", d)' = Sent("stray", d)
                           /\ Observing(d)' = Observing(d)
  BY <1>1 DEF Sent, Observing, outsideVars, endVars
<1>6. Apart(c) BY <1>1, <1>4, <1>5 DEF Apart, Ebbs, rowVars, intentVars, endVars, outsideVars
<1>7. Traced(c)'
  BY <1>1, <1>2, <1>3, <1>4, <1>5 DEF Fine, Traced, rowVars, intentVars, outsideVars
<1>8. Ending(c)'
  BY <1>1, <1>2, <1>3, <1>4, <1>5 DEF Fine, Ending, RetirePc, rowVars, intentVars, endVars, outsideVars
<1>9. Intended(c)'
  BY <1>1, <1>2, <1>3, <1>4, <1>5
  DEF Fine, Intended, PreparePc, AfterIntent, rowVars, intentVars, endVars
<1>10. Witnessed(c)'
  BY <1>1, <1>2, <1>3, <1>4, <1>5
  DEF Fine, Witnessed, Unready, PreparePc, AfterIntent, rowVars, intentVars, endVars, outsideVars
<1>11. Placed(c)' BY <1>1, <1>5 DEF Fine, Placed, rowVars, endVars, outsideVars
<1> QED BY <1>6, <1>7, <1>8, <1>9, <1>10, <1>11 DEF Fine

\* A job goes on with its row as it is.
LEMMA GoFine ==
  ASSUME TypeOK, NEW e \in Executor, NEW c \in Companion, Fine(c),
         NEW pc \in {"allow", "intent", "ready"}, Go(e, c, pc), leader = e,
         job[<<e, c>>].pc = (CASE pc = "allow" -> "admit" [] pc = "intent" -> "allow"
                               [] pc = "ready" -> "health"),
         UNCHANGED <<leader, started, created, rowVars, endVars, outsideVars, watch>>,
         prepare[c] => prepare'[c],
         admission[c] = "admitted" => admission'[c] = "admitted"
  PROVE  Fine(c)'
<1>1. /\ Led(c)'.pc = pc /\ Led(c)'.box = Led(c).box /\ Led(c)'.reuse = Led(c).reuse
  BY LedGoes DEF Pcs, PreparePc
<1>2. leader # None BY LifecycleAssumption DEF LifecycleAssumption
<1>3. Led(c).pc = (CASE pc = "allow" -> "admit" [] pc = "intent" -> "allow"
                     [] pc = "ready" -> "health")
  BY LedJob
<1>4. ~Sent("resume", c) BY <1>2, <1>3, NoResume
<1>5. /\ Sent("create", c)' = Sent("create", c) /\ Sent("resume", c)' = Sent("resume", c)
      /\ Sent("stray", c)' = Sent("stray", c)
      /\ Observing(c)' = Observing(c)
  BY DEF Sent, Observing, outsideVars, endVars
<1>6. Traced(c)' BY <1>1, <1>3, <1>4, <1>5 DEF Fine, Traced, rowVars, outsideVars
<1>7. Ending(c)'
  BY <1>1, <1>3, <1>4, <1>5 DEF Fine, Ending, RetirePc, endVars, outsideVars
<1>8. Intended(c)'
  BY <1>1, <1>3 DEF Fine, Intended, PreparePc, AfterIntent, rowVars, endVars
<1>9. Witnessed(c)'
  BY <1>1, <1>3, <1>5
  DEF Fine, Witnessed, Unready, PreparePc, AfterIntent, rowVars, endVars, outsideVars
<1>10. Placed(c)' BY <1>5 DEF Fine, Placed, rowVars, endVars, outsideVars
<1> QED BY <1>6, <1>7, <1>8, <1>9, <1>10 DEF Fine

\* Another executor goes on: nothing of it is the leader's.
LEMMA OtherGoes ==
  ASSUME TypeOK, NEW e \in Executor, NEW c \in Companion, NEW d \in Companion,
         NEW pc \in Pcs, Go(e, c, pc), leader # e \/ d # c,
         UNCHANGED <<leader, started, created, rowVars, endVars, outsideVars, watch>>,
         prepare[d] => prepare'[d],
         admission[d] = "admitted" => admission'[d] = "admitted"
  PROVE  Ebbs(d)
<1>1. Led(d)' = Led(d) BY LedGoes
<1>2. /\ Sent("create", d)' = Sent("create", d) /\ Sent("resume", d)' = Sent("resume", d)
      /\ Sent("stray", d)' = Sent("stray", d)
      /\ Observing(d)' = Observing(d)
  BY DEF Sent, Observing, outsideVars, endVars
<1> QED BY <1>1, <1>2 DEF Ebbs, rowVars, endVars, outsideVars

LEMMA AdmitFine ==
  ASSUME TypeOK, NEW e \in Executor, NEW c \in Companion, Fine(c), Admit(e, c)
  PROVE  Fine(c)' /\ Apart(c)
<1>1. UNCHANGED <<leader, started, created, rowVars, endVars, outsideVars, watch>>
  BY DEF Admit, JobFrame
<1>2. \A d \in Companion : /\ prepare[d] => prepare'[d]
                           /\ admission[d] = "admitted" => admission'[d] = "admitted"
  <2>1. CASE admission[c] = "none" /\ ~retired[c]
    <3>1. Decide(c) BY <2>1 DEF Admit
    <3> QED BY <2>1, <3>1 DEF Decide, TypeOK
  <2>2. CASE ~(admission[c] = "none" /\ ~retired[c]) BY <2>2 DEF Admit
  <2> QED BY <2>1, <2>2
<1>3. CASE Go(e, c, "allow")
  <2>1. Apart(c) BY <1>1, <1>2, <1>3, OtherGoes DEF Apart, Pcs, PreparePc
  <2>2. CASE leader = e
    <3>1. job[<<e, c>>].pc = "admit" BY DEF Admit, At
    <3> QED BY <1>1, <1>2, <1>3, <2>1, <2>2, <3>1, GoFine
  <2>3. CASE leader # e
    <3>1. Ebbs(c) BY <1>1, <1>2, <1>3, <2>3, OtherGoes DEF Pcs, PreparePc
    <3> QED BY <2>1, <3>1, EbbsFine
  <2> QED BY <2>2, <2>3
<1>4. CASE Stop(e, c)
  <2>1. \A d \in Companion : /\ Sent("create", d)' = Sent("create", d)
                             /\ Sent("resume", d)' = Sent("resume", d)
                             /\ Sent("stray", d)' = Sent("stray", d)
                             /\ Observing(d)' = Observing(d)
    BY <1>1 DEF Sent, Observing, outsideVars, endVars
  <2>2. ASSUME NEW d \in Companion, d # c \/ leader # e PROVE Ebbs(d)
    <3>1. Led(d)' = Led(d) BY <1>1, <1>4, <2>2, LedStops
    <3> QED BY <1>1, <1>2, <2>1, <3>1 DEF Ebbs, rowVars, endVars, outsideVars
  <2>3. CASE leader = e
    <3>1. Led(c)'.pc = "idle" /\ Led(c).pc = "admit" /\ leader # None
      BY <1>1, <1>4, <2>3, LedStops, LedJob, LifecycleAssumption DEF Admit, At, LifecycleAssumption
    <3>2. ~Sent("resume", c) BY <3>1, NoResume
    <3>3. Ebbs(c) BY <1>1, <1>2, <2>1, <3>1, <3>2 DEF Ebbs, rowVars, endVars, outsideVars
    <3> QED BY <2>2, <3>3, EbbsFine DEF Apart
  <2>4. CASE leader # e BY <2>2, <2>4, EbbsFine DEF Apart
  <2> QED BY <2>3, <2>4
<1> QED BY <1>3, <1>4 DEF Admit

LEMMA AllowFine ==
  ASSUME TypeOK, NEW e \in Executor, NEW c \in Companion, Fine(c), Allow(e, c)
  PROVE  Fine(c)' /\ Apart(c)
<1>1. At(e, c, "allow") /\ UNCHANGED <<leader, wire, machine, woken, watch>>
      /\ UNCHANGED <<intentVars, box, endpoint, digest, endVars, admission>>
  BY DEF Allow, JobFrame, outsideVars
<1>2. CASE Go(e, c, "intent") /\ UNCHANGED status
  <2>1. UNCHANGED <<leader, started, created, rowVars, endVars, outsideVars, watch, prepare, admission>>
    BY <1>1, <1>2 DEF rowVars, outsideVars, intentVars
  <2>2. Apart(c) BY <1>2, <2>1, OtherGoes DEF Apart, Pcs, PreparePc
  <2>3. CASE leader = e
    <3>1. job[<<e, c>>].pc = "allow" BY <1>1 DEF At
    <3> QED BY <1>2, <2>1, <2>2, <2>3, <3>1, GoFine
  <2>4. CASE leader # e
    <3>1. Ebbs(c) BY <1>2, <2>1, <2>4, OtherGoes DEF Pcs, PreparePc
    <3> QED BY <2>2, <3>1, EbbsFine
  <2> QED BY <2>3, <2>4
<1>3. CASE leader = e /\ status' = [status EXCEPT ![c] = "preparing"] /\ Stop(e, c)
  <2>1. Led(c).pc # "resuming" BY <1>1, <1>3, LedJob DEF At
  <2>2. wire' \subseteq wire
        /\ UNCHANGED <<box, endpoint, created, digest, archived, retired, prepare, started>>
    BY <1>1 DEF endVars, intentVars
  <2>3. ASSUME NEW d \in Companion PROVE Ebbs(d)
    <3>1. status'[d] = "ready" => status[d] = "ready" BY <1>3 DEF TypeOK
    <3> QED BY <1>1, <1>3, <2>1, <2>2, <3>1, StopEbbs, StillSent
  <2> QED BY <2>3, EbbsFine DEF Apart
<1> QED BY <1>2, <1>3 DEF Allow

LEMMA IntendFine ==
  ASSUME TypeOK, NEW e \in Executor, NEW c \in Companion, Fine(c), Intend(e, c)
  PROVE  Fine(c)' /\ Apart(c)
<1>1. CASE started[c] = "late"
  <2>1. GiveUp(e, c) /\ job[<<e, c>>].pc # "resuming" BY <1>1 DEF Intend, At
  <2> QED BY <2>1, GiveUpEbbs, EbbsFine DEF Apart
<1>2. CASE started[c] # "late"
  <2> DEFINE to == CASE job[<<e, c>>].reuse -> "health"
                     [] ~job[<<e, c>>].reuse /\ job[<<e, c>>].box -> "inspect"
                     [] OTHER -> "create"
             first == started[c] = "no"
  <2>1. /\ leader = e /\ leader' = leader /\ Led(c).pc = "intent" /\ leader # None
        /\ Led(c) = job[<<e, c>>] /\ Led(c) \in Job
        /\ UNCHANGED <<prepare, box, endpoint, digest, admission, machine, woken, wire, watch,
                       retired, archived>>
    BY <1>2, LedJob, LedTypes, LifecycleAssumption
    DEF Intend, At, JobFrame, endVars, outsideVars, LifecycleAssumption
  <2>2. Go(e, c, to) /\ to \in Pcs BY <1>2, <2>1 DEF Intend, Pcs, PreparePc, Job
  <2>3. /\ Led(c)'.pc = to /\ Led(c)'.box = Led(c).box /\ Led(c)'.reuse = Led(c).reuse
        /\ \A d \in Companion : d # c => Led(d)' = Led(d)
    BY <2>1, <2>2, LedGoes
  <2>4. started'[c] = "fresh" /\ \A d \in Companion : d # c => started'[d] = started[d]
    BY <1>2 DEF Intend, TypeOK
  <2>5. /\ created'[c] = (created[c] \/ first)
        /\ status'[c] = (IF first /\ ~Led(c).reuse THEN "preparing" ELSE status[c])
        /\ \A d \in Companion : d # c => created'[d] = created[d] /\ status'[d] = status[d]
    <3>1. /\ created \in [Companion -> BOOLEAN]
          /\ status \in [Companion -> {"new", "preparing", "ready", "error", "archived"}]
      BY DEF TypeOK
    <3>2. CASE first
      <4>1. created' = [created EXCEPT ![c] = TRUE] BY <1>2, <3>2 DEF Intend
      <4>2. status' = [status EXCEPT ![c] = IF Led(c).reuse THEN @ ELSE "preparing"]
        BY <1>2, <2>1, <3>2 DEF Intend
      <4>3. CASE Led(c).reuse BY <3>1, <3>2, <4>1, <4>2, <4>3
      <4>4. CASE ~Led(c).reuse BY <3>1, <3>2, <4>1, <4>2, <4>4
      <4> QED BY <4>3, <4>4
    <3>3. CASE ~first
      <4>1. created' = created /\ status' = status BY <1>2, <3>3 DEF Intend
      <4> QED BY <3>1, <3>3, <4>1
    <3> QED BY <3>2, <3>3
  <2>6. /\ Led(c).reuse => Led(c)'.pc = "health"
        /\ ~Led(c).reuse /\ Led(c).box => Led(c)'.pc = "inspect"
        /\ ~Led(c).reuse /\ ~Led(c).box => Led(c)'.pc = "create"
    <3>1. Led(c).reuse => to = "health" BY <2>1
    <3>2. ~Led(c).reuse /\ Led(c).box => to = "inspect" BY <2>1
    <3>3. ~Led(c).reuse /\ ~Led(c).box => to = "create" BY <2>1
    <3> QED BY <2>3, <3>1, <3>2, <3>3
  <2>7. ~Sent("resume", c) BY <2>1, NoResume
  <2>8. \A d \in Companion : /\ Sent("create", d)' = Sent("create", d)
                             /\ Sent("resume", d)' = Sent("resume", d)
                             /\ Sent("stray", d)' = Sent("stray", d)
                             /\ Observing(d)' = Observing(d)
    BY <2>1 DEF Sent, Observing
  <2> HIDE DEF to
  <2>9. Apart(c) BY <2>1, <2>3, <2>4, <2>5, <2>8 DEF Apart, Ebbs
  <2>10. Traced(c)'
    BY <2>1, <2>3, <2>4, <2>5, <2>6, <2>7, <2>8 DEF Fine, Traced, Job
  <2>11. Ending(c)'
    BY <2>1, <2>3, <2>4, <2>5, <2>6, <2>7, <2>8 DEF Fine, Ending, RetirePc, Job
  <2>12. Intended(c)'
    BY <2>1, <2>3, <2>4, <2>6 DEF Fine, Intended, PreparePc, AfterIntent, Job
  <2>13. Witnessed(c)'
    BY <2>1, <2>3, <2>4, <2>5, <2>6, <2>8
    DEF Fine, Witnessed, Intended, Unready, PreparePc, AfterIntent, Job
  <2>14. Placed(c)' BY <2>1, <2>8 DEF Fine, Placed
  <2> QED BY <2>9, <2>10, <2>11, <2>12, <2>13, <2>14 DEF Fine
<1> QED BY <1>1, <1>2

LEMMA CreateFine ==
  ASSUME TypeOK, NEW e \in Executor, NEW c \in Companion, Fine(c), Create(e, c)
  PROVE  Fine(c)' /\ Apart(c)
<1>1. CASE GiveUp(e, c)
  <2>1. job[<<e, c>>].pc # "resuming" BY DEF Create, At
  <2> QED BY <1>1, <2>1, GiveUpEbbs, EbbsFine DEF Apart
<1>2. CASE ~GiveUp(e, c)
  <2>1. /\ leader = e /\ leader' = leader /\ Led(c).pc = "create" /\ leader # None
        /\ box[c] = Led(c).box /\ ~retired[c]
        /\ UNCHANGED <<prepare, started, created, box, endpoint, status, digest, admission, machine,
                       woken, watch, retired, archived>>
        /\ Go(e, c, "creating") /\ wire' = wire \cup {[type |-> "create", to |-> c]}
    BY <1>2, LedJob, LifecycleAssumption
    DEF Create, Allowed, At, JobFrame, endVars, rowVars, intentVars, LifecycleAssumption
  <2>2. /\ Led(c)'.pc = "creating" /\ Led(c)'.box = Led(c).box /\ Led(c)'.reuse = Led(c).reuse
        /\ \A d \in Companion : d # c => Led(d)' = Led(d)
    BY <2>1, LedGoes DEF Pcs, PreparePc
  <2>3. \A d \in Companion : /\ d # c => Sent("create", d)' = Sent("create", d)
                             /\ Sent("resume", d)' = Sent("resume", d)
                             /\ Sent("stray", d)' = Sent("stray", d)
                             /\ Observing(d)' = Observing(d)
    BY <2>1 DEF Sent, Observing
  <2>4. ~Sent("resume", c) BY <2>1, NoResume
  <2>5. Apart(c) BY <2>1, <2>2, <2>3 DEF Apart, Ebbs
  <2>6. Traced(c)' BY <2>1, <2>2, <2>3, <2>4 DEF Fine, Traced
  <2>7. Ending(c)' BY <2>1, <2>2, <2>3, <2>4 DEF Fine, Ending, RetirePc
  <2>8. Intended(c)' BY <2>1, <2>2 DEF Fine, Intended, PreparePc, AfterIntent
  <2>9. Witnessed(c)'
    BY <2>1, <2>2, <2>3 DEF Fine, Witnessed, Unready, PreparePc, AfterIntent
  <2>10. Placed(c)' BY <2>1, <2>3 DEF Fine, Placed
  <2> QED BY <2>5, <2>6, <2>7, <2>8, <2>9, <2>10 DEF Fine
<1> QED BY <1>1, <1>2

LEMMA CreatedFine ==
  ASSUME TypeOK, NEW e \in Executor, NEW c \in Companion, Fine(c), Created(e, c)
  PROVE  Fine(c)' /\ Apart(c)
<1> DEFINE j == [job[<<e, c>>] EXCEPT !.pc = "inspect", !.box = TRUE]
<1>1. /\ leader = e /\ leader' = leader /\ Led(c).pc = "creating" /\ leader # None
      /\ machine[c] # "none" /\ ~Sent("create", c) /\ Led(c) = job[<<e, c>>] /\ Led(c) \in Job
      /\ UNCHANGED <<prepare, started, created, endpoint, status, digest, admission, machine, woken,
                     wire, watch, retired, archived>>
      /\ job' = [job EXCEPT ![<<e, c>>] = j]
  BY LedJob, LedTypes, LifecycleAssumption
  DEF Created, At, Sent, JobFrame, endVars, outsideVars, intentVars, LifecycleAssumption
<1>2. j.pc = "inspect" /\ j.box = TRUE /\ j.reuse = Led(c).reuse BY <1>1 DEF Job
<1> HIDE DEF j
<1>3. Led(c)' = j /\ \A d \in Companion : d # c => Led(d)' = Led(d) BY <1>1, LedMoves
<1>4. box'[c] = TRUE /\ \A d \in Companion : d # c => box'[d] = box[d] BY DEF Created, TypeOK
<1>5. \A d \in Companion : /\ Sent("create", d)' = Sent("create", d)
                           /\ Sent("resume", d)' = Sent("resume", d)
                           /\ Sent("stray", d)' = Sent("stray", d)
                           /\ Observing(d)' = Observing(d)
  BY <1>1 DEF Sent, Observing
<1>6. ~Sent("resume", c) BY <1>1, NoResume
<1>7. Apart(c) BY <1>1, <1>3, <1>4, <1>5 DEF Apart, Ebbs
<1>8. Traced(c)' BY <1>1, <1>2, <1>3, <1>4, <1>5, <1>6 DEF Fine, Traced
<1>9. Ending(c)' BY <1>1, <1>2, <1>3, <1>4, <1>5, <1>6 DEF Fine, Ending, RetirePc
<1>10. Intended(c)'
  BY <1>1, <1>2, <1>3, <1>4 DEF Fine, Intended, Traced, PreparePc, AfterIntent
<1>11. Witnessed(c)'
  BY <1>1, <1>2, <1>3, <1>4, <1>5 DEF Fine, Witnessed, Unready, PreparePc, AfterIntent
<1>12. Placed(c)' BY <1>1, <1>4, <1>5 DEF Fine, Placed
<1> QED BY <1>7, <1>8, <1>9, <1>10, <1>11, <1>12 DEF Fine

\* The request is taken back together with the intent, and no Box is known.
LEMMA ImageMissingFine ==
  ASSUME TypeOK, NEW e \in Executor, NEW c \in Companion, Fine(c), ImageMissing(e, c)
  PROVE  Fine(c)' /\ Apart(c)
<1>1. /\ leader = e /\ leader' = leader /\ Led(c).pc = "creating" /\ leader # None
      /\ machine[c] = "none" /\ ~retired[c] /\ box[c] = Led(c).box /\ Stop(e, c)
      /\ wire' = wire \ {[type |-> "create", to |-> c]}
      /\ UNCHANGED <<prepare, box, endpoint, status, digest, admission, machine, woken, watch, retired,
                     archived>>
  BY LedJob, LifecycleAssumption
  DEF ImageMissing, Allowed, At, JobFrame, endVars, rowVars, LifecycleAssumption
<1>2. Led(c)'.pc = "idle" /\ \A d \in Companion : d # c => Led(d)' = Led(d) BY <1>1, LedStops
<1>3. /\ created'[c] = FALSE /\ started'[c] = "no"
      /\ \A d \in Companion : d # c => created'[d] = created[d] /\ started'[d] = started[d]
  BY DEF ImageMissing, TypeOK
<1>4. ~Sent("create", c)' BY <1>1 DEF Sent
<1>5. \A d \in Companion : /\ Sent("create", d)' => Sent("create", d)
                           /\ Sent("resume", d)' => Sent("resume", d)
                           /\ Sent("stray", d)' => Sent("stray", d)
                           /\ Observing(d)' = Observing(d)
  BY <1>1 DEF Sent, Observing
<1>6. ~Sent("resume", c) BY <1>1, NoResume
<1>7. Apart(c) BY <1>1, <1>2, <1>3, <1>5 DEF Apart, Ebbs
<1>8. Traced(c)' BY <1>1, <1>2, <1>3, <1>4, <1>5, <1>6 DEF Fine, Traced
<1>9. Ending(c)' BY <1>1, <1>2, <1>3, <1>4, <1>5, <1>6 DEF Fine, Ending, RetirePc
<1>10. Intended(c)' BY <1>1, <1>2, <1>3 DEF Fine, Intended, PreparePc, AfterIntent
<1>11. Witnessed(c)'
  BY <1>1, <1>2, <1>3, <1>5 DEF Fine, Witnessed, Unready, PreparePc, AfterIntent
<1>12. Placed(c)' BY <1>1, <1>5, <1>6 DEF Fine, Placed
<1> QED BY <1>7, <1>8, <1>9, <1>10, <1>11, <1>12 DEF Fine

\* A sleeping computer is resumed in the place its request was given, and one that
\* is set up anew was unready since its intent.
LEMMA InspectFine ==
  ASSUME TypeOK, HeldPlace, NEW e \in Executor, NEW c \in Companion, Fine(c), Inspect(e, c)
  PROVE  Fine(c)' /\ Apart(c)
<1>1. /\ leader = e /\ leader' = leader /\ Led(c).pc = "inspect" /\ leader # None
      /\ job[<<e, c>>].pc = "inspect"
      /\ ~retired[c] /\ box[c] = Led(c).box /\ Led(c) \in Job
      /\ UNCHANGED <<prepare, started, created, box, endpoint, status, admission, machine, woken, watch,
                     retired, archived>>
  BY LedJob, LedTypes, LifecycleAssumption
  DEF Inspect, Allowed, At, JobFrame, endVars, intentVars, LifecycleAssumption
<1>2. admission[c] = "admitted" /\ Led(c).box
  BY <1>1 DEF HeldPlace, Past, PreparePc, Job
<1>3. \/ Stop(e, c) /\ Led(c)'.pc = "idle"
      \/ \E pc \in {"health", "resuming"} :
           /\ Go(e, c, pc) /\ Led(c)'.pc = pc
           /\ Led(c)'.box = Led(c).box /\ Led(c)'.reuse = Led(c).reuse
  BY <1>1, LedStops, LedGoes DEF Inspect, Pcs, PreparePc
<1>4. \A d \in Companion : d # c => Led(d)' = Led(d)
  BY <1>1, <1>3, LedStops, LedGoes DEF Pcs, PreparePc
<1>5. (digest[c] => digest'[c]) /\ \A d \in Companion : d # c => digest'[d] = digest[d]
  BY DEF Inspect, TypeOK
<1>6. \A d \in Companion : /\ Sent("create", d)' = Sent("create", d)
                           /\ d # c => Sent("resume", d)' = Sent("resume", d)
                           /\ Sent("stray", d)' = Sent("stray", d)
                           /\ Observing(d)' = Observing(d)
  <2>1. wire' = wire \cup {[type |-> "resume", to |-> c]} \/ wire' = wire BY DEF Inspect
  <2> QED BY <1>1, <2>1 DEF Sent, Observing
<1>7. ~Sent("resume", c) BY <1>1, NoResume
<1>8. Sent("resume", c)' => machine[c] = "archived" /\ Led(c)'.pc = "resuming"
  <2>1. CASE wire' = wire BY <1>7, <2>1 DEF Sent
  <2>2. CASE wire' # wire
    <3>1. machine[c] = "archived" /\ Go(e, c, "resuming") BY <2>2 DEF Inspect
    <3> QED BY <1>1, <3>1, LedGoes DEF Pcs, PreparePc
  <2> QED BY <2>1, <2>2
<1>9. Apart(c) BY <1>1, <1>4, <1>5, <1>6 DEF Apart, Ebbs
<1>10. Traced(c)' BY <1>1, <1>2, <1>3, <1>6, <1>8 DEF Fine, Traced
<1>11. Ending(c)' BY <1>1, <1>3, <1>6, <1>8 DEF Fine, Ending, RetirePc
<1>12. Intended(c)' BY <1>1, <1>2, <1>3, <1>5 DEF Fine, Intended, PreparePc, AfterIntent
<1>13. Witnessed(c)'
  BY <1>1, <1>2, <1>3, <1>5, <1>6 DEF Fine, Witnessed, Intended, Unready, PreparePc, AfterIntent
<1>14. Placed(c)' BY <1>1, <1>2, <1>6 DEF Fine, Placed
<1> QED BY <1>9, <1>10, <1>11, <1>12, <1>13, <1>14 DEF Fine

LEMMA HealthFine ==
  ASSUME TypeOK, NEW e \in Executor, NEW c \in Companion, Fine(c), Health(e, c)
  PROVE  Fine(c)' /\ Apart(c)
<1>1. /\ leader = e /\ Led(c).pc = "health" /\ job[<<e, c>>].pc = "health"
      /\ UNCHANGED <<leader, intentVars, box, status, digest, admission, outsideVars, endVars, watch>>
  BY LedJob DEF Health, At, JobFrame
<1>2. CASE Go(e, c, "ready") /\ UNCHANGED endpoint
  <2>1. UNCHANGED <<leader, started, created, rowVars, endVars, outsideVars, watch, prepare, admission>>
    BY <1>1, <1>2 DEF rowVars, intentVars
  <2>2. Apart(c) BY <1>2, <2>1, OtherGoes DEF Apart, Pcs, PreparePc
  <2> QED BY <1>1, <1>2, <2>1, <2>2, GoFine
<1>3. CASE endpoint' = [endpoint EXCEPT ![c] = FALSE] /\ Stop(e, c)
  <2>1. Led(c).pc # "resuming" BY <1>1
  <2>2. wire' \subseteq wire
        /\ UNCHANGED <<box, created, digest, archived, retired, prepare, started, status, machine,
                       woken, leader, admission, watch>>
    BY <1>1 DEF endVars, intentVars, outsideVars
  <2>3. ASSUME NEW d \in Companion PROVE Ebbs(d)
    <3>1. endpoint'[d] => endpoint[d] BY <1>3 DEF TypeOK
    <3> QED BY <1>3, <2>1, <2>2, <3>1, StopEbbs, StillSent
  <2> QED BY <2>3, EbbsFine DEF Apart
<1> QED BY <1>2, <1>3 DEF Health

\* The request is closed with the computer known to be usable; unless the job reused
\* it, an observation that began before is stale.
LEMMA ReadyFine ==
  ASSUME TypeOK, NEW e \in Executor, NEW c \in Companion, Fine(c), Ready(e, c)
  PROVE  Fine(c)' /\ Apart(c)
<1>1. /\ leader = e /\ leader' = leader /\ leader # None /\ Led(c).pc = "ready"
      /\ Led(c) = job[<<e, c>>] /\ Led(c) \in Job /\ Stop(e, c)
      /\ UNCHANGED <<created, box, retired, machine, woken, wire>>
  BY LedJob, LedTypes, LifecycleAssumption DEF Ready, At, outsideVars, LifecycleAssumption
<1>2. Led(c)'.pc = "idle" /\ \A d \in Companion : d # c => Led(d)' = Led(d) BY <1>1, LedStops
<1>3. /\ endpoint'[c] = TRUE /\ digest'[c] = TRUE /\ archived'[c] = "no"
      /\ \/ prepare'[c] = FALSE /\ started'[c] = "no"
         \/ prepare'[c] = TRUE /\ started'[c] = started[c]
  BY DEF Ready, TypeOK
<1>4. \A d \in Companion : d # c =>
        /\ prepare'[d] = prepare[d] /\ started'[d] = started[d] /\ status'[d] = status[d]
        /\ endpoint'[d] = endpoint[d] /\ digest'[d] = digest[d] /\ archived'[d] = archived[d]
        /\ admission'[d] = admission[d]
  BY DEF Ready, TypeOK
<1>5. \A d \in Companion : /\ Sent("create", d)' = Sent("create", d)
                           /\ Sent("resume", d)' = Sent("resume", d)
                           /\ Sent("stray", d)' = Sent("stray", d)
  BY <1>1 DEF Sent
<1>6. /\ ~Led(c).reuse => ~Observing(c)'
      /\ \A d \in Companion : Observing(d)' => Observing(d) /\ watch'.seen = watch.seen
  <2>1. CASE ~Led(c).reuse /\ watch # None /\ watch.on = c
    <3>1. watch' = [watch EXCEPT !.current = FALSE] BY <1>1, <2>1 DEF Ready
    <3>2. watch \in Watch BY <2>1 DEF TypeOK
    <3>3. watch'.current = FALSE BY <3>1, <3>2 DEF Watch
    <3> QED BY <3>3 DEF Observing
  <2>2. CASE ~(~Led(c).reuse /\ watch # None /\ watch.on = c)
    <3>1. watch' = watch BY <1>1, <2>2 DEF Ready
    <3> QED BY <1>1, <2>2, <3>1 DEF Observing
  <2> QED BY <2>1, <2>2
<1>7. ~Sent("resume", c) BY <1>1, NoResume
<1>8. Apart(c) BY <1>1, <1>2, <1>4, <1>5, <1>6 DEF Apart, Ebbs
<1>9. Traced(c)' BY <1>1, <1>2, <1>3, <1>5, <1>7 DEF Fine, Traced
<1>10. Ending(c)' BY <1>1, <1>2, <1>3, <1>5 DEF Fine, Ending, RetirePc
<1>11. Intended(c)'
  BY <1>1, <1>2, <1>3 DEF Fine, Intended, Traced, PreparePc, AfterIntent
<1>12. Witnessed(c)'
  BY <1>1, <1>2, <1>3, <1>6 DEF Fine, Witnessed, Unready, PreparePc, AfterIntent
<1>13. Placed(c)' BY <1>1, <1>3, <1>5, <1>7 DEF Fine, Placed
<1> QED BY <1>8, <1>9, <1>10, <1>11, <1>12, <1>13 DEF Fine

-------------------------------------------------------------------------------
(* Removal.                                                                *)

LEMMA ArchiveFine ==
  ASSUME TypeOK, NEW e \in Executor, NEW c \in Companion, Fine(c), ArchiveBox(e, c)
  PROVE  Fine(c)' /\ Apart(c)
<1>1. /\ leader = e /\ leader' = leader /\ leader # None /\ Led(c).pc = "archive"
      /\ Led(c) = job[<<e, c>>] /\ Led(c) \in Job
      /\ UNCHANGED <<prepare, started, created, box, endpoint, status, digest, admission, wire,
                     watch, retired, archived>>
  BY LedJob, LedTypes, LifecycleAssumption
  DEF ArchiveBox, At, JobFrame, rowVars, intentVars, endVars, LifecycleAssumption
<1>2. Led(c).box /\ box[c] BY <1>1 DEF ArchiveBox, Job
<1>3. CASE machine[c] = "archived"
  <2>1. Go(e, c, "remove") /\ UNCHANGED <<machine, woken>> BY <1>3 DEF ArchiveBox
  <2>2. /\ Led(c)'.pc = "remove" /\ Led(c)'.box = Led(c).box
        /\ \A d \in Companion : d # c => Led(d)' = Led(d)
    BY <1>1, <2>1, LedGoes DEF Pcs, RetirePc
  <2>3. \A d \in Companion : /\ Sent("create", d)' = Sent("create", d)
                             /\ Sent("resume", d)' = Sent("resume", d)
                             /\ Sent("stray", d)' = Sent("stray", d)
                             /\ Observing(d)' = Observing(d)
    BY <1>1 DEF Sent, Observing
  <2>4. ~Sent("resume", c) BY <1>1, NoResume
  <2>5. retired[c] BY <1>1 DEF Fine, Ending, RetirePc
  <2>6. Apart(c) BY <1>1, <2>1, <2>2, <2>3 DEF Apart, Ebbs
  <2>7. Traced(c)' BY <1>1, <2>1, <2>2, <2>3, <2>4 DEF Fine, Traced
  <2>8. Ending(c)' BY <1>1, <1>2, <1>3, <2>1, <2>2, <2>3, <2>5 DEF Fine, Ending, RetirePc
  <2>9. Intended(c)' BY <1>1, <2>2, <2>5 DEF Fine, Intended, PreparePc, AfterIntent
  <2>10. Witnessed(c)' BY <1>1, <2>5 DEF Witnessed, Observing
  <2>11. Placed(c)' BY <1>1, <2>5 DEF Placed
  <2> QED BY <2>6, <2>7, <2>8, <2>9, <2>10, <2>11 DEF Fine
<1>4. CASE machine[c] # "archived"
  <2>1. Stop(e, c) /\ machine' = [machine EXCEPT ![c] = "archived"] BY <1>4 DEF ArchiveBox
  <2>2. \A d \in Companion : /\ Sent("create", d)' = Sent("create", d)
                             /\ Sent("resume", d)' = Sent("resume", d)
                             /\ Sent("stray", d)' = Sent("stray", d)
                             /\ Observing(d)' = Observing(d)
    BY <1>1 DEF Sent, Observing
  <2>3. Led(c)'.pc = "idle" /\ \A d \in Companion : d # c => Led(d)' = Led(d)
    BY <1>1, <2>1, LedStops
  <2>4. /\ machine'[c] = "archived"
        /\ \A d \in Companion : d # c => machine'[d] = machine[d] /\ (d \in woken' <=> d \in woken)
    BY <1>4, <2>1 DEF ArchiveBox, TypeOK
  <2>5. ~Sent("resume", c) BY <1>1, NoResume
  <2>6. retired[c] /\ created[c] BY <1>1, <1>2 DEF Fine, Ending, RetirePc, Traced
  <2>7. Apart(c) BY <1>1, <2>2, <2>3, <2>4 DEF Apart, Ebbs
  <2>8. Traced(c)' BY <1>1, <2>2, <2>3, <2>5, <2>6 DEF Fine, Traced
  <2>9. Ending(c)' BY <1>1, <2>2, <2>3, <2>4 DEF Fine, Ending, RetirePc
  <2>10. Intended(c)' BY <1>1, <2>3, <2>6 DEF Fine, Intended, PreparePc, AfterIntent
  <2>11. Witnessed(c)' BY <1>1, <2>6 DEF Witnessed, Observing
  <2>12. Placed(c)' BY <1>1, <2>6 DEF Placed
  <2> QED BY <2>7, <2>8, <2>9, <2>10, <2>11, <2>12 DEF Fine
<1> QED BY <1>3, <1>4

\* Nothing is on its way: a create would have left its intent, and a resume is the
\* leader's own, which is removing.
LEMMA RemoveFine ==
  ASSUME TypeOK, NEW e \in Executor, NEW c \in Companion, Fine(c), Remove(e, c)
  PROVE  Fine(c)' /\ Apart(c)
<1>1. /\ leader = e /\ leader' = leader /\ leader # None /\ Led(c).pc = "remove"
      /\ Led(c) \in Job /\ box[c] = Led(c).box /\ Stop(e, c)
      /\ UNCHANGED <<started, created, box, digest, machine, woken, wire, watch, retired>>
  BY LedJob, LedTypes, LifecycleAssumption DEF Remove, At, outsideVars, LifecycleAssumption
<1>2. Led(c)'.pc = "idle" /\ \A d \in Companion : d # c => Led(d)' = Led(d) BY <1>1, LedStops
<1>3. endpoint'[c] = FALSE /\ archived'[c] = "removed" BY DEF Remove, TypeOK
<1>4. \A d \in Companion : d # c =>
        /\ prepare'[d] = prepare[d] /\ status'[d] = status[d] /\ endpoint'[d] = endpoint[d]
        /\ archived'[d] = archived[d] /\ admission'[d] = admission[d]
  BY DEF Remove, TypeOK
<1>5. \A d \in Companion : /\ Sent("create", d)' = Sent("create", d)
                           /\ Sent("resume", d)' = Sent("resume", d)
                           /\ Sent("stray", d)' = Sent("stray", d)
                           /\ Observing(d)' = Observing(d)
  BY <1>1 DEF Sent, Observing
<1>6. ~Sent("resume", c) BY <1>1, NoResume
<1>7. retired[c] BY <1>1 DEF Fine, Ending, RetirePc
<1>8. (machine[c] # "running" \/ c \in woken) /\ ~Sent("create", c)
  <2>1. CASE Led(c).box BY <1>1, <2>1 DEF Fine, Ending, Traced
  <2>2. CASE ~Led(c).box BY <1>1, <2>2 DEF Fine, Ending, Traced
  <2> QED BY <2>1, <2>2
<1>9. Apart(c) BY <1>1, <1>2, <1>4, <1>5 DEF Apart, Ebbs
<1>10. Traced(c)' BY <1>1, <1>2, <1>5, <1>6 DEF Fine, Traced
<1>11. Ending(c)' BY <1>1, <1>2, <1>5, <1>6, <1>7, <1>8 DEF Ending, RetirePc
<1>12. Intended(c)' BY <1>1, <1>2, <1>3, <1>7 DEF Fine, Intended, PreparePc, AfterIntent
<1>13. Witnessed(c)' BY <1>1, <1>7 DEF Witnessed, Observing
<1>14. Placed(c)' BY <1>1, <1>7 DEF Placed
<1> QED BY <1>9, <1>10, <1>11, <1>12, <1>13, <1>14 DEF Fine

-------------------------------------------------------------------------------
(* The observation, the provider and the lease.                            *)

LEMMA ObserveFine ==
  ASSUME TypeOK, NEW e \in Executor, NEW c \in Companion, Fine(c), Observe(e, c)
  PROVE  Fine(c)' /\ Apart(c)
<1>1. /\ leader = e /\ leader # None /\ box[c] /\ ~retired[c] /\ ~prepare[c]
      /\ UNCHANGED <<prepare, started, created, box, endpoint, status, digest, retired, archived,
                     admission, machine, woken, wire, leader, job>>
      /\ watch' = [on |-> c, by |-> e, current |-> TRUE, seen |-> "unasked"]
  BY LifecycleAssumption
  DEF Observe, rowVars, intentVars, endVars, outsideVars, LifecycleAssumption
<1>2. \A d \in Companion : /\ Led(d)' = Led(d)
                           /\ Sent("create", d)' = Sent("create", d)
                           /\ Sent("resume", d)' = Sent("resume", d)
                           /\ Sent("stray", d)' = Sent("stray", d)
  BY <1>1 DEF Led, Sent
<1>3. \A d \in Companion : d # c => ~Observing(d)' BY <1>1 DEF Observing
<1>4. watch'.seen # "archived" BY <1>1
<1>5. started[c] = "no" /\ Led(c).pc \notin PreparePc BY <1>1 DEF Fine, Intended
<1>6. Apart(c) BY <1>1, <1>2, <1>3 DEF Apart, Ebbs
<1>7. Traced(c)' BY <1>1, <1>2 DEF Fine, Traced
<1>8. Ending(c)' BY <1>1, <1>2 DEF Fine, Ending
<1>9. Intended(c)' BY <1>1, <1>2 DEF Fine, Intended
<1>10. Witnessed(c)' BY <1>1, <1>2, <1>4, <1>5 DEF Witnessed, PreparePc, AfterIntent
<1>11. Placed(c)' BY <1>1, <1>2 DEF Fine, Placed
<1> QED BY <1>6, <1>7, <1>8, <1>9, <1>10, <1>11 DEF Fine

LEMMA SeenFine ==
  ASSUME TypeOK, NEW d \in Companion, Fine(d), Seen
  PROVE  Fine(d)'
<1>1. /\ watch # None /\ watch \in Watch /\ watch' = [watch EXCEPT !.seen = machine[watch.on]]
      /\ UNCHANGED <<prepare, started, created, box, endpoint, status, digest, retired, archived,
                     admission, machine, woken, wire, leader, job>>
  BY DEF Seen, TypeOK, rowVars, intentVars, endVars, outsideVars
<1>2. /\ watch'.on = watch.on /\ watch'.by = watch.by /\ watch'.current = watch.current
      /\ watch'.seen = machine[watch.on]
  BY <1>1 DEF Watch
<1>3. /\ Led(d)' = Led(d) /\ Sent("create", d)' = Sent("create", d)
      /\ Sent("resume", d)' = Sent("resume", d)
      /\ Sent("stray", d)' = Sent("stray", d)
  BY <1>1 DEF Led, Sent
<1>4. Observing(d)' => Observing(d) /\ watch'.seen = machine[d]
  BY <1>1, <1>2 DEF Observing
<1>5. Traced(d)' BY <1>1, <1>3 DEF Fine, Traced
<1>6. Ending(d)' BY <1>1, <1>3 DEF Fine, Ending
<1>7. Intended(d)' BY <1>1, <1>3 DEF Fine, Intended
<1>8. Witnessed(d)' BY <1>1, <1>3, <1>4 DEF Fine, Witnessed, Unready
<1>9. Placed(d)' BY <1>1, <1>3 DEF Fine, Placed
<1> QED BY <1>5, <1>6, <1>7, <1>8, <1>9 DEF Fine

\* The answer puts to sleep a computer that sleeps, or has its place again.
LEMMA ObservedFine ==
  ASSUME TypeOK, NEW d \in Companion, Fine(d), Observed
  PROVE  Fine(d)'
<1>1. /\ watch # None /\ watch \in Watch /\ watch' = None
      /\ UNCHANGED <<prepare, started, created, box, digest, retired, admission, machine, woken, wire,
                     leader, job>>
  BY DEF Observed, TypeOK, intentVars, outsideVars
<1>2. /\ Led(d)' = Led(d) /\ Sent("create", d)' = Sent("create", d)
      /\ Sent("resume", d)' = Sent("resume", d) /\ ~Observing(d)'
      /\ Sent("stray", d)' = Sent("stray", d)
  BY <1>1 DEF Led, Sent, Observing
<1>3. \/ status'[d] = status[d] /\ archived'[d] = archived[d] /\ endpoint'[d] = endpoint[d]
      \/ /\ Observing(d) /\ watch.seen = "archived" /\ status[d] = "ready"
         /\ status'[d] = "archived" /\ archived'[d] = "asleep" /\ endpoint'[d] = FALSE
  BY <1>1 DEF Observed, Observing, TypeOK, Watch
<1>4. Traced(d)' BY <1>1, <1>2 DEF Fine, Traced
<1>5. Ending(d)' BY <1>1, <1>2, <1>3 DEF Fine, Ending
<1>6. Intended(d)' BY <1>1, <1>2, <1>3 DEF Fine, Intended
<1>7. Witnessed(d)' BY <1>2 DEF Witnessed
<1>8. Placed(d)' BY <1>1, <1>2, <1>3 DEF Fine, Placed, Witnessed
<1> QED BY <1>4, <1>5, <1>6, <1>7, <1>8 DEF Fine

\* A create makes the first Box of the Companion, a resume wakes it in its place.
LEMMA DeliverFine ==
  ASSUME TypeOK, NEW m \in wire, NEW d \in Companion, Fine(d), Deliver(m)
  PROVE  Fine(d)'
<1>1. UNCHANGED <<prepare, started, created, box, endpoint, status, digest, retired, archived,
                  admission, leader, job, watch>>
  BY DEF Deliver, rowVars, intentVars, endVars
<1>2. /\ Led(d)' = Led(d) /\ Observing(d)' = Observing(d)
      /\ Sent("create", d)' => Sent("create", d)
      /\ Sent("resume", d)' => Sent("resume", d)
      /\ Sent("stray", d)' => Sent("stray", d)
  BY <1>1 DEF Deliver, Led, Sent, Observing
<1>3. \/ machine'[d] = machine[d] /\ (d \in woken' <=> d \in woken)
      \/ /\ machine'[d] = "running" /\ (d \in woken' <=> d \in woken)
         /\ (machine[d] = "none" /\ Sent("create", d)) \/ Sent("resume", d)
      \/ machine'[d] = "running" /\ Sent("stray", d) /\ d \in woken'
  <2>1. /\ m = [type |-> m.type, to |-> m.to] /\ m.type \in {"create", "resume", "stray"}
        /\ m.to \in Companion
    BY DEF TypeOK
  <2>2. machine' = [machine EXCEPT ![m.to] =
                      IF m.type = "create" /\ machine[m.to] # "none" THEN machine[m.to] ELSE "running"]
    BY DEF Deliver
  <2>3. CASE m.to # d
    <3>1. d \in woken' <=> d \in woken BY <2>3 DEF Deliver
    <3> QED BY <2>1, <2>2, <2>3, <3>1 DEF TypeOK
  <2>4. CASE m.to = d
    <3>1. Sent(m.type, d) BY <2>1, <2>4 DEF Sent
    <3>2. machine'[d] = IF m.type = "create" /\ machine[d] # "none" THEN machine[d] ELSE "running"
      BY <2>2, <2>4 DEF TypeOK
    <3>3. IF m.type = "stray" /\ machine[d] # "running" THEN d \in woken' ELSE woken' = woken
      BY <2>4 DEF Deliver
    <3>4. CASE m.type = "create" BY <3>1, <3>2, <3>3, <3>4
    <3>5. CASE m.type = "resume" BY <3>1, <3>2, <3>3, <3>5
    <3>6. CASE m.type = "stray" BY <3>1, <3>2, <3>3, <3>6
    <3> QED BY <2>1, <3>4, <3>5, <3>6
  <2> QED BY <2>3, <2>4
<1>4. leader = None => Led(d).pc = "idle" BY DEF Led, Idle
<1>5. Sent("resume", d) => leader = None \/ Led(d).pc = "resuming" BY DEF Fine, Traced
<1>6. Traced(d)' BY <1>1, <1>2, <1>3 DEF Fine, Traced
<1>7. Ending(d)' BY <1>1, <1>2, <1>3, <1>4, <1>5 DEF Fine, Ending, Traced
<1>8. Intended(d)' BY <1>1, <1>2 DEF Fine, Intended
<1>9. Witnessed(d)'
  <2> SUFFICES ASSUME Observing(d) PROVE Witnessed(d)' BY <1>2 DEF Witnessed
  <2>1. leader # None /\ ~retired[d] /\ box[d]
    BY LifecycleAssumption DEF LifecycleAssumption, Observing, TypeOK, Watch, Fine, Witnessed
  <2>2. Sent("resume", d) =>
          admission[d] = "admitted" /\ Led(d).pc = "resuming" /\ ~Led(d).reuse /\ Unready(d)
    BY <1>5, <2>1 DEF Fine, Placed, Intended, Witnessed, PreparePc, AfterIntent
  <2>3. ~Sent("create", d) BY <2>1 DEF Fine, Traced
  <2>4. Unready(d)' = Unready(d) BY <1>1 DEF Unready
  <2> QED BY <1>1, <1>2, <1>3, <2>2, <2>3, <2>4 DEF Fine, Witnessed
<1>10. Placed(d)' BY <1>1, <1>2, <1>3 DEF Fine, Placed, Traced
<1> QED BY <1>6, <1>7, <1>8, <1>9, <1>10 DEF Fine

\* The next executor starts with no job; it waits for none of the resumes of the last one.
LEMMA AcquireFine ==
  ASSUME TypeOK, NEW e \in Executor, NEW d \in Companion, Fine(d), Acquire(e)
  PROVE  Fine(d)'
<1>1. /\ leader' = e /\ job' = job /\ job[<<e, d>>].pc = "idle" /\ watch' = watch
      /\ watch # None => watch.by # e
      /\ UNCHANGED <<prepare, started, created, box, endpoint, status, retired, archived, admission,
                     machine, woken>>
      /\ wire' = {m \in wire : m.type # "resume"}
                   \cup {Astray(m) : m \in {r \in wire : r.type = "resume"}}
  BY DEF Acquire, intentVars, endVars
<1>2. Led(d)'.pc = "idle"
  BY <1>1, LifecycleAssumption DEF Led, LifecycleAssumption
<1>3. ~Sent("resume", d)' /\ (Sent("create", d)' => Sent("create", d)) /\ ~Observing(d)'
  BY <1>1 DEF Sent, Observing, Astray
<1>a. Sent("stray", d)' => Sent("stray", d) \/ Sent("resume", d)
  <2>1. ASSUME NEW m \in wire, m.type = "resume", Astray(m) = [type |-> "stray", to |-> d]
        PROVE  Sent("resume", d)
    <3>1. m = [type |-> m.type, to |-> m.to] BY DEF TypeOK
    <3>2. m.to = d BY <2>1 DEF Astray
    <3> QED BY <2>1, <3>1, <3>2 DEF Sent
  <2> QED BY <1>1, <2>1 DEF Sent
<1>4. Traced(d)' BY <1>1, <1>2, <1>3, <1>a DEF Fine, Traced
<1>5. Ending(d)' BY <1>1, <1>2, <1>3 DEF Fine, Ending, RetirePc
<1>6. Intended(d)' BY <1>1, <1>2 DEF Fine, Intended, PreparePc, AfterIntent
<1>7. Witnessed(d)' BY <1>3 DEF Witnessed
<1>8. Placed(d)' BY <1>1, <1>3 DEF Fine, Placed
<1> QED BY <1>4, <1>5, <1>6, <1>7, <1>8 DEF Fine

LEMMA StepFine ==
  ASSUME TypeOK, HeldPlace, AllFine, [Next]_vars
  PROVE  AllFine'
<1> SUFFICES ASSUME NEW d \in Companion PROVE Fine(d)' BY DEF AllFine
<1>1. Fine(d) BY DEF AllFine
<1>2. ASSUME NEW c \in Companion, Fine(c)', Apart(c) PROVE Fine(d)'
  BY <1>1, <1>2, EbbsFine DEF Apart
<1>3. CASE ConfigureLimits \/ Lose \/ UNCHANGED vars BY <1>1, <1>3, LoseEbbs, EbbsFine
<1>4. CASE Seen \/ Observed BY <1>1, <1>4, SeenFine, ObservedFine
<1>5. CASE \E e \in Executor : Acquire(e) BY <1>1, <1>5, AcquireFine
<1>6. CASE \E m \in wire : Deliver(m) BY <1>1, <1>6, DeliverFine
<1>7. ASSUME NEW c \in Companion,
             \/ RequestPreparation(c) \/ AdmitQueued(c) \/ Retire(c) \/ FallAsleep(c)
             \/ Elapse(c) \/ Want(c) \/ LoseEndpoint(c)
      PROVE  Fine(d)'
  BY <1>1, <1>7, WorldEbbs, EbbsFine
<1>8. ASSUME NEW e \in Executor, NEW c \in Companion,
             \/ BeginPrepare(e, c) \/ PrepareStep(e, c) \/ RetireStep(e, c) \/ Abandon(e, c)
             \/ Observe(e, c)
      PROVE  Fine(d)'
  <2>1. Fine(c) BY DEF AllFine
  <2>2. CASE \/ Abandon(e, c) \/ Disallow(e, c) \/ SetupFailed(e, c) \/ CreateFails(e, c)
             \/ Resumed(e, c)
    BY <1>1, <2>1, <2>2, JobEndEbbs, EbbsFine
  <2>3. CASE \/ BeginPrepare(e, c) \/ BeginRetire(e, c) \/ Admit(e, c) \/ Allow(e, c)
             \/ Intend(e, c) \/ Create(e, c) \/ Created(e, c) \/ ImageMissing(e, c)
    BY <1>2, <2>1, <2>3, BeginFine, AdmitFine, AllowFine, IntendFine, CreateFine, CreatedFine,
       ImageMissingFine
  <2>4. CASE \/ Inspect(e, c) \/ Health(e, c) \/ Ready(e, c) \/ ArchiveBox(e, c) \/ Remove(e, c)
             \/ Observe(e, c)
    BY <1>2, <2>1, <2>4, InspectFine, HealthFine, ReadyFine, ArchiveFine, RemoveFine, ObserveFine
  <2> QED BY <1>8, <2>2, <2>3, <2>4 DEF PrepareStep, RetireStep
<1> QED BY <1>3, <1>4, <1>5, <1>6, <1>7, <1>8 DEF Next

LEMMA InitFine ==
  ASSUME Init
  PROVE  AllFine
<1> SUFFICES ASSUME NEW c \in Companion PROVE Fine(c) BY DEF AllFine
<1>1. /\ ~created[c] /\ ~box[c] /\ ~endpoint[c] /\ ~retired[c] /\ started[c] = "no"
      /\ archived[c] = "no" /\ machine[c] = "none" /\ wire = {} /\ watch = None
  BY DEF Init
<1>2. /\ Led(c).pc = "idle" /\ ~Observing(c)
      /\ ~Sent("create", c) /\ ~Sent("resume", c) /\ ~Sent("stray", c)
  BY <1>1 DEF Init, Led, Idle, Sent, Observing
<1> QED BY <1>1, <1>2
    DEF Fine, Traced, Ending, Intended, Witnessed, Placed, PreparePc, RetirePc, AfterIntent

\* What holds of every Companion, under every interleaving, crash and lost answer.
LEMMA FineAlways == Spec => []AllFine
<1>1. Init => HeldPlace BY DEF Init, HeldPlace, Idle, Past, PreparePc
<1>2. Init => AllFine BY InitFine
<1>3. TypeOK /\ HeldPlace /\ AllFine /\ [Next]_vars => HeldPlace' /\ AllFine'
  BY StepWithinLimit, StepFine DEF IInv
<1> QED BY <1>1, <1>2, <1>3, TypeCorrect, PTL DEF Spec

\* A computer of a Companion that was not removed runs in a place the Companion holds,
\* although the place of one that was seen asleep is given to another; only a resume whose
\* job has ended, or whose executor has lost its lease, can wake one without a place.
THEOREM PlacesAreHeld == Spec => []RunsInItsPlace
<1>1. AllFine => RunsInItsPlace
  BY DEF AllFine, Fine, Traced, Placed, RunsInItsPlace, Occupants, Awake
<1> QED BY <1>1, FineAlways, PTL

\* A removal that is complete has left nothing that runs or will, although a create may have
\* been asked for whose answer nobody saw; only a resume that was given up before can wake
\* the computer again.
THEOREM RemovalIsFinal == Spec => []RemovedIsStopped
<1>1. TypeOK /\ AllFine => RemovedIsStopped
  <2> SUFFICES ASSUME TypeOK, AllFine, NEW c \in Companion, archived[c] = "removed"
               PROVE  /\ machine[c] = "running" => c \in woken
                      /\ \A m \in wire : m.to = c => m.type = "stray"
    BY DEF RemovedIsStopped
  <2>1. (machine[c] = "running" => c \in woken) /\ ~Sent("create", c) /\ ~Sent("resume", c)
    BY DEF AllFine, Fine, Ending
  <2>2. ASSUME NEW m \in wire, m.to = c, m.type # "stray" PROVE FALSE
    <3>1. m \in [type : {"create", "resume", "stray"}, to : Companion]
      BY DEF TypeOK
    <3>2. m = [type |-> "create", to |-> c] \/ m = [type |-> "resume", to |-> c]
      BY <2>2, <3>1
    <3> QED
      BY <2>1, <3>2 DEF Sent
  <2> QED BY <2>1, <2>2
<1> QED BY <1>1, FineAlways, TypeCorrect, PTL
=============================================================================
