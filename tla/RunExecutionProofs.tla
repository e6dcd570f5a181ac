-------------------------- MODULE RunExecutionProofs --------------------------
(***************************************************************************)
(* Theorems about RunExecution for any number of runs, executors and       *)
(* endpoint generations: its types, at most one PUT per run, cancellation  *)
(* that means stopped work, and the contract with the owner.               *)
(*                                                                         *)
(* All of them follow from one inductive invariant, IInv.  Its idea: what  *)
(* a job carries is either a fact about the journal, which only moves      *)
(* forward, or a fact about an undispatched row, which only the job of the *)
(* leader can dispatch.                                                    *)
(***************************************************************************)
EXTENDS RunExecution, DaemonContractProofs, TLAPS

\* The machine does not work on r and never will: r is not dispatched, or over.
Stopped(r) == ~dispatched[r] \/ journal[r] \in Terminal

\* What the step a job is at, and the answer it carries, say of the run.
JobOK(e, r) ==
  /\ At(e, r, "send") => dispatched[r] /\ puts[r] = 0
  /\ leader = e /\ job[<<e, r>>].pc \in AdmissionPc => ~dispatched[r]
  /\ job[<<e, r>>].pc \in {"settle", "settleLost"} =>
       /\ job[<<e, r>>].out \in Terminal
       /\ job[<<e, r>>].out = "succeeded" => journal[r] = "succeeded"
       /\ job[<<e, r>>].out = "cancelled" /\ leader = e => Stopped(r)
  /\ job[<<e, r>>].pc \in {"stop", "stopping"} =>
       /\ job[<<e, r>>].out \in {"cancelled", "interrupted"}
       /\ job[<<e, r>>].out = "cancelled" => journal[r] # "none"
  /\ job[<<e, r>>].pc \in {"peeked", "apply"} =>
       /\ job[<<e, r>>].out \in JournalStatus
       /\ job[<<e, r>>].out \in Terminal => journal[r] = job[<<e, r>>].out
       /\ job[<<e, r>>].out # "none" => journal[r] # "none"

\* Two executors never both hold the intent of one run.
OneSender ==
  \A e, f \in Executor, r \in Run : At(e, r, "send") /\ At(f, r, "send") => e = f

RowOK(r) ==
  /\ puts[r] <= 1
  /\ ~dispatched[r] => /\ puts[r] = 0 /\ journal[r] = "none"
                       /\ [type |-> "put", run |-> r] \notin net
  /\ status[r] \in {"none", "queued"} => ~dispatched[r]
  /\ status[r] = "needs_input" \/ (status[r] = "preparing" /\ dispatched[r])
       => journal[r] # "none"
  /\ status[r] = "cancelled" => Stopped(r) \/ life = "archived"
  /\ life = "archived" => ~Live(r)

IInv ==
  /\ TypeOK
  /\ \A e \in Executor, r \in Run : JobOK(e, r)
  /\ OneSender
  /\ \A r \in Run : RowOK(r)
  /\ life = "archived" => net = {}

-------------------------------------------------------------------------------
(* Steps of one job                                                        *)

\* What a job may carry.
Out == JournalStatus \cup Run \cup {None}

\* The step moves one job and no other.
OnlyJob(e, r) ==
  /\ job' \in [Executor \X Run -> Job]
  /\ \A f \in Executor, q \in Run : (f # e \/ q # r) => job'[<<f, q>>] = job[<<f, q>>]

Moved(e, r, pc, out) ==
  OnlyJob(e, r) /\ job'[<<e, r>>].pc = pc /\ job'[<<e, r>>].out = out

LEMMA GoJob ==
  ASSUME TypeOK, NEW e \in Executor, NEW r \in Run, NEW pc \in Pc, NEW out \in Out,
         Go(e, r, pc, out)
  PROVE  Moved(e, r, pc, out)
BY DEF TypeOK, Go, Job, Out, OnlyJob, Moved

LEMMA BeginJob ==
  ASSUME TypeOK, NEW e \in Executor, NEW r \in Run, NEW pc \in Pc, NEW out \in Out,
         Begin(e, r, pc, out)
  PROVE  Moved(e, r, pc, out)
BY DEF TypeOK, Begin, Job, Out, OnlyJob, Moved

LEMMA StopJob ==
  ASSUME TypeOK, NEW e \in Executor, NEW r \in Run, Stop(e, r)
  PROVE  Moved(e, r, "idle", None)
<1>1. Idle \in Job
  BY ExecutorAssumption DEF Idle, Job, Pc, JournalStatus
<1> QED  BY <1>1 DEF TypeOK, Stop, Idle, OnlyJob, Moved

\* The names are what they are said to be.
LEMMA Names ==
  /\ AdmissionPc \cup DispatchPc \cup ResumePc \cup ObservePc \cup SettlePc \subseteq Pc
  /\ "idle" \in Pc /\ None \in Out /\ Run \subseteq Out /\ JournalStatus \subseteq Out
  /\ Terminal \subseteq JournalStatus /\ LiveStatus \subseteq JournalStatus
BY DEF Pc, Out, JournalStatus

\* The other jobs keep what they carry while the journal, the dispatches and
\* the lead do not move.
LEMMA JobsKept ==
  ASSUME IInv, NEW e \in Executor, NEW r \in Run, OnlyJob(e, r),
         UNCHANGED <<journal, dispatched, leader, puts>>,
         JobOK(e, r)', ~At(e, r, "send")'
  PROVE  /\ \A f \in Executor, q \in Run : JobOK(f, q)'
         /\ OneSender'
<1>1. ASSUME NEW f \in Executor, NEW q \in Run
      PROVE  JobOK(f, q)'
  <2>1. CASE f = e /\ q = r
    BY <2>1
  <2>2. CASE f # e \/ q # r
    <3>1. job'[<<f, q>>] = job[<<f, q>>] /\ JobOK(f, q)
      BY <2>2 DEF IInv, OnlyJob
    <3> QED  BY <3>1 DEF JobOK, At, Stopped
  <2> QED  BY <2>1, <2>2
<1>2. OneSender'
  BY DEF IInv, OneSender, At, OnlyJob
<1> QED  BY <1>1, <1>2

\* A job step that leaves the rows alone, sends no PUT and carries only what
\* JobOK allows preserves the invariant.
LEMMA JobMove ==
  ASSUME IInv, TypeOK', NEW e \in Executor, NEW r \in Run, OnlyJob(e, r),
         UNCHANGED <<journal, status, dispatched, life, leader, puts>>,
         JobOK(e, r)', ~At(e, r, "send")',
         \A q \in Run : [type |-> "put", run |-> q] \in net' => [type |-> "put", run |-> q] \in net,
         life = "archived" => net' = {}
  PROVE  IInv'
<1>1. (\A f \in Executor, q \in Run : JobOK(f, q)') /\ OneSender'
  BY JobsKept
<1>2. \A q \in Run : RowOK(q)'
  BY DEF IInv, RowOK, Stopped, Live
<1> QED  BY <1>1, <1>2 DEF IInv

\* Most steps change nothing but the job.
LEMMA LocalMove ==
  ASSUME IInv, NEW e \in Executor, NEW r \in Run, OnlyJob(e, r), StepLocal,
         JobOK(e, r)', ~At(e, r, "send")'
  PROVE  IInv'
<1>1. TypeOK'
  BY DEF IInv, TypeOK, DaemonTypeOK, StepLocal, daemonVars, rowVars, machineVars, OnlyJob
<1> QED
  BY <1>1, JobMove DEF IInv, StepLocal, daemonVars, rowVars

\* Where a job carries nothing the invariant speaks of.
Plain == {"idle", "drop", "peek", "resuming", "resumed", "cancel", "cancelling", "observe",
          "putting"}

LEMMA PlainOK ==
  ASSUME NEW e \in Executor, NEW r \in Run, job'[<<e, r>>].pc \in Plain
  PROVE  JobOK(e, r)' /\ ~At(e, r, "send")'
BY DEF Plain, JobOK, At, AdmissionPc

\* A verdict that neither claims success nor cancellation needs no evidence.
LEMMA VerdictOK ==
  ASSUME NEW e \in Executor, NEW r \in Run, job'[<<e, r>>].pc \in {"settle", "settleLost"},
         job'[<<e, r>>].out \in {"failed", "interrupted"}
  PROVE  JobOK(e, r)' /\ ~At(e, r, "send")'
BY DEF JobOK, At, AdmissionPc, Terminal

LEMMA StartInvariant ==
  ASSUME IInv, NEW e \in Executor, NEW r \in Run, Start(e, r)
  PROVE  IInv'
<1>0. TypeOK
  BY DEF IInv
<1>1. CASE StartCancelled(e, r)
  <2>1. Moved(e, r, "settle", "cancelled")
    BY <1>0, <1>1, Names, BeginJob DEF StartCancelled, SettlePc, Terminal
  <2>2. StepLocal /\ ~dispatched[r]
    BY <1>1 DEF StartCancelled
  <2>3. JobOK(e, r)' /\ ~At(e, r, "send")'
    BY <2>1, <2>2 DEF Moved, JobOK, At, Stopped, StepLocal, rowVars, AdmissionPc, Terminal
  <2> QED  BY <2>1, <2>2, <2>3, LocalMove DEF Moved
<1>2. CASE StartResume(e, r)
  <2>1. StepLocal /\ journal[r] # "none"
    BY <1>2 DEF StartResume, IInv, RowOK
  <2>2. CASE Begin(e, r, "settle", "interrupted")
    <3>1. Moved(e, r, "settle", "interrupted")
      BY <1>0, <2>2, Names, BeginJob DEF SettlePc, Terminal
    <3> QED  BY <2>1, <3>1, VerdictOK, LocalMove DEF Moved
  <2>3. ASSUME NEW out \in {"cancelled", "interrupted"}, Begin(e, r, "stop", out)
        PROVE  IInv'
    <3>1. Moved(e, r, "stop", out)
      BY <1>0, <2>3, Names, BeginJob DEF ResumePc, Terminal
    <3>2. JobOK(e, r)' /\ ~At(e, r, "send")'
      BY <2>1, <3>1 DEF Moved, JobOK, At, StepLocal, daemonVars, AdmissionPc
    <3> QED  BY <2>1, <3>1, <3>2, LocalMove DEF Moved
  <2>4. CASE Begin(e, r, "peek", None)
    <3>1. Moved(e, r, "peek", None)
      BY <1>0, <2>4, Names, BeginJob DEF ResumePc
    <3> QED  BY <2>1, <3>1, PlainOK, LocalMove DEF Moved, Plain
  <2> QED  BY <1>2, <2>2, <2>3, <2>4 DEF StartResume
<1>3. CASE StartAdmission(e, r)
  <2>1. StepLocal /\ ~dispatched[r]
    BY <1>3 DEF StartAdmission
  <2>2. CASE Begin(e, r, "settle", "failed")
    <3>1. Moved(e, r, "settle", "failed")
      BY <1>0, <2>2, Names, BeginJob DEF SettlePc, Terminal
    <3> QED  BY <2>1, <3>1, VerdictOK, LocalMove DEF Moved
  <2>3. ASSUME NEW pc \in {"wake", "probe"}, Begin(e, r, pc, None)
        PROVE  IInv'
    <3>1. Moved(e, r, pc, None)
      BY <1>0, <2>3, Names, BeginJob DEF AdmissionPc
    <3>2. JobOK(e, r)' /\ ~At(e, r, "send")'
      BY <2>1, <3>1 DEF Moved, JobOK, At, StepLocal, rowVars
    <3> QED  BY <2>1, <3>1, <3>2, LocalMove DEF Moved
  <2> QED  BY <1>3, <2>2, <2>3 DEF StartAdmission
<1>4. CASE StartObservation(e, r)
  <2>1. StepLocal
    BY <1>4 DEF StartObservation
  <2>2. CASE Begin(e, r, "settle", "interrupted")
    <3>1. Moved(e, r, "settle", "interrupted")
      BY <1>0, <2>2, Names, BeginJob DEF SettlePc, Terminal
    <3> QED  BY <2>1, <3>1, VerdictOK, LocalMove DEF Moved
  <2>3. ASSUME NEW pc \in {"cancel", "observe"}, Begin(e, r, pc, None)
        PROVE  IInv'
    <3>1. Moved(e, r, pc, None)
      BY <1>0, <2>3, Names, BeginJob DEF ObservePc
    <3> QED  BY <2>1, <3>1, PlainOK, LocalMove DEF Moved, Plain
  <2> QED  BY <1>4, <2>2, <2>3 DEF StartObservation
<1> QED  BY <1>1, <1>2, <1>3, <1>4 DEF Start

LEMMA SettleInvariant ==
  ASSUME IInv, NEW e \in Executor, NEW r \in Run, Settle(e, r)
  PROVE  IInv'
<1>0. TypeOK
  BY DEF IInv
<1>1. OnlyJob(e, r) /\ job'[<<e, r>>].pc \in Plain
  <2>1. CASE Go(e, r, "drop", None)
    BY <1>0, <2>1, Names, GoJob DEF SettlePc, Moved, Plain
  <2>2. CASE Stop(e, r)
    BY <1>0, <2>2, StopJob DEF Moved, Plain
  <2> QED  BY <2>1, <2>2 DEF Settle
<1>2. /\ job[<<e, r>>].out \in Terminal
      /\ job[<<e, r>>].out = "cancelled" /\ leader = e => Stopped(r)
  BY DEF IInv, Settle, JobOK, At
<1>3. TypeOK'
  BY <1>0, <1>1, <1>2 DEF TypeOK, DaemonTypeOK, Settle, daemonVars, machineVars, Status, OnlyJob
<1>4. (\A f \in Executor, q \in Run : JobOK(f, q)') /\ OneSender'
  BY <1>1, PlainOK, JobsKept DEF Settle, daemonVars
<1>5. \A q \in Run : RowOK(q)'
  BY <1>0, <1>2 DEF IInv, TypeOK, Settle, daemonVars, RowOK, Stopped, Live, Terminal
<1> QED  BY <1>3, <1>4, <1>5 DEF IInv, Settle

LEMMA DropEndpointInvariant ==
  ASSUME IInv, NEW e \in Executor, NEW r \in Run, DropEndpoint(e, r)
  PROVE  IInv'
<1>0. TypeOK
  BY DEF IInv
<1>1. OnlyJob(e, r) /\ job'[<<e, r>>].pc \in Plain
  BY <1>0, StopJob DEF DropEndpoint, Moved, Plain
<1>2. TypeOK'
  BY <1>0, <1>1, ExecutorAssumption
     DEF TypeOK, DaemonTypeOK, DropEndpoint, daemonVars, rowVars, OnlyJob
<1> QED  BY <1>1, <1>2, PlainOK, JobMove DEF IInv, DropEndpoint, daemonVars, rowVars

LEMMA StopWithoutAuthorityInvariant ==
  ASSUME IInv, NEW e \in Executor, NEW r \in Run, StopWithoutAuthority(e, r)
  PROVE  IInv'
<1>1. OnlyJob(e, r) /\ job'[<<e, r>>].pc \in Plain
  BY StopJob DEF IInv, StopWithoutAuthority, Moved, Plain
<1> QED  BY <1>1, PlainOK, LocalMove DEF StopWithoutAuthority

LEMMA FailInvariant ==
  ASSUME IInv, NEW e \in Executor, NEW r \in Run, Fail(e, r)
  PROVE  IInv'
<1>0. TypeOK
  BY DEF IInv
<1>1. OnlyJob(e, r) /\ JobOK(e, r)' /\ ~At(e, r, "send")'
  <2>1. ASSUME NEW out \in {"failed", "interrupted"}, Go(e, r, "settleLost", out)
        PROVE  OnlyJob(e, r) /\ JobOK(e, r)' /\ ~At(e, r, "send")'
    <3>1. Moved(e, r, "settleLost", out)
      BY <1>0, <2>1, Names, GoJob DEF SettlePc, Terminal
    <3> QED  BY <3>1, VerdictOK DEF Moved
  <2>2. CASE Stop(e, r)
    BY <1>0, <2>2, StopJob, PlainOK DEF Moved, Plain
  <2> QED  BY <2>1, <2>2 DEF Fail
<1>2. TypeOK'
  BY <1>0, <1>1, ExecutorAssumption
     DEF TypeOK, DaemonTypeOK, Fail, daemonVars, rowVars, OnlyJob
<1> QED  BY <1>1, <1>2, JobMove DEF IInv, Fail, daemonVars, rowVars

(* Admission                                                               *)

LEMMA AskPreparationInvariant ==
  ASSUME IInv, NEW e \in Executor, NEW r \in Run, AskPreparation(e, r)
  PROVE  IInv'
<1>0. TypeOK
  BY DEF IInv
<1>1. OnlyJob(e, r) /\ job'[<<e, r>>].pc \in Plain
  BY <1>0, StopJob DEF AskPreparation, Moved, Plain
<1>2. TypeOK'
  BY <1>0, <1>1 DEF TypeOK, DaemonTypeOK, AskPreparation, daemonVars, rowVars, OnlyJob
<1> QED  BY <1>1, <1>2, PlainOK, JobMove DEF IInv, AskPreparation, daemonVars, rowVars

LEMMA UnreadyInvariant ==
  ASSUME IInv, NEW e \in Executor, NEW r \in Run, Unready(e, r)
  PROVE  IInv'
<1>0. TypeOK
  BY DEF IInv
<1>1. OnlyJob(e, r) /\ job'[<<e, r>>].pc \in Plain
  BY <1>0, StopJob DEF Unready, Moved, Plain
<1>2. TypeOK'
  <2>1. CASE Fenced(e)
    BY <1>0, <1>1, <2>1, ExecutorAssumption
       DEF TypeOK, DaemonTypeOK, Unready, daemonVars, rowVars, OnlyJob
  <2>2. CASE ~Fenced(e)
    BY <1>0, <1>1, <2>2 DEF TypeOK, DaemonTypeOK, Unready, daemonVars, rowVars, OnlyJob
  <2> QED  BY <2>1, <2>2
<1> QED  BY <1>1, <1>2, PlainOK, JobMove DEF IInv, Unready, daemonVars, rowVars

\* A job that goes on to another await before dispatch.
LEMMA AdmissionGo ==
  ASSUME IInv, NEW e \in Executor, NEW r \in Run, NEW pc \in AdmissionPc, NEW out \in Out,
         job[<<e, r>>].pc \in AdmissionPc, Go(e, r, pc, out), UNCHANGED <<dispatched, leader>>
  PROVE  OnlyJob(e, r) /\ JobOK(e, r)' /\ ~At(e, r, "send")'
<1>1. Moved(e, r, pc, out)
  BY Names, GoJob DEF IInv
<1>2. leader = e => ~dispatched[r]
  BY DEF IInv, JobOK
<1> QED  BY <1>1, <1>2 DEF Moved, JobOK, At, AdmissionPc

LEMMA ProbeInvariant ==
  ASSUME IInv, NEW e \in Executor, NEW r \in Run, Probe(e, r)
  PROVE  IInv'
<1>1. job[<<e, r>>].pc \in AdmissionPc /\ StepLocal
  BY DEF Probe, At, AdmissionPc
<1>2. OnlyJob(e, r) /\ JobOK(e, r)' /\ ~At(e, r, "send")'
  <2>1. CASE Go(e, r, "prior", active[Lane(r)])
    <3>1. active[Lane(r)] \in Out
      BY LaneType DEF IInv, TypeOK, DaemonTypeOK, Out
    <3> QED  BY <2>1, <1>1, <3>1, AdmissionGo DEF AdmissionPc, StepLocal, rowVars
  <2>2. CASE Go(e, r, "stage", None)
    BY <2>2, <1>1, Names, AdmissionGo DEF AdmissionPc, StepLocal, rowVars
  <2> QED  BY <2>1, <2>2 DEF Probe
<1> QED  BY <1>1, <1>2, LocalMove

LEMMA PriorInvariant ==
  ASSUME IInv, NEW e \in Executor, NEW r \in Run, Prior(e, r)
  PROVE  IInv'
<1>0. TypeOK
  BY DEF IInv
<1>1. job[<<e, r>>].pc \in AdmissionPc /\ UNCHANGED <<dispatched, leader>> /\ life = "live"
  BY DEF Prior, Authority, At, AdmissionPc, rowVars
<1>2. OnlyJob(e, r) /\ JobOK(e, r)' /\ ~At(e, r, "send")'
  <2>1. ASSUME NEW a \in Run, Go(e, r, "orphan", a)
        PROVE  OnlyJob(e, r) /\ JobOK(e, r)' /\ ~At(e, r, "send")'
    BY <2>1, <1>1, AdmissionGo DEF AdmissionPc, Out
  <2>2. CASE Go(e, r, "stage", None)
    BY <2>2, <1>1, Names, AdmissionGo DEF AdmissionPc
  <2>3. CASE Stop(e, r)
    BY <1>0, <2>3, StopJob, PlainOK DEF Moved, Plain
  <2> QED  BY <2>1, <2>2, <2>3 DEF Prior
<1>3. net' = net \/ \E a \in Run : net' = net \cup {[type |-> "cancel", run |-> a]}
  BY DEF Prior, Send
<1>4. TypeOK'
  BY <1>0, <1>2, <1>3
     DEF TypeOK, DaemonTypeOK, Prior, daemonVars, rowVars, machineVars, OnlyJob, Message
<1> QED  BY <1>1, <1>2, <1>3, <1>4, JobMove DEF IInv, Prior, daemonVars, rowVars

LEMMA ProbeFailsInvariant ==
  ASSUME IInv, NEW e \in Executor, NEW r \in Run, ProbeFails(e, r)
  PROVE  IInv'
<1>0. TypeOK
  BY DEF IInv
<1>1. job[<<e, r>>].pc \in AdmissionPc /\ StepLocal
  BY DEF ProbeFails, At, AdmissionPc
<1>2. OnlyJob(e, r) /\ JobOK(e, r)' /\ ~At(e, r, "send")'
  <2>1. CASE Go(e, r, "unready", None)
    BY <2>1, <1>1, Names, AdmissionGo DEF AdmissionPc, StepLocal, rowVars
  <2>2. CASE Stop(e, r)
    BY <1>0, <2>2, StopJob, PlainOK DEF Moved, Plain
  <2> QED  BY <2>1, <2>2 DEF ProbeFails
<1> QED  BY <1>1, <1>2, LocalMove

LEMMA StageInvariant ==
  ASSUME IInv, NEW e \in Executor, NEW r \in Run, Stage(e, r)
  PROVE  IInv'
<1>1. OnlyJob(e, r) /\ JobOK(e, r)' /\ ~At(e, r, "send")'
  BY Names, AdmissionGo DEF Stage, At, AdmissionPc, StepLocal, rowVars
<1> QED  BY <1>1, LocalMove DEF Stage

LEMMA RecheckInvariant ==
  ASSUME IInv, NEW e \in Executor, NEW r \in Run, Recheck(e, r)
  PROVE  IInv'
<1>0. TypeOK
  BY DEF IInv
<1>1. job[<<e, r>>].pc \in AdmissionPc /\ StepLocal
  BY DEF Recheck, At, AdmissionPc
<1>2. OnlyJob(e, r) /\ JobOK(e, r)' /\ ~At(e, r, "send")'
  <2>1. CASE Go(e, r, "settle", "failed")
    <3>1. Moved(e, r, "settle", "failed")
      BY <1>0, <2>1, Names, GoJob DEF SettlePc, Terminal
    <3> QED  BY <3>1, VerdictOK DEF Moved
  <2>2. CASE Go(e, r, "settle", "cancelled")
    <3>1. Moved(e, r, "settle", "cancelled")
      BY <1>0, <2>2, Names, GoJob DEF SettlePc, Terminal
    <3>2. leader = e => ~dispatched[r]
      BY <1>1 DEF IInv, JobOK
    <3> QED
      BY <1>1, <3>1, <3>2
         DEF Moved, JobOK, At, Stopped, StepLocal, rowVars, AdmissionPc, Terminal
  <2>3. CASE Go(e, r, "dispatch", None)
    BY <2>3, <1>1, Names, AdmissionGo DEF AdmissionPc, StepLocal, rowVars
  <2>4. CASE Stop(e, r)
    BY <1>0, <2>4, StopJob, PlainOK DEF Moved, Plain
  <2> QED  BY <2>1, <2>2, <2>3, <2>4 DEF Recheck
<1> QED  BY <1>1, <1>2, LocalMove

\* The durable intent: only the leader's job is before the dispatch of a row
\* that is not dispatched, so nobody else holds an intent for it.
LEMMA DispatchInvariant ==
  ASSUME IInv, NEW e \in Executor, NEW r \in Run, Dispatch(e, r)
  PROVE  IInv'
<1>0. TypeOK
  BY DEF IInv
<1>1. CASE ~MayDispatch(e, r)
  <2>1. Stop(e, r) /\ StepLocal
    BY <1>1 DEF Dispatch, StepLocal, rowVars
  <2>2. OnlyJob(e, r) /\ JobOK(e, r)' /\ ~At(e, r, "send")'
    BY <1>0, <2>1, StopJob, PlainOK DEF Moved, Plain
  <2> QED  BY <2>1, <2>2, LocalMove
<1>2. CASE MayDispatch(e, r)
  <2>1. /\ leader = e /\ leader' = leader /\ life = "live"
        /\ status' = [status EXCEPT ![r] = "running"]
        /\ dispatched' = [dispatched EXCEPT ![r] = TRUE]
        /\ Go(e, r, "send", None)
        /\ UNCHANGED <<journal, puts, net, life>>
    BY <1>2 DEF Dispatch, MayDispatch, daemonVars
  <2>2. Moved(e, r, "send", None)
    BY <1>0, <2>1, Names, GoJob DEF DispatchPc
  <2>3. ~dispatched[r] /\ puts[r] = 0
    BY <2>1 DEF IInv, JobOK, RowOK, Dispatch, At, AdmissionPc
  <2>4. TypeOK'
    BY <1>0, <2>1, <2>2
       DEF TypeOK, DaemonTypeOK, Dispatch, daemonVars, machineVars, Moved, OnlyJob, Status, Active
  <2>5. ASSUME NEW f \in Executor, NEW q \in Run
        PROVE  JobOK(f, q)'
    <3>1. CASE f = e /\ q = r
      BY <1>0, <2>1, <2>2, <2>3, <3>1 DEF TypeOK, Moved, JobOK, At, AdmissionPc
    <3>2. CASE f # e \/ q # r
      <4>1. job'[<<f, q>>] = job[<<f, q>>] /\ JobOK(f, q)
        BY <2>2, <3>2 DEF IInv, Moved, OnlyJob
      <4>2. CASE q # r
        BY <1>0, <2>1, <4>1, <4>2 DEF TypeOK, JobOK, At, Stopped
      <4>3. CASE q = r /\ f # e
        <5>1. leader' # f
          BY <2>1, <4>3
        <5> QED  BY <1>0, <2>1, <2>3, <4>1, <4>3, <5>1 DEF TypeOK, JobOK, At
      <4> QED  BY <3>2, <4>2, <4>3
    <3> QED  BY <3>1, <3>2
  <2>6. OneSender'
    BY <2>2, <2>3 DEF IInv, OneSender, JobOK, At, Moved, OnlyJob
  <2>7. \A q \in Run : RowOK(q)'
    BY <1>0, <2>1, <2>3 DEF IInv, TypeOK, RowOK, Stopped, Live
  <2> QED  BY <2>1, <2>4, <2>5, <2>6, <2>7 DEF IInv
<1> QED  BY <1>1, <1>2

LEMMA SendPutInvariant ==
  ASSUME IInv, NEW e \in Executor, NEW r \in Run, SendPut(e, r)
  PROVE  IInv'
<1>0. TypeOK
  BY DEF IInv
<1>1. Moved(e, r, "putting", None)
  BY <1>0, Names, GoJob DEF SendPut, DispatchPc
<1>2. /\ dispatched[r] /\ puts[r] = 0 /\ At(e, r, "send") /\ life = "live"
      /\ puts' = [puts EXCEPT ![r] = @ + 1]
      /\ net' = net \cup {[type |-> "put", run |-> r]}
      /\ UNCHANGED <<journal, status, dispatched, leader, life>>
  BY DEF IInv, JobOK, SendPut, Send, Authority, daemonVars, rowVars
<1>3. TypeOK'
  BY <1>0, <1>1, <1>2
     DEF TypeOK, DaemonTypeOK, SendPut, daemonVars, rowVars, machineVars, Moved, OnlyJob, Message
<1>4. ASSUME NEW f \in Executor, NEW q \in Run
      PROVE  JobOK(f, q)'
  <2>1. CASE f = e /\ q = r
    BY <1>1, <2>1, PlainOK DEF Moved, Plain
  <2>2. CASE f # e \/ q # r
    <3>1. job'[<<f, q>>] = job[<<f, q>>] /\ JobOK(f, q)
      BY <1>1, <2>2 DEF IInv, Moved, OnlyJob
    <3>2. At(f, q, "send") => q # r
      BY <1>2, <2>2 DEF IInv, OneSender
    <3> QED  BY <1>0, <1>2, <3>1, <3>2 DEF TypeOK, JobOK, At, Stopped
  <2> QED  BY <2>1, <2>2
<1>5. OneSender'
  BY <1>1 DEF IInv, OneSender, At, Moved, OnlyJob
<1>6. ASSUME NEW q \in Run
      PROVE  RowOK(q)'
  <2>1. RowOK(q)
    BY DEF IInv
  <2>2. q # r => [type |-> "put", run |-> q] # [type |-> "put", run |-> r]
    OBVIOUS
  <2>3. puts'[q] <= 1 /\ (q # r => puts'[q] = puts[q])
    BY <1>0, <1>2, <2>1 DEF TypeOK, RowOK
  <2> QED  BY <1>2, <2>1, <2>2, <2>3 DEF RowOK, Stopped, Live
<1> QED  BY <1>2, <1>3, <1>4, <1>5, <1>6 DEF IInv

(* Resuming and observing                                                  *)

LEMMA StopRunInvariant ==
  ASSUME IInv, NEW e \in Executor, NEW r \in Run, StopRun(e, r)
  PROVE  IInv'
<1>0. TypeOK
  BY DEF IInv
<1>1. Moved(e, r, "stopping", job[<<e, r>>].out)
  <2>1. job[<<e, r>>].out \in Out
    BY <1>0 DEF TypeOK, Job, Out
  <2> QED  BY <1>0, <2>1, Names, GoJob DEF StopRun, ResumePc
<1>2. JobOK(e, r)' /\ ~At(e, r, "send")'
  <2>1. JobOK(e, r) /\ job[<<e, r>>].pc = "stop" /\ journal' = journal
    BY DEF IInv, StopRun, At, daemonVars
  <2> QED  BY <1>1, <2>1 DEF Moved, JobOK, At, AdmissionPc
<1>3. TypeOK'
  BY <1>0, <1>1
     DEF TypeOK, DaemonTypeOK, StopRun, Send, daemonVars, rowVars, machineVars, Moved, OnlyJob,
         Message
<1> QED
  BY <1>1, <1>2, <1>3, JobMove DEF IInv, StopRun, Send, Authority, daemonVars, rowVars, Moved

LEMMA CancelRunInvariant ==
  ASSUME IInv, NEW e \in Executor, NEW r \in Run, CancelRun(e, r)
  PROVE  IInv'
<1>0. TypeOK
  BY DEF IInv
<1>1. Moved(e, r, "cancelling", None)
  BY <1>0, Names, GoJob DEF CancelRun, ObservePc
<1>2. TypeOK'
  BY <1>0, <1>1
     DEF TypeOK, DaemonTypeOK, CancelRun, Send, daemonVars, rowVars, machineVars, Moved, OnlyJob,
         Message
<1> QED
  BY <1>1, <1>2, PlainOK, JobMove
     DEF IInv, CancelRun, Send, Authority, daemonVars, rowVars, Moved, Plain

\* What GET /runs/r answers is what the journal says.
LEMMA ReadInvariant ==
  ASSUME IInv, NEW e \in Executor, NEW r \in Run, Peek(e, r) \/ Observe(e, r)
  PROVE  IInv'
<1>0. TypeOK
  BY DEF IInv
<1>1. StepLocal /\ journal[r] \in JournalStatus
  BY <1>0 DEF Peek, Observe, TypeOK, DaemonTypeOK
<1>2. \E pc \in {"peeked", "apply"} : Moved(e, r, pc, journal[r])
  BY <1>0, <1>1, Names, GoJob DEF Peek, Observe, ResumePc, ObservePc
<1>3. JobOK(e, r)' /\ ~At(e, r, "send")'
  BY <1>1, <1>2 DEF Moved, JobOK, At, StepLocal, daemonVars, AdmissionPc
<1> QED  BY <1>1, <1>2, <1>3, LocalMove DEF Moved

\* The verdict a job carries on is the one the journal gave it.
LEMMA VerdictOfJournal ==
  ASSUME IInv, NEW e \in Executor, NEW r \in Run, job[<<e, r>>].pc \in {"peeked", "apply"},
         job[<<e, r>>].out \in Terminal, Go(e, r, "settle", job[<<e, r>>].out),
         UNCHANGED <<journal, leader>>
  PROVE  OnlyJob(e, r) /\ JobOK(e, r)' /\ ~At(e, r, "send")'
<1>1. Moved(e, r, "settle", job[<<e, r>>].out)
  BY Names, GoJob DEF IInv, SettlePc
<1>2. journal[r] = job[<<e, r>>].out
  BY DEF IInv, JobOK
<1> QED  BY <1>1, <1>2 DEF Moved, JobOK, At, Stopped, AdmissionPc

LEMMA PeekedInvariant ==
  ASSUME IInv, NEW e \in Executor, NEW r \in Run, Peeked(e, r)
  PROVE  IInv'
<1>0. TypeOK
  BY DEF IInv
<1>1. /\ job[<<e, r>>].pc = "peeked"
      /\ UNCHANGED <<journal, status, dispatched, life, leader, puts>>
  BY DEF Peeked, At, daemonVars, rowVars
<1>2. OnlyJob(e, r) /\ JobOK(e, r)' /\ ~At(e, r, "send")'
  <2>1. CASE Go(e, r, "settle", "interrupted")
    <3>1. Moved(e, r, "settle", "interrupted")
      BY <1>0, <2>1, Names, GoJob DEF SettlePc, Terminal
    <3> QED  BY <3>1, VerdictOK DEF Moved
  <2>2. CASE job[<<e, r>>].out \in Terminal /\ Go(e, r, "settle", job[<<e, r>>].out)
    BY <1>1, <2>2, VerdictOfJournal
  <2>3. ASSUME NEW pc \in {"resumed", "resuming"}, Go(e, r, pc, None)
        PROVE  OnlyJob(e, r) /\ JobOK(e, r)' /\ ~At(e, r, "send")'
    <3>1. Moved(e, r, pc, None)
      BY <1>0, <2>3, Names, GoJob DEF ResumePc
    <3> QED  BY <3>1, PlainOK DEF Moved, Plain
  <2>4. CASE Stop(e, r)
    BY <1>0, <2>4, StopJob, PlainOK DEF Moved, Plain
  <2> QED  BY <2>1, <2>2, <2>3, <2>4 DEF Peeked
<1>3. \/ net' = net
      \/ life = "live" /\ net' = net \cup {[type |-> "resume", run |-> r]}
  BY DEF Peeked, Send, Authority
<1>4. TypeOK'
  BY <1>0, <1>2, <1>3
     DEF TypeOK, DaemonTypeOK, Peeked, daemonVars, rowVars, machineVars, OnlyJob, Message
<1> QED  BY <1>1, <1>2, <1>3, <1>4, JobMove DEF IInv

LEMMA ResumedInvariant ==
  ASSUME IInv, NEW e \in Executor, NEW r \in Run, Resumed(e, r)
  PROVE  IInv'
<1>0. TypeOK
  BY DEF IInv
<1>1. OnlyJob(e, r) /\ job'[<<e, r>>].pc \in Plain
  BY <1>0, StopJob DEF Resumed, Moved, Plain
<1>2. UNCHANGED <<journal, dispatched, leader, puts, net, life>>
  BY DEF Resumed, daemonVars
<1>3. TypeOK'
  BY <1>0, <1>1
     DEF TypeOK, DaemonTypeOK, Resumed, daemonVars, machineVars, OnlyJob, Status, Active
<1>4. (\A f \in Executor, q \in Run : JobOK(f, q)') /\ OneSender'
  BY <1>1, <1>2, PlainOK, JobsKept
<1>5. \A q \in Run : RowOK(q)'
  BY ZenonT(30), <1>0, <1>2 DEF IInv, TypeOK, Resumed, RowOK, Stopped, Live
<1> QED  BY <1>2, <1>3, <1>4, <1>5 DEF IInv

LEMMA ApplyInvariant ==
  ASSUME IInv, NEW e \in Executor, NEW r \in Run, Apply(e, r)
  PROVE  IInv'
<1>0. TypeOK
  BY DEF IInv
<1>1. /\ job[<<e, r>>].pc = "apply"
      /\ UNCHANGED <<journal, dispatched, life, leader, puts, net>>
  BY DEF Apply, At, daemonVars
<1>2. OnlyJob(e, r) /\ JobOK(e, r)' /\ ~At(e, r, "send")'
  <2>1. CASE Go(e, r, "settle", "interrupted")
    <3>1. Moved(e, r, "settle", "interrupted")
      BY <1>0, <2>1, Names, GoJob DEF SettlePc, Terminal
    <3> QED  BY <3>1, VerdictOK DEF Moved
  <2>2. CASE job[<<e, r>>].out \in Terminal /\ Go(e, r, "settle", job[<<e, r>>].out)
    BY <1>1, <2>2, VerdictOfJournal
  <2>3. CASE Go(e, r, "stop", "interrupted")
    <3>1. Moved(e, r, "stop", "interrupted")
      BY <1>0, <2>3, Names, GoJob DEF ResumePc, Terminal
    <3> QED  BY <3>1 DEF Moved, JobOK, At, AdmissionPc
  <2>4. CASE Stop(e, r)
    BY <1>0, <2>4, StopJob, PlainOK DEF Moved, Plain
  <2> QED  BY <2>1, <2>2, <2>3, <2>4 DEF Apply
<1>3. \/ status' = status
      \/ /\ job[<<e, r>>].out = "needs_input"
         /\ status[r] = "running" /\ status' = [status EXCEPT ![r] = "needs_input"]
  BY DEF Apply
<1>4. TypeOK'
  BY <1>0, <1>2, <1>3
     DEF TypeOK, DaemonTypeOK, Apply, daemonVars, machineVars, OnlyJob, Status, Active
<1>5. (\A f \in Executor, q \in Run : JobOK(f, q)') /\ OneSender'
  BY <1>1, <1>2, JobsKept
<1>6. job[<<e, r>>].out = "needs_input" => journal[r] # "none"
  BY <1>1 DEF IInv, JobOK
<1>7. \A q \in Run : RowOK(q)'
  BY <1>0, <1>1, <1>3, <1>6 DEF IInv, TypeOK, RowOK, Stopped, Live
<1> QED  BY <1>1, <1>4, <1>5, <1>7 DEF IInv

LEMMA JobInvariant ==
  ASSUME IInv, NEW e \in Executor, NEW r \in Run, Start(e, r) \/ Step(e, r) \/ Error(e, r)
  PROVE  IInv'
BY StartInvariant, SettleInvariant, DropEndpointInvariant, StopWithoutAuthorityInvariant,
   FailInvariant, AskPreparationInvariant, ProbeInvariant, PriorInvariant, ProbeFailsInvariant, UnreadyInvariant,
   StageInvariant, RecheckInvariant, DispatchInvariant, SendPutInvariant, StopRunInvariant,
   ReadInvariant, PeekedInvariant, ResumedInvariant, CancelRunInvariant, ApplyInvariant
   DEF Step, Error

-------------------------------------------------------------------------------
(* The tick                                                                *)

\* A step that moves rows only.
LEMMA RowMove ==
  ASSUME IInv, TypeOK', UNCHANGED <<journal, dispatched, puts, job>>, leader' \in {leader, None},
         \A q \in Run : RowOK(q)', life' = "archived" => net' = {}
  PROVE  IInv'
<1>1. ASSUME NEW f \in Executor, NEW q \in Run
      PROVE  JobOK(f, q)'
  <2>1. JobOK(f, q) /\ (leader' = f => leader = f)
    BY ExecutorAssumption DEF IInv
  <2> QED  BY <2>1 DEF JobOK, At, Stopped
<1>2. OneSender'
  BY DEF IInv, OneSender, At
<1> QED  BY <1>1, <1>2 DEF IInv

LEMMA AcquireInvariant ==
  ASSUME IInv, NEW e \in Executor, Acquire(e)
  PROVE  IInv'
<1>1. TypeOK'
  BY DEF IInv, TypeOK, DaemonTypeOK, Acquire, daemonVars, rowVars, machineVars
<1>2. ASSUME NEW f \in Executor, NEW q \in Run
      PROVE  JobOK(f, q)'
  <2>1. JobOK(f, q) /\ leader' = e /\ UNCHANGED <<journal, dispatched, puts, job>>
    BY DEF IInv, Acquire, daemonVars, rowVars
  <2>2. CASE f = e
    BY <2>1, <2>2, PlainOK DEF Acquire, Plain
  <2>3. CASE f # e
    BY <2>1, <2>3 DEF JobOK, At, Stopped
  <2> QED  BY <2>2, <2>3
<1>3. OneSender' /\ \A q \in Run : RowOK(q)'
  BY DEF IInv, OneSender, At, RowOK, Stopped, Live, Acquire, daemonVars, rowVars
<1> QED  BY <1>1, <1>2, <1>3 DEF IInv, Acquire

LEMMA TickInvariant ==
  ASSUME IInv, Tick
  PROVE  IInv'
<1>0. TypeOK
  BY DEF IInv
<1>1. CASE Lose
  <2>1. TypeOK'
    BY <1>0, <1>1 DEF TypeOK, DaemonTypeOK, Lose, daemonVars, rowVars, machineVars
  <2>2. \A q \in Run : RowOK(q)'
    BY <1>1 DEF IInv, RowOK, Stopped, Live, Lose, daemonVars, rowVars
  <2> QED  BY <1>1, <2>1, <2>2, RowMove DEF IInv, Lose, daemonVars, rowVars
<1>2. CASE Deny
  <2>1. TypeOK'
    BY <1>0, <1>2 DEF TypeOK, DaemonTypeOK, Deny, daemonVars, machineVars, Status, Terminal
  <2>2. \A q \in Run : RowOK(q)'
    BY <1>0, <1>2 DEF IInv, TypeOK, RowOK, Stopped, Live, Deny, daemonVars
  <2> QED  BY <1>2, <2>1, <2>2, RowMove DEF IInv, Deny, daemonVars
<1>3. CASE Claim
  <2>1. PICK C \in SUBSET Run :
          /\ \A r \in C : Claimable(r)
          /\ \/ status' = status
             \/ status' = [r \in Run |-> IF r \in C THEN "preparing" ELSE status[r]]
    BY <1>3 DEF Claim, ClaimChoice
  <2>2. leader' \in {leader, None} /\ UNCHANGED <<journal, dispatched, puts, job, net, life>>
    BY <1>3 DEF Claim, daemonVars
  <2>3. TypeOK'
    BY <1>0, <1>3, <2>1
       DEF TypeOK, DaemonTypeOK, Claim, daemonVars, machineVars, Status, Active
  <2>4. \A q \in C : status[q] \in {"queued", "needs_input"}
    BY <2>1 DEF Claimable
  <2>5. ASSUME NEW q \in Run
        PROVE  RowOK(q)'
    <3>1. RowOK(q)
      BY DEF IInv
    <3>2. \/ status'[q] = status[q]
          \/ status'[q] = "preparing" /\ status[q] \in {"queued", "needs_input"}
      BY <2>1, <2>4
    <3> QED  BY <2>2, <3>1, <3>2 DEF RowOK, Stopped, Live
  <2> QED  BY <2>2, <2>3, <2>5, RowMove DEF IInv
<1>4. CASE Wake
  <2>1. prepareReq' \in BOOLEAN
    BY <1>0, <1>4 DEF Wake, TypeOK
  <2>2. TypeOK'
    BY <1>0, <1>4, <2>1 DEF TypeOK, DaemonTypeOK, Wake, daemonVars, rowVars
  <2>3. \A q \in Run : RowOK(q)'
    BY <1>4 DEF IInv, RowOK, Stopped, Live, Wake, daemonVars, rowVars
  <2> QED  BY <1>4, <2>2, <2>3, RowMove DEF IInv, Wake, daemonVars, rowVars
<1> QED  BY <1>1, <1>2, <1>3, <1>4, AcquireInvariant DEF Tick

-------------------------------------------------------------------------------
(* The daemon                                                              *)

\* The journal moves forward, by no more than dispatched runs, and only a job
\* that waited for a cancellation gets a verdict out of it.
LEMMA DaemonMove ==
  ASSUME IInv, TypeOK', NEW S \in SUBSET Run, Forward(S), \A q \in S : dispatched[q],
         UNCHANGED <<status, dispatched, leader, life, puts>>, life # "archived",
         net' \subseteq net,
         \A f \in Executor, q \in Run :
           \/ job'[<<f, q>>] = job[<<f, q>>]
           \/ job'[<<f, q>>].pc \in Plain
           \/ /\ job[<<f, q>>].pc = "stopping" /\ job'[<<f, q>>].pc = "settle"
              /\ job'[<<f, q>>].out = job[<<f, q>>].out
              /\ job[<<f, q>>].out = "cancelled" => journal'[q] \in Terminal
  PROVE  IInv'
<1>1. \A q \in Run : /\ journal[q] # "none" => journal'[q] # "none"
                     /\ journal[q] \in Terminal => journal'[q] = journal[q]
                     /\ ~dispatched[q] => journal'[q] = journal[q]
  BY DEF Forward, Live, LiveStatus, Terminal, IInv, RowOK
<1>2. ASSUME NEW f \in Executor, NEW q \in Run
      PROVE  JobOK(f, q)'
  <2>1. JobOK(f, q)
    BY DEF IInv
  <2>2. CASE job'[<<f, q>>] = job[<<f, q>>]
    BY <1>1, <2>1, <2>2 DEF JobOK, At, Stopped, Terminal
  <2>3. CASE job'[<<f, q>>].pc \in Plain
    BY <2>3, PlainOK
  <2>4. CASE /\ job[<<f, q>>].pc = "stopping" /\ job'[<<f, q>>].pc = "settle"
             /\ job'[<<f, q>>].out = job[<<f, q>>].out
             /\ job[<<f, q>>].out = "cancelled" => journal'[q] \in Terminal
    <3>1. job'[<<f, q>>].out \in {"cancelled", "interrupted"}
      BY <2>1, <2>4 DEF JobOK
    <3> QED  BY <2>4, <3>1 DEF JobOK, At, Stopped, AdmissionPc, Terminal
  <2> QED  BY <2>2, <2>3, <2>4
<1>3. OneSender'
  BY DEF IInv, OneSender, At, Plain
<1>4. \A q \in Run : RowOK(q)'
  BY <1>1 DEF IInv, RowOK, Stopped
<1> QED  BY <1>2, <1>3, <1>4 DEF IInv

\* What an answer brings a waiting job to, but for one that waited to settle.
AnsweredPc == {"idle", "observe", "resumed"}

LEMMA ReplyAnswers ==
  ASSUME TypeOK, NEW m \in net, NEW running, Reply(m, running)
  PROVE  /\ job' \in [Executor \X Run -> Job]
         /\ \A f \in Executor, q \in Run :
              \/ job'[<<f, q>>] = job[<<f, q>>]
              \/ job'[<<f, q>>].pc \in AnsweredPc
              \/ /\ m.type = "cancel" /\ m.run = q
                 /\ job[<<f, q>>].pc = "stopping" /\ job'[<<f, q>>].pc = "settle"
                 /\ job'[<<f, q>>].out = job[<<f, q>>].out
<1>1. PICK W \in SUBSET Waiting(m) :
        job' = [j \in Executor \X Run |-> IF j \in W THEN Answered(job[j], running) ELSE job[j]]
  BY DEF Reply
<1>2. Idle \in Job /\ Idle.pc = "idle"
  BY ExecutorAssumption DEF Idle, Job, Pc, JournalStatus
<1>3. ASSUME NEW jb \in Job
      PROVE  /\ Answered(jb, running) \in Job
             /\ \/ Answered(jb, running).pc \in AnsweredPc
                \/ /\ jb.pc = "stopping" /\ Answered(jb, running).pc = "settle"
                   /\ Answered(jb, running).out = jb.out
  BY <1>2 DEF Answered, Job, Pc, ObservePc, ResumePc, SettlePc, AnsweredPc
<1>4. job' \in [Executor \X Run -> Job]
  BY <1>1, <1>3 DEF TypeOK
<1>5. ASSUME NEW f \in Executor, NEW q \in Run
      PROVE  \/ job'[<<f, q>>] = job[<<f, q>>]
             \/ job'[<<f, q>>].pc \in AnsweredPc
             \/ /\ m.type = "cancel" /\ m.run = q
                /\ job[<<f, q>>].pc = "stopping" /\ job'[<<f, q>>].pc = "settle"
                /\ job'[<<f, q>>].out = job[<<f, q>>].out
  <2>1. job[<<f, q>>] \in Job
    BY DEF TypeOK
  <2>2. <<f, q>> \in W /\ job[<<f, q>>].pc = "stopping" => m.type = "cancel" /\ m.run = q
    BY DEF Waiting
  <2>3. job'[<<f, q>>] = IF <<f, q>> \in W THEN Answered(job[<<f, q>>], running)
                                           ELSE job[<<f, q>>]
    BY <1>1
  <2> QED  BY <1>3, <2>1, <2>2, <2>3
<1> QED  BY <1>4, <1>5

LEMMA ReplyJobs ==
  ASSUME TypeOK, NEW m \in net, NEW running, Reply(m, running)
  PROVE  /\ job' \in [Executor \X Run -> Job]
         /\ \A f \in Executor, q \in Run :
              \/ job'[<<f, q>>] = job[<<f, q>>]
              \/ job'[<<f, q>>].pc \in Plain
              \/ /\ m.type = "cancel" /\ m.run = q
                 /\ job[<<f, q>>].pc = "stopping" /\ job'[<<f, q>>].pc = "settle"
                 /\ job'[<<f, q>>].out = job[<<f, q>>].out
<1>1. AnsweredPc \subseteq Plain
  BY DEF AnsweredPc, Plain
<1> QED  BY ZenonT(30), <1>1, ReplyAnswers

LEMMA DeliverPutInvariant ==
  ASSUME IInv, NEW m \in net, DeliverPut(m)
  PROVE  IInv'
<1>0. TypeOK /\ m.run \in Run /\ m = [type |-> "put", run |-> m.run]
  BY DEF IInv, TypeOK, Message, DeliverPut
<1>1. dispatched[m.run] /\ life # "archived"
  BY <1>0 DEF IInv, RowOK
<1>2. DaemonTypeOK' /\ Forward({m.run})
  <2>1. CASE UNCHANGED daemonVars
    BY <1>0, <2>1 DEF TypeOK, DaemonTypeOK, daemonVars, Forward
  <2>2. CASE AcceptRoot(m.run)
    BY <1>0, <2>2, AcceptRootForward DEF TypeOK
  <2>3. CASE \E rt \in Run : AcceptSteer(m.run, rt)
    BY <1>0, <2>3, AcceptSteerForward DEF TypeOK
  <2> QED  BY <2>1, <2>2, <2>3 DEF DeliverPut
<1>3. TypeOK'
  BY <1>0, <1>2, ReplyJobs DEF TypeOK, DeliverPut, DeliverFrame, rowVars, machineVars
<1> QED
  BY <1>0, <1>1, <1>2, <1>3, ReplyJobs, DaemonMove DEF DeliverPut, DeliverFrame, rowVars

LEMMA DeliverCancelInvariant ==
  ASSUME IInv, NEW m \in net, DeliverCancel(m)
  PROVE  IInv'
<1>0. TypeOK /\ m.run \in Run /\ life # "archived"
  BY DEF IInv, TypeOK, Message
<1>1. /\ DaemonTypeOK' /\ Forward({})
      /\ journal[m.run] # "none" => journal'[m.run] \in Terminal
  <2>0. root[m.run] \in Run \cup {None} /\ journal[m.run] \in JournalStatus
    BY <1>0 DEF TypeOK, DaemonTypeOK
  <2>1. CASE ~Live(m.run) /\ UNCHANGED daemonVars
    BY <1>0, <2>0, <2>1 DEF TypeOK, DaemonTypeOK, daemonVars, Forward, JournalStatus, Live
  <2>2. CASE Live(m.run) /\ AbortRoot(root[m.run], "cancelled")
    BY <1>0, <2>0, <2>2, AbortRootForward DEF TypeOK, Terminal
  <2>3. CASE Live(m.run) /\ FinishRoot(root[m.run], "cancelled")
    BY <1>0, <2>0, <2>3, FinishRootForward DEF TypeOK, Terminal
  <2>4. CASE ~Live(m.run) /\ (AbortRoot(root[m.run], "cancelled") \/ FinishRoot(root[m.run], "cancelled"))
    <3>1. DaemonTypeOK' /\ Forward({})
      BY <1>0, <2>0, <2>4, AbortRootForward, FinishRootForward DEF TypeOK
    <3> QED  BY <1>0, <2>0, <2>4, <3>1 DEF Forward, JournalStatus, Live
  <2> QED  BY <2>1, <2>2, <2>3, <2>4 DEF DeliverCancel
<1>2. TypeOK'
  BY <1>0, <1>1, ReplyJobs DEF TypeOK, DeliverCancel, DeliverFrame, rowVars, machineVars
<1>3. \A f \in Executor, q \in Run :
        job[<<f, q>>].pc = "stopping" /\ job[<<f, q>>].out = "cancelled" => journal[q] # "none"
  BY DEF IInv, JobOK
<1>4. ASSUME NEW f \in Executor, NEW q \in Run
      PROVE  \/ job'[<<f, q>>] = job[<<f, q>>]
             \/ job'[<<f, q>>].pc \in Plain
             \/ /\ job[<<f, q>>].pc = "stopping" /\ job'[<<f, q>>].pc = "settle"
                /\ job'[<<f, q>>].out = job[<<f, q>>].out
                /\ job[<<f, q>>].out = "cancelled" => journal'[q] \in Terminal
  <2>1. PICK running : Reply(m, running)
    BY DEF DeliverCancel
  <2>2. \/ job'[<<f, q>>] = job[<<f, q>>]
        \/ job'[<<f, q>>].pc \in Plain
        \/ /\ m.run = q
           /\ job[<<f, q>>].pc = "stopping" /\ job'[<<f, q>>].pc = "settle"
           /\ job'[<<f, q>>].out = job[<<f, q>>].out
    BY <1>0, <2>1, ReplyJobs
  <2> QED  BY <1>1, <1>3, <2>2
<1> QED
  BY <1>0, <1>1, <1>2, <1>4, DaemonMove DEF DeliverCancel, DeliverFrame, rowVars

LEMMA DeliverResumeInvariant ==
  ASSUME IInv, NEW m \in net, DeliverResume(m)
  PROVE  IInv'
<1>0. TypeOK /\ m.run \in Run /\ m.type = "resume" /\ life # "archived"
  BY DEF IInv, TypeOK, Message, DeliverResume
<1>1. DaemonTypeOK' /\ Forward({})
  <2>1. CASE UNCHANGED daemonVars
    BY <1>0, <2>1 DEF TypeOK, DaemonTypeOK, daemonVars, Forward
  <2>2. CASE ResumeRoot(root[m.run])
    <3>1. root[m.run] \in Run \cup {None}
      BY <1>0 DEF TypeOK, DaemonTypeOK
    <3> QED  BY <1>0, <2>2, <3>1, ResumeRootForward DEF TypeOK
  <2> QED  BY <2>1, <2>2 DEF DeliverResume
<1>2. (journal[m.run] \in LiveStatus) \in BOOLEAN
  OBVIOUS
<1>3. /\ job' \in [Executor \X Run -> Job]
      /\ \A f \in Executor, q \in Run :
           job'[<<f, q>>] = job[<<f, q>>] \/ job'[<<f, q>>].pc \in Plain
  <2>1. Reply(m, journal[m.run] \in LiveStatus)
    BY DEF DeliverResume
  <2> QED  BY <1>0, <1>2, <2>1, ReplyJobs
<1>4. TypeOK'
  BY <1>0, <1>1, <1>3 DEF TypeOK, DeliverResume, DeliverFrame, rowVars, machineVars
<1> QED
  BY <1>0, <1>1, <1>3, <1>4, DaemonMove DEF DeliverResume, DeliverFrame, rowVars

LEMMA RefuseInvariant ==
  ASSUME IInv, NEW m \in net, Refuse(m)
  PROVE  IInv'
<1>0. TypeOK /\ m.run \in Run /\ life # "archived"
  BY DEF IInv, TypeOK, Message
<1>1. DaemonTypeOK' /\ Forward({})
  <2>1. CASE UNCHANGED daemonVars
    BY <1>0, <2>1 DEF TypeOK, DaemonTypeOK, daemonVars, Forward
  <2>2. CASE AbortRoot(root[m.run], "interrupted")
    <3>1. root[m.run] \in Run \cup {None}
      BY <1>0 DEF TypeOK, DaemonTypeOK
    <3> QED  BY <1>0, <2>2, <3>1, AbortRootForward DEF TypeOK
  <2> QED  BY <2>1, <2>2 DEF Refuse
<1>2. TypeOK'
  BY <1>0, <1>1 DEF TypeOK, Refuse, DeliverFrame, rowVars, machineVars
<1> QED
  BY <1>0, <1>1, <1>2, DaemonMove DEF Refuse, DeliverFrame, rowVars

LEMMA DaemonAloneInvariant ==
  ASSUME IInv, DaemonAlone
  PROVE  IInv'
<1>0. TypeOK /\ DaemonTypeOK
  BY DEF IInv, TypeOK
<1>1. DaemonTypeOK' /\ Forward({})
  BY <1>0, FinishRootForward, ReleaseForward, ParkRootForward, SteerFailsForward, RestartForward
     DEF DaemonAlone
<1>2. TypeOK'
  BY <1>0, <1>1 DEF TypeOK, DaemonAlone, rowVars, machineVars
<1> QED
  BY <1>0, <1>1, <1>2, DaemonMove DEF DaemonAlone, rowVars

LEMMA DaemonInvariant ==
  ASSUME IInv, Daemon
  PROVE  IInv'
BY DeliverPutInvariant, DeliverCancelInvariant, DeliverResumeInvariant, RefuseInvariant,
   DaemonAloneInvariant DEF Daemon

-------------------------------------------------------------------------------
(* Requests, lifecycle and time                                            *)

\* Rows that are over, or cancelled although the machine has nothing to stop.
LEMMA EnvMove ==
  ASSUME IInv, TypeOK', UNCHANGED <<journal, dispatched, puts, job, leader, net>>,
         life' = life \/ (life' = "retired" /\ life = "live"),
         \A q \in Run : \/ status'[q] = status[q]
                        \/ status'[q] = "queued" /\ status[q] = "none"
                        \/ status'[q] = "failed"
                        \/ status'[q] = "cancelled" /\ Stopped(q)
  PROVE  IInv'
<1>1. ASSUME NEW q \in Run
      PROVE  RowOK(q)'
  <2>1. RowOK(q)
    BY DEF IInv
  <2>2. CASE status'[q] = status[q]
    BY <2>1, <2>2 DEF RowOK, Stopped, Live
  <2>3. CASE status'[q] = "queued" /\ status[q] = "none"
    BY <2>1, <2>3 DEF RowOK, Live
  <2>4. CASE status'[q] = "failed"
    BY <2>1, <2>4 DEF RowOK, Live
  <2>5. CASE status'[q] = "cancelled" /\ Stopped(q)
    BY <2>1, <2>5 DEF RowOK, Stopped, Live
  <2> QED  BY <2>2, <2>3, <2>4, <2>5
<1> QED  BY <1>1, RowMove DEF IInv

\* Queued rows are not dispatched.
LEMMA QueuedStopped ==
  ASSUME IInv, NEW q \in Run, status[q] = "queued"
  PROVE  Stopped(q)
BY DEF IInv, RowOK, Stopped

LEMMA RequestInvariant ==
  ASSUME IInv, NEW r \in Run,
         Submit(r) \/ CancelTask(r) \/ ToolCancel(r) \/ Answer(r) \/ Elapse(r)
  PROVE  IInv'
<1>0. TypeOK
  BY DEF IInv
<1> USE DEF EnvFrame, daemonVars
<1>1. CASE Submit(r)
  <2>1. TypeOK'
    BY <1>0, <1>1 DEF TypeOK, DaemonTypeOK, Submit, Status
  <2> QED  BY <1>0, <1>1, <2>1, EnvMove DEF TypeOK, Submit
<1>2. CASE CancelTask(r)
  <2>1. TypeOK'
    BY <1>0, <1>2 DEF TypeOK, DaemonTypeOK, CancelTask, Status, Terminal
  <2> QED  BY <1>0, <1>2, <2>1, EnvMove, QueuedStopped DEF TypeOK, CancelTask
<1>3. CASE ToolCancel(r)
  <2>1. TypeOK'
    BY <1>0, <1>3 DEF TypeOK, DaemonTypeOK, ToolCancel, CancelRow, Status, Terminal
  <2> QED  BY <1>0, <1>3, <2>1, EnvMove DEF TypeOK, ToolCancel, CancelRow, Stopped
<1>4. CASE Answer(r)
  <2>1. TypeOK'
    BY <1>0, <1>4 DEF TypeOK, DaemonTypeOK, Answer
  <2>2. UNCHANGED <<journal, dispatched, puts, job, leader, net>> /\ life' = life /\ status' = status
    BY <1>4 DEF Answer
  <2> QED  BY <2>1, <2>2, EnvMove
<1>5. CASE Elapse(r)
  <2>1. TypeOK'
    BY <1>0, <1>5 DEF TypeOK, DaemonTypeOK, Elapse, rowVars
  <2>2. UNCHANGED <<journal, dispatched, puts, job, leader, net>> /\ life' = life /\ status' = status
    BY <1>5 DEF Elapse, rowVars
  <2> QED  BY <2>1, <2>2, EnvMove
<1> QED  BY <1>1, <1>2, <1>3, <1>4, <1>5

LEMMA CancelChatInvariant ==
  ASSUME IInv, CancelChat
  PROVE  IInv'
<1>0. TypeOK
  BY DEF IInv
<1>1. TypeOK'
  BY <1>0 DEF TypeOK, DaemonTypeOK, CancelChat, EnvFrame, daemonVars, Status, Terminal
<1>2. UNCHANGED <<journal, dispatched, puts, job, leader, net>> /\ life' = life
  BY DEF CancelChat, EnvFrame, daemonVars
<1>3. \A q \in Run : \/ status'[q] = status[q]
                     \/ status'[q] = "cancelled" /\ status[q] = "queued"
  BY <1>0 DEF TypeOK, CancelChat
<1> QED  BY <1>1, <1>2, <1>3, EnvMove, QueuedStopped

LEMMA RetireInvariant ==
  ASSUME IInv, Retire
  PROVE  IInv'
<1>0. TypeOK
  BY DEF IInv
<1>1. TypeOK'
  BY <1>0 DEF TypeOK, DaemonTypeOK, Retire, CancelRow, EnvFrame, daemonVars, Status, Terminal
<1> QED
  BY <1>0, <1>1, EnvMove DEF TypeOK, Retire, CancelRow, Stopped, EnvFrame, daemonVars

LEMMA RetireSettleInvariant ==
  ASSUME IInv, NEW r \in Run, RetireSettle(r)
  PROVE  IInv'
<1>0. TypeOK
  BY DEF IInv
<1>1. TypeOK'
  BY <1>0 DEF TypeOK, DaemonTypeOK, RetireSettle, EnvFrame, daemonVars, Status, Terminal
<1>2. UNCHANGED <<journal, dispatched, puts, job, leader, net>> /\ life' = life
  BY DEF RetireSettle, EnvFrame, daemonVars
<1>3. \A q \in Run : status'[q] = status[q] \/ (status'[q] = "cancelled" /\ Stopped(q))
  BY <1>0 DEF TypeOK, RetireSettle, Stopped
<1> QED  BY <1>1, <1>2, <1>3, EnvMove

LEMMA RetireCancelInvariant ==
  ASSUME IInv, NEW r \in Run, RetireCancel(r)
  PROVE  IInv'
<1>0. TypeOK /\ DaemonTypeOK /\ root[r] \in Run \cup {None}
  BY DEF IInv, TypeOK, DaemonTypeOK
<1>1. DaemonTypeOK' /\ Forward({})
  BY <1>0, AbortRootForward DEF RetireCancel
<1>2. TypeOK'
  BY <1>0, <1>1 DEF TypeOK, RetireCancel, rowVars, machineVars
<1> QED
  BY <1>0, <1>1, <1>2, DaemonMove DEF RetireCancel, rowVars

LEMMA MachineInvariant ==
  ASSUME IInv, MachineReady \/ MachineFails \/ MachineRefused \/ MachineAsleep
  PROVE  IInv'
<1>0. TypeOK
  BY DEF IInv
<1>1. CASE MachineReady
  <2>1. TypeOK'
    <3>1. issued' \in 0..MaxEndpoint /\ endpoint' \in 0..MaxEndpoint
      BY <1>0, <1>1, ExecutorAssumption DEF TypeOK, MachineReady
    <3>2. prepareReq' \in BOOLEAN
      BY <1>1 DEF MachineReady
    <3> QED
      BY <1>0, <1>1, <3>1, <3>2 DEF TypeOK, DaemonTypeOK, MachineReady, daemonVars, rowVars
  <2> QED  BY <1>1, <2>1, EnvMove DEF MachineReady, daemonVars, rowVars
<1>2. CASE MachineFails
  <2>1. TypeOK'
    BY <1>0, <1>2
       DEF TypeOK, DaemonTypeOK, MachineFails, EnvFrame, daemonVars, Status, Terminal
  <2> QED  BY <1>0, <1>2, <2>1, EnvMove DEF TypeOK, MachineFails, EnvFrame, daemonVars
<1>3. CASE MachineRefused
  <2>1. TypeOK'
    BY <1>0, <1>3 DEF TypeOK, DaemonTypeOK, MachineRefused, EnvFrame, daemonVars, rowVars
  <2> QED  BY <1>3, <2>1, EnvMove DEF MachineRefused, EnvFrame, daemonVars, rowVars
<1>4. CASE MachineAsleep
  <2>1. TypeOK'
    BY <1>0, <1>4, ExecutorAssumption
       DEF TypeOK, DaemonTypeOK, MachineAsleep, EnvFrame, daemonVars, rowVars
  <2> QED  BY <1>4, <2>1, EnvMove DEF MachineAsleep, EnvFrame, daemonVars, rowVars
<1> QED  BY <1>1, <1>2, <1>3, <1>4

\* Archiving ends the machine's processes and every request to them.
LEMMA ArchiveInvariant ==
  ASSUME IInv, Archive
  PROVE  IInv'
<1>0. TypeOK /\ DaemonTypeOK
  BY DEF IInv, TypeOK
<1>1. DaemonTypeOK' /\ Forward({}) /\ \A q \in Run : ~Live(q)'
  BY <1>0, RestartForward DEF Archive
<1>2. /\ UNCHANGED <<dispatched, leader, puts, job>> /\ net' = {} /\ life' = "archived"
      /\ \A q \in Run : \/ status'[q] = "cancelled"
                        \/ status'[q] = status[q] /\ status[q] \notin {"needs_input", "preparing"}
  BY <1>0 DEF TypeOK, Archive, Active
<1>3. TypeOK'
  <2>1. endpoint' = 0 /\ prepareReq' = FALSE /\ net' = {}
    BY DEF Archive
  <2>2. status' \in [Run -> Status] /\ cancelReq' \in [Run -> BOOLEAN]
    BY <1>0 DEF TypeOK, Archive, Status, Terminal
  <2>3. 0 \in 0..MaxEndpoint
    BY ExecutorAssumption
  <2> QED  BY <1>0, <1>1, <2>1, <2>2, <2>3 DEF TypeOK, Archive
<1>4. \A q \in Run : /\ journal[q] # "none" => journal'[q] # "none"
                     /\ journal[q] \in Terminal => journal'[q] = journal[q]
                     /\ ~dispatched[q] => journal'[q] = journal[q]
  BY <1>1 DEF Forward, Live, LiveStatus, Terminal, IInv, RowOK
<1>5. ASSUME NEW f \in Executor, NEW q \in Run
      PROVE  JobOK(f, q)'
  <2>1. JobOK(f, q)
    BY DEF IInv
  <2> QED  BY <1>2, <1>4, <2>1 DEF JobOK, At, Stopped, Terminal
<1>6. OneSender'
  BY <1>2 DEF IInv, OneSender, At
<1>7. ASSUME NEW q \in Run
      PROVE  RowOK(q)'
  <2>1. RowOK(q)
    BY DEF IInv
  <2> QED  BY <1>1, <1>2, <1>4, <2>1 DEF RowOK, Stopped
<1> QED  BY <1>2, <1>3, <1>5, <1>6, <1>7 DEF IInv

-------------------------------------------------------------------------------
(* The invariant and what follows from it                                  *)

LEMMA InitInvariant == Init => IInv
<1> SUFFICES ASSUME Init
             PROVE  IInv
  OBVIOUS
<1>1. Idle \in Job /\ Idle.pc = "idle"
  BY ExecutorAssumption DEF Idle, Job, Pc, JournalStatus
<1>2. TypeOK
  <2>1. DaemonTypeOK
    BY DEF Init, DaemonInit, DaemonTypeOK, JournalStatus
  <2>2. 0 \in 0..MaxEndpoint
    BY ExecutorAssumption
  <2>3. /\ status \in [Run -> Status] /\ dispatched \in [Run -> BOOLEAN]
        /\ cancelReq \in [Run -> BOOLEAN] /\ resumeReq \in [Run -> BOOLEAN]
        /\ age \in [Run -> 0..2] /\ puts \in [Run -> Nat]
    BY DEF Init, Status
  <2> QED  BY <1>1, <2>1, <2>2, <2>3 DEF Init, TypeOK
<1>3. \A e \in Executor, r \in Run : JobOK(e, r) /\ ~At(e, r, "send")
  BY <1>1 DEF Init, JobOK, At, AdmissionPc
<1>4. \A r \in Run : RowOK(r)
  BY DEF Init, DaemonInit, RowOK, Live, LiveStatus
<1> QED  BY <1>2, <1>3, <1>4 DEF IInv, OneSender, Init

LEMMA NextInvariant == IInv /\ [Next]_vars => IInv'
<1> SUFFICES ASSUME IInv, [Next]_vars
             PROVE  IInv'
  OBVIOUS
<1>1. CASE Tick
  BY <1>1, TickInvariant
<1>2. CASE Daemon
  BY <1>2, DaemonInvariant
<1>3. CASE Environment
  BY <1>3, RequestInvariant, RetireInvariant, RetireCancelInvariant, RetireSettleInvariant,
     CancelChatInvariant, MachineInvariant, ArchiveInvariant DEF Environment
<1>4. CASE \E e \in Executor, r \in Run : Start(e, r) \/ Step(e, r) \/ Error(e, r)
  BY <1>4, JobInvariant
<1>5. CASE UNCHANGED vars
  BY <1>5
     DEF vars, daemonVars, rowVars, machineVars, IInv, TypeOK, DaemonTypeOK, JobOK, At, OneSender,
         RowOK, Stopped, Live
<1> QED  BY <1>1, <1>2, <1>3, <1>4, <1>5 DEF Next

LEMMA Invariance == Spec => []IInv
BY InitInvariant, NextInvariant, PTL DEF Spec

\* The types of every variable, whatever the constants: in particular the pid,
\* the endpoint generation and the answer a job carries over its awaits.
THEOREM TypeCorrect == Spec => []TypeOK
<1>1. IInv => TypeOK
  BY DEF IInv
<1> QED  BY <1>1, Invariance, PTL

\* No run is PUT to the daemon twice, over any number of executors, changes of
\* the lead, lost answers and reconnections (executor.ts, progressRun: a run
\* that was dispatched is only observed).
THEOREM OnePut == Spec => []AtMostOnePut
<1>1. IInv => AtMostOnePut
  BY DEF IInv, RowOK, AtMostOnePut
<1> QED  BY <1>1, Invariance, PTL

\* A run the owner sees as cancelled is not worked on, and no PUT for it is on
\* its way: every path that writes "cancelled" (progressRun, the tick's denial,
\* task_cancel, the chat, retirement) has the machine's answer or an
\* undispatched row before it.
THEOREM CancellationIsStopped == Spec => []CancelledIsStopped
<1>1. IInv => CancelledIsStopped
  <2> SUFFICES ASSUME IInv, NEW r \in Run, status[r] = "cancelled"
               PROVE  ~Live(r) /\ (journal[r] = "none" => [type |-> "put", run |-> r] \notin net)
    BY DEF CancelledIsStopped
  <2>1. RowOK(r) /\ (life = "archived" => net = {})
    BY DEF IInv
  <2>2. "none" \notin Terminal /\ \A s \in Terminal : s \notin LiveStatus
    BY DEF Terminal, LiveStatus
  <2>3. "none" \notin LiveStatus
    BY DEF LiveStatus
  <2> QED  BY <2>1, <2>2, <2>3 DEF RowOK, Stopped, Live
<1> QED  BY <1>1, Invariance, PTL

-------------------------------------------------------------------------------
(* The contract with the owner                                             *)

Open(q) == status[q] \in {"queued"} \cup Active

\* What a step may do to the journal: only dispatched runs begin.
JournalMove(q) ==
  \/ journal'[q] = journal[q]
  \/ Live(q) /\ journal'[q] \in LiveStatus \cup Terminal
  \/ dispatched[q] /\ journal[q] = "none" /\ journal'[q] \in LiveStatus

\* What a step may do to the row: success is taken from the journal.
RowMoves(q) ==
  \/ dispatched'[q] = dispatched[q] /\ status'[q] = status[q]
  \/ dispatched'[q] = dispatched[q] /\ Open(q) /\ Open(q)'
  \/ dispatched'[q] = dispatched[q] /\ status[q] = "none" /\ status'[q] = "queued"
  \/ /\ dispatched'[q] = dispatched[q] /\ Open(q) /\ status'[q] \in Terminal
     /\ status'[q] = "succeeded" => journal[q] = "succeeded"
  \/ ~dispatched[q] /\ dispatched'[q] /\ Open(q) /\ Open(q)'

\* Most steps of a job leave rows and journal alone.
LEMMA JobQuiet ==
  ASSUME NEW e \in Executor, NEW r \in Run, Start(e, r) \/ Step(e, r) \/ Error(e, r)
  PROVE  /\ UNCHANGED <<journal, root, cancelReq, age, life>>
         /\ \/ UNCHANGED <<status, dispatched>>
            \/ Settle(e, r) \/ Dispatch(e, r) \/ Resumed(e, r) \/ Apply(e, r)
<1> USE DEF StepLocal, daemonVars, rowVars
<1>1. CASE Start(e, r)
  BY <1>1 DEF Start, StartCancelled, StartResume, StartAdmission, StartObservation
<1>2. CASE Error(e, r)
  BY <1>2 DEF Error, Fail, ProbeFails
<1>3. CASE Settle(e, r) \/ Dispatch(e, r) \/ Resumed(e, r) \/ Apply(e, r)
  BY <1>3 DEF Settle, Dispatch, Resumed, Apply
<1>4. CASE \/ DropEndpoint(e, r) \/ StopWithoutAuthority(e, r) \/ AskPreparation(e, r)
           \/ Probe(e, r) \/ Prior(e, r) \/ Unready(e, r) \/ Stage(e, r) \/ Recheck(e, r) \/ SendPut(e, r)
  BY <1>4 DEF DropEndpoint, StopWithoutAuthority, AskPreparation, Probe, Prior, Unready, Stage,
              Recheck, SendPut
<1>5. CASE \/ StopRun(e, r) \/ Peek(e, r) \/ Peeked(e, r) \/ CancelRun(e, r) \/ Observe(e, r)
  BY <1>5 DEF StopRun, Peek, Peeked, CancelRun, Observe
<1> QED  BY <1>1, <1>2, <1>3, <1>4, <1>5 DEF Step

LEMMA JobRowMoves ==
  ASSUME IInv, NEW e \in Executor, NEW r \in Run, Start(e, r) \/ Step(e, r) \/ Error(e, r),
         NEW q \in Run
  PROVE  RowMoves(q)
<1>0. TypeOK
  BY DEF IInv
<1>1. CASE UNCHANGED <<status, dispatched>>
  BY <1>1 DEF RowMoves
<1>2. CASE Settle(e, r)
  <2>1. /\ job[<<e, r>>].out \in Terminal
        /\ job[<<e, r>>].out = "succeeded" => journal[r] = "succeeded"
    BY <1>2 DEF IInv, Settle, JobOK, At
  <2> QED  BY <1>0, <1>2, <2>1 DEF TypeOK, Settle, RowMoves, Open, Active
<1>3. CASE Dispatch(e, r)
  <2>1. job[<<e, r>>].pc = "dispatch" /\ JobOK(e, r)
    BY <1>3 DEF Dispatch, At, IInv
  <2>2. MayDispatch(e, r) => ~dispatched[r]
    BY <2>1 DEF JobOK, AdmissionPc, MayDispatch
  <2>3. CASE MayDispatch(e, r)
    BY <1>0, <1>3, <2>2, <2>3 DEF TypeOK, Dispatch, MayDispatch, RowMoves, Open, Active
  <2>4. CASE ~MayDispatch(e, r)
    BY <1>3, <2>4 DEF Dispatch, RowMoves
  <2> QED  BY <2>3, <2>4
<1>4. CASE Resumed(e, r)
  BY <1>0, <1>4 DEF TypeOK, Resumed, RowMoves, Open, Active
<1>5. CASE Apply(e, r)
  BY <1>0, <1>5 DEF TypeOK, Apply, RowMoves, Open, Active
<1> QED  BY <1>1, <1>2, <1>3, <1>4, <1>5, JobQuiet

LEMMA TickQuiet ==
  ASSUME IInv, Tick, NEW q \in Run
  PROVE  UNCHANGED <<journal, root, cancelReq, age, life, job, net>> /\ RowMoves(q)
<1>0. TypeOK
  BY DEF IInv
<1> USE DEF daemonVars, rowVars
<1>1. CASE Lose \/ Wake \/ \E e \in Executor : Acquire(e)
  BY <1>1 DEF Lose, Wake, Acquire, RowMoves
<1>2. CASE Deny
  BY <1>0, <1>2 DEF TypeOK, Deny, RowMoves, Open, Active, Terminal
<1>3. CASE Claim
  BY <1>0, <1>3 DEF TypeOK, Claim, ClaimChoice, Claimable, RowMoves, Open, Active
<1> QED  BY <1>1, <1>2, <1>3 DEF Tick

LEMMA EnvironmentRowMoves ==
  ASSUME IInv, Environment, NEW q \in Run
  PROVE  RowMoves(q)
<1>0. TypeOK
  BY DEF IInv
<1> USE <1>0 DEF TypeOK, rowVars, Active, Terminal, RowMoves, Open
<1>1. CASE CancelChat
  BY <1>1 DEF CancelChat
<1>2. CASE Retire
  BY <1>2 DEF Retire, CancelRow
<1>3. CASE Archive
  BY <1>3 DEF Archive
<1>4. CASE MachineReady \/ MachineFails \/ MachineRefused \/ MachineAsleep
  BY <1>4 DEF MachineReady, MachineFails, MachineRefused, MachineAsleep
<1>5. ASSUME NEW r \in Run,
             Submit(r) \/ CancelTask(r) \/ ToolCancel(r) \/ Answer(r) \/ RetireCancel(r)
               \/ RetireSettle(r) \/ Elapse(r)
      PROVE  RowMoves(q)
  <2>1. CASE Submit(r) \/ Answer(r) \/ Elapse(r) \/ RetireCancel(r) \/ RetireSettle(r)
    BY <2>1 DEF Submit, Answer, Elapse, RetireCancel, RetireSettle
  <2>2. CASE CancelTask(r)
    BY <2>2 DEF CancelTask
  <2>3. CASE ToolCancel(r)
    BY <2>3 DEF ToolCancel, CancelRow
  <2> QED  BY <1>5, <2>1, <2>2, <2>3
<1> QED  BY <1>1, <1>2, <1>3, <1>4, <1>5 DEF Environment

\* The daemon's steps, retirement and archiving move the journal forward, and
\* only a PUT, whose run is dispatched, begins a run.
LEMMA ForwardJournal ==
  ASSUME NEW S \in SUBSET Run, Forward(S), \A q \in S : dispatched[q]
  PROVE  \A q \in Run : JournalMove(q)
BY DEF Forward, JournalMove

LEMMA DaemonQuiet ==
  ASSUME IInv, Daemon
  PROVE  UNCHANGED <<status, dispatched>> /\ \A q \in Run : JournalMove(q)
<1>0. DaemonTypeOK
  BY DEF IInv, TypeOK
<1>1. UNCHANGED <<status, dispatched>>
  BY DEF Daemon, DeliverPut, DeliverCancel, DeliverResume, Refuse, DaemonAlone, DeliverFrame, rowVars
<1>2. CASE DaemonAlone
  <2>1. Forward({})
    BY <1>0, <1>2, FinishRootForward, ReleaseForward, ParkRootForward, SteerFailsForward,
       RestartForward DEF DaemonAlone
  <2> QED  BY <1>1, <2>1, ForwardJournal
<1>3. ASSUME NEW m \in net, DeliverPut(m)
      PROVE  \A q \in Run : JournalMove(q)
  <2>1. m.run \in Run /\ m = [type |-> "put", run |-> m.run]
    BY <1>3 DEF IInv, TypeOK, Message, DeliverPut
  <2>2. dispatched[m.run]
    BY <2>1 DEF IInv, RowOK
  <2>3. Forward({m.run})
    BY <1>0, <1>3, <2>1, AcceptRootForward, AcceptSteerForward
       DEF DeliverPut, daemonVars, Forward
  <2> QED  BY <2>1, <2>2, <2>3, ForwardJournal
<1>4. ASSUME NEW m \in net, DeliverCancel(m) \/ DeliverResume(m) \/ Refuse(m)
      PROVE  \A q \in Run : JournalMove(q)
  <2>1. root[m.run] \in Run \cup {None}
    BY <1>0 DEF IInv, TypeOK, Message, DaemonTypeOK
  <2>2. Forward({})
    BY <1>0, <1>4, <2>1, AbortRootForward, FinishRootForward, ResumeRootForward
       DEF DeliverCancel, DeliverResume, Refuse, daemonVars, Forward
  <2> QED  BY <2>2, ForwardJournal
<1> QED  BY <1>1, <1>2, <1>3, <1>4 DEF Daemon

LEMMA EnvironmentJournal ==
  ASSUME IInv, Environment
  PROVE  \A q \in Run : JournalMove(q)
<1>0. DaemonTypeOK
  BY DEF IInv, TypeOK
<1>1. CASE Archive
  <2>1. Forward({})
    BY <1>0, <1>1, RestartForward DEF Archive
  <2> QED  BY <2>1, ForwardJournal
<1>2. CASE \E r \in Run : RetireCancel(r)
  <2>1. PICK r \in Run : RetireCancel(r)
    BY <1>2
  <2>2. root[r] \in Run \cup {None}
    BY <1>0 DEF DaemonTypeOK
  <2>3. Forward({})
    BY <1>0, <2>1, <2>2, AbortRootForward DEF RetireCancel
  <2> QED  BY <2>3, ForwardJournal
<1>3. CASE ~Archive /\ ~\E r \in Run : RetireCancel(r)
  <2>1. UNCHANGED journal
    BY <1>3 DEF Environment, CancelChat, Retire, MachineReady, MachineFails, MachineRefused,
       MachineAsleep, Submit, CancelTask, ToolCancel, Answer, RetireSettle, Elapse, EnvFrame, daemonVars
  <2> QED  BY <2>1 DEF JournalMove
<1> QED  BY <1>1, <1>2, <1>3

LEMMA NextMoves ==
  ASSUME IInv, [Next]_vars, NEW q \in Run
  PROVE  JournalMove(q) /\ RowMoves(q)
<1>1. CASE Tick
  BY <1>1, TickQuiet DEF JournalMove
<1>2. CASE Daemon
  BY <1>2, DaemonQuiet DEF RowMoves
<1>3. CASE Environment
  BY <1>3, EnvironmentJournal, EnvironmentRowMoves
<1>4. CASE \E e \in Executor, r \in Run : Start(e, r) \/ Step(e, r) \/ Error(e, r)
  BY <1>4, JobQuiet, JobRowMoves DEF JournalMove
<1>5. CASE UNCHANGED vars
  BY <1>5 DEF vars, daemonVars, rowVars, JournalMove, RowMoves
<1> QED  BY <1>1, <1>2, <1>3, <1>4, <1>5 DEF Next

\* What the owner is shown of q, and what the machine did of it, under the
\* refinement mapping.
Shown(q) == IF Open(q) THEN "open" ELSE status[q]
Done(q) == IF Live(q) THEN "working" ELSE journal[q]

\* A step of the contract, for one run.
Kept(q) ==
  \/ /\ Shown(q) = "none" /\ Shown(q)' = "open" /\ ~dispatched'[q] /\ Done(q)' = "none"
  \/ /\ Shown(q) = "open" /\ ~dispatched[q] /\ dispatched'[q]
     /\ Shown(q)' = "open" /\ Done(q)' = "none"
  \/ /\ \/ Done(q)' = Done(q)
        \/ Done(q) = "none" /\ dispatched[q] /\ Done(q)' = "working"
        \/ Done(q) = "working" /\ Done(q)' \in Terminal
     /\ \/ Shown(q)' = Shown(q) /\ dispatched'[q] = dispatched[q]
        \/ /\ Shown(q) = "open" /\ Shown(q)' \in Terminal /\ dispatched'[q] = dispatched[q]
           /\ Shown(q)' = "succeeded" => Done(q)' = "succeeded"
           /\ Shown(q)' = "cancelled" => Done(q)' # "working"

LEMMA KeptByMoves ==
  ASSUME IInv, IInv', NEW q \in Run, JournalMove(q), RowMoves(q)
  PROVE  Kept(q)
<1>1. /\ journal[q] \in JournalStatus /\ journal'[q] \in JournalStatus
      /\ status[q] \in Status /\ status'[q] \in Status
  BY DEF IInv, TypeOK, DaemonTypeOK
<1>2. RowOK(q) /\ RowOK(q)'
  BY DEF IInv
<1>3. \/ Done(q)' = Done(q)
      \/ Done(q) = "none" /\ dispatched[q] /\ Done(q)' = "working"
      \/ Done(q) = "working" /\ Done(q)' \in Terminal
  BY <1>1 DEF JournalMove, Done, Live, LiveStatus, Terminal
<1>4. ~dispatched[q] => journal'[q] = "none"
  BY <1>2 DEF RowOK, JournalMove, Live, LiveStatus
<1>5. CASE dispatched'[q] = dispatched[q] /\ (status'[q] = status[q] \/ (Open(q) /\ Open(q)'))
  BY <1>3, <1>5 DEF Kept, Shown, Open
<1>6. CASE status[q] = "none" /\ status'[q] = "queued" /\ dispatched'[q] = dispatched[q]
  BY <1>2, <1>4, <1>6 DEF Kept, Shown, Done, Open, Active, RowOK, Live, LiveStatus
<1>7. CASE /\ dispatched'[q] = dispatched[q] /\ Open(q) /\ status'[q] \in Terminal
           /\ status'[q] = "succeeded" => journal[q] = "succeeded"
  <2>1. status'[q] = "succeeded" => Done(q)' = "succeeded"
    BY <1>7 DEF JournalMove, Done, Live, LiveStatus
  <2>2. status'[q] = "cancelled" => Done(q)' # "working"
    <3>1. status'[q] = "cancelled" => ~dispatched'[q] \/ journal'[q] \in Terminal \/ ~Live(q)'
      BY <1>2 DEF RowOK, Stopped
    <3>2. status'[q] = "cancelled" => ~Live(q)'
      BY <1>4, <1>7, <3>1 DEF Live, LiveStatus, Terminal
    <3> QED  BY <1>1, <3>2 DEF Done, JournalStatus, LiveStatus, Terminal
  <2>3. Shown(q) = "open" /\ Shown(q)' = status'[q]
    BY <1>7 DEF Shown, Open, Active, Terminal
  <2> QED  BY <1>3, <1>7, <2>1, <2>2, <2>3 DEF Kept
<1>8. CASE ~dispatched[q] /\ dispatched'[q] /\ Open(q) /\ Open(q)'
  BY <1>4, <1>8 DEF Kept, Shown, Done, Open, Live, LiveStatus
<1> QED  BY <1>5, <1>6, <1>7, <1>8 DEF RowMoves

\* RunExecution implements RunContract: whatever executors, requests and the
\* machine do, a run is accepted before it is decided, decided before the
\* machine works on it, worked on once, settled once, and never reported
\* succeeded or cancelled against the machine's own record.
THEOREM Refinement == Spec => KeepsContract
<1>1. Init => Contract!Init
  BY DEF Init, DaemonInit, Contract!Init, Active, Live, LiveStatus
<1>2. IInv /\ IInv' /\ [Next]_vars => [Contract!Next]_(Contract!vars)
  <2> SUFFICES ASSUME IInv, IInv', [Next]_vars
               PROVE  Contract!Next
    OBVIOUS
  <2>1. Contract!Shape
    BY DEF Contract!Shape, IInv, TypeOK
  <2>2. ASSUME NEW q \in Run
        PROVE  Contract!Step(q)
    <3>1. Kept(q)
      BY NextMoves, KeptByMoves
    <3> QED  BY <3>1
      DEF Kept, Shown, Done, Open, Terminal, Contract!Step, Contract!Accept, Contract!Decide,
          Contract!Machine, Contract!Owner, Contract!Report, Contract!Begin, Contract!End,
          Contract!Honest, Contract!Outcome
  <2> QED  BY <2>1, <2>2 DEF Contract!Next
<1> QED  BY <1>1, <1>2, Invariance, PTL DEF Spec, KeepsContract, Contract!Spec

-------------------------------------------------------------------------------
(* Cancellations are asked for                                             *)

\* Why a cancellation of q may be on its way: it was asked for, q is over for the control
\* plane, or past its limit.
Blamed(q) == Orphaned(q) \/ age[q] = 2

\* Why r may be shown as cancelled: for itself, or for a message its response shares.
Excused(r) ==
  \/ cancelReq[r] \/ age[r] = 2
  \/ \E q \in Run \ {r} : root[r] # None /\ root[q] = root[r] /\ Blamed(q)

Over(r) == status[r] \in Terminal

\* A job that asks for a cancellation, or is about to write it, has a reason.
Grounded(e, r) ==
  /\ job[<<e, r>>].pc \in {"stop", "stopping", "cancel"} => cancelReq[r] \/ age[r] = 2
  /\ job[<<e, r>>].pc \in {"settle", "settleLost"} /\ job[<<e, r>>].out = "cancelled" => Excused(r) \/ Over(r)

CancelInv ==
  /\ RootsRecorded
  /\ \A r \in Run : dispatched[r] /\ status[r] = "cancelled" => Excused(r)
  /\ \A r \in Run : journal[r] = "cancelled" => Excused(r) \/ Over(r)
  /\ \A r \in Run : [type |-> "cancel", run |-> r] \in net => Blamed(r)
  /\ \A e \in Executor, r \in Run : Grounded(e, r)
  /\ life # "live" => \A r \in Run : Open(r) => cancelReq[r]

\* Reasons do not go away.
Stays(q) ==
  /\ cancelReq[q] => cancelReq'[q]
  /\ age[q] = 2 => age'[q] = 2
  /\ status[q] \in Terminal => status'[q] = status[q]

LEMMA ReasonsStay ==
  ASSUME \A q \in Run : Stays(q), RootsKept, NEW r \in Run
  PROVE  /\ Blamed(r) => Blamed(r)'
         /\ Excused(r) => Excused(r)'
         /\ Over(r) => Over(r)'
<1>1. ASSUME NEW q \in Run, Blamed(q) PROVE Blamed(q)'
  BY <1>1 DEF Stays, Blamed, Orphaned, Terminal
<1>2. ASSUME Excused(r) PROVE Excused(r)'
  <2>1. CASE cancelReq[r] \/ age[r] = 2
    BY <2>1 DEF Stays, Excused
  <2>2. CASE \E q \in Run \ {r} : root[r] # None /\ root[q] = root[r] /\ Blamed(q)
    BY <1>1, <2>2 DEF RootsKept, Excused
  <2> QED  BY <1>2, <2>1, <2>2 DEF Excused
<1>3. Over(r) => Over(r)'
  BY DEF Stays, Over
<1> QED  BY <1>1, <1>2, <1>3

\* A step under which every new cancellation has a reason.
LEMMA CancelMoves ==
  ASSUME CancelInv, \A q \in Run : Stays(q), RootsKept, RootsRecorded',
         \A q \in Run : journal'[q] = "cancelled" => journal[q] = "cancelled" \/ Excused(q)' \/ Over(q)',
         \A q \in Run : dispatched'[q] /\ status'[q] = "cancelled" =>
                          (dispatched[q] /\ status[q] = "cancelled") \/ Excused(q)',
         \A q \in Run : [type |-> "cancel", run |-> q] \in net' =>
                          [type |-> "cancel", run |-> q] \in net \/ Blamed(q)',
         \A f \in Executor, q \in Run : job'[<<f, q>>] = job[<<f, q>>] \/ Grounded(f, q)',
         life' # "live" => \A q \in Run : Open(q)' => cancelReq'[q]
  PROVE  CancelInv'
<1>1. ASSUME NEW f \in Executor, NEW q \in Run PROVE Grounded(f, q)'
  <2>1. CASE Grounded(f, q)'
    BY <2>1
  <2>2. CASE job'[<<f, q>>] = job[<<f, q>>]
    <3>1. Grounded(f, q) /\ Stays(q)
      BY DEF CancelInv
    <3>2. (Excused(q) => Excused(q)') /\ (Over(q) => Over(q)')
      BY ReasonsStay
    <3> QED  BY <2>2, <3>1, <3>2 DEF Grounded, Stays
  <2> QED  BY <2>1, <2>2
<1>2. \A q \in Run : (Blamed(q) => Blamed(q)') /\ (Excused(q) => Excused(q)') /\ (Over(q) => Over(q)')
  BY ReasonsStay
<1> QED  BY <1>1, <1>2 DEF CancelInv

\* The status of a run that is over, for every step.
LEMMA OverStays ==
  ASSUME NEW q \in Run, RowMoves(q), status[q] \in Terminal
  PROVE  status'[q] = status[q]
BY DEF RowMoves, Open, Active, Terminal

(* The jobs *)

\* What a job that moved on asks for or writes.
LEMMA JobGrounds ==
  ASSUME IInv, CancelInv, NEW e \in Executor, NEW r \in Run, Start(e, r) \/ Step(e, r) \/ Error(e, r)
  PROVE  /\ OnlyJob(e, r)
         /\ \/ job'[<<e, r>>].pc \notin {"stop", "stopping", "cancel", "settle", "settleLost"}
            \/ job'[<<e, r>>].pc \in {"settle", "settleLost"} /\ job'[<<e, r>>].out \in {"failed", "interrupted"}
            \/ job'[<<e, r>>].pc \in {"stop", "stopping", "cancel"} /\ (cancelReq[r] \/ age[r] = 2)
            \/ job'[<<e, r>>].pc = "settle" /\ cancelReq[r]
            \/ job'[<<e, r>>].pc = "settle" /\ job'[<<e, r>>].out = journal[r]
<1> DEFINE Ground(pc, out) ==
             \/ pc \notin {"stop", "stopping", "cancel", "settle", "settleLost"}
             \/ pc \in {"settle", "settleLost"} /\ out \in {"failed", "interrupted"}
             \/ pc \in {"stop", "stopping", "cancel"} /\ (cancelReq[r] \/ age[r] = 2)
             \/ pc = "settle" /\ cancelReq[r]
             \/ pc = "settle" /\ out = journal[r]
<1>0. TypeOK
  BY DEF IInv
<1>1. ASSUME NEW pc \in Pc, NEW out \in Out, Go(e, r, pc, out) \/ Begin(e, r, pc, out), Ground(pc, out)
      PROVE  OnlyJob(e, r) /\ Ground(job'[<<e, r>>].pc, job'[<<e, r>>].out)
  <2>1. Moved(e, r, pc, out)
    BY <1>0, <1>1, GoJob, BeginJob
  <2> QED  BY <1>1, <2>1 DEF Moved
<1>2. ASSUME Stop(e, r)
      PROVE  OnlyJob(e, r) /\ Ground(job'[<<e, r>>].pc, job'[<<e, r>>].out)
  BY <1>0, <1>2, StopJob DEF Moved
<1>3. /\ {"cancelled", "interrupted", "failed"} \subseteq Out /\ None \in Out /\ JournalStatus \subseteq Out
      /\ active[Lane(r)] \in Out /\ job[<<e, r>>].out \in Out
  <2>1. active[Lane(r)] \in Run \cup {None} /\ job[<<e, r>>] \in Job
    BY <1>0, LaneType DEF TypeOK, DaemonTypeOK
  <2> QED  BY <2>1 DEF Out, JournalStatus, Terminal, Job
<1>4. /\ {"wake", "probe", "prior", "orphan", "unready", "stage", "recheck", "dispatch", "send", "putting", "stop",
          "stopping", "peek", "peeked", "resuming", "resumed", "cancel", "cancelling", "observe", "apply",
          "settle", "settleLost", "drop"} \subseteq Pc
  BY DEF Pc, AdmissionPc, DispatchPc, ResumePc, ObservePc, SettlePc
<1>5. CASE Start(e, r)
  <2>1. CASE StartCancelled(e, r)
    BY <1>1, <1>3, <1>4, <2>1 DEF StartCancelled
  <2>2. CASE StartResume(e, r)
    <3>1. CASE Begin(e, r, "settle", "interrupted")
      BY <1>1, <1>3, <1>4, <3>1
    <3>2. ASSUME NEW out \in {"cancelled", "interrupted"}, Begin(e, r, "stop", out), cancelReq[r] \/ age[r] = 2
          PROVE  OnlyJob(e, r) /\ Ground(job'[<<e, r>>].pc, job'[<<e, r>>].out)
      BY <1>1, <1>3, <1>4, <3>2
    <3>3. CASE Begin(e, r, "peek", None)
      BY <1>1, <1>3, <1>4, <3>3
    <3> QED  BY <2>2, <3>1, <3>2, <3>3 DEF StartResume
  <2>3. CASE StartAdmission(e, r)
    BY <1>1, <1>3, <1>4, <2>3 DEF StartAdmission
  <2>4. CASE StartObservation(e, r)
    BY <1>1, <1>3, <1>4, <2>4 DEF StartObservation
  <2> QED  BY <1>5, <2>1, <2>2, <2>3, <2>4 DEF Start
<1>6. CASE Fail(e, r) \/ ProbeFails(e, r)
  BY <1>1, <1>2, <1>3, <1>4, <1>6 DEF Fail, ProbeFails
<1>7. CASE \/ Settle(e, r) \/ DropEndpoint(e, r) \/ StopWithoutAuthority(e, r) \/ AskPreparation(e, r)
           \/ Unready(e, r) \/ Stage(e, r) \/ SendPut(e, r) \/ Resumed(e, r) \/ CancelRun(e, r)
  BY <1>1, <1>2, <1>3, <1>4, <1>7
     DEF Settle, DropEndpoint, StopWithoutAuthority, AskPreparation, Unready, Stage, SendPut, Resumed, CancelRun
<1>8. CASE Probe(e, r) \/ Prior(e, r)
  <2>1. CASE Probe(e, r)
    BY <1>1, <1>3, <1>4, <2>1 DEF Probe
  <2>2. CASE Prior(e, r)
    <3>1. Run \subseteq Out
      BY DEF Out
    <3> QED  BY <1>1, <1>2, <1>3, <1>4, <2>2, <3>1 DEF Prior
  <2> QED  BY <1>8, <2>1, <2>2
<1>9. CASE Recheck(e, r)
  BY <1>1, <1>2, <1>3, <1>4, <1>9 DEF Recheck
<1>10. CASE Dispatch(e, r)
  BY <1>1, <1>2, <1>3, <1>4, <1>10 DEF Dispatch
<1>11. CASE StopRun(e, r)
  <2>1. cancelReq[r] \/ age[r] = 2
    BY <1>11 DEF StopRun, At, CancelInv, Grounded
  <2> QED  BY <1>1, <1>3, <1>4, <1>11, <2>1 DEF StopRun
<1>12. CASE Peek(e, r) \/ Observe(e, r)
  <2>1. journal[r] \in Out
    BY <1>0, <1>3 DEF TypeOK, DaemonTypeOK
  <2> QED  BY <1>1, <1>4, <1>12, <2>1 DEF Peek, Observe
<1>13. CASE Peeked(e, r) \/ Apply(e, r)
  <2>1. job[<<e, r>>].out \in Terminal => job[<<e, r>>].out = journal[r]
    BY <1>13 DEF Peeked, Apply, At, IInv, JobOK
  <2>2. CASE Peeked(e, r)
    BY <1>1, <1>2, <1>3, <1>4, <2>1, <2>2 DEF Peeked
  <2>3. CASE Apply(e, r)
    BY <1>1, <1>2, <1>3, <1>4, <2>1, <2>3 DEF Apply
  <2> QED  BY <1>13, <2>2, <2>3
<1> QED  BY <1>5, <1>6, <1>7, <1>8, <1>9, <1>10, <1>11, <1>12, <1>13 DEF Step, Error

\* Only three steps of a job send a cancellation.
LEMMA JobSends ==
  ASSUME IInv, CancelInv, NEW e \in Executor, NEW r \in Run, Start(e, r) \/ Step(e, r) \/ Error(e, r),
         NEW q \in Run, [type |-> "cancel", run |-> q] \in net'
  PROVE  [type |-> "cancel", run |-> q] \in net \/ Blamed(q)
<1> USE DEF StepLocal
<1>1. CASE StopRun(e, r) \/ CancelRun(e, r)
  <2>1. (cancelReq[r] \/ age[r] = 2) /\ net' = net \cup {[type |-> "cancel", run |-> r]}
    BY <1>1 DEF StopRun, CancelRun, Send, At, CancelInv, Grounded
  <2> QED  BY <2>1 DEF Blamed, Orphaned
<1>2. CASE Prior(e, r)
  <2>1. net' = net \/ \E a \in Run : Orphaned(a) /\ net' = net \cup {[type |-> "cancel", run |-> a]}
    BY <1>2 DEF Prior, Send
  <2> QED  BY <2>1 DEF Blamed
<1>3. CASE SendPut(e, r)
  BY <1>3 DEF SendPut, Send
<1>4. CASE Peeked(e, r)
  BY <1>4 DEF Peeked, Send
<1>5. CASE Start(e, r) \/ Fail(e, r) \/ ProbeFails(e, r)
  BY <1>5 DEF Start, StartCancelled, StartResume, StartAdmission, StartObservation, Fail, ProbeFails
<1>6. CASE \/ Settle(e, r) \/ DropEndpoint(e, r) \/ StopWithoutAuthority(e, r) \/ AskPreparation(e, r)
           \/ Probe(e, r) \/ Unready(e, r) \/ Stage(e, r) \/ Resumed(e, r) \/ Recheck(e, r) \/ Dispatch(e, r)
           \/ Peek(e, r) \/ Observe(e, r) \/ Apply(e, r)
  BY <1>6 DEF Settle, DropEndpoint, StopWithoutAuthority, AskPreparation, Probe, Unready, Stage, Resumed, Recheck,
     Dispatch, Peek, Observe, Apply
<1> QED  BY <1>1, <1>2, <1>3, <1>4, <1>5, <1>6 DEF Step, Error

LEMMA JobCancels ==
  ASSUME IInv, CancelInv, NEW e \in Executor, NEW r \in Run, Start(e, r) \/ Step(e, r) \/ Error(e, r)
  PROVE  CancelInv'
<1>0. TypeOK
  BY DEF IInv
<1>1. UNCHANGED <<journal, root, cancelReq, age, life>>
  BY JobQuiet
<1>2. \A q \in Run : RowMoves(q)
  BY JobRowMoves
<1>3. /\ \A q \in Run : Stays(q)
      /\ RootsKept /\ RootsRecorded'
  BY <1>1, <1>2, OverStays DEF Stays, RootsKept, RootsRecorded, CancelInv
<1>4. \A q \in Run : (Blamed(q) => Blamed(q)') /\ (Excused(q) => Excused(q)') /\ (Over(q) => Over(q)')
  BY <1>3, ReasonsStay
<1>5. ASSUME NEW q \in Run, dispatched'[q], status'[q] = "cancelled", ~(dispatched[q] /\ status[q] = "cancelled")
      PROVE  Excused(q)
  <2>1. CASE Settle(e, r)
    <3>1. /\ job[<<e, r>>].out = "cancelled" /\ q = r /\ status[r] \in Active
          /\ job[<<e, r>>].pc \in {"settle", "settleLost"}
      BY <1>0, <1>5, <2>1 DEF Settle, At, TypeOK
    <3>2. ~Over(r)
      BY <3>1 DEF Over, Active, Terminal
    <3> QED  BY <3>1, <3>2 DEF CancelInv, Grounded
  <2>2. CASE Dispatch(e, r) \/ Resumed(e, r) \/ Apply(e, r)
    BY <1>0, <1>5, <2>2 DEF Dispatch, MayDispatch, Resumed, Apply, TypeOK
  <2>3. CASE UNCHANGED <<status, dispatched>>
    BY <1>5, <2>3
  <2> QED  BY <2>1, <2>2, <2>3, JobQuiet
<1>6. ASSUME NEW f \in Executor, NEW q \in Run
      PROVE  job'[<<f, q>>] = job[<<f, q>>] \/ Grounded(f, q)'
  <2>1. CASE f # e \/ q # r
    BY ZenonT(30), <2>1, JobGrounds DEF OnlyJob
  <2>2. CASE f = e /\ q = r
    <3>1. journal[r] = "cancelled" => Excused(r) \/ Over(r)
      BY DEF CancelInv
    <3>2. cancelReq[r] => Excused(r)
      BY DEF Excused
    <3> QED  BY <1>1, <1>4, <2>2, <3>1, <3>2, JobGrounds DEF Grounded
  <2> QED  BY <2>1, <2>2
<1>7. life' # "live" => \A q \in Run : Open(q)' => cancelReq'[q]
  <2>1. ASSUME NEW q \in Run, Open(q)' PROVE Open(q)
    <3>1. CASE UNCHANGED <<status, dispatched>>
      BY <2>1, <3>1 DEF Open
    <3>2. CASE Settle(e, r)
      <4>1. job[<<e, r>>].out \in Terminal
        BY <3>2 DEF IInv, Settle, JobOK, At
      <4> QED  BY <1>0, <2>1, <3>2, <4>1 DEF Settle, TypeOK, Open, Active, Terminal
    <3>3. CASE Dispatch(e, r) \/ Resumed(e, r) \/ Apply(e, r)
      BY <1>0, <2>1, <3>3 DEF Dispatch, MayDispatch, Resumed, Apply, TypeOK, Open, Active
    <3> QED  BY <3>1, <3>2, <3>3, JobQuiet
  <2> QED  BY <1>1, <2>1 DEF CancelInv
<1>8. \A q \in Run : [type |-> "cancel", run |-> q] \in net' =>
                       [type |-> "cancel", run |-> q] \in net \/ Blamed(q)'
  BY <1>4, JobSends
<1>9. \A q \in Run : journal'[q] = "cancelled" => journal[q] = "cancelled" \/ Excused(q)' \/ Over(q)'
  BY <1>1
<1>10. \A q \in Run : dispatched'[q] /\ status'[q] = "cancelled" =>
                        (dispatched[q] /\ status[q] = "cancelled") \/ Excused(q)'
  BY <1>4, <1>5
<1> QED  BY <1>3, <1>6, <1>7, <1>8, <1>9, <1>10, CancelMoves

(* The tick and the owner *)

LEMMA TickCancels ==
  ASSUME IInv, CancelInv, Tick
  PROVE  CancelInv'
<1>0. TypeOK
  BY DEF IInv
<1>1. ASSUME NEW q \in Run PROVE RowMoves(q) /\ UNCHANGED <<journal, root, cancelReq, age, life, job, net>>
  BY TickQuiet
<1>2. CASE Run = {}
  BY <1>2 DEF CancelInv, RootsRecorded
<1>3. CASE Run # {}
  <2>1. UNCHANGED <<journal, root, cancelReq, age, life, job, net>>
    BY <1>1, <1>3
  <2>2. /\ \A q \in Run : Stays(q)
        /\ RootsKept /\ RootsRecorded'
    BY <1>1, <2>1, OverStays DEF Stays, RootsKept, RootsRecorded, CancelInv
  <2>3. \A q \in Run : dispatched'[q] /\ status'[q] = "cancelled" => dispatched[q] /\ status[q] = "cancelled"
    BY <1>0 DEF TypeOK, Tick, Lose, Deny, Claim, Wake, Acquire, rowVars
  <2>4. \A q \in Run : Open(q)' => Open(q)
    <3>1. CASE Claim
      BY <1>0, <3>1 DEF TypeOK, Claim, ClaimChoice, Claimable, Open, Active
    <3>2. CASE Deny
      BY <1>0, <3>2 DEF TypeOK, Deny, Open, Active
    <3>3. CASE Lose \/ Wake \/ \E e \in Executor : Acquire(e)
      BY <3>3 DEF Lose, Wake, Acquire, rowVars, Open
    <3> QED  BY <3>1, <3>2, <3>3 DEF Tick
  <2>5. life' # "live" => \A q \in Run : Open(q)' => cancelReq'[q]
    BY <2>1, <2>4 DEF CancelInv
  <2> QED  BY <2>1, <2>2, <2>3, <2>5, CancelMoves
<1> QED  BY <1>2, <1>3

\* A step outside the machine and the jobs that cancels rows only on request.
LEMMA RequestCancels ==
  ASSUME IInv, CancelInv, Environment, UNCHANGED <<journal, root, job, dispatched>>, net' \subseteq net,
         \A q \in Run : (cancelReq[q] => cancelReq'[q]) /\ (age[q] = 2 => age'[q] = 2),
         \A q \in Run : dispatched[q] /\ status'[q] = "cancelled" => status[q] = "cancelled" \/ cancelReq'[q],
         life' # "live" => \A q \in Run : Open(q)' => cancelReq'[q]
  PROVE  CancelInv'
<1>1. \A q \in Run : RowMoves(q)
  BY EnvironmentRowMoves
<1>2. \A q \in Run : Stays(q)
  BY <1>1, OverStays DEF Stays
<1>3. RootsKept /\ RootsRecorded'
  BY DEF RootsKept, RootsRecorded, CancelInv
<1>4. \A q \in Run : cancelReq'[q] => Excused(q)'
  BY DEF Excused
<1> QED  BY <1>2, <1>3, <1>4, CancelMoves

LEMMA OwnerCancels ==
  ASSUME IInv, CancelInv, Environment, ~\E r \in Run : RetireCancel(r), ~Archive
  PROVE  CancelInv'
<1>0. TypeOK
  BY DEF IInv
<1> USE DEF EnvFrame, daemonVars, rowVars
<1>1. UNCHANGED <<journal, root, job, dispatched>> /\ net' = net
  BY DEF Environment, CancelChat, Retire, MachineReady, MachineFails, MachineRefused,
     MachineAsleep, Submit, CancelTask, ToolCancel, Answer, RetireSettle, Elapse
<1>2. \A q \in Run : (cancelReq[q] => cancelReq'[q]) /\ (age[q] = 2 => age'[q] = 2)
  <2>1. CASE CancelChat
    BY <1>0, <2>1 DEF TypeOK, CancelChat
  <2>2. CASE Retire
    BY <1>0, <2>2 DEF TypeOK, Retire, CancelRow
  <2>3. CASE MachineReady \/ MachineFails \/ MachineRefused \/ MachineAsleep
    BY <2>3 DEF MachineReady, MachineFails, MachineRefused, MachineAsleep
  <2>4. ASSUME NEW r \in Run, Submit(r) \/ Answer(r) PROVE UNCHANGED <<cancelReq, age>>
    BY <2>4 DEF Submit, Answer
  <2>5. ASSUME NEW r \in Run, CancelTask(r) \/ ToolCancel(r) \/ RetireSettle(r), NEW q \in Run
        PROVE  (cancelReq[q] => cancelReq'[q]) /\ age' = age
    BY <1>0, <2>5 DEF TypeOK, CancelTask, ToolCancel, CancelRow, RetireSettle
  <2>6. ASSUME NEW r \in Run, Elapse(r), NEW q \in Run
        PROVE  (age[q] = 2 => age'[q] = 2) /\ cancelReq' = cancelReq
    BY <1>0, <2>6 DEF TypeOK, Elapse
  <2> QED  BY <2>1, <2>2, <2>3, <2>4, <2>5, <2>6 DEF Environment
<1>3. \A q \in Run : dispatched[q] /\ status'[q] = "cancelled" => status[q] = "cancelled" \/ cancelReq'[q]
  <2>1. \A q \in Run : dispatched[q] => status[q] # "queued"
    BY DEF IInv, RowOK
  <2>2. CASE CancelChat
    BY <1>0, <2>1, <2>2 DEF TypeOK, CancelChat
  <2>3. CASE Retire
    BY <1>0, <2>3 DEF TypeOK, Retire, CancelRow
  <2>4. CASE MachineReady \/ MachineFails \/ MachineRefused \/ MachineAsleep
    BY <1>0, <2>4 DEF TypeOK, MachineReady, MachineFails, MachineRefused, MachineAsleep
  <2>5. ASSUME NEW r \in Run, Submit(r) \/ Answer(r) \/ Elapse(r), NEW q \in Run, status'[q] = "cancelled"
        PROVE  status[q] = "cancelled"
    BY <1>0, <2>5 DEF TypeOK, Submit, Answer, Elapse
  <2>6. ASSUME NEW r \in Run, CancelTask(r) \/ ToolCancel(r) \/ RetireSettle(r), NEW q \in Run,
               dispatched[q], status'[q] = "cancelled"
        PROVE  status[q] = "cancelled" \/ cancelReq'[q]
    BY <1>0, <2>1, <2>6 DEF TypeOK, CancelTask, ToolCancel, CancelRow, RetireSettle
  <2> QED  BY <2>2, <2>3, <2>4, <2>5, <2>6 DEF Environment
<1>4. life' # "live" => \A q \in Run : Open(q)' => cancelReq'[q]
  <2>1. CASE life' = life
    <3>1. ASSUME NEW q \in Run, Open(q)', life # "live" PROVE Open(q)
      <4>1. RowMoves(q)
        BY EnvironmentRowMoves
      <4>2. CASE status[q] = "none" /\ status'[q] = "queued"
        BY <1>0, <3>1, <4>2 DEF TypeOK, Environment, CancelChat, Retire, MachineReady, MachineFails, MachineRefused,
          MachineAsleep, Submit, CancelTask, ToolCancel, CancelRow, Answer, RetireSettle, Elapse, RetireCancel, Archive
      <4> QED  BY <3>1, <4>1, <4>2 DEF RowMoves, Open, Active, Terminal
    <3> QED  BY <1>2, <2>1, <3>1 DEF CancelInv
  <2>2. CASE life' # life
    <3>1. Retire
      BY <2>2 DEF Environment, CancelChat, MachineReady, MachineFails, MachineRefused,
         MachineAsleep, Submit, CancelTask, ToolCancel, Answer, RetireSettle, Elapse
    <3> QED  BY <1>0, <3>1 DEF TypeOK, Retire, CancelRow, Open, Active, Terminal
  <2> QED  BY <2>1, <2>2
<1> HIDE DEF EnvFrame, daemonVars, rowVars
<1> QED  BY <1>1, <1>2, <1>3, <1>4, RequestCancels

LEMMA ArchiveCancels ==
  ASSUME IInv, CancelInv, Archive
  PROVE  CancelInv'
<1>0. TypeOK
  BY DEF IInv
<1>1. Forward({}) /\ UNCHANGED root
  BY <1>0, RestartForward DEF TypeOK, Archive, Restart
<1>2. RootsKept /\ RootsRecorded'
  BY <1>1, RootsUnchanged DEF CancelInv
<1>3. \A q \in Run : RowMoves(q)
  BY EnvironmentRowMoves DEF Environment
<1>4. UNCHANGED <<age, job, dispatched>> /\ net' = {}
  BY DEF Archive
<1>5. \A q \in Run : /\ cancelReq[q] => cancelReq'[q]
                     /\ Open(q) => cancelReq'[q]
                     /\ ~Open(q)'
                     /\ status'[q] = "cancelled" => status[q] = "cancelled" \/ cancelReq'[q]
  BY <1>0 DEF TypeOK, Archive, Open, Active
<1>6. \A q \in Run : Stays(q)
  BY <1>3, <1>4, <1>5, OverStays DEF Stays
<1>7. \A q \in Run : journal'[q] = "cancelled" => journal[q] = "cancelled"
  BY <1>0 DEF TypeOK, DaemonTypeOK, Archive, Restart
<1>8. \A q \in Run : cancelReq'[q] => Excused(q)'
  BY DEF Excused
<1> QED  BY <1>2, <1>4, <1>5, <1>6, <1>7, <1>8, CancelMoves

(* The machine *)

\* The group of a blamed run is cancelled: each of it shares the response, or is itself over
\* or past its limit.
LEMMA GroupExcused ==
  ASSUME RootsRecorded, NEW a \in Run, Blamed(a), NEW q \in LiveGroup(root[a])
  PROVE  Excused(q) \/ Over(q)
<1>1. root[q] = root[a] /\ root[q] # None
  BY DEF LiveGroup, RootsRecorded, Live, LiveStatus
<1>2. CASE q = a
  BY <1>2 DEF Blamed, Orphaned, Excused, Over, Terminal
<1>3. CASE q # a
  BY <1>1, <1>3 DEF Excused
<1> QED  BY <1>2, <1>3

\* A step of the machine, and what it answers.
LEMMA MachineCancels ==
  ASSUME IInv, CancelInv, UNCHANGED <<status, dispatched, cancelReq, age, life>>, net' \subseteq net,
         RootsKept, RootsRecorded',
         \A q \in Run : journal'[q] = "cancelled" => journal[q] = "cancelled" \/ Excused(q) \/ Over(q),
         \A f \in Executor, q \in Run :
           \/ job'[<<f, q>>] = job[<<f, q>>]
           \/ job'[<<f, q>>].pc \in AnsweredPc
           \/ /\ job[<<f, q>>].pc = "stopping" /\ job'[<<f, q>>].pc = "settle"
              /\ job'[<<f, q>>].out = job[<<f, q>>].out
  PROVE  CancelInv'
<1>1. \A q \in Run : Stays(q)
  BY DEF Stays
<1>2. \A q \in Run : (Excused(q) => Excused(q)') /\ (Over(q) => Over(q)')
  BY <1>1, ReasonsStay
<1>3. ASSUME NEW f \in Executor, NEW q \in Run
      PROVE  job'[<<f, q>>] = job[<<f, q>>] \/ Grounded(f, q)'
  <2>1. CASE job'[<<f, q>>].pc \in AnsweredPc
    BY <2>1 DEF AnsweredPc, Grounded
  <2>2. CASE /\ job[<<f, q>>].pc = "stopping" /\ job'[<<f, q>>].pc = "settle"
             /\ job'[<<f, q>>].out = job[<<f, q>>].out
    <3>1. Excused(q)
      BY <2>2 DEF CancelInv, Grounded, Excused
    <3> QED  BY <1>2, <2>2, <3>1 DEF Grounded
  <2> QED  BY <2>1, <2>2
<1>4. life' # "live" => \A q \in Run : Open(q)' => cancelReq'[q]
  BY DEF CancelInv, Open
<1> QED  BY <1>1, <1>2, <1>3, <1>4, CancelMoves

\* A group set to something else than cancelled.
LEMMA GroupElse ==
  ASSUME DaemonTypeOK, NEW rt, NEW st, st # "cancelled", SetGroup(rt, st), NEW q \in Run
  PROVE  journal'[q] = "cancelled" => journal[q] = "cancelled"
BY DEF DaemonTypeOK, SetGroup

LEMMA GroupCancelled ==
  ASSUME DaemonTypeOK, RootsRecorded, NEW a \in Run, Blamed(a), NEW st, SetGroup(root[a], st), NEW q \in Run
  PROVE  journal'[q] = "cancelled" => journal[q] = "cancelled" \/ Excused(q) \/ Over(q)
<1>1. CASE q \in LiveGroup(root[a])
  BY <1>1, GroupExcused
<1>2. CASE q \notin LiveGroup(root[a])
  BY <1>2 DEF DaemonTypeOK, SetGroup
<1> QED  BY <1>1, <1>2

LEMMA DaemonCancels ==
  ASSUME IInv, CancelInv, Daemon
  PROVE  CancelInv'
<1>0. TypeOK /\ DaemonTypeOK /\ RootsRecorded
  BY DEF IInv, TypeOK, CancelInv
<1>1. UNCHANGED <<status, dispatched, cancelReq, age, life>> /\ net' \subseteq net
  BY DEF Daemon, DeliverPut, DeliverCancel, DeliverResume, Refuse, DaemonAlone, DeliverFrame, rowVars
<1>2. CASE DaemonAlone
  <2>1. Forward({}) /\ UNCHANGED <<root, job>>
    BY <1>0, <1>2, FinishRootForward, ReleaseForward, ParkRootForward, SteerFailsForward, RestartForward
       DEF DaemonAlone, FinishRoot, Release, ParkRoot, SteerFails, Restart
  <2>2. RootsKept /\ RootsRecorded'
    BY <1>0, <2>1, RootsUnchanged
  <2>3. ASSUME NEW q \in Run PROVE journal'[q] = "cancelled" => journal[q] = "cancelled"
    BY <1>0, <1>2, GroupElse DEF DaemonTypeOK, DaemonAlone, FinishRoot, Release, ParkRoot, SteerFails, Restart
  <2> QED  BY <1>1, <2>1, <2>2, <2>3, MachineCancels
<1>3. ASSUME NEW m \in net, DeliverPut(m) PROVE CancelInv'
  <2>1. m.run \in Run
    BY <1>0 DEF TypeOK, Message
  <2>2. RootsKept /\ RootsRecorded'
    BY <1>0, <1>3, <2>1, RootsAccepted DEF DeliverPut, daemonVars, RootsKept, RootsRecorded
  <2>3. ASSUME NEW q \in Run PROVE journal'[q] = "cancelled" => journal[q] = "cancelled"
    BY <1>0, <1>3, <2>1 DEF DaemonTypeOK, DeliverPut, daemonVars, AcceptRoot, AcceptSteer, Live, LiveStatus
  <2>4. PICK running : Reply(m, running)
    BY <1>3 DEF DeliverPut
  <2>5. ASSUME NEW f \in Executor, NEW q \in Run
        PROVE  \/ job'[<<f, q>>] = job[<<f, q>>]
               \/ job'[<<f, q>>].pc \in AnsweredPc
               \/ /\ job[<<f, q>>].pc = "stopping" /\ job'[<<f, q>>].pc = "settle"
                  /\ job'[<<f, q>>].out = job[<<f, q>>].out
    BY <1>0, <2>4, ReplyAnswers
  <2> QED  BY <1>1, <2>2, <2>3, <2>5, MachineCancels
<1>4. ASSUME NEW m \in net, DeliverCancel(m) PROVE CancelInv'
  <2>1. m.run \in Run /\ m = [type |-> "cancel", run |-> m.run]
    BY <1>0, <1>4 DEF TypeOK, Message, DeliverCancel
  <2>2. Blamed(m.run)
    BY <2>1 DEF CancelInv
  <2>3. root[m.run] \in Run \cup {None}
    BY <1>0, <2>1 DEF DaemonTypeOK
  <2>4. UNCHANGED daemonVars \/ (SetGroup(root[m.run], "cancelled") /\ UNCHANGED root /\ Forward({}))
    BY <1>0, <1>4, <2>3, AbortRootForward, FinishRootForward DEF DeliverCancel, AbortRoot, FinishRoot
  <2>5. RootsKept /\ RootsRecorded'
    BY <1>0, <2>4, RootsUnchanged DEF daemonVars, RootsKept, RootsRecorded
  <2>6. ASSUME NEW q \in Run PROVE journal'[q] = "cancelled" => journal[q] = "cancelled" \/ Excused(q) \/ Over(q)
    BY <1>0, <2>1, <2>2, <2>4, GroupCancelled DEF daemonVars
  <2>7. PICK running : Reply(m, running)
    BY <1>4 DEF DeliverCancel
  <2>8. ASSUME NEW f \in Executor, NEW q \in Run
        PROVE  \/ job'[<<f, q>>] = job[<<f, q>>]
               \/ job'[<<f, q>>].pc \in AnsweredPc
               \/ /\ job[<<f, q>>].pc = "stopping" /\ job'[<<f, q>>].pc = "settle"
                  /\ job'[<<f, q>>].out = job[<<f, q>>].out
    BY <1>0, <2>7, ReplyAnswers
  <2> QED  BY <1>1, <2>5, <2>6, <2>8, MachineCancels
<1>5. ASSUME NEW m \in net, DeliverResume(m) PROVE CancelInv'
  <2>1. m.run \in Run /\ root[m.run] \in Run \cup {None}
    BY <1>0 DEF TypeOK, Message, DaemonTypeOK
  <2>2. UNCHANGED daemonVars \/ (SetGroup(root[m.run], "running") /\ UNCHANGED root /\ Forward({}))
    BY <1>0, <1>5, <2>1, ResumeRootForward DEF DeliverResume, ResumeRoot
  <2>3. RootsKept /\ RootsRecorded'
    BY <1>0, <2>2, RootsUnchanged DEF daemonVars, RootsKept, RootsRecorded
  <2>4. ASSUME NEW q \in Run PROVE journal'[q] = "cancelled" => journal[q] = "cancelled"
    BY <1>0, <2>2, GroupElse DEF daemonVars
  <2>5. Reply(m, journal[m.run] \in LiveStatus)
    BY <1>5 DEF DeliverResume
  <2>6. ASSUME NEW f \in Executor, NEW q \in Run
        PROVE  \/ job'[<<f, q>>] = job[<<f, q>>]
               \/ job'[<<f, q>>].pc \in AnsweredPc
               \/ /\ job[<<f, q>>].pc = "stopping" /\ job'[<<f, q>>].pc = "settle"
                  /\ job'[<<f, q>>].out = job[<<f, q>>].out
    BY <1>0, <2>5, ReplyAnswers
  <2> QED  BY <1>1, <2>3, <2>4, <2>6, MachineCancels
<1>6. ASSUME NEW m \in net, Refuse(m) PROVE CancelInv'
  <2>1. m.run \in Run /\ root[m.run] \in Run \cup {None}
    BY <1>0 DEF TypeOK, Message, DaemonTypeOK
  <2>2. UNCHANGED daemonVars \/ (SetGroup(root[m.run], "interrupted") /\ UNCHANGED root /\ Forward({}))
    BY <1>0, <1>6, <2>1, AbortRootForward DEF Refuse, AbortRoot
  <2>3. RootsKept /\ RootsRecorded'
    BY <1>0, <2>2, RootsUnchanged DEF daemonVars, RootsKept, RootsRecorded
  <2>4. ASSUME NEW q \in Run PROVE journal'[q] = "cancelled" => journal[q] = "cancelled"
    BY <1>0, <2>2, GroupElse DEF daemonVars
  <2>5. UNCHANGED job
    BY <1>6 DEF Refuse
  <2> QED  BY <1>1, <2>3, <2>4, <2>5, MachineCancels
<1> QED  BY <1>2, <1>3, <1>4, <1>5, <1>6 DEF Daemon

\* Retirement cancels on the machine what it has marked in the rows.
LEMMA RetireCancels ==
  ASSUME IInv, CancelInv, NEW r \in Run, RetireCancel(r)
  PROVE  CancelInv'
<1>0. TypeOK /\ DaemonTypeOK /\ RootsRecorded /\ root[r] \in Run \cup {None}
  BY DEF IInv, TypeOK, DaemonTypeOK, CancelInv
<1>1. UNCHANGED <<status, dispatched, cancelReq, age, life, job, net>>
  BY DEF RetireCancel, rowVars
<1>2. Blamed(r)
  BY DEF RetireCancel, CancelInv, Open, Blamed, Orphaned
<1>3. SetGroup(root[r], "cancelled") /\ UNCHANGED root /\ Forward({})
  BY <1>0, AbortRootForward DEF RetireCancel, AbortRoot
<1>4. RootsKept /\ RootsRecorded'
  BY <1>0, <1>3, RootsUnchanged
<1>5. ASSUME NEW q \in Run PROVE journal'[q] = "cancelled" => journal[q] = "cancelled" \/ Excused(q) \/ Over(q)
  BY <1>0, <1>2, <1>3, GroupCancelled
<1> QED  BY <1>1, <1>4, <1>5, MachineCancels

LEMMA CancelNext == IInv /\ CancelInv /\ [Next]_vars => CancelInv'
<1> SUFFICES ASSUME IInv, CancelInv, [Next]_vars
             PROVE  CancelInv'
  OBVIOUS
<1>1. CASE Tick
  BY <1>1, TickCancels
<1>2. CASE Daemon
  BY <1>2, DaemonCancels
<1>3. CASE Environment
  <2>1. CASE \E r \in Run : RetireCancel(r)
    BY <2>1, RetireCancels
  <2>2. CASE Archive
    BY <2>2, ArchiveCancels
  <2> QED  BY <1>3, <2>1, <2>2, OwnerCancels
<1>4. CASE \E e \in Executor, r \in Run : Start(e, r) \/ Step(e, r) \/ Error(e, r)
  BY <1>4, JobCancels
<1>5. CASE UNCHANGED vars
  BY <1>5 DEF vars, daemonVars, rowVars, CancelInv, RootsRecorded, Excused, Blamed, Orphaned, Over, Grounded, Open
<1> QED  BY <1>1, <1>2, <1>3, <1>4, <1>5 DEF Next

\* A dispatched run is shown as cancelled only for a reason: it or a message of its response
\* was cancelled, is over, or is past its limit (executor.ts, stopOrphan and cancelRun;
\* daemon.ts, cancel).
THEOREM CancellationWasAsked == Spec => []CancelledWasAsked
<1>1. Init => CancelInv
  <2> SUFFICES ASSUME Init PROVE CancelInv
    OBVIOUS
  <2>1. Idle.pc = "idle"
    BY DEF Idle
  <2> QED  BY <2>1 DEF Init, DaemonInit, CancelInv, RootsRecorded, Grounded
<1>2. CancelInv => CancelledWasAsked
  BY DEF CancelInv, CancelledWasAsked, Excused, Blamed
<1> QED  BY <1>1, <1>2, CancelNext, Invariance, PTL DEF Spec
===============================================================================
