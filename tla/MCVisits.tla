----------------------------- MODULE MCVisits ---------------------------------
(***************************************************************************)
(* What the executor's visits carry between PostgreSQL and a machine, each *)
(* on its own: a behaviour is one of control commands, of the shared       *)
(* desktop, of files, of the text of a response, or of the event streams   *)
(* that tell pages to read again.                                          *)
(***************************************************************************)
EXTENDS ControlCommands, Desktop, Files, ResponseStream, EventStream

CONSTANTS p, q,        \* two executors
          w1, w2       \* two browsers
Both == {p, q}
Pages == {[tab |-> 1, companion |-> "c1", account |-> "o1"],
          [tab |-> 2, companion |-> "c1", account |-> "o1"]}
Result == [text |-> 1, complete |-> TRUE]

VARIABLE part

visitsVars == <<controlVars, desktopVars, fileVars, streamVars, eventVars, part>>

InControl(A) ==
  part = "control" /\ A /\ UNCHANGED <<desktopVars, fileVars, streamVars, eventVars, part>>
InDesktop(A) ==
  part = "desktop" /\ A /\ UNCHANGED <<controlVars, fileVars, streamVars, eventVars, part>>
InFiles(A) ==
  part = "files" /\ A /\ UNCHANGED <<controlVars, desktopVars, streamVars, eventVars, part>>
InResponse(A) ==
  part = "response" /\ A /\ UNCHANGED <<lane, controlVars, desktopVars, fileVars, eventVars, part>>
InEvents(A) ==
  part = "events" /\ A /\ UNCHANGED <<controlVars, desktopVars, fileVars, streamVars, part>>

MCInit ==
  /\ ControlInit /\ DesktopInit /\ FilesInit /\ StreamInit /\ EventInit
  /\ part \in {"control", "desktop", "files", "response", "events"}
  /\ part # "desktop" => lease = p
  /\ part # "control" => leading = p
  /\ part # "files" => head = p
  /\ leader = p /\ (part # "response" => lane = "main")
-------------------------------------------------------------------------------
ControlMoves ==
  \/ \E c \in Command : InControl(CallTool(c))
  \/ \E c \in Command : InControl(CallEnds(c))
  \/ InControl(DaemonReturns)
  \/ \E s \in Server : InControl(Observe(s))
  \/ \E s \in Server : InControl(ObserveEnds(s))
  \/ \E s \in Server : InControl(Stopped(s))
  \/ \E s \in Server, c \in Command : InControl(TakeUp(s, c))
  \/ \E s \in Server : InControl(ClaimCommand(s))
  \/ \E s \in Server, b \in BOOLEAN : InControl(Handle(s, b))
  \/ \E s \in Server : InControl(SaveResult(s))
  \/ \E s \in Server : InControl(PostResult(s))
  \/ \E s \in Server : InControl(PostFails(s))
  \/ \E post \in resultsSent : InControl(PostArrives(post))
  \/ \E s \in Server : InControl(Suspend(s))
  \/ \E s \in Server : InControl(RecordSuspension(s))
  \/ \E s \in Server : InControl(DeliverAnswer(s))
  \/ \E s \in Server : InControl(Resume(s))
  \/ \E s \in Server, b \in BOOLEAN : InControl(LeaseMoves(s, b))
  \/ \E c \in Question : InControl(AnswerTask(c))
  \/ InControl(ClaimResume)
  \/ InControl(ObserveParked)
  \/ InControl(CancelTask)
  \/ InControl(TaskEnds)

DesktopMoves ==
  \/ \E t \in BOOLEAN : InDesktop(RequestDesktop(t))
  \/ \E e \in Carrier : InDesktop(Visit(e))
  \/ \E e \in Carrier : InDesktop(AskState(e))
  \/ \E e \in Carrier : InDesktop(SendState(e))
  \/ \E e \in Carrier : InDesktop(GiveUp(e))
  \/ \E e \in Carrier : InDesktop(RecordState(e))
  \/ \E e \in Carrier : InDesktop(CarrierLeaseMoves(e))
  \/ \E e \in Carrier : InDesktop(AdminBegins(e))
  \/ \E e \in Carrier, done \in BOOLEAN : InDesktop(Quiesce(e, done))
  \/ \E a \in Gesture : InDesktop(PostAction(a))
  \/ \E a \in Gesture : InDesktop(Perform(a))
  \/ \E a \in Gesture : InDesktop(AnswerPost(a))
  \/ InDesktop(Press)
  \/ \E done, released \in BOOLEAN : InDesktop(Performed(done, released))
  \/ InDesktop(BrokerRestarts)

\* Browsers and the files of an owner are alike: the first is the first to act.  The agent
\* shares a file while no upload is under way; they have attempts of their own.
Traced(f) == f \in rows \cup objects \cup late \cup unwritten \/ \E t \in Trying : attempt[t].file = f
FirstFirst(t, f) ==
  /\ t = w2 => attempt[w1] # NoAttempt
  /\ f = "u2" => Traced("u1") \/ Traced("u2")

FilesMoves ==
  \/ \E t \in Trying : InFiles(Check(t))
  \/ \E t \in Trying : InFiles(Put(t))
  \/ \E t \in Trying : InFiles(PutFails(t))
  \/ \E t \in Trying : InFiles(Insert(t))
  \/ \E t \in Trying, o \in InsertOutcome : InFiles(InsertFails(t, o))
  \/ \E f \in Upload \cup Output : InFiles(InsertLands(f))
  \/ \E t \in Trying : InFiles(Lookup(t))
  \/ \E t \in Trying : InFiles(LookupFails(t))
  \/ \E t \in Trying : InFiles(Delete(t))
  \/ \E t \in Request, f \in Upload : FirstFirst(t, f) /\ InFiles(SendUpload(t, f))
  \/ \E f \in Output : (\A t \in Request : attempt[t] = NoAttempt) /\ InFiles(SendFile(f))
  \/ InFiles(StageAndDispatch)
  \/ InFiles(DaemonEnds)
  \/ InFiles(Interrupt)
  \/ InFiles(ClaimAnswered)
  \/ \E e \in Harvester, f \in Output : InFiles(HarvestOutput(e, f))
  \/ \E e \in Harvester : InFiles(ObserveOutputs(e))
  \/ \E e \in Harvester : InFiles(ReadJournal(e))
  \/ \E e \in Harvester : InFiles(BeforeSettle(e))
  \/ \E e \in Harvester : InFiles(SettleRun(e))
  \/ \E e \in Harvester : InFiles(StopResuming(e))
  \/ \E e \in Harvester : InFiles(FinishStopped(e))
  \/ \E e \in Harvester : InFiles(PeekResuming(e))
  \/ \E e \in Harvester : InFiles(ResumeRun(e))
  \/ \E e \in Harvester : InFiles(BreakOff(e))
  \/ \E e \in Harvester : InFiles(CollectDelegated(e))
  \/ \E e \in Harvester : InFiles(FilesDurable(e))
  \/ \E e \in Harvester : InFiles(HeadMoves(e))
  \/ \E e \in Harvester : InFiles(StopHarvest(e))

\* One message is enough in the background, where the chat takes none of them.
ResponseMoves ==
  \/ \E text \in 0..MaxText : InResponse((lane = "main" \/ turns = 0) /\ MessageStart(text))
  \/ \E text \in 0..MaxText, due \in BOOLEAN : InResponse(MessageUpdate(text, due))
  \/ \E text \in 0..MaxText, whole \in BOOLEAN : InResponse(MessageEnd(text, whole))
  \/ InResponse(ChooseResult)
  \/ \E ok \in BOOLEAN : InResponse(ResponseEnds(ok))
  \/ InResponse(JournalSettles)
  \/ \E o \in Verdicts : InResponse(CancelSettles(o))
  \/ InResponse(DaemonDies)
  \/ \E e \in Reader : InResponse(ReadResponse(e))
  \/ \E e \in Reader : InResponse(SaveMessages(e))
  \/ \E e \in Reader : InResponse(SaveUsage(e))
  \/ \E e \in Reader : InResponse(SettleResponse(e))
  \/ \E o \in Verdicts : InResponse(GiveUpResponse(o))
  \/ \E e \in Reader : InResponse(HeadPasses(e))

EventMoves ==
  \/ \E c \in Topics : InEvents(Change(c))
  \/ \E c \in Topics : InEvents(Notified(c))
  \/ InEvents(LinkLost)
  \/ InEvents(Listens)
  \/ InEvents(Heard)
  \/ InEvents(Started)
  \/ InEvents(StartFails)
  \/ \E s \in Page : InEvents(SessionEnds(s))
  \/ \E s \in Page : InEvents(RequestEvents(s))
  \/ \E s \in Page : InEvents(Subscribe(s))
  \/ \E s \in Page : InEvents(Refused(s))
  \/ \E s \in Page : InEvents(Flush(s))
  \/ \E s \in Page : InEvents(Heartbeat(s))
  \/ \E s \in Page : InEvents(PageReads(s))
  \/ \E s \in Page : InEvents(LifetimeOver(s))
  \/ \E s \in Page : InEvents(SessionChecked(s))
  \/ \E s \in Page : InEvents(PageLeaves(s))

MCNext == ControlMoves \/ DesktopMoves \/ FilesMoves \/ ResponseMoves \/ EventMoves
MCSpec == MCInit /\ [][MCNext]_visitsVars
===============================================================================
