------------------------------ MODULE Desktop ------------------------------
(***************************************************************************)
(* The graphical desktop of a machine and who may use it.  The owner's     *)
(* intent is a row of PostgreSQL with a generation; the leading executor   *)
(* carries it to the broker on the machine, which is closed after every    *)
(* boot, keeps the newest generation in a journal and runs the actions of  *)
(* the agent one at a time.  Taking over aborts the action under way,      *)
(* waits for its processes and releases the input it may have left         *)
(* pressed.  An executor has one command under way; the desktop is already *)
(* provisioned; actions wait in no particular order.                       *)
(***************************************************************************)
EXTENDS Naturals

CONSTANTS
  Gesture,         \* identifiers of the agent's actions
  Carrier,         \* executor processes
  MaxGeneration,   \* bound: changes of the intent
  MaxBoots,        \* bound: restarts of the broker
  MaxLosses        \* bound: changes of the leader, commands given up

ASSUME DesktopBounds == MaxGeneration \in Nat

VARIABLES
  intent,      \* the columns desktop_* of the Companion
  lease,       \* the executor that leads
  errand,      \* errand[e]: its pass over the Companion, with the row it read
  adminCall,   \* adminCall[e]: its request to the broker, under way
  broker,      \* the broker's memory
  journal,     \* desktop_state
  admin,       \* the request serializeAdmin lets through
  gesture,     \* desktop_actions
  posted,      \* posted[a]: the generation an action was posted with
  active,      \* the action the driver executes
  pressed,     \* synthetic keys or buttons are down
  performed,   \* history: how often each action was begun
  boots, losses

desktopVars == <<intent, lease, errand, adminCall, broker, journal, admin, gesture, posted,
                 active, pressed, performed, boots, losses>>

NoGesture == "none"
NoErrand == [step |-> "none", generation |-> 0, taken |-> FALSE]
NoCommand == [there |-> FALSE, generation |-> 0, taken |-> FALSE]
Nowhere == MaxGeneration + 1
Booted(j) == [generation |-> j.generation, reconciled |-> FALSE, taken |-> TRUE, confirmed |-> FALSE]

DesktopInit ==
  /\ intent = [taken |-> FALSE, generation |-> 0, paused |-> FALSE, observed |-> Nowhere]
  /\ lease \in Carrier
  /\ errand = [e \in Carrier |-> NoErrand]
  /\ adminCall = [e \in Carrier |-> NoCommand]
  /\ journal = [generation |-> 0, taken |-> FALSE]
  /\ broker = Booted(journal)
  /\ admin = {}
  /\ gesture = [a \in Gesture |-> "absent"]
  /\ posted = [a \in Gesture |-> Nowhere]
  /\ active = NoGesture /\ pressed = FALSE
  /\ performed = [a \in Gesture |-> 0]
  /\ boots = 0 /\ losses = 0

agentSide == <<gesture, posted, active, pressed, performed>>
brokerSide == <<broker, journal, admin>>
-----------------------------------------------------------------------------
(***************************************************************************)
(* The intent: requestDesktop.  An agent may take the desktop for a human, *)
(* only a human gives it back.                                             *)
(***************************************************************************)
RequestDesktop(take) ==
  /\ intent.taken # take /\ intent.generation < MaxGeneration
  /\ intent' = [intent EXCEPT !.taken = take, !.generation = @ + 1]
  /\ UNCHANGED <<lease, errand, adminCall, brokerSide, agentSide, boots, losses>>
-----------------------------------------------------------------------------
(***************************************************************************)
(* The executor: the desktop part of progressLifecycle, and pauseMachine.  *)
(***************************************************************************)
\* desktopGuard: the lease is held and the row says what was read.
Guarded(e) ==
  lease = e /\ intent.generation = errand[e].generation /\ intent.taken = errand[e].taken

Visit(e) ==
  /\ lease = e /\ errand[e] = NoErrand /\ ~adminCall[e].there
  /\ errand' = [errand EXCEPT ![e] = [step |-> "ask", generation |-> intent.generation, taken |-> intent.taken]]
  /\ UNCHANGED <<intent, lease, adminCall, brokerSide, agentSide, boots, losses>>

Shows(row) == broker.generation = row.generation /\ broker.taken = row.taken /\ broker.confirmed

\* The first command of pauseMachine only reads the state.
AskState(e) ==
  /\ errand[e].step = "ask"
  /\ errand' = [errand EXCEPT ![e] =
       IF ~Guarded(e) THEN NoErrand
       ELSE [@ EXCEPT !.step = IF Shows(errand[e]) THEN "confirmed" ELSE "unconfirmed"]]
  /\ UNCHANGED <<intent, lease, adminCall, brokerSide, agentSide, boots, losses>>

SendState(e) ==
  /\ errand[e].step = "unconfirmed"
  /\ IF Guarded(e)
     THEN /\ adminCall' = [adminCall EXCEPT ![e] = [there |-> TRUE, generation |-> errand[e].generation,
                                                taken |-> errand[e].taken]]
          /\ errand' = [errand EXCEPT ![e].step = "sent"]
     ELSE errand' = [errand EXCEPT ![e] = NoErrand] /\ UNCHANGED adminCall
  /\ UNCHANGED <<intent, lease, brokerSide, agentSide, boots, losses>>

\* The answer is late or lost; the command is carried out all the same.
GiveUp(e) ==
  /\ errand[e].step = "sent" /\ losses < MaxLosses
  /\ losses' = losses + 1 /\ errand' = [errand EXCEPT ![e] = NoErrand]
  /\ UNCHANGED <<intent, lease, adminCall, brokerSide, agentSide, boots>>

\* The checkpoint needs the lease, and the row only takes what it still asks for.
RecordState(e) ==
  /\ errand[e].step = "confirmed"
  /\ errand' = [errand EXCEPT ![e] = NoErrand]
  /\ intent' = IF Guarded(e)
               THEN [intent EXCEPT !.paused = errand[e].taken, !.observed = errand[e].generation]
               ELSE intent
  /\ UNCHANGED <<lease, adminCall, brokerSide, agentSide, boots, losses>>

CarrierLeaseMoves(e) ==
  /\ lease # e /\ losses < MaxLosses
  /\ losses' = losses + 1 /\ lease' = e
  /\ UNCHANGED <<intent, errand, adminCall, brokerSide, agentSide, boots>>
-----------------------------------------------------------------------------
(***************************************************************************)
(* The broker: handleAdmin and DesktopJournal.reconcile.                   *)
(***************************************************************************)
StaleGeneration(generation) == generation < journal.generation

\* The answer reaches the executor only while it waits for it.
AdminReply(e, step) ==
  /\ adminCall' = [adminCall EXCEPT ![e] = NoCommand]
  /\ errand' = [errand EXCEPT ![e] = IF @.step = "sent" /\ step = "confirmed"
                                     THEN [@ EXCEPT !.step = "confirmed"]
                                     ELSE IF @.step = "sent" THEN NoErrand ELSE @]

AdminBegins(e) ==
  /\ adminCall[e].there /\ admin = {}
  /\ LET g == adminCall[e].generation
         same == g = journal.generation /\ adminCall[e].taken = journal.taken
     IN IF StaleGeneration(g) \/ (g = journal.generation /\ ~same)
        THEN AdminReply(e, "refused") /\ UNCHANGED brokerSide
        ELSE /\ journal' = [generation |-> g, taken |-> adminCall[e].taken]
             /\ IF same /\ broker.reconciled
                THEN /\ broker' = [broker EXCEPT !.generation = g, !.taken = adminCall[e].taken, !.confirmed = TRUE]
                     /\ AdminReply(e, "confirmed") /\ UNCHANGED admin
                ELSE /\ broker' = [broker EXCEPT !.taken = TRUE, !.confirmed = FALSE]
                     /\ admin' = {e}
                     /\ UNCHANGED <<adminCall, errand>>
  /\ UNCHANGED <<intent, lease, agentSide, boots, losses>>

\* Mutant: the takeover does not wait for the action it aborted.
QuiescableEarly(e) == admin = {e}
Quiescable(e) == admin = {e} /\ active = NoGesture

\* The helper that releases the input succeeds or fails.
Quiesce(e, done) ==
  /\ Quiescable(e)
  /\ pressed' = (pressed /\ ~done)
  /\ admin' = {}
  /\ broker' = [generation |-> adminCall[e].generation, reconciled |-> done,
                taken |-> IF done THEN adminCall[e].taken ELSE TRUE, confirmed |-> done]
  /\ AdminReply(e, IF done THEN "confirmed" ELSE "refused")
  /\ UNCHANGED <<intent, lease, journal, gesture, posted, active, performed, boots, losses>>
-----------------------------------------------------------------------------
(***************************************************************************)
(* The agent: invoke of tools.ts, handleAgent and the driver.              *)
(***************************************************************************)
\* The tool reads the state and posts with its generation; a client may also repeat an
\* action whose answer it lost.
PostAction(a) ==
  /\ posted[a] = Nowhere /\ broker.confirmed /\ ~broker.taken
  /\ posted' = [posted EXCEPT ![a] = broker.generation]
  /\ UNCHANGED <<intent, lease, errand, adminCall, brokerSide, gesture, active, pressed, performed, boots, losses>>

Admits(a) == broker.reconciled /\ ~broker.taken /\ posted[a] = broker.generation

\* serializeAction and claim.
Perform(a) ==
  /\ posted[a] # Nowhere /\ active = NoGesture
  /\ Admits(a) /\ gesture[a] = "absent"
  /\ gesture' = [gesture EXCEPT ![a] = "started"]
  /\ active' = a
  /\ performed' = [performed EXCEPT ![a] = @ + 1]
  /\ UNCHANGED <<intent, lease, errand, adminCall, brokerSide, posted, pressed, boots, losses>>

\* It is answered from the journal, or refused.
AnswerPost(a) ==
  /\ posted[a] # Nowhere /\ active # a /\ (gesture[a] # "absent" \/ ~Admits(a))
  /\ posted' = [posted EXCEPT ![a] = Nowhere]
  /\ UNCHANGED <<intent, lease, errand, adminCall, brokerSide, gesture, active, pressed, performed, boots, losses>>

Press ==
  /\ active # NoGesture /\ ~pressed
  /\ pressed' = TRUE
  /\ UNCHANGED <<intent, lease, errand, adminCall, brokerSide, gesture, posted, active, performed, boots, losses>>

\* execute returns once its helper released the input; aborted, failed or late it leaves
\* an action that is never repeated, and perhaps its input.
Performed(done, released) ==
  /\ active # NoGesture /\ (done => released)
  /\ gesture' = [gesture EXCEPT ![active] = IF done THEN "succeeded" ELSE "interrupted"]
  /\ pressed' = (pressed /\ ~released)
  /\ posted' = [posted EXCEPT ![active] = Nowhere]
  /\ active' = NoGesture
  /\ UNCHANGED <<intent, lease, errand, adminCall, brokerSide, performed, boots, losses>>

\* Mutant: an action that was under way is taken for one that never began.
ReopenedAfresh(status) == IF status = "started" THEN "absent" ELSE status
Reopened(status) == IF status = "started" THEN "interrupted" ELSE status

\* The processes of an action end with the broker; what they pressed stays.
BrokerRestarts ==
  /\ boots < MaxBoots /\ boots' = boots + 1
  /\ broker' = Booted(journal) /\ admin' = {} /\ active' = NoGesture
  /\ gesture' = [a \in Gesture |-> Reopened(gesture[a])]
  /\ posted' = [a \in Gesture |-> Nowhere]
  /\ adminCall' = [e \in Carrier |-> IF e \in admin THEN NoCommand ELSE adminCall[e]]
  /\ errand' = [e \in Carrier |-> IF e \in admin /\ errand[e].step = "sent" THEN NoErrand ELSE errand[e]]
  /\ UNCHANGED <<intent, lease, journal, pressed, performed, losses>>

DesktopNext ==
  \/ \E t \in BOOLEAN : RequestDesktop(t)
  \/ \E e \in Carrier : Visit(e) \/ AskState(e) \/ SendState(e) \/ GiveUp(e) \/ RecordState(e)
                        \/ CarrierLeaseMoves(e) \/ AdminBegins(e)
  \/ \E e \in Carrier, done \in BOOLEAN : Quiesce(e, done)
  \/ \E a \in Gesture : PostAction(a) \/ Perform(a) \/ AnswerPost(a)
  \/ Press \/ \E done, released \in BOOLEAN : Performed(done, released)
  \/ BrokerRestarts

DesktopSpec == DesktopInit /\ [][DesktopNext]_desktopVars
-----------------------------------------------------------------------------
DesktopTypeOK ==
  /\ intent.generation \in 0..MaxGeneration /\ journal.generation \in 0..MaxGeneration
  /\ active \in Gesture \cup {NoGesture} /\ admin \subseteq Carrier
  /\ \A a \in Gesture : gesture[a] \in {"absent", "started", "succeeded", "interrupted"}

\* While the row says that the takeover it asks for was observed, the agent does not use
\* the desktop and none of its keys or buttons is down: late commands, former leaders and restarts included.
ConfirmedIsQuiet ==
  intent.taken /\ intent.paused /\ intent.observed = intent.generation => active = NoGesture /\ ~pressed

\* An action is performed at most once, however often it is posted and the broker restarts.
GestureOnce == \A a \in Gesture : performed[a] <= 1

\* docs/UI_CONTRACT.md:102-103: "The browser polls detail and claims control only when
\* desktopPausedAt confirms the runtime boundary": while it is set for a taken desktop, the agent does not use it.
ControlIsConfirmed == intent.taken /\ intent.paused => active = NoGesture
=============================================================================
