---------------------------- MODULE ResponseStream ----------------------------
(***************************************************************************)
(* How the text and the usage of one response come from the model to the   *)
(* chat: Pi tells its events to the executor of the daemon                 *)
(* (packages/agent/src/pi-executor.ts), which keeps a snapshot and hands   *)
(* it to the journal (journal.ts) now and then; the visits of the control  *)
(* plane read the journal and write rows (executor.ts).  The response may  *)
(* be cancelled, the daemon may restart, leadership may move at any time.  *)
(* A text is the number of its pieces.                                     *)
(***************************************************************************)
EXTENDS Naturals, Sequences

CONSTANTS
  Reader,        \* executor processes of the control plane
  Published,     \* the row of a result that publish_to_chat selected
  MaxMessages, MaxText, MaxVersion,
  MaxTroubles    \* bounds; the last on cancellations, restarts, verdicts without the journal, lost locks

ASSUME ResponseValues ==
  /\ Reader # {} /\ MaxText \in Nat /\ MaxTroubles \in Nat

VARIABLES
  lane,      \* runs.lane: "main", "background"
  said,      \* the messages of the model that have text: text, and how they ended
  turns,     \* messages of the model that ended, with text or without
  speaking,  \* the model's message of now: "no", "silent" (no text so far), "aloud"
  phase,     \* execute(): "running", "ended" (its last snapshot is handed over), "over"
  outcome,   \* what execute() returns
  chosen,    \* publishText is set
  progress,  \* execution.progress: messages, usage, version
  slot,      \* activeMessage.index, 0 for none
  kept,      \* the snapshot in the row of the journal
  status, publish,  \* and its status, and whether its text is to be published
  chat,      \* the assistant messages of the run in PostgreSQL
  bill,      \* runs.usage
  version,   \* runs.message_version, 0 for null
  report,    \* runs.status
  leader,      \* the executor with the lock
  troubles,
  look      \* look[e]: where the visit of e is, and what it read of the journal

streamVars == <<lane, said, turns, speaking, phase, outcome, chosen, progress, slot, kept, status,
                publish, chat, bill, version, report, leader, troubles, look>>
modelVars == <<said, turns, speaking>>
daemonVars == <<said, turns, speaking, phase, outcome, chosen, progress, slot, kept, status, publish>>
rowVars == <<chat, bill, version, report, leader, look>>

Trouble == troubles < MaxTroubles /\ troubles' = troubles + 1

Verdicts == {"succeeded", "failed", "interrupted", "cancelled"}
Row == [text : Nat, complete : BOOLEAN]
Snapshot == [messages : Seq(Row), usage : Nat, version : Nat]
NoSnapshot == [messages |-> <<>>, usage |-> 0, version |-> 0]
NoLook == [step |-> "idle", read |-> NoSnapshot, status |-> "running", publish |-> FALSE]

StreamTypeOK ==
  /\ lane \in {"main", "background"}
  /\ said \in Seq([text : Nat, end : {"no", "whole", "broken"}]) /\ turns \in Nat
  /\ speaking \in {"no", "silent", "aloud"} /\ phase \in {"running", "ended", "over"}
  /\ outcome \in {"succeeded", "failed"} /\ chosen \in BOOLEAN
  /\ progress \in Snapshot /\ slot \in Nat /\ kept \in Snapshot
  /\ status \in Verdicts \cup {"running"} /\ publish \in BOOLEAN
  /\ chat \in Seq(Row \cup {Published}) /\ bill \in Nat /\ version \in Nat
  /\ report \in Verdicts \cup {"running"} /\ leader \in Reader /\ troubles \in 0..MaxTroubles
  /\ look \in [Reader -> [step : {"idle", "messages", "usage", "settle"}, read : Snapshot,
                           status : Verdicts \cup {"running"}, publish : BOOLEAN]]

StreamInit ==
  /\ lane \in {"main", "background"}
  /\ said = <<>> /\ turns = 0 /\ speaking = "no"
  /\ phase = "running" /\ outcome = "succeeded" /\ chosen = FALSE
  /\ progress = NoSnapshot /\ slot = 0 /\ kept = NoSnapshot
  /\ status = "running" /\ publish = FALSE
  /\ chat = <<>> /\ bill = 0 /\ version = 0 /\ report = "running"
  /\ leader \in Reader /\ troubles = 0 /\ look = [e \in Reader |-> NoLook]
-------------------------------------------------------------------------------
\* The model and the executor of the daemon

\* Mutant: a message that breaks without its text loses what was heard of it.
UpdatedErasing(rows, i, text, done) ==
  IF i # 0 THEN [rows EXCEPT ![i] = [text |-> text, complete |-> @.complete \/ done]]
  ELSE IF text = 0 THEN rows ELSE Append(rows, [text |-> text, complete |-> done])

\* updateMessage: a message without text has no row; an empty text does not erase one.
Updated(rows, i, text, done) ==
  IF i # 0 THEN [rows EXCEPT ![i] = [text |-> IF text = 0 THEN @.text ELSE text,
                                     complete |-> @.complete \/ done]]
  ELSE IF text = 0 THEN rows ELSE Append(rows, [text |-> text, complete |-> done])
SlotOf(rows, i, text) == IF i = 0 /\ text # 0 THEN Len(rows) + 1 ELSE i

\* The journal stores a snapshot that is newer than the one it has while the run is running.
Progressed(copy) == IF status = "running" /\ kept.version < copy.version THEN copy ELSE kept

\* emitProgress: a numbered copy goes to the journal.
Emit(rows, usage) ==
  /\ progress' = [messages |-> rows, usage |-> usage, version |-> progress.version + 1]
  /\ kept' = Progressed(progress')
Unsent(rows) ==
  /\ progress' = [messages |-> rows, usage |-> progress.usage, version |-> progress.version]
  /\ kept' = kept

\* The model has said text of its message of now.
Say(text) ==
  /\ said' = IF speaking = "aloud" THEN [said EXCEPT ![Len(said)].text = text]
             ELSE IF text = 0 THEN said ELSE Append(said, [text |-> text, end |-> "no"])
  /\ speaking' = IF text = 0 THEN "silent" ELSE "aloud"
Spoken == IF speaking = "aloud" THEN said[Len(said)].text ELSE 0

MessageStart(text) ==
  /\ phase = "running" /\ speaking = "no" /\ Len(said) < MaxMessages /\ turns < MaxMessages
  /\ Say(text)
  /\ slot' = SlotOf(progress.messages, 0, text)
  /\ LET rows == Updated(progress.messages, 0, text, FALSE) IN
       IF text # 0 THEN Emit(rows, progress.usage) ELSE Unsent(rows)
  /\ UNCHANGED <<turns, phase, outcome, chosen, status, publish, rowVars, troubles>>

\* A preview is handed over when 150 ms have passed since the one before.
MessageUpdate(text, due) ==
  /\ phase = "running" /\ speaking # "no" /\ text >= Spoken
  /\ due => progress.version < MaxVersion
  /\ Say(text)
  /\ slot' = SlotOf(progress.messages, slot, text)
  /\ LET rows == Updated(progress.messages, slot, text, FALSE) IN
       IF due THEN Emit(rows, progress.usage) ELSE Unsent(rows)
  /\ UNCHANGED <<turns, phase, outcome, chosen, status, publish, rowVars, troubles>>

\* A message that breaks may come without the text that was heard of it.
MessageEnd(text, whole) ==
  /\ phase = "running" /\ speaking # "no"
  /\ text >= Spoken \/ (text = 0 /\ ~whole)
  /\ LET end == IF whole THEN "whole" ELSE "broken" IN
       said' = CASE speaking = "aloud" ->
                      [said EXCEPT ![Len(said)] = [text |-> IF text = 0 THEN @.text ELSE text, end |-> end]]
                 [] speaking = "silent" /\ text # 0 -> Append(said, [text |-> text, end |-> end])
                 [] OTHER -> said
  /\ turns' = turns + 1 /\ speaking' = "no" /\ slot' = 0
  /\ Emit(Updated(progress.messages, slot, text, whole), progress.usage + 1)
  /\ outcome' = IF whole THEN "succeeded" ELSE "failed"
  /\ UNCHANGED <<phase, chosen, status, publish, rowVars, troubles>>

\* The tool publish_to_chat of a background task.
ChooseResult ==
  /\ lane = "background" /\ phase = "running" /\ speaking = "no" /\ chosen' = TRUE
  /\ UNCHANGED <<modelVars, phase, outcome, progress, slot, kept, status, publish, rowVars, troubles>>

\* The session is idle and execute() returns, or it fails at any time (initialisation, abort).
\* The last snapshot goes first.
ResponseEnds(ok) ==
  /\ phase = "running" /\ (ok => speaking = "no")
  /\ phase' = "ended" /\ speaking' = "no" /\ slot' = 0
  /\ outcome' = IF ok THEN outcome ELSE "failed"
  /\ Emit(progress.messages, progress.usage)
  /\ UNCHANGED <<said, turns, chosen, status, publish, rowVars, troubles>>

\* settleGroup after execute().
JournalSettles ==
  /\ phase = "ended" /\ phase' = "over"
  /\ status' = IF status = "running" THEN outcome ELSE status
  /\ publish' = IF status = "running" THEN chosen /\ outcome = "succeeded" ELSE publish
  /\ UNCHANGED <<modelVars, outcome, chosen, progress, slot, kept, rowVars, troubles>>

\* The daemon cancels the response; its execution goes on until it notices.
CancelSettles(o) ==
  /\ status = "running" /\ phase # "over" /\ o \in {"cancelled", "interrupted"} /\ status' = o
  /\ Trouble
  /\ UNCHANGED <<modelVars, phase, outcome, chosen, progress, slot, kept, publish, rowVars>>

\* interruptUnfinished: what the executor had not handed over is lost.
DaemonDies ==
  /\ phase # "over" /\ phase' = "over" /\ speaking' = "no" /\ slot' = 0 /\ Trouble
  /\ status' = IF status = "running" THEN "interrupted" ELSE status
  /\ UNCHANGED <<said, turns, outcome, chosen, progress, kept, publish, rowVars>>
-------------------------------------------------------------------------------
\* The visits of the control plane

ReadResponse(e) ==
  /\ leader = e /\ report = "running" /\ look[e].step = "idle"
  /\ look' = [look EXCEPT ![e] = [step |-> "messages", read |-> kept, status |-> status, publish |-> publish]]
  /\ UNCHANGED <<daemonVars, chat, bill, version, report, leader, troubles>>

\* ON CONFLICT: a row that is not complete takes what was read, others stay.
Upserted(rows) ==
  [i \in 1..Len(rows) |-> IF i <= Len(chat) /\ chat[i].complete THEN chat[i] ELSE rows[i]]

\* persistObservation: the messages, if they are newer, and only while e leads.
SaveMessages(e) ==
  /\ look[e].step = "messages"
  /\ LET read == look[e].read IN
       IF leader = e /\ version < read.version
         THEN /\ version' = read.version
              /\ chat' = IF lane = "main" THEN Upserted(read.messages) ELSE chat
         ELSE UNCHANGED <<version, chat>>
  /\ look' = [look EXCEPT ![e].step = "usage"]
  /\ UNCHANGED <<daemonVars, bill, report, leader, troubles>>

\* Then the usage of the last snapshot, if there was one.
SaveUsage(e) ==
  /\ look[e].step = "usage"
  /\ bill' = IF leader = e /\ look[e].read.version # 0 THEN look[e].read.usage ELSE bill
  /\ look' = [look EXCEPT ![e].step = IF look[e].status \in Verdicts THEN "settle" ELSE "idle"]
  /\ UNCHANGED <<daemonVars, chat, version, report, leader, troubles>>

\* finish: the verdict of the journal, and with it the result of a background task.
SettleResponse(e) ==
  /\ look[e].step = "settle"
  /\ IF leader = e /\ report = "running"
       THEN /\ report' = look[e].status
            /\ chat' = IF lane = "background" /\ look[e].publish /\ look[e].status = "succeeded"
                         THEN <<Published>> ELSE chat
       ELSE UNCHANGED <<report, chat>>
  /\ look' = [look EXCEPT ![e] = NoLook]
  /\ UNCHANGED <<daemonVars, bill, version, leader, troubles>>

\* The run is settled without the journal: its deadline, its machine is lost or archived.
GiveUpResponse(o) ==
  /\ report = "running" /\ o \in Verdicts \ {"succeeded"} /\ report' = o
  /\ Trouble
  /\ UNCHANGED <<daemonVars, chat, bill, version, leader, look>>

\* Another executor acquires the lock, on a connection of its own; a visit of the old one goes on.
HeadPasses(e) ==
  /\ e \in Reader \ {leader} /\ Trouble
  /\ leader' = e /\ look' = [look EXCEPT ![e] = NoLook]
  /\ UNCHANGED <<daemonVars, chat, bill, version, report>>

StreamNext ==
  \/ \E text \in 0..MaxText : MessageStart(text)
  \/ \E text \in 0..MaxText, due \in BOOLEAN : MessageUpdate(text, due)
  \/ \E text \in 0..MaxText, whole \in BOOLEAN : MessageEnd(text, whole)
  \/ ChooseResult \/ JournalSettles \/ DaemonDies
  \/ \E ok \in BOOLEAN : ResponseEnds(ok)
  \/ \E o \in Verdicts : CancelSettles(o) \/ GiveUpResponse(o)
  \/ \E e \in Reader : \/ ReadResponse(e) \/ SaveMessages(e) \/ SaveUsage(e)
                       \/ SettleResponse(e) \/ HeadPasses(e)

StreamSpec == StreamInit /\ [][StreamNext /\ lane' = lane]_streamVars
-------------------------------------------------------------------------------
\* The chat keeps what ResponseContract promises of a response.  pi-executor.ts:271-300,
\* journal.ts:94, executor.ts:89-115: previews are dropped, snapshots are read late and written by
\* visits that outlive their leader, and the last snapshot must be there before the verdict.
Contract == INSTANCE ResponseContract WITH Result <- Published
KeepsTheResponse == Contract!RCSpec
===============================================================================
