--------------------------- MODULE ResponseContract ---------------------------
(***************************************************************************)
(* What the owner is promised of the text of one response: the messages    *)
(* the chat shows are messages the model said, each as far as it was said; *)
(* a message that is shown never shrinks or goes away; a response reported *)
(* as succeeded is shown whole, and its usage is that of all its messages. *)
(* Of a background task the chat shows nothing but a result the task chose *)
(* to publish, at its success.  ResponseStream implements this.            *)
(***************************************************************************)
EXTENDS Naturals, Sequences

CONSTANT Result     \* the result a background task may publish

VARIABLES
  lane,      \* whether the response answers in the "main" chat, or is a "background" task's
  said,      \* the messages of the model that have text: text, and how they ended
  turns,     \* messages of the model that ended, with text or without
  chat,      \* the messages the owner sees
  bill,      \* the messages whose usage is recorded
  report     \* "running", or how the response was reported

responseVars == <<lane, said, turns, chat, bill, report>>

\* What is shown of message m: its text, and whether that is all.
Shows(row, m) == row.text <= m.text /\ (row.complete => m.end = "whole" /\ row.text = m.text)
Whole(m) == [text |-> m.text, complete |-> m.end = "whole"]

\* Messages only grow, and one that ended stays.
Continues(old, new) ==
  /\ Len(old) <= Len(new)
  /\ \A i \in 1..Len(old) : /\ old[i].text <= new[i].text
                            /\ old[i].end # "no" => new[i] = old[i]
\* Rows only grow, and a complete one stays.
Extends(old, new) ==
  /\ Len(old) <= Len(new)
  /\ \A i \in 1..Len(old) : /\ old[i].text <= new[i].text
                            /\ old[i].complete => new[i] = old[i]

RCInit == lane \in {"main", "background"} /\ said = <<>> /\ turns = 0 /\ chat = <<>> /\ bill = 0 /\ report = "running"

Speak == Continues(said, said') /\ turns' >= turns /\ UNCHANGED <<chat, bill, report>>

Show ==
  /\ report # "succeeded" /\ lane = "main"
  /\ Extends(chat, chat')
  /\ Len(chat') <= Len(said) /\ \A i \in 1..Len(chat') : Shows(chat'[i], said[i])
  /\ UNCHANGED <<said, turns, bill, report>>

Charge ==
  /\ report # "succeeded" /\ bill' >= bill /\ bill' <= turns
  /\ UNCHANGED <<said, turns, chat, report>>

Succeed ==
  /\ report = "running" /\ report' = "succeeded" /\ bill = turns
  /\ IF lane = "background" THEN chat' \in {<<>>, <<Result>>}
     ELSE chat' = chat /\ chat = [i \in 1..Len(said) |-> Whole(said[i])]
  /\ UNCHANGED <<said, turns, bill>>

Fail ==
  /\ report = "running" /\ report' \in {"failed", "interrupted", "cancelled"}
  /\ UNCHANGED <<said, turns, chat, bill>>

RCNext == (Speak \/ Show \/ Charge \/ Succeed \/ Fail) /\ lane' = lane

RCSpec == RCInit /\ [][RCNext]_responseVars
===============================================================================
