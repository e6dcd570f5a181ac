------------------------------ MODULE RunContract ------------------------------
(***************************************************************************)
(* What the control plane promises the owner about every run, whatever     *)
(* happens to executors, requests and the machine: an accepted run is      *)
(* settled once; the machine works on it only after a durable intent, and  *)
(* only once; success and cancellation are never reported of work that     *)
(* did not succeed or is still going on.                                   *)
(*                                                                         *)
(* Runs are independent here: one step may move any number of them.        *)
(* RunExecution implements this specification.                             *)
(***************************************************************************)
CONSTANT Run

VARIABLES
  report,  \* report[r]: what the owner is shown, "open" until r is settled
  intent,  \* intent[r]: the intent to have r executed is durable
  work     \* work[r]: what the machine did of r

vars == <<report, intent, work>>

Outcome == {"succeeded", "failed", "interrupted", "cancelled"}

Init ==
  /\ report = [r \in Run |-> "none"]
  /\ intent = [r \in Run |-> FALSE]
  /\ work = [r \in Run |-> "none"]

\* A verdict o may be reported of r.
Honest(r, o) ==
  CASE o = "succeeded" -> work'[r] = "succeeded"
    [] o = "cancelled" -> work'[r] # "working"
    [] OTHER -> TRUE

Accept(r) == report[r] = "none" /\ report'[r] = "open" /\ ~intent'[r] /\ work'[r] = "none"
Decide(r) == report[r] = "open" /\ ~intent[r] /\ intent'[r]
             /\ report'[r] = "open" /\ work'[r] = "none"
Report(r) == /\ report[r] = "open" /\ report'[r] \in Outcome /\ Honest(r, report'[r])
             /\ intent'[r] = intent[r]
Begin(r) == work[r] = "none" /\ intent[r] /\ work'[r] = "working"
End(r) == work[r] = "working" /\ work'[r] \in Outcome

\* The machine's side and the owner's side of a run move by themselves, or
\* together when the machine is archived.
Machine(r) == work'[r] = work[r] \/ Begin(r) \/ End(r)
Owner(r) == (report'[r] = report[r] /\ intent'[r] = intent[r]) \/ Report(r)

Step(r) == Accept(r) \/ Decide(r) \/ (Machine(r) /\ Owner(r))

Shape == /\ report' = [r \in Run |-> report'[r]]
         /\ intent' = [r \in Run |-> intent'[r]]
         /\ work' = [r \in Run |-> work'[r]]

Next == Shape /\ \A r \in Run : Step(r)

Spec == Init /\ [][Next]_vars
===============================================================================
