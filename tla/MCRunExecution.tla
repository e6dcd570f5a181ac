---------------------------- MODULE MCRunExecution ----------------------------
(* Symmetries and bounds of RunExecution for TLC.                            *)
EXTENDS RunExecution, TLC

ExecutorSymmetry == Permutations(Executor)
RunSymmetry == Permutations(Background) \cup Permutations(Run \ Background)

\* With two runs: no deadline passes and the Companion is not retired; with two
\* main runs, no question is answered either.  One run alone has all of that.
Unhurried == age' = age /\ life' = life

\* The endpoint is lost by the jobs alone (two executors, or two runs).
Awake == ~MachineAsleep

\* Two runs of one lane at a time, main or background.
Accepted(runs) == \E r \in runs : status[r] # "none"
Pair ==
  /\ ~(Accepted(Background) /\ Accepted(Run \ Background))'
  /\ Unhurried /\ Awake
  /\ Accepted(Run \ Background) => resumeReq' = resumeReq
===============================================================================
