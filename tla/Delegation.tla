----------------------------- MODULE Delegation -----------------------------
(***************************************************************************)
(* Tasks that one permanent Companion delegates to another                 *)
(* (apps/server/src/delegation.ts) and the executor loop that stores their *)
(* files and returns their results (lifecycle.ts), with the retirement of  *)
(* a Companion (retirement.ts) happening at any time.                      *)
(***************************************************************************)
EXTENDS Naturals, Sequences, FiniteSets

CONSTANTS Pairs,        \* who may ask whom: a set of <<parent, target>>
          Worker,       \* executor processes
          MaxDelegations, MaxPasses, MaxRetired   \* bounds on delegations, lease changes, retirements

Partners == {p[1] : p \in Pairs} \cup {p[2] : p \in Pairs}

VARIABLES
  delegations,   \* delegations in order of creation, each with its run and its review run
  gone,          \* Companions: retired_at set
  archived,      \* retired Companions whose machine is archived
  holder,        \* the executor with the lease
  passes,
  at             \* where the lifecycle job of each executor is with each delegation;
                 \* jobs of different target Companions run side by side

delegationVars == <<delegations, gone, archived, holder, passes, at>>

D == 1..Len(delegations)
Idle == [step |-> "idle", paid |-> FALSE]

DelegationTypeOK ==
  /\ \A i \in D : delegations[i] \in
       [parent : Partners, target : Partners, st : {"queued", "active", "over"},
        daemon : {"none", "has", "lost"}, saved : BOOLEAN, reviews : Seq({"open", "over"}), finished : BOOLEAN]
  /\ gone \subseteq Partners /\ archived \subseteq gone
  /\ holder \in Worker /\ passes \in 0..MaxPasses
  /\ at \in [Worker \X (1..MaxDelegations) -> [step : {"idle", "files", "return"}, paid : BOOLEAN]]

DelegationInit ==
  /\ delegations = <<>>
  /\ gone = {} /\ archived = {}
  /\ holder = CHOOSE e \in Worker : TRUE
  /\ passes = 0
  /\ at = [x \in Worker \X (1..MaxDelegations) |-> Idle]

-----------------------------------------------------------------------------
\* delegateTask, under the owner's graph lock

Active(i) == delegations[i].st # "over"
WaitsFor(c) == {delegations[i].target : i \in {j \in D : /\ delegations[j].parent = c
                                                         /\ ~delegations[j].finished /\ Active(j)}}
\* Companions that c waits for, directly or through others: the least set that has whom c
\* waits for and whom its members wait for.
Closed(S) == \A x \in S : WaitsFor(x) \subseteq S
Reachable(c) == {x \in Partners : \A S \in SUBSET Partners : WaitsFor(c) \subseteq S /\ Closed(S) => x \in S}

\* Mutant: only delegations whose run has started count.
CircularStarted(parent, target) ==
  \E i \in D : /\ delegations[i].parent = target /\ delegations[i].target = parent
              /\ ~delegations[i].finished /\ delegations[i].st = "active"
Circular(parent, target) == parent \in Reachable(target)

\* The parent's run of the request may itself be over; a repeated command changes nothing.
DelegateTask(parent, target) ==
  /\ Len(delegations) < MaxDelegations
  /\ parent # target
  /\ {parent, target} \cap gone = {}
  /\ ~Circular(parent, target)
  /\ delegations' = Append(delegations,
       [parent |-> parent, target |-> target, st |-> "queued", daemon |-> "none",
        saved |-> FALSE, reviews |-> <<>>, finished |-> FALSE])
  /\ UNCHANGED <<gone, archived, holder, passes, at>>

-----------------------------------------------------------------------------
\* The delegated run, in outline (RunExecution has the detail)

\* The dispatch is recorded before the request; the request may never arrive.
Dispatched(i, reached) ==
  /\ delegations[i].st = "queued"
  /\ delegations[i].target \notin gone
  /\ delegations' = [delegations EXCEPT ![i].st = "active", ![i].daemon = IF reached THEN "has" ELSE "lost"]
  /\ UNCHANGED <<gone, archived, holder, passes, at>>

RunOver(i) ==
  /\ delegations[i].st = "active"
  /\ delegations' = [delegations EXCEPT ![i].st = "over"]
  /\ UNCHANGED <<gone, archived, holder, passes, at>>

ReviewOver(i) ==
  /\ \E n \in DOMAIN delegations[i].reviews :
       /\ delegations[i].reviews[n] = "open"
       /\ delegations' = [delegations EXCEPT ![i].reviews[n] = "over"]
  /\ UNCHANGED <<gone, archived, holder, passes, at>>

\* retireCompanion: undispatched runs of it and for it end, the others are asked to.
Retire(c) ==
  /\ c \notin gone
  /\ Cardinality(gone) < MaxRetired
  /\ gone' = gone \cup {c}
  /\ delegations' = [i \in D |->
       [delegations[i] EXCEPT
          !.st = IF c \in {delegations[i].parent, delegations[i].target} /\ @ = "queued" THEN "over" ELSE @,
          !.reviews = IF c = delegations[i].parent THEN [n \in DOMAIN @ |-> "over"] ELSE @]]
  /\ UNCHANGED <<archived, holder, passes, at>>

\* Mutant: the archive of a machine leaves the delegations to it open.
ArchivedOnly(c) ==
  /\ c \in gone \ archived
  /\ archived' = archived \cup {c}
  /\ UNCHANGED <<delegations, gone, holder, passes, at>>

\* progressRetirements, once the machine is archived.
Archived(c) ==
  /\ c \in gone \ archived
  /\ archived' = archived \cup {c}
  /\ delegations' = [i \in D |->
       IF delegations[i].target = c
       THEN [delegations[i] EXCEPT !.st = "over", !.finished = TRUE]
       ELSE delegations[i]]
  /\ UNCHANGED <<gone, holder, passes, at>>

-----------------------------------------------------------------------------
\* The executor's pass over the delegations whose run is over

PassLease(e) ==
  /\ e # holder /\ passes < MaxPasses
  /\ holder' = e
  /\ passes' = passes + 1
  /\ UNCHANGED <<delegations, gone, archived, at>>

Due(i) == delegations[i].st = "over" /\ ~delegations[i].finished

Begin(e, i) ==
  /\ e = holder
  /\ at[<<e, i>>] = Idle
  /\ Due(i)
  /\ \/ ~delegations[i].saved /\ at' = [at EXCEPT ![<<e, i>>].step = "files"]
     \/ /\ delegations[i].saved /\ delegations[i].reviews = <<>>
        /\ \E paid \in BOOLEAN : at' = [at EXCEPT ![<<e, i>>] = [step |-> "return", paid |-> paid]]
  /\ UNCHANGED <<delegations, gone, archived, holder, passes>>

\* filesDurable: an undispatched run has nothing to keep, the daemon must know the others.
Durable(i) ==
  /\ delegations[i].target \notin gone
  /\ delegations[i].daemon # "lost"

\* A checkpoint of an executor without the lease is refused and ends its job.
Checkpoint(e, i, step, done) ==
  /\ at[<<e, i>>].step = step
  /\ at' = [at EXCEPT ![<<e, i>>] = Idle]
  /\ delegations' = IF e = holder THEN [delegations EXCEPT ![i] = done] ELSE delegations
  /\ UNCHANGED <<gone, archived, holder, passes>>

SaveFiles(e, i) == Checkpoint(e, i, "files", [delegations[i] EXCEPT !.saved = @ \/ Durable(i)])

\* Mutant: the row read at the start of the pass is trusted.
ReturnedBefore(i) == FALSE
Returned(i) == delegations[i].reviews # <<>> \/ delegations[i].finished

HandBack(e, i) ==
  Checkpoint(e, i, "return",
    IF Returned(i) THEN delegations[i]
    ELSE IF delegations[i].parent \in gone \/ ~at[<<e, i>>].paid
         THEN [delegations[i] EXCEPT !.finished = TRUE]
         ELSE [delegations[i] EXCEPT !.reviews = Append(@, "open")])

\* The review is over: the delegation is finished.
Finish(e, i) ==
  /\ e = holder
  /\ at[<<e, i>>] = Idle
  /\ Due(i)
  /\ delegations[i].reviews # <<>>
  /\ delegations[i].reviews[1] = "over"
  /\ delegations' = [delegations EXCEPT ![i].finished = TRUE]
  /\ UNCHANGED <<gone, archived, holder, passes, at>>

DelegationNext ==
  \/ \E p \in Pairs : DelegateTask(p[1], p[2])
  \/ \E i \in D, reached \in BOOLEAN : Dispatched(i, reached)
  \/ \E i \in D : RunOver(i) \/ ReviewOver(i)
  \/ \E c \in Partners : Retire(c) \/ Archived(c)
  \/ \E e \in Worker : PassLease(e)
  \/ \E e \in Worker, i \in D : Begin(e, i) \/ SaveFiles(e, i) \/ HandBack(e, i) \/ Finish(e, i)

\* Runs and reviews end, machines are archived in the end, and the executors keep
\* polling.
DelegationFairness ==
  /\ \A i \in 1..MaxDelegations :
       /\ WF_delegationVars(i \in D /\ (RunOver(i) \/ ReviewOver(i)))
       /\ WF_delegationVars(i \in D /\ \E e \in Worker : Begin(e, i) \/ SaveFiles(e, i) \/ HandBack(e, i) \/ Finish(e, i))
  /\ WF_delegationVars(\E c \in Partners : Archived(c))

DelegationSpec == DelegationInit /\ [][DelegationNext]_delegationVars /\ DelegationFairness

-----------------------------------------------------------------------------
\* Properties

\* No Companion waits, directly or through others, for itself (delegation.ts:18-24).
NoCircularWait == \A c \in Partners : c \notin Reachable(c)

\* Whichever executors work on it, and however old what they read, a delegation
\* starts at most one review, and none once it is finished or its parent was removed
\* (lifecycle.ts:239-254, retirement.ts:73).
ReturnedOnce ==
  [][\A i \in D : delegations'[i].reviews # delegations[i].reviews
        /\ "open" \in {delegations'[i].reviews[n] : n \in DOMAIN delegations'[i].reviews}
        => delegations[i].reviews = <<>> /\ ~delegations[i].finished /\ delegations[i].parent \notin gone
    ]_delegationVars

\* Every delegated task that ends is finished, unless the daemon never learned of it.
DelegationFinishes ==
  \A i \in 1..MaxDelegations :
    (i \in D /\ delegations[i].st = "over" /\ delegations[i].daemon # "lost")
      ~> (i \in D /\ delegations[i].finished)

\* Every delegated task that ends is finished (docs/lifecycle.md:143-144).
ResultComesBack ==
  \A i \in 1..MaxDelegations :
    (i \in D /\ delegations[i].st = "over") ~> (i \in D /\ delegations[i].finished)
=============================================================================
