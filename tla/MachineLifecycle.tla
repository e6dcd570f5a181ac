--------------------------- MODULE MachineLifecycle ---------------------------
(***************************************************************************)
(* The computers of the Companions (apps/server/src/lifecycle.ts,          *)
(* admission.ts, retirement.ts, box-observation.ts): a computer is asked   *)
(* for by a row, admitted within the capacity of the provider, created or  *)
(* resumed by a job of the leading executor, put to sleep by the provider, *)
(* and archived once its Companion is removed.                             *)
(*                                                                         *)
(* A job is one progressLifecycle of one Companion.  Between its awaits    *)
(* anything may happen; a job carries what it read of the row when it      *)
(* began.  Requests to the provider may be lost or answered too late.      *)
(***************************************************************************)
EXTENDS Naturals, FiniteSets

CONSTANTS
  Companion,
  Executor,   \* executor processes, as in RunExecution
  None,
  Limits      \* the values active_limit is configured to

ASSUME LifecycleAssumption ==
  /\ IsFiniteSet(Companion) /\ None \notin Executor \cup Companion
  /\ Limits \subseteq Nat

VARIABLES
  prepare,    \* companions.prepare_requested
  started,    \* preparation_started_at: "no", "fresh", "late" (5 minutes ago)
  created,    \* create_started_at IS NOT NULL: the intent to create
  box,        \* box_id IS NOT NULL
  endpoint,   \* endpoint_secret IS NOT NULL
  status,     \* companions.status
  digest,     \* config_digest is that of the configuration of the executors
  retired,    \* retired_at and archive_requested_at
  archived,   \* archived_at: "no", "asleep", "removed" (after the request)
  admission,  \* the open admission request of a Companion, or "none"
  limit,      \* machine_provider_limits.active_limit
  machine,    \* the Box made under create_key: "none", "running", "archived"
  wire,       \* requests on their way to the provider; "stray": a resume nobody waits for any more
  woken,      \* history: whose computer runs because of such a resume
  leader,     \* the executor that holds the lease
  job,        \* job[<<e, c>>]
  watch       \* the observation of a Box that is under way

intentVars == <<prepare, started, created>>
rowVars == <<box, endpoint, status, digest>>
endVars == <<retired, archived>>
outsideVars == <<machine, wire, woken>>
vars == <<intentVars, rowVars, endVars, admission, limit, outsideVars, leader, job, watch>>

PreparePc == {"admit", "allow", "intent", "create", "creating", "inspect", "resuming",
              "health", "ready"}
RetirePc == {"archive", "remove"}
\* Only a job that knows the Box looks at it.
Job == {j \in [pc : {"idle"} \cup PreparePc \cup RetirePc, box : BOOLEAN, reuse : BOOLEAN] :
          j.pc \in {"inspect", "resuming", "archive"} => j.box}
Idle == [pc |-> "idle", box |-> FALSE, reuse |-> FALSE]
Watch == [on : Companion, by : Executor, current : BOOLEAN, seen : {"unasked", "running", "archived"}]

TypeOK ==
  /\ prepare \in [Companion -> BOOLEAN]
  /\ started \in [Companion -> {"no", "fresh", "late"}]
  /\ created \in [Companion -> BOOLEAN]
  /\ box \in [Companion -> BOOLEAN]
  /\ endpoint \in [Companion -> BOOLEAN]
  /\ status \in [Companion -> {"new", "preparing", "ready", "error", "archived"}]
  /\ digest \in [Companion -> BOOLEAN]
  /\ retired \in [Companion -> BOOLEAN]
  /\ archived \in [Companion -> {"no", "asleep", "removed"}]
  /\ admission \in [Companion -> {"none", "queued", "admitted"}]
  /\ limit \in Limits
  /\ machine \in [Companion -> {"none", "running", "archived"}]
  /\ wire \subseteq [type : {"create", "resume", "stray"}, to : Companion]
  /\ woken \subseteq Companion
  /\ leader \in Executor \cup {None}
  /\ job \in [Executor \X Companion -> Job]
  /\ watch \in Watch \cup {None}

Init ==
  /\ prepare \in [Companion -> BOOLEAN]
  /\ started = [c \in Companion |-> "no"]
  /\ created = [c \in Companion |-> FALSE]
  /\ box = [c \in Companion |-> FALSE]
  /\ endpoint = [c \in Companion |-> FALSE]
  /\ status = [c \in Companion |-> "new"]
  /\ digest = [c \in Companion |-> FALSE]
  /\ retired = [c \in Companion |-> FALSE]
  /\ archived = [c \in Companion |-> "no"]
  /\ admission = [c \in Companion |-> "none"]
  /\ limit \in Limits
  /\ machine = [c \in Companion |-> "none"]
  /\ wire = {} /\ woken = {}
  /\ leader = None
  /\ job = [j \in Executor \X Companion |-> Idle]
  /\ watch = None

-------------------------------------------------------------------------------
(* Admission                                                               *)

\* A Companion that has, or may have, a computer that is not asleep.
Awake(c) == archived[c] = "no" /\ (endpoint[c] \/ box[c] \/ created[c])

\* occupancy: the Companions that hold a place.
Occupants == {c \in Companion : ~retired[c] /\ (admission[c] = "admitted" \/ Awake(c))}

\* Mutant: the place is not looked for.
DecideFreely(c) ==
  \/ /\ admission' = [admission EXCEPT ![c] = "admitted"]
     /\ prepare' = [prepare EXCEPT ![c] = @ \/ ~retired[c]]
  \/ admission' = [admission EXCEPT ![c] = "queued"] /\ UNCHANGED prepare

\* decide, under the global lock: a Companion with an awake computer needs no
\* place; the rates of starts and the cooldown may keep anyone waiting.
Decide(c) ==
  \/ /\ Awake(c) \/ Cardinality(Occupants) < limit
     /\ admission' = [admission EXCEPT ![c] = "admitted"]
     /\ prepare' = [prepare EXCEPT ![c] = @ \/ ~retired[c]]
  \/ admission' = [admission EXCEPT ![c] = "queued"] /\ UNCHANGED prepare

\* requestPreparation of the owner: an open request is returned as it is.
RequestPreparation(c) ==
  /\ ~retired[c] /\ admission[c] = "none"
  /\ Decide(c)
  /\ UNCHANGED <<started, created, rowVars, endVars, limit, outsideVars, leader, job, watch>>

\* progressMachineAdmissions, at the beginning of every job.
AdmitQueued(c) ==
  /\ leader # None /\ admission[c] = "queued"
  /\ Decide(c)
  /\ UNCHANGED <<started, created, rowVars, endVars, limit, outsideVars, leader, job, watch>>

ConfigureLimits ==
  /\ limit' \in Limits
  /\ UNCHANGED <<intentVars, rowVars, endVars, admission, outsideVars, leader, job, watch>>

-------------------------------------------------------------------------------
(* Executors and jobs                                                      *)

\* Nobody waits for this resume any more; the provider may execute it at any time.
Astray(m) == [type |-> "stray", to |-> m.to]

\* The lease is taken by a process with nothing left of an earlier one; the resumes of the
\* last one may still be on their way.  A new build of the server may configure its
\* computers anew.
Acquire(e) ==
  /\ leader = None /\ \A c \in Companion : job[<<e, c>>].pc = "idle"
  /\ watch # None => watch.by # e
  /\ leader' = e
  /\ wire' = {m \in wire : m.type # "resume"}
               \cup {Astray(m) : m \in {r \in wire : r.type = "resume"}}
  /\ digest' \in {digest, [c \in Companion |-> FALSE]}
  /\ UNCHANGED <<intentVars, box, endpoint, status, endVars, admission, limit, machine, woken, job,
                 watch>>
Lose ==
  /\ leader # None /\ leader' = None
  /\ UNCHANGED <<intentVars, rowVars, endVars, admission, limit, outsideVars, job, watch>>

At(e, c, pc) == job[<<e, c>>].pc = pc
Go(e, c, pc) == job' = [job EXCEPT ![<<e, c>>].pc = pc]
Stop(e, c) == job' = [job EXCEPT ![<<e, c>>] = Idle]

\* beforePrepareEffect: the executor leads, the row is still that of the job,
\* the Companion is not removed and its request is not waiting.
Allowed(e, c) ==
  /\ leader = e /\ box[c] = job[<<e, c>>].box
  /\ ~retired[c] /\ admission[c] # "queued"

JobFrame == UNCHANGED <<endVars, limit, leader, watch>>
JobLocal == UNCHANGED <<intentVars, rowVars, admission, outsideVars>> /\ JobFrame

\* LifecycleCoordinator takes a Companion that wants a computer.  The job may
\* reuse a ready one if its configuration is up to date.
BeginPrepare(e, c) ==
  /\ leader = e /\ At(e, c, "idle")
  /\ ~retired[c] /\ prepare[c]
  /\ job' = [job EXCEPT ![<<e, c>>] =
       [pc |-> "admit", box |-> box[c],
        reuse |-> status[c] = "ready" /\ endpoint[c] /\ box[c] /\ digest[c]]]
  /\ JobLocal

\* The request of the owner, or one the job makes itself; it goes on if admitted.
Admit(e, c) ==
  /\ At(e, c, "admit")
  /\ IF admission[c] = "none" /\ ~retired[c] THEN Decide(c) ELSE UNCHANGED <<admission, prepare>>
  /\ IF admission'[c] = "admitted" THEN Go(e, c, "allow") ELSE Stop(e, c)
  /\ UNCHANGED <<started, created, rowVars, outsideVars>> /\ JobFrame

\* The preparation ends in an error; the admission request stays open.
GiveUp(e, c) ==
  /\ leader = e
  /\ prepare' = [prepare EXCEPT ![c] = FALSE] /\ started' = [started EXCEPT ![c] = "no"]
  /\ status' = [status EXCEPT ![c] = "error"]
  /\ Stop(e, c)
  /\ UNCHANGED <<created, box, endpoint, digest, admission, outsideVars>> /\ JobFrame

\* The base image may not be published yet: the Companion waits for it.
Allow(e, c) ==
  /\ At(e, c, "allow")
  /\ \/ (job[<<e, c>>].box \/ Allowed(e, c)) /\ Go(e, c, "intent") /\ UNCHANGED status
     \/ /\ ~job[<<e, c>>].box /\ leader = e
        /\ status' = [status EXCEPT ![c] = "preparing"] /\ Stop(e, c)
  /\ UNCHANGED <<intentVars, box, endpoint, digest, admission, outsideVars>> /\ JobFrame

\* The owner may not start work: the intent is dropped with a visible error.
Disallow(e, c) ==
  /\ At(e, c, "allow") /\ leader = e /\ ~job[<<e, c>>].reuse
  /\ prepare' = [prepare EXCEPT ![c] = FALSE] /\ started' = [started EXCEPT ![c] = "no"]
  /\ status' = [status EXCEPT ![c] = IF @ = "ready" THEN "ready" ELSE "error"]
  /\ Stop(e, c)
  /\ UNCHANGED <<created, box, endpoint, digest, admission, outsideVars>> /\ JobFrame

\* The intent is durable before the provider is asked for anything, with the
\* lease as its only guard; five minutes later the preparation is given up.
Intend(e, c) ==
  /\ At(e, c, "intent") /\ leader = e
  /\ IF started[c] = "late" THEN GiveUp(e, c)
     ELSE /\ started' = [started EXCEPT ![c] = "fresh"]
          /\ IF started[c] = "no"
             THEN /\ created' = [created EXCEPT ![c] = TRUE]
                  /\ status' = [status EXCEPT ![c] = IF job[<<e, c>>].reuse THEN @ ELSE "preparing"]
             ELSE UNCHANGED <<created, status>>
          /\ Go(e, c, CASE job[<<e, c>>].reuse -> "health"
                        [] ~job[<<e, c>>].reuse /\ job[<<e, c>>].box -> "inspect"
                        [] OTHER -> "create")
          /\ UNCHANGED <<prepare, box, endpoint, digest, admission, outsideVars>> /\ JobFrame

\* prepareBox asks for one Box by the key of the Companion; or the key is too old.
Create(e, c) ==
  /\ At(e, c, "create")
  /\ \/ /\ Allowed(e, c)
        /\ wire' = wire \cup {[type |-> "create", to |-> c]} /\ Go(e, c, "creating")
        /\ UNCHANGED <<intentVars, rowVars, admission, machine, woken>> /\ JobFrame
     \/ GiveUp(e, c)

\* The answer names the Box made for this key, and is written down at once.
Created(e, c) ==
  /\ At(e, c, "creating") /\ leader = e
  /\ machine[c] # "none" /\ [type |-> "create", to |-> c] \notin wire
  /\ box' = [box EXCEPT ![c] = TRUE]
  /\ job' = [job EXCEPT ![<<e, c>>] = [@ EXCEPT !.pc = "inspect", !.box = TRUE]]
  /\ UNCHANGED <<intentVars, endpoint, status, digest, admission, outsideVars>> /\ JobFrame

\* The create was refused, or no answer came: the request may still arrive.
CreateFails(e, c) == At(e, c, "creating") /\ GiveUp(e, c)

\* The provider refused the create because its image is gone, which it confirmed:
\* nothing was made, and the preparation starts again with another image.
ImageMissing(e, c) ==
  LET create == [type |-> "create", to |-> c] IN
  /\ At(e, c, "creating") /\ create \in wire /\ machine[c] = "none" /\ Allowed(e, c)
  /\ wire' = wire \ {create}
  /\ created' = [created EXCEPT ![c] = FALSE] /\ started' = [started EXCEPT ![c] = "no"]
  /\ Stop(e, c)
  /\ UNCHANGED <<prepare, rowVars, admission, machine, woken>> /\ JobFrame

\* The known Box is looked at: one that sleeps is resumed; else it gets its
\* environment, services and private host, unless its configuration is current.
Inspect(e, c) ==
  /\ At(e, c, "inspect") /\ Allowed(e, c)
  /\ \/ /\ machine[c] = "archived" /\ wire' = wire \cup {[type |-> "resume", to |-> c]}
        /\ Go(e, c, "resuming") /\ UNCHANGED digest
     \/ /\ machine[c] = "running" /\ endpoint[c] /\ digest[c]
        /\ Go(e, c, "health") /\ UNCHANGED <<wire, digest>>
     \/ /\ machine[c] = "running" /\ digest' = [digest EXCEPT ![c] = TRUE]
        /\ Go(e, c, "health") \/ Stop(e, c)
        /\ UNCHANGED wire
  /\ UNCHANGED <<intentVars, box, endpoint, status, admission, machine, woken>> /\ JobFrame

\* The set-up of the Box has failed.
SetupFailed(e, c) == At(e, c, "inspect") /\ machine[c] = "running" /\ GiveUp(e, c)

\* The job ends with the answer to its resume, or without one: the call times out and the
\* request may still arrive.  What a former leader had sent is astray already.
Resumed(e, c) ==
  LET resume == [type |-> "resume", to |-> c] IN
  /\ At(e, c, "resuming")
  /\ \/ leader = e /\ wire' = wire \ {resume}
     \/ leader = e /\ resume \in wire /\ wire' = (wire \ {resume}) \cup {Astray(resume)}
     \/ leader # e /\ UNCHANGED wire
  /\ Stop(e, c)
  /\ UNCHANGED <<intentVars, rowVars, admission, machine, woken>> /\ JobFrame

Health(e, c) ==
  /\ At(e, c, "health") /\ leader = e
  /\ \/ machine[c] = "running" /\ Go(e, c, "ready") /\ UNCHANGED endpoint
     \/ endpoint' = [endpoint EXCEPT ![c] = FALSE] /\ Stop(e, c)
  /\ UNCHANGED <<intentVars, box, status, digest, admission, outsideVars>> /\ JobFrame

\* Mutant: no new ready event.
ReadyQuietly(e, c) ==
  /\ At(e, c, "ready") /\ leader = e
  /\ \/ prepare' = [prepare EXCEPT ![c] = FALSE] /\ started' = [started EXCEPT ![c] = "no"]
     \/ prepare' = [prepare EXCEPT ![c] = TRUE] /\ UNCHANGED started
  /\ status' = [status EXCEPT ![c] = "ready"]
  /\ endpoint' = [endpoint EXCEPT ![c] = TRUE]
  /\ digest' = [digest EXCEPT ![c] = TRUE]
  /\ archived' = [archived EXCEPT ![c] = "no"]
  /\ admission' = [admission EXCEPT ![c] = IF @ = "admitted" THEN "none" ELSE @]
  /\ UNCHANGED watch
  /\ Stop(e, c)
  /\ UNCHANGED <<created, box, retired, limit, outsideVars, leader>>

\* The ready checkpoint; skills waiting to be exported keep the intent.  A
\* computer that was not reused gets a new ready event.
Ready(e, c) ==
  /\ At(e, c, "ready") /\ leader = e
  /\ \/ prepare' = [prepare EXCEPT ![c] = FALSE] /\ started' = [started EXCEPT ![c] = "no"]
     \/ prepare' = [prepare EXCEPT ![c] = TRUE] /\ UNCHANGED started
  /\ status' = [status EXCEPT ![c] = "ready"]
  /\ endpoint' = [endpoint EXCEPT ![c] = TRUE]
  /\ digest' = [digest EXCEPT ![c] = TRUE]
  /\ archived' = [archived EXCEPT ![c] = "no"]
  /\ admission' = [admission EXCEPT ![c] = IF @ = "admitted" THEN "none" ELSE @]
  /\ watch' = IF ~job[<<e, c>>].reuse /\ watch # None /\ watch.on = c
              THEN [watch EXCEPT !.current = FALSE] ELSE watch
  /\ Stop(e, c)
  /\ UNCHANGED <<created, box, retired, limit, outsideVars, leader>>

\* A guard or a checkpoint that fails (the lease is lost, the owner or the row has
\* changed, a run is at work), or a request to a known Box that does.
Abandon(e, c) ==
  /\ job[<<e, c>>].pc \notin {"idle", "resuming"}
  /\ Stop(e, c)
  /\ JobLocal

-------------------------------------------------------------------------------
(* Removal                                                                 *)

Retire(c) ==
  /\ ~retired[c]
  /\ retired' = [retired EXCEPT ![c] = TRUE]
  /\ prepare' = [prepare EXCEPT ![c] = FALSE]
  /\ UNCHANGED <<started, created, rowVars, archived, admission, limit, outsideVars, leader, job,
                 watch>>

\* Mutant: a create that was never answered made nothing.
BeginRetireForgetting(e, c) ==
  /\ leader = e /\ At(e, c, "idle")
  /\ retired[c] /\ archived[c] # "removed"
  /\ job' = [job EXCEPT ![<<e, c>>] =
       [pc |-> IF box[c] THEN "archive" ELSE "remove", box |-> box[c], reuse |-> FALSE]]
  /\ JobLocal

\* progressRetirements: a Box that was never asked for needs no archiving, one
\* whose create was not answered waits for its identity.
BeginRetire(e, c) ==
  /\ leader = e /\ At(e, c, "idle")
  /\ retired[c] /\ archived[c] # "removed"
  /\ box[c] \/ ~created[c]
  /\ job' = [job EXCEPT ![<<e, c>>] =
       [pc |-> IF box[c] THEN "archive" ELSE "remove", box |-> box[c], reuse |-> FALSE]]
  /\ JobLocal

\* archiveMachine: the Box is stopped until it is seen archived.
ArchiveBox(e, c) ==
  /\ At(e, c, "archive") /\ leader = e /\ box[c] = job[<<e, c>>].box
  /\ IF machine[c] = "archived" THEN Go(e, c, "remove") /\ UNCHANGED <<machine, woken>>
     ELSE /\ Stop(e, c)
          /\ machine' = [machine EXCEPT ![c] = "archived"] /\ woken' = woken \ {c}
  /\ UNCHANGED <<intentVars, rowVars, admission, wire>> /\ JobFrame

Remove(e, c) ==
  /\ At(e, c, "remove") /\ leader = e /\ box[c] = job[<<e, c>>].box
  /\ archived' = [archived EXCEPT ![c] = "removed"]
  /\ status' = [status EXCEPT ![c] = "archived"]
  /\ endpoint' = [endpoint EXCEPT ![c] = FALSE]
  /\ prepare' = [prepare EXCEPT ![c] = FALSE]
  /\ admission' = [admission EXCEPT ![c] = IF @ = "admitted" THEN "none" ELSE @]
  /\ Stop(e, c)
  /\ UNCHANGED <<started, created, box, digest, retired, limit, outsideVars, leader, watch>>

-------------------------------------------------------------------------------
(* Observation of sleeping computers                                       *)

\* BoxObserver asks for the Box of a ready Companion, one at a time.
Observe(e, c) ==
  /\ leader = e /\ (watch # None => watch.by # e)
  /\ box[c] /\ ~retired[c] /\ status[c] = "ready" /\ ~prepare[c]
  /\ watch' = [on |-> c, by |-> e, current |-> TRUE, seen |-> "unasked"]
  /\ UNCHANGED <<intentVars, rowVars, endVars, admission, limit, outsideVars, leader, job>>

Seen ==
  /\ watch # None /\ watch.seen = "unasked" /\ machine[watch.on] # "none"
  /\ watch' = [watch EXCEPT !.seen = machine[watch.on]]
  /\ UNCHANGED <<intentVars, rowVars, endVars, admission, limit, outsideVars, leader, job>>

\* observeBox: the answer counts if the row is still the one observed and no
\* newer ready event was recorded; else, or without an answer, it is dropped.
Observed ==
  /\ watch # None
  /\ watch' = None
  /\ LET c == watch.on IN
       IF /\ watch.seen = "archived" /\ watch.current /\ leader = watch.by
          /\ ~retired[c] /\ ~prepare[c] /\ status[c] = "ready"
       THEN /\ status' = [status EXCEPT ![c] = "archived"]
            /\ archived' = [archived EXCEPT ![c] = "asleep"]
            /\ endpoint' = [endpoint EXCEPT ![c] = FALSE]
       ELSE UNCHANGED <<status, archived, endpoint>>
  /\ UNCHANGED <<intentVars, box, digest, retired, admission, limit, outsideVars, leader, job>>

-------------------------------------------------------------------------------
(* The provider, time, and the runs of the Companion                       *)

\* The create key makes one Box however often it is asked for.
Deliver(m) ==
  /\ m \in wire
  /\ wire' = wire \ {m}
  /\ machine' = [machine EXCEPT ![m.to] = IF m.type = "create" /\ @ # "none" THEN @ ELSE "running"]
  /\ woken' = IF m.type = "stray" /\ machine[m.to] # "running" THEN woken \cup {m.to} ELSE woken
  /\ UNCHANGED <<intentVars, rowVars, endVars, admission, limit, leader, job, watch>>

\* The provider archives a Box nobody uses.
FallAsleep(c) ==
  /\ machine[c] = "running"
  /\ machine' = [machine EXCEPT ![c] = "archived"] /\ woken' = woken \ {c}
  /\ UNCHANGED <<intentVars, rowVars, endVars, admission, limit, wire, leader, job, watch>>

Elapse(c) ==
  /\ started[c] = "fresh"
  /\ started' = [started EXCEPT ![c] = "late"]
  /\ UNCHANGED <<prepare, created, rowVars, endVars, admission, limit, outsideVars, leader, job,
                 watch>>

\* A run, a desktop takeover or skills to deliver want the computer.
Want(c) ==
  /\ ~retired[c] /\ ~prepare[c]
  /\ prepare' = [prepare EXCEPT ![c] = TRUE]
  /\ UNCHANGED <<started, created, rowVars, endVars, admission, limit, outsideVars, leader, job,
                 watch>>

\* progressRun found the agent unready and asks for repair, or lost it.
LoseEndpoint(c) ==
  /\ leader # None /\ ~retired[c] /\ endpoint[c]
  /\ endpoint' = [endpoint EXCEPT ![c] = FALSE]
  /\ \/ prepare' = [prepare EXCEPT ![c] = TRUE] /\ UNCHANGED status
     \/ status' = [status EXCEPT ![c] = "error"] /\ UNCHANGED prepare
  /\ UNCHANGED <<started, created, box, digest, endVars, admission, limit, outsideVars, leader, job,
                 watch>>

-------------------------------------------------------------------------------
PrepareStep(e, c) ==
  \/ Admit(e, c) \/ Allow(e, c) \/ Disallow(e, c) \/ Intend(e, c)
  \/ Create(e, c) \/ Created(e, c) \/ CreateFails(e, c) \/ ImageMissing(e, c)
  \/ Inspect(e, c) \/ SetupFailed(e, c) \/ Resumed(e, c) \/ Health(e, c) \/ Ready(e, c)

RetireStep(e, c) == BeginRetire(e, c) \/ ArchiveBox(e, c) \/ Remove(e, c)

Next ==
  \/ ConfigureLimits \/ Lose \/ Seen \/ Observed
  \/ \E e \in Executor : Acquire(e)
  \/ \E m \in wire : Deliver(m)
  \/ \E c \in Companion :
       \/ RequestPreparation(c) \/ AdmitQueued(c) \/ Retire(c) \/ FallAsleep(c) \/ Elapse(c)
       \/ Want(c) \/ LoseEndpoint(c)
  \/ \E e \in Executor, c \in Companion :
       \/ BeginPrepare(e, c) \/ PrepareStep(e, c) \/ RetireStep(e, c) \/ Abandon(e, c)
       \/ Observe(e, c)

Spec == Init /\ [][Next]_vars

-------------------------------------------------------------------------------
(* Properties                                                              *)

\* A Companion takes a place only within the capacity configured at that time:
\* what holds a place through its computer was admitted before.
WithinLimit ==
  [][Occupants' \ Occupants # {} => Cardinality(Occupants') <= limit']_vars

\* The computer of a Companion that was not removed runs in a place it holds, unless a
\* resume woke it that nobody waited for any more.
RunsInItsPlace ==
  \A c \in Companion :
    machine[c] = "running" /\ c \notin woken /\ ~retired[c] => c \in Occupants

\* A removal is complete only when no computer of the Companion runs, or will: one that may
\* have been created waits until its identity is known.  Nothing the server still waits for
\* can wake it again; only a resume that was given up before can.
RemovedIsStopped ==
  \A c \in Companion : archived[c] = "removed" =>
    /\ machine[c] = "running" => c \in woken
    /\ \A m \in wire : m.to = c => m.type = "stray"

\* "Request preparation to retry.": a preparation that had begun and ends in an
\* error leaves no open request, which requestPreparation would return as it is.
RetryIsHeard ==
  [][\A c \in Companion :
       started[c] # "no" /\ ~retired[c] /\ status'[c] = "error" /\ prepare[c] /\ ~prepare'[c]
         => admission'[c] = "none"]_vars
===============================================================================
