# Verification of companions.build

This directory holds the TLA+ models of companions.build, the TLC
configurations that check them on small instances, and the proofs that TLAPS
checks for every value of their constants. Paths below are relative to the
repository; definitions are those of the `.tla` files next to this one.

    tlasany RunExecution.tla                          parse a module
    tlc -config run_solo.cfg MCRunExecution.tla       check a run
    tlapm RunExecutionProofs.tla                      check the proofs of a module

Contents: [the system](#the-system), [plan](#plan), [run execution](#run-execution),
[the agent daemon](#the-agent-daemon), [machines](#machines), [runtime
updates](#runtime-updates), [discussions, delegation and
Apps](#discussions-delegation-and-apps), [visits to a
machine](#visits-to-a-machine), [journalled stores](#journalled-stores), [runs
and bounds](#runs-and-bounds), [fairness](#fairness), [proofs](#proofs),
[disagreements](#disagreements-found), [what is left out](#what-is-left-out).

## The system

A *Companion* is an agent with a computer of its own. The owner chats with it
(the **main** lane, where a message may be steered into the response that is
under way) and it does delegated and scheduled work (the **background** lane,
one task at a time). Everything durable is in PostgreSQL.

    web client --> API --+                  +--> Box provider (create, resume, get, snapshot)
                         v                  |
                    PostgreSQL <------ executor (one leader, advisory lock)
                         ^                  |
    model gateway -------+                  +--> agent daemon on the Companion's computer
    Stripe webhook ------+                  |      journal (SQLite), Pi sessions, control outbox
                                            +--> desktop broker, runtime installer, same computer

| Part | State it keeps | Operations | What is hard | What makes it correct |
| --- | --- | --- | --- | --- |
| Run execution, `apps/server/src/executor.ts`, `task-runtime.{ts,sql}` | table `runs` (status, dispatched, cancel and resume requests), advisory lock 721440139, detached jobs in memory | acquire the lock; tick: deny, claim, wake machines; `progressRun`: admit, dispatch, observe, resume, cancel, settle | jobs outlive the tick and the leadership they began under; requests time out and are executed later; verdicts rest on an answer read awaits ago | dispatched at most once, cancelled means stopped, settled once and finally |
| Requests on runs, `store.ts`, `tasks.ts`, `chat.ts`, `control-product.ts` | the same rows | submit, stop the chat, cancel a task, `task_cancel`, answer a question | they meet a job between any two of its awaits; steered messages share one response | only what was asked to stop is stopped |
| Agent daemon, `packages/agent/src/{daemon,journal,pi-executor}.ts` | journal of run ids, `activeRuns`, `parkedRuns`, `cancelling`, `resumingBackground`, maintenance | PUT, cancel, suspend, resume, maintenance, files, restart | handlers await the session between a guard and its use; the lane is given back and taken again over an await | an accepted id is executed once and settled once, lanes are given back, maintenance waits |
| Machine lifecycle, `lifecycle.ts`, `machines.ts` | `companions` (intent, start, Box, endpoint, status), `create_started_at` | prepare: admit, allow, intend, create, inspect, resume, health, ready | minutes between reading the row and writing it; a create whose answer is lost; lease lost at any await | a computer runs only in a counted place; an effect follows a durable intent |
| Machine admission, `admission.{ts,sql}` | admission requests, limits | request, decide under lock, limits | computers sleep, wake and are removed between two decisions | never beyond the capacity |
| Companion retirement, `retirement.ts` | `retired_at`, `archived_at` | cancel runs, archive the computer, complete | a Box that may or may not exist; runs that end meanwhile | complete only when nothing works or can wake |
| Box observation, `box-observation.{ts,sql}` | machine events, `archived_at` | notice a sleeping Box | the answer of GET is applied after a preparation | never counts out a running computer |
| Runtime updates, `runtime-updates.{ts,sql}`, `packages/box/linux/update-runtime.py` | update jobs, one active globally; the installer's journal and three directories | stage, drain, apply, verify, reconcile, roll back | a kill between any two writes of an installation; an answer given up; drained daemons | old files survive until new ones are chosen, never over running work, never silently fenced |
| Group discussions, `discussions.{ts,sql}`, `discussion-executor.ts` | discussion turns, tool journal, tasks | claim, coordinator turns, continuation, stop | a turn taken over or stopped between two tool calls | each call once, one continuation per result, a closed turn is silent |
| Delegation, `delegation.ts`, `lifecycle.ts:231-260` | `task_delegations` | delegate, save files, create the review, finish | crash between saving files and creating the review; removal of either side | one review per result, no circle of waiting Companions |
| Plugins and OAuth, `plugins.{ts,sql}`, `packages/plugins` | links, accounts with tokens, selections; the projection in the daemon | connect, refresh, check, select, project | rotating tokens shared by runs and checks; a commit that fails; restarts on either side | the stored token is the provider's, the machine follows the selection |
| Control MCP, `control.ts`, `packages/control/agent.ts`, `runtime-product.ts` | outbox of the daemon, `control_commands`, questions | claim, effect, result; ask, park, answer, resume | crash or change of the leader between claim and result | no effect twice, no false success |
| Desktop broker, `packages/desktop`, `lifecycle.ts:61-69, 192-206` | intent and generation, action journal | take over, release, tool actions | a release overtakes a takeover; a broker that dies with a key pressed | a confirmed takeover finds a quiet desktop |
| Files and storage, `files.ts`, `storage.ts`, `runtime-product.ts` | attachments, objects, the daemon's outputs | upload, share, harvest, settle | bytes and row in two systems; two harvests of one output | a row has its bytes, a settled task its outputs |
| The response of a run, `pi-executor.ts:234-302`, `journal.ts:94`, `executor.ts:68-115` | the snapshot in the executor of the daemon, its copy in the journal, the rows of messages and usage | tell, hand over, read, write, settle | previews are dropped, visits that outlive their leader write what they read before, the verdict follows the last snapshot | the chat shows what the model said, all of it at a success |
| Event stream, `events.{ts,sql}` | one LISTEN connection, subscriptions, counts, what each stream has to tell | notify, hear, subscribe, flush, end | a notification between two steps of a reconnection or subscription; several callbacks that end one stream | a page with old data is told; places are given back |
| Memory service, `packages/agent/src/memory-*.ts` | SQLite rows, receipts, index, snapshots | save, delete, search, maintain | a call that timed out after its commit; an index that is behind | a repeated operation acts once, a trusted index is complete |
| Skills of a machine, `packages/control/skills.ts` | directories, requests, removal journal | install, update, remove, import | death between two renames | a retried removal spares what came later |
| Managed base image, `managed-base-image.{ts,sql}` | publications, pins of Companions | build, capture, verify, serve, delete | lost answers of create and snapshot; delete against create | no effect of the provider repeated, a creation keeps its image |
| Model gateway, `model-gateway.{ts,sql}` | tokens of runs, requests, slots, body budget | admit, claim, forward, pump, settle | two processes, repeated requests, many ways out | the provider is asked once, no slot leaks |
| Accounts, billing and usage, `billing.{ts,sql}`, `usage.ts` | customer, subscriptions, ledger | webhook, record, flush | events in any order; delivery interrupted between any two statements | access is what Stripe said last, usage counted once |
| Others: deliveries and maintenance grants, HTTP API, Box client, web client | | | | queries, rendering and calls to libraries |

`PROJECT.json` has every component with its status, and under `hazards` what is
hard to test in this code, line by line, with the property that covers it or
why none does.

## Plan

The order was that of the importance to an owner: runs are what owners see, the
daemon is what runs depend on, machines are what both depend on; then whatever
replaces software under running work, what Companions do together, what an
executor carries between the database and a machine, and the stores that must
survive a kill.

| Module | Is about | Relation |
| --- | --- | --- |
| `RunContract` | abstract: what the control plane promises the owner of every run | refined by `RunExecution` |
| `DaemonContract` | abstract: what the daemon promises about run ids | used by `RunExecution`, refined by `AgentDaemon` |
| `RunExecution` | executors, requests and rows, composed with `DaemonContract` over a lossy, late network | `EXTENDS DaemonContract` |
| `AgentDaemon` | the daemon with the awaits of its handlers | `INSTANCE DaemonContract` |
| `MachineLifecycle` | admission, preparation, sleep and removal of computers | its effect on runs is in `RunExecution` |
| `RuntimeInstaller` | the installer of a Box and its journal, write by write | |
| `RuntimeUpdate` | the update job of the control plane over the installer | `EXTENDS RuntimeInstaller` |
| `Discussions`, `Delegation`, `Plugins` | what Companions have in common: turns and tasks, results and reviews, grants and projections | their tasks are `RunExecution`'s runs in outline |
| `ControlCommands`, `Desktop`, `Files` | what an executor carries between PostgreSQL and a machine | |
| `ResponseContract` | abstract: what the owner is promised of the text of a response | refined by `ResponseStream` |
| `ResponseStream`, `EventStream` | the text of a response on its way to the chat; how a page learns of a change | |
| `MemoryStore`, `LocalSkills`, `BaseImages`, `ModelGateway`, `Billing` | journalled stores, their crashes and their repeated requests | |
| `RunExecutionProofs`, `DaemonContractProofs`, `AgentDaemonProofs`, `MachineLifecycleProofs`, `RuntimeUpdateProofs` | theorems about the module of that name | `EXTENDS` it and `TLAPS` |
| `VisitProofs`, `StoreProofs`, `ProductProofs` | theorems about the modules of `MCVisits`, `MCStores`, `MCProduct` | `EXTENDS` them; each has a section of its own |
| `MCRunExecution`, `MCMachineLifecycle`, `MCProduct`, `MCVisits`, `MCStores` | symmetries, bounds and the choice of a part for TLC | |

What would come next, most important first: abstract specifications of the update and of
the memory, refined by their modules; that the tasks of `Discussions` and `Delegation` are
runs of `RunExecution` (they are summaries of it, by inspection); the liveness of removals.

## Run execution

`RunExecution` has one Companion and any number of runs and executors.

| Variable | In the code |
| --- | --- |
| `status`, `dispatched`, `cancelReq`, `resumeReq` | columns of `runs` |
| `age` | time since `started_at` or `prepared_at`: 0 fresh, 1 past the five minutes of preparation, 2 past the ten minutes without an answer and the two hours of a task |
| `endpoint`, `issued`, `prepareReq`, `life` | `companions.endpoint_secret` (as a generation), generations issued, `prepare_requested`, `retired_at`/`archived_at` |
| `leader`, `tick` | the session that holds the advisory lock, and the statement its tick is at |
| `job[<<e, r>>]` | the `progressRun` of run `r` in process `e`: the await it is at (`pc`), the endpoint it read (`ep`), what it carries to its next statement (`out`) |
| `net` | requests on their way to the daemon, also those whose sender gave up |
| `puts` | history: PUT requests sent |
| `journal`, `root`, `active` | the daemon's table of runs, response roots and `activeRuns` (`DaemonContract`) |

| Actions | In the code |
| --- | --- |
| `Acquire`, `Lose` | `acquireExecutor`, the loss of its connection or process |
| `Deny`, `Claim`, `Wake` | the statements of `tick`; a unique index that refuses the claim ends the main loop |
| `StartCancelled`, `StartResume`, `StartAdmission`, `StartObservation` | the branches `progressRun` takes after reading the row |
| `Probe`, `Prior`, `ProbeFails`, `Unready`, `AskPreparation`, `Stage`, `Recheck`, `Dispatch`, `SendPut` | admission of a new run, one action per await |
| `StopRun`, `Peek`, `Peeked`, `Resumed` | resumption of a parked run |
| `CancelRun`, `Observe`, `Apply` | observation of a dispatched run; `Apply` includes the suspension of a run by `observeRun` |
| `Settle`, `DropEndpoint`, `Fail`, `StopWithoutAuthority` | `settle`, the `catch` of `progressRun`, `assertActive` |
| `DeliverPut`, `DeliverCancel`, `DeliverResume`, `Refuse` | the daemon serves a request, perhaps long after its sender timed out; any of the waiting jobs may get the answer |
| `DaemonAlone` | the agent ends, parks on a question, loses a steer; the daemon restarts |
| `Submit`, `CancelTask`, `CancelChat`, `ToolCancel`, `Answer` | `acceptMessage`/`enqueueBackground`, `cancelTask`, `cancel`, `task_cancel`, `requestRunResume` |
| `Retire`, `RetireCancel`, `RetireSettle`, `Archive` | `retireCompanion`, `progressRetirements` |
| `MachineReady`, `MachineFails`, `MachineRefused`, `MachineAsleep` | how lifecycle ends a preparation (see `MachineLifecycle`), and `observeBox` |
| `Elapse` | time |

Choices worth knowing:

- The answer of GET `/runs` or `/health` is read in one step and applied in a later
  one, so everything may change in between. POST and PUT are sent, delivered and
  answered in separate steps, or never. A request that was never delivered and one
  whose answer is lost look the same to its sender, as they do in the code.
- The checkpoints that clear the endpoint (`Unready`, `DropEndpoint`) check the
  leader and the Companion but not the generation of the endpoint, so they may
  clear a newer one. That is what the code does and part of what is checked.
- The order of claims within a lane is a free choice: the properties hold for any.
  The gate of claims by runtime updates and the eight slots per kind of
  `RunCoordinator` only take behaviours away, and are left out.
- A job of a former leadership keeps the session it captured, so it may go on
  but writes nothing. A process is used again only once its old jobs ended, which
  the models express by reusing its name.

Properties, all about several actors and several steps:

- `AtMostOnePut`: over all executors, retries and reconnections a run is PUT once.
- `CancelledIsStopped`: what is shown as cancelled is not worked on, and no
  request that could start it is on its way.
- `CancelledWasAsked`: a dispatched run is shown as cancelled only if it, or a
  message of its own response, was to be stopped or past its limit. Stopping an orphan
  never hits the task that has the lane by then. The limit is in it for a reason: a run
  past the limit is cancelled on the machine and settled as interrupted, but if the lead
  is lost in between, the next executor reads `cancelled` in the journal and shows that.
- `KeepsContract`: `RunExecution` implements `RunContract`. A run is accepted, decided
  (`dispatched`), worked on and reported, in that order and each at most once;
  success is reported only of work that succeeded, and cancellation only of work
  that is not going on.
- `ClaimedRunSettles` (liveness): while a leader lasts, a claimed run is settled.

## The agent daemon

`AgentDaemon` is one thread: a handler is atomic between two awaits. What interleaves
is the rest of a cancel (waiting for the session to abort, `Aborted`), of a suspend
or resume (`Parked`), of an execution that closes its tools after its agent
ended (`exec = "closing"`, `Return`), and steered messages not yet taken by the
session (`Submitted`).

| Variable | In the code |
| --- | --- |
| `journal`, `root`, `active` | rows of `runs.sqlite`; `activeRuns` |
| `cancelling`, `parkedRuns`, `resuming`, `maintenance`, `mutations` | the fields of `AgentDaemon` of the same meaning |
| `exec`, `result`, `accepting`, `held` | `ActiveExecution` in `pi-executor.ts`: its phase, its outcome, `accepting`, `parked` |
| `submitted`, `aborts`, `parks` | continuations that wait: steers, cancels, suspends and resumes |

Two statements that follow each other without an await are one action:
`active.delete`, the settlement of the group and the release of the lane are
`Return`. Left out as invisible to the properties: progress writes, the counter
of mutations going up and down within a `/runs/` request, `resumingBackground`
set and cleared when the executor refuses at once, and the ids left in
`executor.cancelled`.

- `ImplementsContract`: every step is a step of `DaemonContract` or none. This is
  what entitles `RunExecution` to use the contract in place of the daemon.
- `NeverBusy`: an id that enters the journal as a root is executed; the lane checks
  of `put` and the executor's own never disagree.
- `MaintenanceWaits`: maintenance is granted over no upload and no background work.
- `LaneIsVacated` (liveness): a lane whose occupant stopped accepting is given back.

## Machines

`MachineLifecycle` has the Companions, their rows, their admission requests, the
jobs of `progressLifecycle` and `progressRetirements`, the observer, and the provider
(`machine`, `wire`: `Deliver` and `FallAsleep` are external).

| Actions | In the code |
| --- | --- |
| `RequestPreparation`, `AdmitQueued`, `Decide`, `ConfigureLimits` | `requestPreparation`, `progressMachineAdmissions`, `decide`, `configureProviderMachineLimits` |
| `BeginPrepare`, `Admit`, `Allow`, `Disallow`, `Intend` | `progressLifecycle` up to the durable intent |
| `Create`, `Created`, `CreateFails`, `ImageMissing` | `prepareBox` of an unknown Box, by an idempotency key |
| `Inspect`, `SetupFailed`, `Resumed`, `Health`, `Ready` | a known Box: resume, configure, health, the ready checkpoint |
| `GiveUp`, `Abandon` | the error exits: with a visible error, or silently when a guard fails |
| `Retire`, `BeginRetire`, `ArchiveBox`, `Remove` | removal |
| `Observe`, `Seen`, `Observed` | `BoxObserver`: choose, GET, apply |
| `Want`, `LoseEndpoint` | runs, desktop and skills that want the computer; `progressRun` that lost it |

- `WithinLimit`: whoever takes a place does so within the capacity configured then.
- `RunsInItsPlace`: a running computer of a Companion that was not removed is
  counted. This is what could fail when an old observation is applied after
  a wake-up.
- `RemovedIsStopped`: a removal completes only when nothing runs, nothing can be
  created, and nothing the server still waits for can wake.

Both excuse a computer that a *stray* resume woke (`woken`, a history variable). A resume has
a timeout and no fence (`machines.ts:162`): when its sender stops waiting, or loses the
lease, the request is astray (`Astray`) and the provider may execute it at any later time.
It may find the computer of a Companion that has given its place back, or whose
removal is complete; then the computer runs outside of every count until it falls asleep
by itself. The code cannot know of it, and no text of the repository promises
otherwise. What the properties say is that this is the only way.

Abstractions: only Box machines (not local Docker); rates of starts and the
cooldown are a free choice to keep a request queued; which queued request is
admitted is free; GET and configuration of a Box are one step (`Inspect`); the
configuration digest grows stale only with a new build of the server, at a
new lease; whether skills keep the intent after `Ready` is a free choice; the
observer looks at one Box at a time; `cancelling`, `cancelled` and `refused` are never
written by the code and are absent.

## Runtime updates

`RuntimeInstaller` is `update-runtime.py` on the Box: it holds `update.lock`, copies the
new runtime aside, freezes and stops the agent service, exchanges the directories,
starts the service and verifies it, and can take all of that back. A step is one
effect together with the journal entry written before it, so a kill (`Killed`,
`BoxRestarts`) falls between any two of them. `RuntimeUpdate` puts the job of
`runtime-updates.ts` on top, and the one run of the Companion it must not hit.

| Variable | In the code |
| --- | --- |
| `installed`, `candidate`, `retained`, `spare` | `/opt/companions` and the three directories beside it, each old, new or torn |
| `journal`, `proc` | the journal file of each update; the process that holds the lock, at the effect that comes next |
| `daemon` | the agent's unit, the executable it runs, its maintenance flag, its run |
| `job`, `status` | `runtime_updates.state`, `companions.runtime_update_status` |
| `ex`, `leader`, `past` | the position of each executor in `progressRuntimeUpdate`; the backend that holds the lease, and those that held it |
| `inbox`, `answer` | commands on their way to the Box, results to callers that still wait |

| Actions | In the code |
| --- | --- |
| `Claim`, `TakeLease`, `Tick` | the claim of a run, which the fence holds off; the lock 721440139, which a backend that lost it does not take again; the admission of an update or the branch taken from its row |
| `StagingHealth`, `Stage`, `Settle`, `InstallHealth`, `Drain`, `SendApply` | staging, the durable intent, the drained daemon, the request |
| `Await`, `Inspect`, `Accept`, `Verify`, `FinishGuard`, `FinishReopen`, `FinishCommit` | answers and the journal, the five health polls, `finish()` |
| `Apply...`, `Rollback...`, `Reconcile...`, `Requested...` | the commands of the installer |
| `Deliver`, `Dispatch`, `RunEnds`, `ExecutorDies`, `DaemonRestarts` | late delivery, the run, the faults |

- `OldFilesKept`: wherever installer or Box stop, the old files are in one of the
  directories until the new ones were chosen.
- `StopFindsNoRun`: an installation never stops a daemon with a run; fence, idle checks
  and maintenance flag hold across timeouts, restarts and changes of the lease.
- `OpenedIsQuiet`: with the fence down no installer is past its journal and the daemon
  runs the files the verdict names.
- `UpdateSettles` (liveness): an admitted update reaches a verdict or is shown as blocked.

Abstractions: the four runtime files are one value; one release; the preflight of the
machine has two outcomes; daemons that predate `/maintenance` are left out.

A `guard()` and the UPDATE that follows it (`runtime-updates.ts:137-139`, `147-150`, `177-178`) are
one step, except in `finish()`, where a request to the daemon lies between them. The code
sends them as two queries, and this hides one thing: the UPDATE of a former leader that passed its
guard before it lost the lease and is executed after the next leader has gone on. With the two apart,
TLC breaks `OpenedIsQuiet` in 18 states: `e1` found the daemon busy while staging and
passed the guard of `finish("deferred")`; `e2` takes the lease, finds the row still staging, and
installs; the UPDATE of `e1` then opens a Companion under an installer at work. In the same way a
late `draining` over `applying` lets a second install be sent. The window is one round trip to
PostgreSQL, against a change of the lease and several steps of the next leader within it. The
properties and theorems of the updates are to be read without it.

## Discussions, delegation and Apps

`Discussions`: `disc`, `member`, `central` (the turns of the coordinator, each with its
job), `tasks`, `calls` (the tool journal), `proposals`, `sent` and `pid` are the tables of
`discussions.sql` and the backend that holds the lease. One transaction is one
action: `AcceptMessage`, `UploadRow` and `UploadReady`, `ChangeParticipant`,
`CancelParticipant`, `CancelChat`, `ResolveProposal`; the executor's `Claim` expires what
another process ran, reports results, starts their continuations and claims the
oldest turn, all in one transaction; `DelegateTool` and `CancelTool` are fenced by the row
of the turn; `TurnSucceeds`, `TurnFails` end it. Continuations created by one claim have
the same time and a random id, so their order is a free choice.

- `ResultContinuesOnce`: a reported result starts exactly one further turn, unless its
  own turn was asked to stop.
- `CallActsOnce`: a tool call that is delivered again starts no second task.
- `ClosedTurnIsSilent`: a turn that ended, was asked to stop or lost its executor makes
  no call any more, although its job may run on.
- `TurnEnds` (liveness): every accepted turn ends, also if its files never come.

`Delegation`: `delegations` are the rows with their run and reviews, `at` is where the
lifecycle job of each executor stands with each of them. `DelegateTask` refuses a
circular wait, `SaveFiles`, `HandBack` and `Finish` are the steps of
`lifecycle.ts:231-260`, `Retire` and `Archived` those of a removal. One delegated run is a
summary of `RunExecution`. `Reachable` is whom a Companion waits for, directly or through
others, stated as the least closed set where the code asks a recursive query. Checked once
besides: three Companions, whose circles can be longer (730 000 states).

- `NoCircularWait`; `ReturnedOnce`: at most one review per delegation, none once it is
  finished or its parent removed, however old what an executor read;
  `DelegationFinishes` (liveness): a task that ended is finished, unless its dispatch
  never reached the daemon.

`Plugins`: `flow` are the connection links, `account` the stored grants, `grant` what the
provider holds (external), `lock` the row locks, `job` the checks and projections under
way, `machine` the projection in the daemon's memory, `configured` what this process
remembers having sent. `SendRefresh` to `CommitRefresh` or `RollBackRefresh` is a
transaction with a request inside; `ProviderAnswers` may rotate the token.

- `RefreshCarriesTheGrant`: a refresh on the wire carries the token the provider
  holds, through the client it was issued to, to the App's own endpoint.
- `MachineFollowsSelection` (liveness): in the end the daemon has the projection of the
  selected accounts, after restarts on either side and overtaking projections.

## Visits to a machine

`ControlCommands` is one task and its tool calls. `request` is the daemon's outbox,
`command` and `question` the tables, `visit[s]` the `observeRun` of each process: it is at a
command in one of the phases `claiming`, `acting`, `saving`, `posting`, `suspending`, and
between any two of them the leader may change (`LeaseMoves`) or be killed. A posted result may fail, be lost, or arrive when its sender has given
up (`PostFails`, `PostArrives`). `Handle` is the handler of a command, whose own transaction is not fenced: it may commit for a
leader that was lost, and its error may hide a commit. `CommandActsOnce`: at most one
effect per command, and the agent hears of a success only if there was one.

`Desktop` follows the owner's intent (`RequestDesktop`, a generation in the row), carried
by an executor (`Visit`, `AskState`, `SendState`, `RecordState`, or `GiveUp`) to a broker with a
journal, which aborts the action under way and releases what it pressed (`Quiesce`)
before it confirms. `ConfirmedIsQuiet`: while the row says the takeover it asks for was
observed, no action runs and nothing is pressed, late commands and restarts
included.

`Files` has attempts at files (`Check`, `Put`, `Insert`, and the compensation `Lookup`,
`Delete`), the daemon's `outbox`, and the harvests of two executors with the settlement of
the run (`ReadJournal`, `BeforeSettle`, `SettleRun`, `CollectDelegated`), also of one that is being
resumed (`StopResuming` settles it without a harvest, `PeekResuming`, `ResumeRun`). An INSERT may
fail (`InsertFails`) after it wrote its row, before, or so that it is executed when its
sender has given up (`InsertLands`). `FileHasBytes`, that a row has its bytes, is what
`docs/files.md` promises, and the code does not keep it (see the disagreements). `BytesAreKept` is
what it keeps: bytes of a row are lost only of a file with an INSERT that had not written its
row when it failed (`unwritten`, a history variable). All the other ways are safe: attempts that
overlap, two files for one place, lost answers, a look that fails.
`HarvestIsComplete`: a task that ended as its daemon did has a row for every output,
those shared at its very end included.

`ResponseStream` is one response. The model speaks (`MessageStart`, `MessageUpdate`,
`MessageEnd`; a text is the number of its pieces, and a message may break, also without
the text that was heard of it); the executor of the daemon keeps `progress` and hands
numbered copies to the journal (`Emit`; a preview only when 150 ms have passed); a
visit reads the journal once (`ReadResponse`) and then writes messages, usage and the
verdict in three statements (`SaveMessages`, `SaveUsage`, `SettleResponse`), each of
them guarded by the lock. A background task has no messages in the chat, but may
publish its result. `KeepsTheResponse` is the refinement of `ResponseContract`: a row shows
a message the model said, as far as it was said, it never shrinks, and a success is
reported only with every message whole and the usage of all of them.

`EventStream` is the way of a change to the pages that show it: the trigger
(`Change`), the connection (`LinkLost`, `Listens`, `Heard`), the hub (`Notified`, `Watching`)
and each stream, from the request that awaits `hub.start()` to `Cleanup`, which five callbacks
may call. `NoChangeIsMissed`: for a page that shows less than the database has there is an
event the page has not taken, one that its stream will flush, a notification on its
way, or the resync that follows a lost connection.

## Journalled stores

Each of these survives the death of its process between any two writes.

- `MemoryStore`: one worker over a SQLite file, callers that give up after two seconds
  and ask again. `Mutate` commits row, receipt and a mark that the index is behind;
  `Derive` and the `Maintain...` actions catch up in batches, of which the dirty rows take their part
  first; `WorkerDies` anywhere.
  `OperationActsOnce`, and `TrustedIndexIsComplete`: what a search may trust holds every row.
- `LocalSkills`: directories, requests and the removal journal of one name.
  `Displace` and `Place` are the two renames of a replacement, the second with the removal of its own backup,
  `Remove`, `TakeAway` and
  `CompleteRemoval` those of a removal, `ReconcileSkill` what a retry finds.
  `RemovalSparesReinstallation`, and `SuccessIsTrue`.
- `BaseImages`: publication with a durable intent before each effect of the provider, a
  deletion that reads references, and Companions that pin. `NothingIsReplayed`: no second
  source, verifier or capture, whoever dies; `PendingKeepsItsSource`, which is proved and
  not run: a creation under way keeps its image.
- `ModelGateway`: an exchange is an HTTP request, first its handler (`Admit`, `ReadBody`,
  `Claim`, `Confirm`, `Send`), then its pump (`HandOver`, `PumpEnds`), with every way out.
  Admission and body budget are of a process, the rows are shared.
  `ProviderSeesItOnce` and `SlotsAreReturned`.
- `Billing`: `Webhook` is the transaction of one Stripe event, which may come in any
  order; `Record`, `FlushNext`, `Meter`, `Mark` deliver usage, each with its failure.
  `EntitlementFollowsStripe` and `UsageCountsOnce`.

## Runs and bounds

| Run | Instance | Checks |
| --- | --- | --- |
| `run_solo` | 1 background run, 2 executors, 1 endpoint generation, `Awake` | `AtMostOnePut`, `KeepsContract` (996 000 states) |
| `run_pairs` | 2 chat messages or 2 background runs, 1 executor, `Pair` | `CancelledIsStopped`, `CancelledWasAsked` (740 000 states) |
| `run_live` | 1 background run, 1 executor, 2 generations, fairness, no constraint | `ClaimedRunSettles` (170 000 states) |
| `machines` | 1 Companion under 2 executors, or 2 Companions under 1, `OneOrRivals` | `RunsInItsPlace`, `RemovedIsStopped`, `WithinLimit` (1 567 000 states) |
| `updates` | 1 update, 2 executors (so 1 change of the lease), 1 fault, fairness | `OldFilesKept`, `OpenedIsQuiet`, `StopFindsNoRun`, `UpdateSettles` (358 000 states) |
| `product` | a discussion of 1 Companion with 2 turns and 2 tasks; or 2 delegations in both directions under 2 executors; or 1 account with 2 jobs; or a daemon with 2 main or 2 background runs and 1 concurrent cancel; fairness | `MaintenanceWaits`, `ImplementsContract`, `NeverBusy` and `LaneIsVacated` of the daemon, and the four invariants and five temporal properties of the other three modules (92 000 states) |
| `stores` | 2 callers, mutations, Companions, processes or workers of one of the five stores | their nine invariants (548 000 states) |
| `visits` | 2 commands (one a question), 3 takeovers, 3 files, or a response of 2 messages, under 2 executors; or 2 pages of 1 account | `CommandActsOnce`, `ConfirmedIsQuiet`, `BytesAreKept`, `HarvestIsComplete`, `KeepsTheResponse`, `NoChangeIsMissed` (1 339 000 states) |
| `run_lane_release`, `machines_retry`, `question_lost`, `file_lost` | smallest that show it | violated, see below |

`MCProduct`, `MCStores` and `MCVisits` put modules side by side that do not share state:
a variable `part` says which of them a behaviour belongs to, and the others keep their
first values. That checks each of them in full, and none of their interleavings,
which could show nothing.

Why the bounds are enough:

- Runs interact in pairs: through a lane (two background runs), through a response
  (two main runs), and through the endpoint. Lanes meet only in `Claim`, which
  treats them separately, and in the endpoint, which one run with a failing job
  already loses. One run with two executors has every race of a former and a
  present leader; a third executor would repeat the role of the former.
- `MaxEndpoint` bounds how often a machine gets a new endpoint. One generation shows
  its loss; a job with an old generation and a newer one in the row needs two, which
  `run_live` has, and the proofs cover any number.
- `Pair` takes away from two runs what one run has in full: no deadline and no
  removal (`Unhurried`), the endpoint is lost by jobs only (`Awake`), one lane at a time, and
  no answered question on the main lane. It is an action constraint, so every
  behaviour that remains is a behaviour of `Spec`.
- `OneLane` (in `product`) keeps the ids of either lane alone in the journal, and takes the runs of a
  lane, which are alike, in one order: the lanes share only
  the guard of maintenance and a restart. It cuts `PutRoot` and `PutSteer` only, which
  are not fair, so no fair behaviour is cut short. Checked once besides: three main
  runs (859 000 states) and two runs across both lanes (81 000 states).
- `OneOrRivals`: one Companion has the two executors, every deadline and every loss of
  the lease; two Companions that compete for one or two places have one executor that
  stays (`Calm`), and whose resumes are answered. While a resume is astray (`OneAstray`) the
  configuration stays, no deadline passes, and no second one goes astray. All three properties are
  proved without these.
- `updates`: one fault and one change of the lease, at any step. A second update would
  wait for the lock; a second fault repeats what a kill leaves behind, since a step of
  recovery is again a write of the journal followed by an effect. Checked once besides,
  for the safety properties: two faults (660 000 states). They are proved for any number.
- `product`: two turns are what a continuation needs, two tasks what a repeated call
  needs. Of the messages of a discussion TLC takes only a first one to a Companion and
  the first to the coordinator (`Opening`), after a task of the owner's own the
  discussion is not edited (`Direct`), and it is edited or its executor changes, not both
  (`OneTrouble`).
- `stores`: two operations or contents, two versions, one or three faults at any write.
  Batches of one row are the smallest index that can be half rebuilt.
- `visits`: two executors as for runs; one upload place with two files that compete for
  it and one output. A response of two messages of two pieces, with one preview handed
  over and one trouble, has a preview that is overtaken and a message that breaks after
  one that is whole; more of either are proved. Two pages compete for the one place of an
  account while the connection is lost once.
- `MaxCalls`, `MaxUpsets`, `MaxMishaps`, `MaxOutages`, `MaxStumbles`, `MaxTroubles`, `MaxDeaths`,
  `MaxLosses`, `MaxBoots`, `MaxChange`, `MaxEdits` bound counters of things the environment
  does; each is in the guards of its actions.
- Symmetry is used over executors, runs, Companions or callers, in runs without
  liveness only.

Deadlock is checked for runs, machines and `machines_retry`: none of them
stops. In the other runs the system may stop, because everything asked for is done and
the bounded environment does nothing more; their cfg says so.

Each module has a type invariant. Those of `RunExecution`, `AgentDaemon`,
`MachineLifecycle` and `RuntimeUpdate` are proved and need no run; `StreamTypeOK`,
`EventTypeOK`, `PluginTypeOK`, `MemoryTypeOK` and the others can be named in the cfg of
the run of their module; the proofs of those modules carry the types they need in their
invariants.

## Fairness

`RunExecution!Fairness` is what the executor's loop gives while its process lasts.

- `WF(Step \/ Error)` per job: every await ends with an answer or an error, because
  every request carries a timeout.
- `SF(Start)`: `RunCoordinator` takes the least recently scheduled run first, so a run
  that is ready again and again is taken; its slots are freed as jobs end.
- `WF(Claim)`, `WF(Wake)`: the statements of the tick, every 500 ms.
- `WF(Elapse)`: time passes. `WF(Archive)`: `progressRetirements` repeats until done.
- `SF(MachineReady \/ MachineFails)`: a preparation has a deadline of five minutes
  after which lifecycle ends it with an error (`MachineLifecycle!Intend`). The
  deadline begins with the first effect on the machine, so this also assumes that a
  request that waits for a place, or for the first base image, does not wait for
  ever; nothing in the code ends that wait.

Nothing is assumed of the network, the agent or the owner: a PUT may be lost for
ever, an agent may never end, a question may stay open. `ClaimedRunSettles` is stated
for behaviours in which some executor leads from some point on.

`AgentDaemon!FairSpec` assumes that an aborted session comes to rest and its tools
close (`Execution`), and that the promise of a suspend or resume is kept (`Parked`).
A working agent may go on for ever.

`RuntimeUpdate!Fairness`: the job of an executor takes its next step, since every request
of it has a timeout; what the Box received is executed, and an installer that is not
killed goes on, every wait of it being bounded. No executor is required to die or live.

`DiscussionFairness`: the executor claims again and again, an upload that stays away for
five minutes expires with that, and the model call of a turn ends with an answer or its
timeout of ten minutes. Nobody has to answer a question or upload a file.
`DelegationFairness`: runs and reviews end (`ClaimedRunSettles`), the lifecycle job of a
delegation that is due is taken up again, and a removed Companion is archived.
`MCProduct!MCSpec` has of each part what its liveness needs, restricted to behaviours of that part.
It says of `Plugins` that each job takes its next step and that a machine
with an active run is visited again (`PluginFairness`). `BillingSpec` says that a worker with a next step takes it.

## Proofs

Theorems hold for every number of runs, executors, Companions, generations, exchanges,
files, commands, discussions, events, rows, updates, messages and pages. They assume only the named
assumptions of the modules:

- `DaemonAssumption`, `AgentAssumption`, `ExecutorAssumption`: `None` is no run and no
  executor, background runs are runs, a concurrent call and a generation may exist;
- `LifecycleAssumption`, `GatewayAssumption`: finitely many Companions and open requests,
  limits are naturals;
- `Nobodies`, `FaultBound`, `Executors`: the mark of an absent caller is no caller, faults
  are counted, there is an executor;
- `DesktopBounds`, `PluginValues`, `SkillValues`, `StripeEvents`, `Categories`, `MemoryValues`: the
  shapes of the inputs (an event has a type and a time, a kind of usage is not both
  metered and audited, rows have positive numbers, a batch has a row);
- `ResponseValues`, `StreamLimits`: the bounds and limits are naturals, there is an executor.

| Theorem | Establishes |
| --- | --- |
| `RunExecutionProofs!TypeCorrect` | `Spec => []TypeOK` |
| `RunExecutionProofs!OnePut` | `Spec => []AtMostOnePut` |
| `RunExecutionProofs!CancellationIsStopped` | `Spec => []CancelledIsStopped` |
| `RunExecutionProofs!CancellationWasAsked` | `Spec => []CancelledWasAsked` |
| `RunExecutionProofs!Refinement` | `Spec => KeepsContract` |
| `DaemonContractProofs!DaemonTypes`, `JournalIsForward` | types of the contract; an id is never forgotten, a settled one never moves |
| `AgentDaemonProofs!TypeCorrect` | `Spec => []TypeOK` |
| `AgentDaemonProofs!MaintenanceIsSafe` | `Spec => []MaintenanceWaits` |
| `AgentDaemonProofs!AcceptedIsExecuted` | `Spec => NeverBusy` |
| `AgentDaemonProofs!DaemonImplementsContract` | `Spec => ImplementsContract` |
| `MachineLifecycleProofs!TypeCorrect` | `Spec => []TypeOK` |
| `MachineLifecycleProofs!Capacity` | `Spec => WithinLimit` |
| `MachineLifecycleProofs!PlacesAreHeld` | `Spec => []RunsInItsPlace` |
| `MachineLifecycleProofs!RemovalIsFinal` | `Spec => []RemovedIsStopped` |
| `RuntimeUpdateProofs!RuntimeTypes` | `Spec => []TypeOK` |
| `RuntimeUpdateProofs!OpenedUpdatesAreQuiet` | `Spec => []OpenedIsQuiet` |
| `RuntimeUpdateProofs!StopsFindNoRun` | `Spec => StopFindsNoRun` |
| `RuntimeUpdateProofs!OldFilesAreKept` | `Spec => []OldFilesKept` |
| `VisitProofs!CommandsActOnce` | `ControlSpec => []CommandActsOnce` |
| `VisitProofs!StoredBytesAreKept` | `FilesSpec => []BytesAreKept` |
| `VisitProofs!OutputsAreComplete` | `FilesSpec => []HarvestIsComplete` |
| `VisitProofs!ConfirmedSafe` | `DesktopSpec => []ConfirmedIsQuiet` |
| `VisitProofs!ResponseIsKept` | `StreamSpec => KeepsTheResponse` |
| `VisitProofs!ChangesAreHeard`, `PlacesHold` | `EventSpec => []NoChangeIsMissed`, `[]PlacesAreCounted` |
| `StoreProofs!ProviderIsAskedOnce`, `SlotsDoNotLeak` | `GatewaySpec => []ProviderSeesItOnce`, `[]SlotsAreReturned` |
| `StoreProofs!RemovalSafe`, `SkillSuccessSafe` | `SkillSpec => []RemovalSparesReinstallation`, `[]SuccessIsTrue` |
| `StoreProofs!ReplaySafe`, `SourceSafe` | `ImageSpec => []NothingIsReplayed`, `[]PendingKeepsItsSource` |
| `StoreProofs!AccessFollowsStripe`, `UsageIsCountedOnce` | `BillingSpec => []EntitlementFollowsStripe`, `[]UsageCountsOnce` |
| `StoreProofs!IndexIsComplete`, `OperationsActOnce` | `MemorySpec => []TrustedIndexIsComplete`, `[]OperationActsOnce` |
| `ProductProofs!ResultsContinueOnce`, `CallsStartOnce` | `DiscussionSpec => []ResultContinuesOnce`, `[]CallActsOnce` |
| `ProductProofs!ClosedTurnsAreSilent` | `DiscussionSpec => ClosedTurnIsSilent` |
| `ProductProofs!NobodyWaitsForItself`, `OneReviewEach` | `DelegationSpec => []NoCircularWait`, `ReturnedOnce` |
| `ProductProofs!RefreshSafe` | `PluginSpec => []RefreshCarriesTheGrant` |

So every invariant, every action property and every refinement a run checks is also a
theorem; only liveness is not. Four more invariants are proved and not run: the types of
the machines, `PendingKeepsItsSource`, `PlacesAreCounted` and those of the updates. Each
argument below names the part of the inductive invariant that carries it. TLC checked
the invariants on the instances of the runs before they were proved.

*Runs.* None of the properties is inductive: each depends on what jobs carry
between awaits. `IInv` adds `JobOK(e, r)`, for every await of a job what it knows, and
`RowOK(r)`, what a row says of the daemon. The idea is that what a job carries is
either a fact about the journal, which only moves forward (`JournalIsForward`), or a
fact about an undispatched row, which only the leader's own job can dispatch
(`OneSender`: of the jobs of one run at most one is about to send). So a verdict may be
as old as it likes. A job about to write `cancelled` carries `Stopped`: the run is over
in the journal, or was never dispatched, and then only the leader could dispatch it,
which is this job. A job about to send carries "dispatched, no PUT so far", which
no other job can make false. Each action, or group of like actions, has a lemma. For
the refinement every step is shown to be a `JournalMove` or a `RowMoves` of each run
(`Kept`), and each of those is a step of `RunContract`.

*Cancellations.* Who may have asked is a fact about rows (`Excused`): the run itself was asked
to stop or is past its limit, or another run of its response is an orphan to be stopped
or past its limit (`Blamed`). These only grow. `CancelInv` says that every step towards the
word `cancelled` has that ground: the request to the daemon, the verdict a job carries
(`Grounded`), the journal's entry, and the row. The delicate one is the request, which may
arrive at a response that other messages have joined since: a root never changes
(`RootsRecorded`), so what it stops is the response it was meant for. The property as first
written left the limit out, and this proof could not be closed: the trace TLC then found
is told under [run execution](#run-execution).

*Daemon.* What a handler relies on after its await is what the others check before
theirs. `Accepting`: what takes messages is a live response whose agent works and that
nobody cancels, so nothing joins, parks or resumes a response that is being aborted.
`Waiting`: a background response that awaits its suspend or resume has the status it had,
so it is asked for one of the two at a time. `Returning`: one background resume is
awaited at a time and keeps other responses out of the lane, which is what `ResumeRoot` of
the contract demands when the answer comes. `Occupied`: a background execution has the
lane, or is parked, or is about to have the lane again; hence an empty lane and nothing
parked mean that none is left (`MaintenanceWaits`), and a free lane in `put` means that the
executor has no open execution there (`NeverBusy`). The four hold together or not at
all: the refinement needs `Returning`, whose proof needs `Occupied` for the lane of a
new response. Responses that end keep `Rooted`, `Waiting` and `Returning` by one lemma
(`SettlesKeeps`). A restart is the contract's `Restart`.

*Machines.* `IInv` adds `HeldPlace`: the job of the leader that is past its admission
works for a Companion that is removed or admitted, and only that job closes its
request. So every step other than `Decide` leaves the set of occupants as it is or
smaller (`Settled`): waking and creating happen in a place held before. `Decide` counts
before it adds one, under the lock.

*Places and removals.* Both follow from `Fine(c)`, which speaks of one Companion: its row,
its requests on their way, its computer, the observation, and of the jobs only that of
the leader (`Led`): what another still does is stopped by its guard, but for a decision
on admission, which only adds places. `Traced`:
a computer is made on a durable intent, and a resume on its way belongs to the leader's
job that waits for it. `Ending`: a removal goes on only with a Box that sleeps or with
none asked for; with `Traced`, nothing is on its way when it completes. `Witnessed` is the
delicate part: while an observation counts (`Observing`), a computer that was seen asleep
wakes only in an admitted place and stays unready until a job that does not reuse it is
ready, which makes the observation stale. For that, `Intended` says what the leader's
job knows of the intent, and that it reuses a computer only with the configuration of
now. The steps that give a Companion nothing (`Ebbs`), most of all those of other
Companions, keep `Fine` by one lemma; each of the others has its own. An executor that
acquires the lease finds no resume on its way that is not astray, and what `Fine` says of an
awake computer excepts one that a stray resume woke (`c \in woken`).

*Model requests.* `Holds(x)` says that an exchange has claimed the row of its request and
not ended. `OneForwarding` is the unique index, kept by the claim: one row of the run is
being forwarded, by one exchange. So no other exchange can send for it, and an
exchange past its claim knows how often the provider was asked (`StepOK`). For the
slots the invariant is the property itself with the types: each action moves one
exchange in or out of `OpenAt` and changes the count by one, by the cardinality
lemmas (`Counts`, `BodyGivenBack`).

*Files.* Bytes are deleted only by an attempt whose INSERT failed and that found no row.
`BytesInv` says why (`BytesOK`): an INSERT that failed met another row, or the file is
`unwritten`. In the first case an attempt that found no row was displaced for ever
(`Displaced`): its place is taken, so the file never gets a row. An attempt about to insert has its
bytes in the bucket, or will not succeed, or its file is `unwritten`; an INSERT on its way without a
sender is of an `unwritten` file. For the
outputs, `HarvestInv` says that a harvest on its way to a settlement began after the
daemon's end, when no output is added any more, and what is left of it covers the
outputs without a row.

*Commands.* `SentOK` carries what is said of a result over its way to the daemon. `CommandInv` says who owns a
claim: at most one visit is at a command
between its claim and its stored result (`OneActor`), its row then says `claimed`, and the
command took no effect before its handler ran. A result that says `done` or `asked`, in a
visit or in the row, implies the effect. A visit that lost its leader may still run
its handler, but no other one can claim the row again.

*Runtime updates.* The invariant has a half for the Box and a half for the rows, joined by
what one may rely on in the other. `BoxInv`: `PlaceOK` says what each place of the installer
knows of the directories, the journal and the service; `JournalOK` what a journal says of
them when nobody is at work; `OneHeld` that at most one journal holds the installed files,
and `Resting` that with none the old ones run. `RowsInv`: an executor that lost its lease
still acts on what it remembers, so its memory must be something that stays true. `Won`, a
final verdict or a rollback under way, stays; so do `deferred` and `rolled_back`; and these
are all that `WorkOK` and `MailOK` let a result say (`Fits`). A command to install is on its
way only for an update whose journal is empty, and there is one (`OneApply`). `BoxMoves` is
what the rows need of a step of the Box, and one lemma (`BoxKeepsRows`) serves all 22
actions of the installer. Then an installer past its journal works for an open update,
whose Companion is fenced and has no run (`FenceIsUp`), which gives `StopFindsNoRun` and
`OpenedIsQuiet`. `KeptInv` adds that an update which has not exchanged the files yet has
nothing of value in its directories (`Fresh`). The two guards that make it true are that a
lock lost is lost to its backend, and that an installer starts from an empty journal only.

*Desktop.* A generation is one intent: every copy of the intent, in an errand, a command
or the broker's journal, is of an earlier generation or equal to it (`Past`). So an
acknowledgement that names the generation of now is about the intent of now, however
late, and what the broker confirmed holds until the intent moves (`Confirmations`).

*Plugins.* A call that spends a refresh token holds the row of the account over its
request (`Spends`, `JobOK`), so no other spends it; between the provider's answer and the
commit the token in the row is the old one (`Rotated`), and only the holder of the row may
be there.

*Skills.* The directory that is about to be taken away is the one the journal names, by
its number; a directory about to be placed is the one the request asks for; before the
journal's entry nothing is taken (`SkillInv`).

*Base images.* An effect has happened only if its intent is recorded, at most once, and
the intent of the effect that is about to happen is recorded and not yet carried out
(`ImageOK`, `PublicationOK`). What is deleted has a recorded intent to delete, and no Companion
waits for it: pins and that intent exclude each other under the lock (`PinOK`).

*Accounts.* The state of a subscription is that of one of the newest events accepted
(`StateFollows`), the selection that of one of the newest checkouts (`SelectionFollows`), and
both keep the customer (`OneCustomer`): a new event is either a newest one or changes
nothing. For usage, a row says `sent` only after Stripe counted, and the identifier of the
event is the operation's, so counting again changes nothing (`LedgerRow`, `PassGrounded`).

*Memory.* A row that is not marked, and that an open rebuild has passed, is indexed with
its present content (`Right`). A batch takes a first part of the rows that are behind: that
there is one, of the size asked for and without gaps, is the least-number principle
(`FirstIs`, `AfterIs`, from the well-foundedness of the naturals), which the recursion of the
code would need induction for. `OnceInv`: a request is in the pipe once or in the
worker's hand, and an operation has been applied as often as its receipt says.

*Responses.* `VoiceInv`: the messages the executor of the daemon keeps are, row by row, what the
model said (`Rows`), through every start, update and end of a message, silent or broken. So
each of these events only extends what was there (`Handed`, one lemma for all of them).
`SnapsInv` orders the snapshots wherever they are held, in the journal or in a visit: the one
with the later number extends the other (`Follows`), and `RowInv` says that the chat is the
snapshot whose number the run has (`Behind`). So the guard `message_version <` lets
rows only grow, and complete ones stay. `LeaderInv`: only the leader's visit writes, and it
writes the usage of what it read after its messages. That the last snapshot is there before the
verdict is the order of the code: `ResponseEnds` hands it over before the journal settles
(`EndInv`), a visit reads row and verdict at once, and a settled journal takes no snapshot
any more (`LookInv`).

*Event streams.* `EventInv` adds that an armed stream has something to tell and that a hub
with an open stream has started. Each way a stream could miss a change is then a case of
`NoChangeIsMissed` that becomes another: a notification becomes an event to flush, that
an event in the response, and a lost connection owes a resync until `Heard`. For the places
every step is shown to leave, enter or give back one of them (`PlacesMove`), and one lemma
counts (`OneMoreStream`).

*Discussions.* A task belongs to a call in the journal of its turn (`Caused`), so a call that
is in the journal creates none; a continuation names its task (`Sourced`), which was not
reported before the transaction that starts it. The claim is the long case: it expires,
reports, appends any ordering of the continuations and claims one turn.

*Delegation.* `Reachable` is the least closed set, so two facts suffice: it is closed, and
it lies in every closed set. Dropping or ending a delegation leaves closed sets closed; a
new one is admitted when its parent is not reachable from its target, and then a circle
through it would have been one before.

Only model-checked: the six liveness properties (`ClaimedRunSettles`, `LaneIsVacated`,
`UpdateSettles`, `TurnEnds`, `DelegationFinishes`, `MachineFollowsSelection`). Liveness under
fairness and `ENABLED` are beyond the prover.

## Disagreements found

Each of these four is a run whose property quotes what the repository says and
whose counterexample is what the code does.

- `run_lane_release`: a background task that waits for an answer should release its
  lane (`docs/v0.md:71`). The claim query lets the next task pass, but the unique
  index `one_active_background_run` (`task-runtime.sql:13`) counts `needs_input`. The claim
  fails, and with it the tick and the executor's loop, while the question is open.
- `machines_retry`: a failed preparation leaves its admitted request open
  (`lifecycle.ts:57`), so the retry the error asks for is answered with that request
  and prepares nothing.
- `question_lost`: `docs/v0.md:70-72` says a suspended task resumes from its persisted
  answer. Between the claim of that answer and the resume the task is `preparing`; a
  visit then refuses its `ask_user` (`control.ts:22`), and the refusal takes the place of
  the answer.
- `file_lost`: `docs/files.md:57` says that when the metadata cannot be persisted "the helper deletes that
  unreferenced object". Between the look that finds no row and the deletion (`files.ts:214-228`)
  the INSERT that seemed to fail may be executed (the trace of the run), or another attempt
  at the same file may insert its row; the object that is deleted is referenced then.

The modules state more of them, as properties a reader can name in a cfg; TLC finds
each violated:

- `RunExecution!ResponseStoppedFromChat`: `tasks.ts:42` says only the chat stop may stop
  a shared response; the tool `task_cancel` (`control-product.ts:23`) stops it for one of
  its messages.
- `RunExecution!AmbiguousIsInterrupted`: `docs/testing.md:188` says an ambiguous dispatch
  is observed or interrupted; a PUT without an answer, past the five minutes, is
  settled as failed by the row read before the dispatch (`executor.ts:344`).
- `AgentDaemon!OneMainSession`: a chat message that arrives while the response before it
  is being aborted opens the same chat session a second time (`daemon.ts:100`, against
  `docs/v0.md:35-36`).
- `Desktop!ControlIsConfirmed`: `docs/UI_CONTRACT.md:102-103` lets the browser trust
  `desktopPausedAt`, but a new takeover (`lifecycle.ts:64`) does not clear what an older
  one left there.
- `Billing!UsageIsReported` with one audit operation: a process that stops between the
  two statements of an audit row leaves it `pending`, and the flush breaks off at it
  for ever (`billing.ts:174`, `199`, against `docs/billing-delivery.md:28`).
- `RuntimeUpdate!CurrentKeepsTarget`, `DeferredLeavesWork`: the request to roll back is not
  recorded, so a later tick may mark the update as succeeded before it is served;
  a deferral may be committed while the daemon is still drained.
- `Delegation!ResultComesBack`: `docs/lifecycle.md:143-144` says every delegated task that
  ends is returned; one whose dispatch never reached the daemon waits for files it
  cannot have.

## What is left out

Not modelled, because nothing in them interleaves or is decided over an await:
deliveries and maintenance grants (one row per request, serialised by the database), the
HTTP API and its configuration, the web client, and the client of the Box provider,
whose requests are steps of `MachineLifecycle`, `RuntimeUpdate` and `BaseImages`.

Of the modelled parts:

- Runs and daemon: conversations of discussions (a run of a discussion has its own
  session), the activity a poll writes, skill commands, the eight slots per kind and the
  order of claims within a lane.
- Responses: the reasoning and tools of a message, costs and their rounding, the bounds on
  sizes. Event streams: the check of ownership, the wording of events, and the clocks: a
  heartbeat, the end of a lifetime or a check of the session may come at any time.
- Machines: local Docker computers (their branch of `archiveMachine` stops a container, as
  `ArchiveBox` does a Box), the delivery of skills, the row of a delegation
  when its run ends, the maintenance grants of a removal, observation gaps, rates of
  starts and the cooldown.
- Updates: several releases, daemons without `/maintenance`, the preflight's checks.
- Discussions: questions of tasks, reading tools, the projection of the timeline, the
  capacity of eight and the rows skipped because they are locked. Delegation: more than
  two Companions; the check for a circle is over all of them, so the invariant is stated
  for any number, the instance has two.
- Plugins: the wire format of OAuth, custom servers, the list of tools.
- Control commands: what a tool does to the product is one effect; the end of a task at
  the daemon and its settlement are one step (`TaskEnds`); the credential helper.
- Desktop: the provisioning of the display, archiving and removal, the order of waiting
  actions, the retention of results, and captures: `docs/lifecycle.md:87` asks for one
  after a release, which only the agent's instructions do.
- Files: quotas, hashing, names and types, downloads; a file has one content.
- Memory: reading and ranking, the legacy file, a crash while the store is opened,
  missions, the limit of bytes of a snapshot file. Skills: the validation of a package,
  the second root, retention of 500 entries, a number of a directory that the file
  system uses again. A crash between the two renames of a replacement leaves the former
  package under `.previous-...` (modelled as it is: nothing puts it back, and a retry of
  the request is refused).
- Base images: `retry_at`, a provider that deletes late (`vanished` names those
  snapshots), a crash between the record of a capture and its request, which leaves the
  row `publishing` until the next visit.
- Gateway: the checks of body, route and token are one verdict; the runs of discussions;
  a row that stays `forwarding` after a crash refuses the later requests of its run
  (`model-gateway.sql:26`), for which the code has no repair.
- Billing: one owner whose metadata Stripe always carries; the private beta and the mode
  without Stripe; the instants of Box intervals; the limit of 20 rows per flush. Events
  of one second are equally new (`docs/billing-delivery.md:30` orders them by `created`).
