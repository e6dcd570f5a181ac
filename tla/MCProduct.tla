------------------------------ MODULE MCProduct -----------------------------
(***************************************************************************)
(* What several Companions have in common and the agent daemon of one of   *)
(* them, each on its own: a behaviour is one of a group discussion, of     *)
(* direct delegation, of connected Apps, or of the daemon.                 *)
(***************************************************************************)
EXTENDS Discussions, Delegation, Plugins, AgentDaemon

CONSTANTS a, b,            \* two Companions that delegate to each other
          m1, m2, b1, b2   \* two main and two background runs
ThePairs == {<<a, b>>, <<b, a>>}
TheApps == {[discovery |-> "fixed", environment |-> TRUE, git |-> TRUE],
            [discovery |-> "full", environment |-> FALSE, git |-> FALSE]}

VARIABLE part

daemonParts == vars
productVars == <<discussionVars, delegationVars, pluginVars, daemonParts, part>>

\* A direct discussion is not edited; another is edited, or its executor changes.
Direct == \E t \in Tasks : tasks[t].by = ByUser
OneTrouble == (Direct => edits = 0) /\ (edits > 0 => pid = 1)
InDiscussion(A) ==
  part = "discussion" /\ A /\ OneTrouble' /\ UNCHANGED <<delegationVars, pluginVars, daemonParts, part>>
InDelegation(A) == part = "delegation" /\ A /\ UNCHANGED <<discussionVars, pluginVars, daemonParts, part>>
InPlugins(A) == part = "plugins" /\ A /\ UNCHANGED <<discussionVars, delegationVars, daemonParts, part>>
InDaemon(A) == part = "daemon" /\ A /\ UNCHANGED <<discussionVars, delegationVars, pluginVars, part>>

\* The daemon knows runs of one lane: the lanes meet only in the guard of maintenance.
\* The runs of a lane are alike, and the first comes first.
OneLane(r) ==
  /\ \A q \in Run : Lane(q) # Lane(r) => journal[q] = "none"
  /\ r = m2 => journal[m1] # "none"
  /\ r = b2 => journal[b1] # "none"

\* A message to a Companion, if there is one, comes before the one that opens the turns
\* of the coordinator; the discussion is then left as it is.
Opening(target, f) ==
  /\ central = <<>> /\ sent # Message
  /\ target # Nobody => sent = {}
  /\ sent # {} => f = "none"
FirstUnsent == CHOOSE m \in Message : m \notin sent

MCInit ==
  /\ DiscussionInit /\ DelegationInit /\ PluginInit /\ Init
  /\ part \in {"discussion", "delegation", "plugins", "daemon"}
  /\ part # "discussion" => \A c \in Companion : member[c] = "none"

MCNext ==
  \/ \E put \in BOOLEAN : InDiscussion(UpdateDiscussion(put))
  \/ \E cs \in SUBSET Companion : InDiscussion(ChangeFolder(cs))
  \/ \E c \in Companion, remove \in BOOLEAN : InDiscussion(ChangeParticipant(c, remove))
  \/ \E c \in Companion : InDiscussion(RetireParticipant(c))
  \/ \E target \in Companion \cup {Nobody}, f \in {"none", "missing"} :
       Opening(target, f) /\ InDiscussion(AcceptMessage(FirstUnsent, target, f))
  \/ \E r \in Turns : InDiscussion(UploadRow(r))
  \/ \E r \in Turns : InDiscussion(UploadReady(r))
  \/ \E c \in Companion : InDiscussion(CancelParticipant(c))
  \/ InDiscussion(CancelChat)
  \/ \E r \in Turns, c \in Companion, accept \in BOOLEAN : InDiscussion(ResolveProposal(r, c, accept))
  \/ InDiscussion(TakeLease)
  \/ \E late \in SUBSET Waiting(Interrupted), paid \in BOOLEAN : InDiscussion(Claim(late, paid))
  \/ \E r \in Turns, k \in Call, c \in Companion : InDiscussion(DelegateTool(r, k, c))
  \/ \E r \in Turns, k \in Call, t \in Tasks : InDiscussion(CancelTool(r, k, t))
  \/ \E r \in Turns : InDiscussion(TurnSucceeds(r))
  \/ \E r \in Turns : InDiscussion(TurnFails(r))
  \/ \E t \in Tasks : InDiscussion(TaskMoves(t))
  \/ \E p \in Pairs : (delegations = <<>> => p[1] = a) /\ InDelegation(DelegateTask(p[1], p[2]))
  \/ \E i \in D, reached \in BOOLEAN : InDelegation(Dispatched(i, reached))
  \/ \E i \in D : InDelegation(RunOver(i))
  \/ \E i \in D : InDelegation(ReviewOver(i))
  \/ \E c \in Partners : InDelegation(Retire(c))
  \/ \E c \in Partners : InDelegation(Archived(c))
  \/ \E e \in Worker : InDelegation(PassLease(e))
  \/ \E e \in Worker, i \in D : InDelegation(Begin(e, i))
  \/ \E e \in Worker, i \in D : InDelegation(SaveFiles(e, i))
  \/ \E e \in Worker, i \in D : InDelegation(HandBack(e, i))
  \/ \E e \in Worker, i \in D : InDelegation(Finish(e, i))
  \/ \E f \in Flow, app \in Apps, meta \in Metadata : InPlugins(StartPluginConnection(f, app, meta))
  \/ \E f \in Flow : InPlugins(ExpireOrCancel(f))
  \/ \E f \in Flow : InPlugins(ConsumePluginFlow(f))
  \/ \E f \in Flow, u, r \in BOOLEAN : InPlugins(CompletePluginConnection(f, u, r))
  \/ \E f \in Flow, e \in BOOLEAN : InPlugins(AttachPlugin(f, e))
  \/ \E f \in Flow : InPlugins(DisconnectPlugin(f))
  \/ \E f \in Flow : InPlugins(AccessExpires(f))
  \/ \E f \in Flow : InPlugins(RevokeGrant(f))
  \/ \E client \in Deployments : InPlugins(Redeploy(client))
  \/ InPlugins(DaemonRestarts)
  \/ \E w \in Job, f \in Flow : InPlugins(CheckPluginAccount(w, f))
  \/ \E w \in Job, f \in Flow : InPlugins(AppRefresh(w, f))
  \/ \E w \in Job : InPlugins(SyncConfiguration(w))
  \/ \E w \in Job, f \in Flow : InPlugins(SkipAccount(w, f))
  \/ \E w \in Job, f \in Flow : InPlugins(ProjectAccount(w, f))
  \/ \E w \in Job, f \in Flow : InPlugins(RefuseRefresh(w, f))
  \/ \E w \in Job, f \in Flow : InPlugins(SendRefresh(w, f))
  \/ \E w \in Job, f \in Flow, rotates \in BOOLEAN : InPlugins(ProviderAnswers(w, f, rotates))
  \/ \E w \in Job, f \in Flow : InPlugins(CommitRefresh(w, f))
  \/ \E w \in Job, f \in Flow : InPlugins(RollBackRefresh(w, f))
  \/ \E w \in Job, f \in Flow : InPlugins(SaveHealth(w, f))
  \/ \E w \in Job, reached \in BOOLEAN : InPlugins(Discover(w, reached))
  \/ \E w \in Job : InPlugins(PutConfiguration(w))
  \/ \E r \in Run : OneLane(r) /\ InDaemon(PutRoot(r))
  \/ \E r, rt \in Run : OneLane(r) /\ InDaemon(PutSteer(r, rt))
  \/ \E r \in Run : InDaemon(Submitted(r))
  \/ \E r \in Run : InDaemon(Cancel(r))
  \/ \E r \in Run : InDaemon(Suspend(r))
  \/ \E r \in Run : InDaemon(Resume(r))
  \/ \E rt \in Run : InDaemon(Return(rt))
  \/ \E rt \in Run : InDaemon(Aborted(rt))
  \/ \E rt \in Run, st \in {"succeeded", "failed"} : InDaemon(AgentEnds(rt, st))
  \/ \E p \in parks : InDaemon(Parked(p))
  \/ InDaemon(EnterMaintenance)
  \/ InDaemon(LeaveMaintenance)
  \/ InDaemon(Mutation)
  \/ InDaemon(Restart)

\* What the properties need of the fairness of each part (of the daemon's, no continuation
\* of a suspend or resume); the variables of the other parts keep their first values.
MCSpec ==
  /\ MCInit /\ [][MCNext]_productVars
  /\ WF_discussionVars(part = "discussion" /\ Claim(Waiting(Interrupted), TRUE))
  /\ \A r \in 1..(MaxTurns + MaxTasks) :
       WF_discussionVars(part = "discussion" /\ r \in Turns /\ TurnFails(r))
  /\ \A i \in 1..MaxDelegations :
       /\ WF_delegationVars(part = "delegation" /\ i \in D /\ (RunOver(i) \/ ReviewOver(i)))
       /\ WF_delegationVars(part = "delegation" /\ i \in D /\
            \E e \in Worker : Begin(e, i) \/ SaveFiles(e, i) \/ HandBack(e, i) \/ Finish(e, i))
  /\ WF_delegationVars(part = "delegation" /\ \E c \in Partners : Archived(c))
  /\ \A w \in Job : WF_pluginVars(part = "plugins" /\ JobStep(w))
  /\ WF_pluginVars(part = "plugins" /\ \E w \in Job : SyncConfiguration(w))
  /\ \A rt \in Run : WF_vars(part = "daemon" /\ Execution(rt))
===============================================================================
