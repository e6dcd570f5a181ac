------------------------------ MODULE Plugins ------------------------------
(***************************************************************************)
(* Connected Apps.  A connection link is opened against the provider's     *)
(* discovered endpoints, used once by the callback, and exchanged for an   *)
(* account's grant.  Health checks, runs and explicit refreshes of several *)
(* Companions share the account: each locks its row, may spend the refresh *)
(* token, and commits the rotated one.  A run then sends the projection of *)
(* one Companion's selected accounts to its machine, whose daemon keeps it *)
(* in memory only.  Custom MCP accounts carry no grant and are left out.   *)
(***************************************************************************)
EXTENDS Naturals, FiniteSets

CONSTANTS
  Flow,        \* connection links; the account a link creates bears its name
  Job,         \* concurrent checks and synchronisations
  Apps,        \* the curated Apps: discovery, client, pinned server, scopes, git
  Nothing,     \* no account, no holder, no observation
  MaxToken,    \* bound: tokens of one grant
  MaxChange    \* bound: expiries, selections, restarts and deployments

ASSUME PluginValues == Nothing \notin Job /\ MaxToken \in Nat \ {0}

VARIABLES
  deployment,  \* the deployment's OAuth client for Apps that take theirs from the environment
  flow,        \* plugin_oauth_flows
  account,     \* plugin_accounts, with the stored credential
  grant,       \* external: what the provider holds for the account
  selected,    \* companion_plugins of one Companion
  job,         \* checkPluginAccount and machinePlugins calls under way
  lock,        \* the row lock of each account
  machine,     \* the plugins and generation the daemon holds
  configured,  \* the generation this process last sent
  changes

pluginVars == <<deployment, flow, account, grant, selected, job, lock, machine, configured, changes>>

Deployments == 0..2                 \* 0: no client is configured
Registered == 3                     \* a client registered for one flow
Health == {"unchecked", "ok", "authorization_required", "connection_failed"}
AppRecord == [discovery: {"fixed", "resource-only", "full"}, environment: BOOLEAN, git: BOOLEAN]
Metadata == [resource: {"exact", "other"}, listed: BOOLEAN, endpoint: {"pinned", "foreign"}]

Account(access, refresh) == [access |-> access, refresh |-> refresh, near |-> FALSE, health |-> "unchecked"]
NoJob == [op |-> "idle", phase |-> "idle", todo |-> {}, force |-> {}, list |-> {},
          observed |-> Nothing, at |-> Nothing, token |-> 0, answer |-> "none"]
Fresh(op, todo, force, observed) ==
  [NoJob EXCEPT !.op = op, !.phase = "accounts", !.todo = todo, !.force = force, !.observed = observed]

Connected == {f \in Flow : account[f] # Nothing}
Gits == {f \in Connected : flow[f].app.git}
ClientOf(app) == IF app.environment THEN deployment ELSE Registered

PluginInit ==
  /\ deployment = 1
  /\ flow = [f \in Flow |-> [status |-> "none"]]
  /\ account = [f \in Flow |-> Nothing]
  /\ grant = [f \in Flow |-> [token |-> 0, lost |-> FALSE, live |-> TRUE]]
  /\ selected = {}
  /\ job = [w \in Job |-> NoJob]
  /\ lock = [f \in Flow |-> Nothing]
  /\ machine = {} /\ configured = Nothing
  /\ changes = 0

Change == changes < MaxChange /\ changes' = changes + 1
-----------------------------------------------------------------------------
(***************************************************************************)
(* Connecting.  Every discovered URL must be on the App's own origins, the *)
(* resource must be the App's exact one and name its authorization server. *)
(***************************************************************************)
AllowedUrl(endpoint) == endpoint = "pinned"

Discovered(app, meta) ==
  /\ app.discovery # "fixed" => meta.resource = "exact" /\ meta.listed
  /\ app.discovery = "full" => AllowedUrl(meta.endpoint)

\* beginCompanionPluginOAuth: a failed discovery, an unconfigured client or a failed
\* registration leaves nothing behind; a dynamic client is registered for this flow.
Begun(app, meta) ==
  IF Discovered(app, meta) /\ ClientOf(app) # 0
  THEN {[status |-> "open", app |-> app, client |-> ClientOf(app),
         endpoint |-> IF app.discovery = "full" THEN meta.endpoint ELSE "pinned"]}
  ELSE {}

StartPluginConnection(f, app, meta) ==
  /\ flow[f].status = "none"
  /\ \E begun \in Begun(app, meta) : flow' = [flow EXCEPT ![f] = begun]
  /\ UNCHANGED <<deployment, account, grant, selected, job, lock, machine, configured, changes>>

\* Either the ten minutes pass, or the human refuses and the callback only consumes the link.
ExpireOrCancel(f) ==
  /\ flow[f].status = "open"
  /\ flow' = [flow EXCEPT ![f].status = "consumed"]
  /\ UNCHANGED <<deployment, account, grant, selected, job, lock, machine, configured, changes>>

\* consumePluginFlow commits before the code is exchanged.
ConsumePluginFlow(f) ==
  /\ flow[f].status = "open"
  /\ flow' = [flow EXCEPT ![f].status = "exchanging"]
  /\ UNCHANGED <<deployment, account, grant, selected, job, lock, machine, configured, changes>>

\* completeCompanionPluginOAuth: the answer may lack a refresh token; a lost answer, missing
\* scopes or a crash leave the link consumed and no account.
CompletePluginConnection(f, usable, renewable) ==
  /\ flow[f].status = "exchanging"
  /\ flow' = [flow EXCEPT ![f].status = "consumed"]
  /\ account' = [account EXCEPT ![f] = IF usable THEN Account(1, IF renewable THEN 1 ELSE 0) ELSE Nothing]
  /\ grant' = [grant EXCEPT ![f].token = 1]
  /\ UNCHANGED <<deployment, selected, job, lock, machine, configured, changes>>
-----------------------------------------------------------------------------
(***************************************************************************)
(* The owner's other operations and the outside world.                     *)
(***************************************************************************)
AttachPlugin(f, enabled) ==
  /\ f \in Connected /\ Change
  /\ enabled => lock[f] = Nothing          \* the foreign key waits for the row
  /\ selected' = IF enabled THEN selected \cup {f} ELSE selected \ {f}
  /\ UNCHANGED <<deployment, flow, account, grant, job, lock, machine, configured>>

DisconnectPlugin(f) ==
  /\ f \in Connected /\ lock[f] = Nothing /\ Change
  /\ account' = [account EXCEPT ![f] = Nothing]
  /\ selected' = selected \ {f}
  /\ UNCHANGED <<deployment, flow, grant, job, lock, machine, configured>>

\* The access token comes within a minute of its expiry.
AccessExpires(f) ==
  /\ f \in Connected /\ ~account[f].near /\ lock[f] = Nothing /\ Change
  /\ account' = [account EXCEPT ![f].near = TRUE]
  /\ UNCHANGED <<deployment, flow, grant, selected, job, lock, machine, configured>>

RevokeGrant(f) ==
  /\ f \in Connected /\ grant[f].live /\ Change
  /\ grant' = [grant EXCEPT ![f].live = FALSE]
  /\ UNCHANGED <<deployment, flow, account, selected, job, lock, machine, configured>>

\* The process dies: transactions roll back, and what it had configured is forgotten.  A
\* new deployment may bring another OAuth client.
Redeploy(client) ==
  /\ Change
  /\ deployment' = client
  /\ job' = [w \in Job |-> NoJob]
  /\ grant' = [f \in Flow |-> IF lock[f] # Nothing /\ job[lock[f]].answer = "rotated"
                              THEN [grant[f] EXCEPT !.lost = TRUE] ELSE grant[f]]
  /\ lock' = [f \in Flow |-> Nothing]
  /\ configured' = Nothing
  /\ UNCHANGED <<flow, account, selected, machine>>

\* AgentControl keeps plugins and generation in memory.
DaemonRestarts ==
  /\ machine # {} /\ Change
  /\ machine' = {}
  /\ UNCHANGED <<deployment, flow, account, grant, selected, job, lock, configured>>
-----------------------------------------------------------------------------
(***************************************************************************)
(* checkPluginAccount, and machinePlugins for a run or for app_refresh.    *)
(***************************************************************************)
Set(w, update) == job' = [job EXCEPT ![w] = update]

CheckPluginAccount(w, f) ==
  /\ job[w] = NoJob /\ f \in Connected /\ Change
  /\ Set(w, Fresh("check", {f}, {f}, Nothing))
  /\ UNCHANGED <<deployment, flow, account, grant, selected, lock, machine, configured>>

\* The daemon of a Companion with an active run is visited again and again.
SyncConfiguration(w) ==
  /\ job[w] = NoJob
  /\ \A v \in Job : job[v].op # "sync"      \* controlBusy
  /\ Set(w, Fresh("sync", selected, Gits, machine))
  /\ UNCHANGED <<deployment, flow, account, grant, selected, lock, machine, configured, changes>>

\* app_refresh, asked by the daemon after a provider refused a token: afterwards the
\* configuration is projected again, without the generation the daemon reported.
AppRefresh(w, f) ==
  /\ job[w] = NoJob /\ f \in selected /\ Change
  /\ Set(w, Fresh("refresh", selected, {f}, Nothing))
  /\ UNCHANGED <<deployment, flow, account, grant, selected, lock, machine, configured>>

Refreshes(w, f) == f \in job[w].force /\ account[f].near
Renewable(f) == account[f].refresh # 0 /\ ClientOf(flow[f].app) = flow[f].client
Done(w, f, access) == Set(w, [job[w] EXCEPT !.phase = "accounts", !.at = Nothing, !.token = 0,
                                            !.answer = "none", !.todo = @ \ {f}, !.list = @ \cup {<<f, access>>}])

\* The row is read again under its lock: it may be gone or no longer selected.
HasTurn(w, f) == job[w].phase = "accounts" /\ f \in job[w].todo
Visible(w, f) == f \in Connected /\ (job[w].op = "check" \/ f \in selected)

\* A failed account ends the whole call; a check records why.
Abandon(w, health) ==
  Set(w, IF job[w].op = "check" THEN [job[w] EXCEPT !.phase = "verdict", !.at = Nothing, !.token = 0, !.answer = health] ELSE NoJob)

SkipAccount(w, f) ==
  /\ HasTurn(w, f) /\ ~Visible(w, f) /\ lock[f] = Nothing
  /\ Set(w, IF job[w].op = "check" THEN NoJob ELSE [job[w] EXCEPT !.todo = @ \ {f}])
  /\ UNCHANGED <<deployment, flow, account, grant, selected, lock, machine, configured, changes>>

ProjectAccount(w, f) ==
  /\ HasTurn(w, f) /\ Visible(w, f) /\ ~Refreshes(w, f) /\ lock[f] = Nothing
  /\ Done(w, f, account[f].access)
  /\ UNCHANGED <<deployment, flow, account, grant, selected, lock, machine, configured, changes>>

\* refreshCompanionPluginOAuth refuses before it asks: no refresh token, or the deployment's
\* client is no longer the one the grant was issued to.
RefuseRefresh(w, f) ==
  /\ HasTurn(w, f) /\ Visible(w, f) /\ Refreshes(w, f) /\ ~Renewable(f) /\ lock[f] = Nothing
  /\ Abandon(w, "authorization_required")
  /\ UNCHANGED <<deployment, flow, account, grant, selected, lock, machine, configured, changes>>

\* Mutant: the row is read without FOR UPDATE.
FreeUnlocked(f) == TRUE
Free(f) == lock[f] = Nothing

SendRefresh(w, f) ==
  /\ HasTurn(w, f) /\ Visible(w, f) /\ Refreshes(w, f) /\ Renewable(f) /\ Free(f)
  /\ lock' = [lock EXCEPT ![f] = w]
  /\ Set(w, [job[w] EXCEPT !.phase = "refreshing", !.at = f, !.token = account[f].refresh])
  /\ UNCHANGED <<deployment, flow, account, grant, selected, machine, configured, changes>>

\* External: the provider takes the token it holds, and may rotate it.
ProviderAnswers(w, f, rotates) ==
  /\ job[w].phase = "refreshing" /\ job[w].at = f
  /\ LET accepted == grant[f].live /\ job[w].token = grant[f].token
     IN  /\ rotates => accepted /\ grant[f].token < MaxToken
         /\ grant' = [grant EXCEPT ![f].token = IF rotates THEN @ + 1 ELSE @]
         /\ Set(w, [job[w] EXCEPT !.phase = "answered",
              !.answer = IF ~accepted THEN "refused" ELSE IF rotates THEN "rotated" ELSE "renewed"])
  /\ UNCHANGED <<deployment, flow, account, selected, lock, machine, configured, changes>>

\* parseTokens keeps the old refresh token when the answer brings none.
ParsedRefresh(w, f) == IF job[w].answer = "rotated" THEN grant[f].token ELSE account[f].refresh

\* The row is updated in the transaction that holds its lock.
CommitRefresh(w, f) ==
  /\ job[w].phase = "answered" /\ job[w].answer \in {"rotated", "renewed"} /\ job[w].at = f
  /\ account' = [account EXCEPT ![f].near = FALSE, ![f].access = IF @ < MaxToken THEN @ + 1 ELSE @,
                                ![f].refresh = ParsedRefresh(w, f)]
  /\ lock' = [lock EXCEPT ![f] = Nothing]
  /\ Done(w, f, account'[f].access)
  /\ UNCHANGED <<deployment, flow, grant, selected, machine, configured, changes>>

\* A refusal, an answer that was lost or lacks required scopes: the transaction rolls back,
\* and a token the provider has rotated is gone.
RollBackRefresh(w, f) ==
  /\ job[w].phase = "answered" /\ job[w].at = f
  /\ job[w].answer # "refused" => Change
  /\ job[w].answer = "refused" => UNCHANGED changes
  /\ grant' = [grant EXCEPT ![f].lost = @ \/ job[w].answer = "rotated"]
  /\ lock' = [lock EXCEPT ![f] = Nothing]
  /\ Abandon(w, "authorization_required")
  /\ UNCHANGED <<deployment, flow, account, selected, machine, configured>>

\* Discovery runs outside the transaction; the verdict is written over whatever is there.
Discover(w, reached) ==
  /\ job[w].op = "check" /\ job[w].phase = "accounts" /\ job[w].todo = {}
  /\ Set(w, [job[w] EXCEPT !.phase = "verdict", !.answer = IF reached THEN "ok" ELSE "connection_failed"])
  /\ UNCHANGED <<deployment, flow, account, grant, selected, lock, machine, configured, changes>>

SaveHealth(w, f) ==
  /\ job[w].phase = "verdict" /\ job[w].force = {f} /\ lock[f] = Nothing
  /\ account' = IF f \in Connected THEN [account EXCEPT ![f].health = job[w].answer] ELSE account
  /\ Set(w, NoJob)
  /\ UNCHANGED <<deployment, flow, grant, selected, lock, machine, configured, changes>>

\* Mutant: the generation the daemon reports is not compared.
StaleUnobserved(w) == configured # job[w].list
StaleVerdict(w) ==
  \/ configured # job[w].list
  \/ job[w].observed \notin {Nothing, job[w].list}

\* The generation is a hash of the projection, so the projection stands for it.
PutConfiguration(w) ==
  /\ job[w].op \in {"sync", "refresh"} /\ job[w].phase = "accounts" /\ job[w].todo = {}
  /\ machine' = IF StaleVerdict(w) THEN job[w].list ELSE machine
  /\ configured' = IF StaleVerdict(w) THEN job[w].list ELSE configured
  /\ Set(w, NoJob)
  /\ UNCHANGED <<deployment, flow, account, grant, selected, lock, changes>>

JobStep(w) ==
  \/ \E f \in Flow :
       \/ SkipAccount(w, f) \/ ProjectAccount(w, f) \/ RefuseRefresh(w, f) \/ SendRefresh(w, f)
       \/ ProviderAnswers(w, f, FALSE) \/ CommitRefresh(w, f) \/ RollBackRefresh(w, f) \/ SaveHealth(w, f)
  \/ Discover(w, TRUE)
  \/ PutConfiguration(w)
-----------------------------------------------------------------------------
PluginNext ==
  \/ \E f \in Flow, app \in Apps, meta \in Metadata : StartPluginConnection(f, app, meta)
  \/ \E f \in Flow : ExpireOrCancel(f) \/ ConsumePluginFlow(f) \/ DisconnectPlugin(f)
                       \/ AccessExpires(f) \/ RevokeGrant(f)
  \/ \E f \in Flow, u, r \in BOOLEAN : CompletePluginConnection(f, u, r)
  \/ \E f \in Flow, e \in BOOLEAN : AttachPlugin(f, e)
  \/ \E c \in Deployments : Redeploy(c)
  \/ DaemonRestarts
  \/ \E w \in Job, f \in Flow : CheckPluginAccount(w, f) \/ AppRefresh(w, f) \/ ProviderAnswers(w, f, TRUE)
  \/ \E w \in Job : SyncConfiguration(w) \/ JobStep(w) \/ Discover(w, FALSE)

\* A started call ends by its own timeouts, and a run's daemon is polled without end.
PluginFairness ==
  /\ \A w \in Job : WF_pluginVars(JobStep(w))
  /\ WF_pluginVars(\E w \in Job : SyncConfiguration(w))

PluginSpec == PluginInit /\ [][PluginNext]_pluginVars /\ PluginFairness
-----------------------------------------------------------------------------
PluginTypeOK ==
  /\ deployment \in Deployments /\ changes \in 0..MaxChange
  /\ \A f \in Flow :
       /\ flow[f].status \in {"none", "open", "exchanging", "consumed"}
       /\ account[f] # Nothing =>
            account[f] \in [access: 1..MaxToken, refresh: 0..MaxToken, near: BOOLEAN, health: Health]
       /\ lock[f] \in Job \cup {Nothing}
  /\ selected \subseteq Flow

\* While a refresh is on the wire it carries the token the provider holds, through the
\* client the grant was issued to and to the App's own endpoint, whoever else refreshes the
\* same account; only a rotation whose transaction was rolled back can spoil it.
RefreshCarriesTheGrant ==
  \A w \in Job : job[w].phase = "refreshing" =>
    \E f \in {job[w].at} :
      /\ grant[f].lost \/ job[w].token = grant[f].token
      /\ ClientOf(flow[f].app) = flow[f].client
      /\ flow[f].endpoint = "pinned"

\* Once the changes end, the daemon holds exactly the projection of the selected accounts,
\* after any restart on either side and any overtaking of an older projection, unless a
\* selected Git account can no longer be refreshed.
Projection == {<<f, account[f].access>> : f \in selected}
MachineFollowsSelection ==
  <>[](machine = Projection \/ \E f \in Gits \cap selected : account[f].near)
=============================================================================
