---------------------------- MODULE ProductProofs ----------------------------
(***************************************************************************)
(* What is true of any number of Companions, tasks, turns, accounts and jobs. *)
(* Discussions: a result is continued once, a call creates one task, a turn *)
(* that ended is silent.  Delegation: nobody waits for itself, and a review *)
(* is asked for once.  Apps: a refresh carries the grant that the provider *)
(* holds.                                                                  *)
(***************************************************************************)
EXTENDS Discussions, Delegation, Plugins, TLAPS

-----------------------------------------------------------------------------
\* Accounts of plugins.

\* The endpoint of a link is pinned from the start.
LinkRecord == [status : {"open", "exchanging", "consumed"}, app : Apps, client : Deployments \cup {Registered},
               endpoint : {"pinned"}]
AccountRecord == [access : 1..MaxToken, refresh : 0..MaxToken, near : BOOLEAN, health : Health]
GrantRecord == [token : 0..MaxToken, lost : BOOLEAN, live : BOOLEAN]
Projections == SUBSET (Flow \X (1..MaxToken))
JobRecord == [op : {"idle", "check", "sync", "refresh"},
              phase : {"idle", "accounts", "refreshing", "answered", "verdict"},
              todo : SUBSET Flow, force : SUBSET Flow, list : Projections,
              observed : Projections \cup {Nothing}, at : Flow \cup {Nothing}, token : 0..MaxToken,
              answer : {"none", "refused", "rotated", "renewed"} \cup Health]

PluginTypes ==
  /\ deployment \in Deployments
  /\ flow \in [Flow -> LinkRecord \cup {[status |-> "none"]}]
  /\ account \in [Flow -> AccountRecord \cup {Nothing}]
  /\ grant \in [Flow -> GrantRecord]
  /\ selected \in SUBSET Flow /\ machine \in Projections
  /\ job \in [Job -> JobRecord]
  /\ lock \in [Flow -> Job \cup {Nothing}]

Spends(w) == job[w].phase \in {"refreshing", "answered"}
Rotated(f) == lock[f] # Nothing /\ job[lock[f]].answer = "rotated"

\* A call that spends a refresh token holds the account's row, and while its request is on the
\* wire the token is the provider's and the client is the one the grant was issued to.
JobOK(w) ==
  /\ job[w].phase \in {"idle", "accounts", "refreshing"} => job[w].answer = "none"
  /\ job[w].phase = "verdict" => job[w].answer \in Health
  /\ Spends(w) => job[w].at \in Flow /\ lock[job[w].at] = w
  /\ job[w].phase = "refreshing" =>
       /\ grant[job[w].at].lost \/ job[w].token = grant[job[w].at].token
       /\ ClientOf(flow[job[w].at].app) = flow[job[w].at].client

\* An account comes from a consumed link; its refresh token is the provider's unless a
\* rotation was lost or waits for its commit.
AccountOK(f) ==
  /\ account[f] # Nothing => flow[f].status = "consumed"
  /\ lock[f] # Nothing => account[f] # Nothing /\ job[lock[f]].at = f /\ Spends(lock[f])
  /\ account[f] # Nothing /\ account[f].refresh # 0 =>
       grant[f].lost \/ account[f].refresh = grant[f].token \/ Rotated(f)

PluginInv ==
  /\ PluginTypes
  /\ \A w \in Job : JobOK(w)
  /\ \A f \in Flow : AccountOK(f)

LEMMA PluginBegins == PluginInit => PluginInv
<1> SUFFICES ASSUME PluginInit PROVE PluginInv
  OBVIOUS
<1>1. NoJob \in JobRecord /\ NoJob.phase = "idle" /\ NoJob.answer = "none"
  BY PluginValues DEF NoJob, JobRecord, Projections
<1>2. [token |-> 0, lost |-> FALSE, live |-> TRUE] \in GrantRecord
  BY PluginValues DEF GrantRecord
<1>3. PluginTypes
  BY <1>1, <1>2 DEF PluginInit, PluginTypes, Deployments, Projections
<1>4. \A w \in Job : JobOK(w)
  BY <1>1 DEF PluginInit, JobOK, Spends
<1>5. \A f \in Flow : AccountOK(f)
  BY DEF PluginInit, AccountOK
<1> QED BY <1>3, <1>4, <1>5 DEF PluginInv

\* Steps of the links, before there is an account.
LEMMA LinkKeeps ==
  ASSUME PluginInv, NEW f \in Flow,
         \/ \E app \in Apps, meta \in Metadata : StartPluginConnection(f, app, meta)
         \/ ExpireOrCancel(f) \/ ConsumePluginFlow(f)
  PROVE  PluginInv'
<1>1. UNCHANGED <<deployment, account, grant, selected, job, lock, machine>>
  BY DEF StartPluginConnection, ExpireOrCancel, ConsumePluginFlow
<1>2. flow[f].status # "consumed"
  BY DEF StartPluginConnection, ExpireOrCancel, ConsumePluginFlow
<1>3. PICK r \in LinkRecord : flow' = [flow EXCEPT ![f] = r]
  <2>1. ASSUME NEW app \in Apps, NEW meta \in Metadata, StartPluginConnection(f, app, meta)
        PROVE  \E r \in LinkRecord : flow' = [flow EXCEPT ![f] = r]
    <3>1. PICK begun \in Begun(app, meta) : flow' = [flow EXCEPT ![f] = begun]
      BY <2>1 DEF StartPluginConnection
    <3>2. ClientOf(app) \in Deployments \cup {Registered}
      BY DEF PluginInv, PluginTypes, ClientOf
    <3>3. begun \in LinkRecord
      BY <3>1, <3>2 DEF Begun, LinkRecord, Discovered, AllowedUrl
    <3> QED BY <3>1, <3>3
  <2>2. ASSUME NEW s \in {"exchanging", "consumed"}, flow[f].status = "open", flow' = [flow EXCEPT ![f].status = s]
        PROVE  \E r \in LinkRecord : flow' = [flow EXCEPT ![f] = r]
    <3>1. flow[f] \in LinkRecord
      BY <2>2 DEF PluginInv, PluginTypes
    <3>2. [flow[f] EXCEPT !.status = s] \in LinkRecord
      BY <3>1 DEF LinkRecord
    <3> QED BY <2>2, <3>2
  <2> QED BY <2>1, <2>2 DEF ExpireOrCancel, ConsumePluginFlow
<1>4. account[f] = Nothing /\ lock[f] = Nothing
  BY <1>2 DEF PluginInv, AccountOK
<1>5. PluginTypes'
  BY <1>1, <1>3 DEF PluginInv, PluginTypes
<1>6. ASSUME NEW w \in Job PROVE JobOK(w)'
  <2>1. Spends(w) => job[w].at \in Flow \ {f}
    BY <1>4, PluginValues DEF PluginInv, JobOK
  <2>2. Spends(w) => flow'[job[w].at] = flow[job[w].at]
    BY <1>3, <2>1 DEF PluginInv, PluginTypes
  <2> QED BY <1>1, <2>2 DEF PluginInv, JobOK, Spends, ClientOf
<1>7. ASSUME NEW g \in Flow PROVE AccountOK(g)'
  <2>1. g # f => flow'[g] = flow[g]
    BY <1>3 DEF PluginInv, PluginTypes
  <2> QED BY <1>1, <1>4, <2>1 DEF PluginInv, AccountOK, Spends, Rotated
<1> QED BY <1>5, <1>6, <1>7 DEF PluginInv

LEMMA CompleteKeeps ==
  ASSUME PluginInv, NEW f \in Flow, NEW usable \in BOOLEAN, NEW renewable \in BOOLEAN,
         CompletePluginConnection(f, usable, renewable)
  PROVE  PluginInv'
<1> DEFINE r == [flow[f] EXCEPT !.status = "consumed"]
           c == IF usable THEN Account(1, IF renewable THEN 1 ELSE 0) ELSE Nothing
           p == [grant[f] EXCEPT !.token = 1]
<1>1. /\ flow' = [flow EXCEPT ![f] = r] /\ account' = [account EXCEPT ![f] = c]
      /\ grant' = [grant EXCEPT ![f] = p]
      /\ UNCHANGED <<deployment, selected, job, lock, machine>> /\ flow[f].status = "exchanging"
  BY DEF CompletePluginConnection
<1>2. account[f] = Nothing /\ lock[f] = Nothing
  BY <1>1 DEF PluginInv, AccountOK
<1>3. flow[f] \in LinkRecord /\ grant[f] \in GrantRecord
  BY <1>1 DEF PluginInv, PluginTypes
<1>4. r \in LinkRecord /\ r.status = "consumed"
  BY <1>3 DEF LinkRecord
<1>5. p \in GrantRecord /\ p.token = 1
  BY <1>3, PluginValues DEF GrantRecord
<1>6. c \in AccountRecord \cup {Nothing} /\ (c # Nothing => c.refresh \in {0, 1})
  BY PluginValues DEF Account, AccountRecord, Health
<1> HIDE DEF r, c, p
<1>7. PluginTypes'
  BY <1>1, <1>4, <1>5, <1>6 DEF PluginInv, PluginTypes
<1>8. ASSUME NEW w \in Job PROVE JobOK(w)'
  <2>1. Spends(w) => job[w].at \in Flow \ {f}
    BY <1>2, PluginValues DEF PluginInv, JobOK
  <2>2. Spends(w) => flow'[job[w].at] = flow[job[w].at] /\ grant'[job[w].at] = grant[job[w].at]
    BY <1>1, <2>1 DEF PluginInv, PluginTypes
  <2> QED BY <1>1, <2>2 DEF PluginInv, JobOK, Spends, ClientOf
<1>9. ASSUME NEW g \in Flow PROVE AccountOK(g)'
  <2>1. CASE g = f
    <3>1. flow'[f] = r /\ account'[f] = c /\ grant'[f] = p
      BY <1>1 DEF PluginInv, PluginTypes
    <3> QED BY <2>1, <1>1, <1>2, <1>4, <1>5, <1>6, <3>1 DEF AccountOK
  <2>2. CASE g # f
    <3>1. flow'[g] = flow[g] /\ account'[g] = account[g] /\ grant'[g] = grant[g]
      BY <2>2, <1>1 DEF PluginInv, PluginTypes
    <3> QED BY <1>1, <3>1 DEF PluginInv, AccountOK, Spends, Rotated
  <2> QED BY <2>1, <2>2
<1> QED BY <1>7, <1>8, <1>9 DEF PluginInv

\* Steps of the owner and of the world that touch accounts nobody has locked.
LEMMA OwnerKeeps ==
  ASSUME PluginInv, NEW f \in Flow,
         DisconnectPlugin(f) \/ AccessExpires(f) \/ RevokeGrant(f) \/ (\E e \in BOOLEAN : AttachPlugin(f, e))
  PROVE  PluginInv'
<1>1. UNCHANGED <<deployment, flow, job, lock, machine>>
  BY DEF DisconnectPlugin, AccessExpires, RevokeGrant, AttachPlugin
<1>2. selected' \in SUBSET Flow
  BY DEF DisconnectPlugin, AccessExpires, RevokeGrant, AttachPlugin, PluginInv, PluginTypes
<1>3. PICK p \in GrantRecord : /\ grant' = [grant EXCEPT ![f] = p]
                               /\ p.token = grant[f].token /\ (p.lost <=> grant[f].lost)
  <2>1. grant \in [Flow -> GrantRecord] /\ grant[f] \in GrantRecord
    BY DEF PluginInv, PluginTypes
  <2>2. CASE RevokeGrant(f)
    <3> DEFINE p == [grant[f] EXCEPT !.live = FALSE]
    <3>1. p \in GrantRecord /\ p.token = grant[f].token /\ (p.lost <=> grant[f].lost)
      BY <2>1 DEF GrantRecord
    <3>2. grant' = [grant EXCEPT ![f] = p]
      BY <2>2 DEF RevokeGrant
    <3> QED BY <3>1, <3>2
  <2>3. CASE grant' = grant
    BY <2>1, <2>3
  <2> QED BY <2>2, <2>3 DEF DisconnectPlugin, AccessExpires, AttachPlugin
<1>4. PICK c \in AccountRecord \cup {Nothing} :
         /\ account' = [account EXCEPT ![f] = c]
         /\ c = account[f] \/ lock[f] = Nothing
         /\ c # Nothing => account[f] # Nothing /\ c.refresh = account[f].refresh
  <2>1. account \in [Flow -> AccountRecord \cup {Nothing}]
    BY DEF PluginInv, PluginTypes
  <2>2. CASE DisconnectPlugin(f)
    BY <2>2 DEF DisconnectPlugin
  <2>3. CASE AccessExpires(f)
    <3> DEFINE c == [account[f] EXCEPT !.near = TRUE]
    <3>1. account[f] # Nothing /\ lock[f] = Nothing /\ account' = [account EXCEPT ![f] = c]
      BY <2>3 DEF AccessExpires, Connected
    <3>2. account[f] \in AccountRecord
      BY <2>1, <3>1
    <3>3. c \in AccountRecord /\ c.refresh = account[f].refresh
      BY <3>2 DEF AccountRecord
    <3> QED BY <3>1, <3>3
  <2>4. CASE account' = account
    BY <2>1, <2>4
  <2> QED BY <2>2, <2>3, <2>4 DEF RevokeGrant, AttachPlugin
<1>5. PluginTypes'
  BY <1>1, <1>2, <1>3, <1>4 DEF PluginInv, PluginTypes
<1>6. \A g \in Flow : grant'[g].token = grant[g].token /\ (grant'[g].lost <=> grant[g].lost)
  BY <1>3 DEF PluginInv, PluginTypes
<1>7. ASSUME NEW w \in Job PROVE JobOK(w)'
  BY <1>1, <1>6 DEF PluginInv, JobOK, Spends, ClientOf
<1>8. ASSUME NEW g \in Flow PROVE AccountOK(g)'
  <2>1. /\ account'[g] # Nothing => account[g] # Nothing /\ account'[g].refresh = account[g].refresh
        /\ account'[g] = account[g] \/ lock[g] = Nothing
    BY <1>4 DEF PluginInv, PluginTypes
  <2> QED BY <1>1, <1>6, <2>1 DEF PluginInv, AccountOK, Spends, Rotated
<1> QED BY <1>5, <1>7, <1>8 DEF PluginInv

\* A step of a call that holds no row: it moves on, skips or projects an account, or ends.
LEMMA CallMoves ==
  ASSUME PluginInv, NEW w \in Job, NEW r \in JobRecord, job' = [job EXCEPT ![w] = r],
         r.phase \in {"idle", "accounts", "verdict"}, r.phase # "verdict" => r.answer = "none",
         r.phase = "verdict" => r.answer \in Health, ~Spends(w), machine' \in Projections,
         UNCHANGED <<deployment, flow, account, grant, selected, lock>>
  PROVE  PluginInv'
<1>1. PluginTypes'
  BY DEF PluginInv, PluginTypes
<1>2. job'[w] = r /\ \A v \in Job \ {w} : job'[v] = job[v]
  BY DEF PluginInv, PluginTypes
<1>3. ASSUME NEW v \in Job PROVE JobOK(v)'
  BY <1>2 DEF PluginInv, JobOK, Spends, ClientOf
<1>4. ASSUME NEW f \in Flow PROVE AccountOK(f)'
  <2>1. lock[f] # Nothing => lock[f] \in Job \ {w}
    BY DEF PluginInv, PluginTypes, AccountOK
  <2> QED BY <1>2, <2>1 DEF PluginInv, AccountOK, Spends, Rotated
<1> QED BY <1>1, <1>3, <1>4 DEF PluginInv

\* The records that the calls make of each other.
LEMMA IdleCall == NoJob \in JobRecord /\ NoJob.phase = "idle" /\ NoJob.answer = "none"
  BY PluginValues DEF NoJob, JobRecord, Projections

LEMMA FreshCall ==
  ASSUME NEW op \in {"check", "sync", "refresh"}, NEW todo \in SUBSET Flow, NEW force \in SUBSET Flow,
         NEW observed \in Projections \cup {Nothing}
  PROVE  LET r == Fresh(op, todo, force, observed)
         IN  r \in JobRecord /\ r.phase = "accounts" /\ r.answer = "none"
  BY IdleCall DEF Fresh, JobRecord

LEMMA SyncBegins ==
  ASSUME PluginInv, NEW w \in Job, SyncConfiguration(w)
  PROVE  PluginInv'
<1>1. Gits \in SUBSET Flow /\ selected \in SUBSET Flow /\ machine \in Projections
  BY DEF Gits, Connected, PluginInv, PluginTypes
<1>2. PICK r \in JobRecord : job' = [job EXCEPT ![w] = r] /\ r.phase = "accounts" /\ r.answer = "none"
  BY <1>1, FreshCall DEF SyncConfiguration, Set
<1>3. ~Spends(w)
  BY IdleCall DEF SyncConfiguration, Spends
<1>4. UNCHANGED <<deployment, flow, account, grant, selected, lock, machine>>
  BY DEF SyncConfiguration
<1> QED BY <1>1, <1>2, <1>3, <1>4, CallMoves

LEMMA CallsBegin ==
  ASSUME PluginInv, NEW w \in Job, NEW f \in Flow, CheckPluginAccount(w, f) \/ AppRefresh(w, f)
  PROVE  PluginInv'
<1>1. {f} \in SUBSET Flow /\ selected \in SUBSET Flow /\ machine \in Projections
  BY DEF PluginInv, PluginTypes
<1>2. PICK r \in JobRecord : job' = [job EXCEPT ![w] = r] /\ r.phase = "accounts" /\ r.answer = "none"
  BY <1>1, FreshCall DEF CheckPluginAccount, AppRefresh, Set
<1>3. ~Spends(w)
  BY IdleCall DEF CheckPluginAccount, AppRefresh, Spends
<1>4. UNCHANGED <<deployment, flow, account, grant, selected, lock, machine>>
  BY DEF CheckPluginAccount, AppRefresh
<1> QED BY <1>1, <1>2, <1>3, <1>4, CallMoves

\* What a call becomes when it has done an account, and when it gives up.
DoneRecord(w, f, access) ==
  [job[w] EXCEPT !.phase = "accounts", !.at = Nothing, !.token = 0, !.answer = "none",
                 !.todo = @ \ {f}, !.list = @ \cup {<<f, access>>}]

LEMMA DoneCall ==
  ASSUME NEW w \in Job, job[w] \in JobRecord, NEW f \in Flow, NEW access \in 1..MaxToken
  PROVE  /\ DoneRecord(w, f, access) \in JobRecord
         /\ DoneRecord(w, f, access).phase = "accounts" /\ DoneRecord(w, f, access).answer = "none"
<1>1. <<f, access>> \in Flow \X (1..MaxToken)
  OBVIOUS
<1>2. job[w].list \cup {<<f, access>>} \in Projections /\ job[w].todo \ {f} \in SUBSET Flow
  BY <1>1 DEF JobRecord, Projections
<1>3. 0 \in 0..MaxToken
  BY PluginValues
<1> HIDE DEF Projections
<1> QED BY <1>2, <1>3 DEF DoneRecord, JobRecord

Abandoned(w, health) ==
  IF job[w].op = "check"
  THEN [job[w] EXCEPT !.phase = "verdict", !.at = Nothing, !.token = 0, !.answer = health] ELSE NoJob

LEMMA AbandonedCall ==
  ASSUME NEW w \in Job, job[w] \in JobRecord, NEW health \in Health
  PROVE  /\ Abandoned(w, health) \in JobRecord
         /\ Abandoned(w, health).phase \in {"idle", "verdict"}
         /\ Abandoned(w, health).phase # "verdict" => Abandoned(w, health).answer = "none"
         /\ Abandoned(w, health).phase = "verdict" => Abandoned(w, health).answer \in Health
<1>1. CASE job[w].op = "check"
  <2> DEFINE r == [job[w] EXCEPT !.phase = "verdict", !.at = Nothing, !.token = 0, !.answer = health]
  <2>1. 0 \in 0..MaxToken
    BY PluginValues
  <2>2. r \in JobRecord /\ r.phase = "verdict" /\ r.answer = health
    BY <2>1 DEF JobRecord
  <2>3. Abandoned(w, health) = r
    BY <1>1 DEF Abandoned
  <2> QED BY <2>2, <2>3
<1>2. CASE job[w].op # "check"
  BY <1>2, IdleCall DEF Abandoned
<1> QED BY <1>1, <1>2

LEMMA CallsMoveOn ==
  ASSUME PluginInv, NEW w \in Job, NEW f \in Flow,
         SkipAccount(w, f) \/ ProjectAccount(w, f) \/ RefuseRefresh(w, f)
  PROVE  PluginInv'
<1>1. job[w] \in JobRecord /\ job[w].phase = "accounts" /\ machine \in Projections /\ job[w].answer = "none"
  BY DEF SkipAccount, ProjectAccount, RefuseRefresh, HasTurn, PluginInv, PluginTypes, JobOK
<1>2. UNCHANGED <<deployment, flow, account, grant, selected, lock, machine>>
  BY DEF SkipAccount, ProjectAccount, RefuseRefresh
<1>3. PICK r \in JobRecord : /\ job' = [job EXCEPT ![w] = r] /\ r.phase \in {"idle", "accounts", "verdict"}
                             /\ r.phase # "verdict" => r.answer = "none"
                             /\ r.phase = "verdict" => r.answer \in Health
  <2>1. CASE SkipAccount(w, f)
    <3> DEFINE r == [job[w] EXCEPT !.todo = @ \ {f}]
    <3>1. r \in JobRecord /\ r.phase = "accounts" /\ r.answer = "none"
      BY <1>1 DEF JobRecord
    <3>2. job' = [job EXCEPT ![w] = IF job[w].op = "check" THEN NoJob ELSE r]
      BY <2>1 DEF SkipAccount, Set
    <3> HIDE DEF r
    <3> QED BY <3>1, <3>2, IdleCall
  <2>2. CASE ProjectAccount(w, f)
    <3>1. account[f] \in AccountRecord
      BY <2>2 DEF ProjectAccount, Visible, Connected, PluginInv, PluginTypes
    <3>2. account[f].access \in 1..MaxToken
      BY <3>1 DEF AccountRecord
    <3>3. job' = [job EXCEPT ![w] = DoneRecord(w, f, account[f].access)]
      BY <2>2 DEF ProjectAccount, Set, Done, DoneRecord
    <3> QED BY <1>1, <3>2, <3>3, DoneCall
  <2>3. CASE RefuseRefresh(w, f)
    <3>1. job' = [job EXCEPT ![w] = Abandoned(w, "authorization_required")]
      BY <2>3 DEF RefuseRefresh, Set, Abandon, Abandoned
    <3>2. "authorization_required" \in Health
      BY DEF Health
    <3> QED BY <1>1, <3>1, <3>2, AbandonedCall
  <2> QED BY <2>1, <2>2, <2>3
<1>4. ~Spends(w)
  BY <1>1 DEF Spends
<1> QED BY <1>1, <1>2, <1>3, <1>4, CallMoves

LEMMA CallsEnd ==
  ASSUME PluginInv, NEW w \in Job, (\E reached \in BOOLEAN : Discover(w, reached)) \/ PutConfiguration(w)
  PROVE  PluginInv'
<1>1. job[w] \in JobRecord /\ job[w].phase = "accounts"
  BY DEF Discover, PutConfiguration, PluginInv, PluginTypes
<1>2. UNCHANGED <<deployment, flow, account, grant, selected, lock>>
  BY DEF Discover, PutConfiguration
<1>3. machine' \in Projections
  <2>1. job[w].list \in Projections
    BY <1>1 DEF JobRecord
  <2> QED BY <2>1 DEF Discover, PutConfiguration, PluginInv, PluginTypes
<1>4. PICK r \in JobRecord : /\ job' = [job EXCEPT ![w] = r] /\ r.phase \in {"idle", "accounts", "verdict"}
                             /\ r.phase # "verdict" => r.answer = "none"
                             /\ r.phase = "verdict" => r.answer \in Health
  <2>1. ASSUME NEW reached \in BOOLEAN, Discover(w, reached)
        PROVE  \E r \in JobRecord : job' = [job EXCEPT ![w] = r] /\ r.phase = "verdict" /\ r.answer \in Health
    <3> DEFINE s == IF reached THEN "ok" ELSE "connection_failed"
               r == [job[w] EXCEPT !.phase = "verdict", !.answer = s]
    <3>1. s \in Health
      BY DEF Health
    <3> HIDE DEF s
    <3>2. r \in JobRecord /\ r.phase = "verdict" /\ r.answer = s
      BY <1>1, <3>1 DEF JobRecord
    <3>3. job' = [job EXCEPT ![w] = r]
      BY <2>1 DEF Discover, Set, s
    <3> QED BY <3>1, <3>2, <3>3
  <2>2. CASE PutConfiguration(w)
    BY <2>2, IdleCall DEF PutConfiguration, Set
  <2> QED BY <2>1, <2>2
<1>5. ~Spends(w)
  BY <1>1 DEF Spends
<1> QED BY <1>1, <1>2, <1>3, <1>4, <1>5, CallMoves

\* The row of an account is locked by one call: another that spends is at another account.
LEMMA OneSpender ==
  ASSUME PluginInv, NEW w \in Job, Spends(w), NEW v \in Job, Spends(v), job[v].at = job[w].at
  PROVE  v = w
  BY DEF PluginInv, JobOK

LEMMA SendKeeps ==
  ASSUME PluginInv, NEW w \in Job, NEW f \in Flow, SendRefresh(w, f)
  PROVE  PluginInv'
<1> DEFINE r == [job[w] EXCEPT !.phase = "refreshing", !.at = f, !.token = account[f].refresh]
<1>1. /\ job' = [job EXCEPT ![w] = r] /\ lock' = [lock EXCEPT ![f] = w] /\ lock[f] = Nothing
      /\ UNCHANGED <<deployment, flow, account, grant, selected, machine>>
      /\ job[w].phase = "accounts" /\ account[f] # Nothing /\ account[f].refresh # 0
      /\ ClientOf(flow[f].app) = flow[f].client
  BY DEF SendRefresh, Set, Free, HasTurn, Visible, Connected, Renewable
<1>2. job[w] \in JobRecord /\ account[f] \in AccountRecord /\ job[w].answer = "none"
  BY <1>1 DEF PluginInv, PluginTypes, JobOK
<1>3. r \in JobRecord /\ r.phase = "refreshing" /\ r.at = f /\ r.token = account[f].refresh /\ r.answer = "none"
  BY <1>2 DEF JobRecord, AccountRecord
<1> HIDE DEF r
<1>4. /\ job'[w] = r /\ \A v \in Job \ {w} : job'[v] = job[v]
      /\ lock'[f] = w /\ \A g \in Flow \ {f} : lock'[g] = lock[g]
  BY <1>1 DEF PluginInv, PluginTypes
<1>5. PluginTypes'
  BY <1>1, <1>3 DEF PluginInv, PluginTypes
<1>6. grant[f].lost \/ account[f].refresh = grant[f].token
  BY <1>1 DEF PluginInv, AccountOK, Rotated
<1>7. ASSUME NEW v \in Job PROVE JobOK(v)'
  <2>1. CASE v = w
    BY <2>1, <1>1, <1>3, <1>4, <1>6 DEF JobOK, Spends, ClientOf
  <2>2. CASE v # w
    <3>1. Spends(v) => job[v].at \in Flow \ {f}
      BY <1>1, PluginValues DEF PluginInv, JobOK
    <3> QED BY <2>2, <1>1, <1>4, <3>1 DEF PluginInv, JobOK, Spends, ClientOf
  <2> QED BY <2>1, <2>2
<1>8. ASSUME NEW g \in Flow PROVE AccountOK(g)'
  <2>1. CASE g = f
    BY <2>1, <1>1, <1>3, <1>4, <1>6 DEF PluginInv, AccountOK, Spends, Rotated
  <2>2. CASE g # f
    <3>1. lock[g] # Nothing => lock[g] \in Job \ {w}
      BY <1>1 DEF PluginInv, PluginTypes, AccountOK, Spends
    <3> QED BY <2>2, <1>1, <1>4, <3>1 DEF PluginInv, AccountOK, Spends, Rotated
  <2> QED BY <2>1, <2>2
<1> QED BY <1>5, <1>7, <1>8 DEF PluginInv

LEMMA AnswerKeeps ==
  ASSUME PluginInv, NEW w \in Job, NEW f \in Flow, NEW rotates \in BOOLEAN, ProviderAnswers(w, f, rotates)
  PROVE  PluginInv'
<1> DEFINE accepted == grant[f].live /\ job[w].token = grant[f].token
           a == IF ~accepted THEN "refused" ELSE IF rotates THEN "rotated" ELSE "renewed"
           r == [job[w] EXCEPT !.phase = "answered", !.answer = a]
           t == IF rotates THEN grant[f].token + 1 ELSE grant[f].token
           p == [grant[f] EXCEPT !.token = t]
<1>1. /\ job' = [job EXCEPT ![w] = r] /\ grant' = [grant EXCEPT ![f] = p]
      /\ UNCHANGED <<deployment, flow, account, selected, lock, machine>>
      /\ job[w].phase = "refreshing" /\ job[w].at = f /\ (rotates => accepted /\ grant[f].token < MaxToken)
  BY DEF ProviderAnswers, Set
<1>2. job[w] \in JobRecord /\ grant[f] \in GrantRecord /\ lock[f] = w /\ Spends(w)
  BY <1>1 DEF PluginInv, PluginTypes, JobOK, Spends
<1>3. a \in {"refused", "rotated", "renewed"} /\ (rotates => a = "rotated")
  BY <1>1
<1>4. t \in 0..MaxToken /\ (~rotates => t = grant[f].token)
  BY <1>1, <1>2, PluginValues DEF GrantRecord
<1> HIDE DEF a, t
<1>5. r \in JobRecord /\ r.phase = "answered" /\ r.at = f /\ r.answer = a
  BY <1>1, <1>2, <1>3 DEF JobRecord
<1>6. p \in GrantRecord /\ p.token = t /\ (p.lost <=> grant[f].lost)
  BY <1>2, <1>4 DEF GrantRecord
<1> HIDE DEF r, p
<1>7. /\ job'[w] = r /\ \A v \in Job \ {w} : job'[v] = job[v]
      /\ grant'[f] = p /\ \A g \in Flow \ {f} : grant'[g] = grant[g]
  BY <1>1 DEF PluginInv, PluginTypes
<1>8. PluginTypes'
  BY <1>1, <1>5, <1>6 DEF PluginInv, PluginTypes
<1>9. ASSUME NEW v \in Job PROVE JobOK(v)'
  <2>1. CASE v = w
    BY <2>1, <1>1, <1>2, <1>5, <1>7 DEF JobOK, Spends
  <2>2. CASE v # w
    <3>1. Spends(v) => job[v].at \in Flow \ {f}
      BY <2>2, <1>2, <1>1, OneSpender DEF PluginInv, JobOK
    <3> QED BY <2>2, <1>1, <1>7, <3>1 DEF PluginInv, JobOK, Spends, ClientOf
  <2> QED BY <2>1, <2>2
<1>10. ASSUME NEW g \in Flow PROVE AccountOK(g)'
  <2>1. CASE g = f
    <3>1. Rotated(f)' \/ ~rotates
      BY <1>1, <1>2, <1>3, <1>5, <1>7, PluginValues DEF Rotated
    <3>2. ~Rotated(f)
      BY <1>1, <1>2 DEF PluginInv, JobOK, Rotated
    <3> QED BY <2>1, <1>1, <1>2, <1>4, <1>5, <1>6, <1>7, <3>1, <3>2 DEF PluginInv, AccountOK, Spends
  <2>2. CASE g # f
    <3>1. lock[g] # Nothing => lock[g] \in Job \ {w}
      BY <2>2, <1>1 DEF PluginInv, PluginTypes, AccountOK
    <3> QED BY <2>2, <1>1, <1>7, <3>1 DEF PluginInv, AccountOK, Spends, Rotated
  <2> QED BY <2>1, <2>2
<1> QED BY <1>8, <1>9, <1>10 DEF PluginInv

LEMMA CommitKeeps ==
  ASSUME PluginInv, NEW w \in Job, NEW f \in Flow, CommitRefresh(w, f)
  PROVE  PluginInv'
<1> DEFINE access == IF account[f].access < MaxToken THEN account[f].access + 1 ELSE account[f].access
           refresh == IF job[w].answer = "rotated" THEN grant[f].token ELSE account[f].refresh
           c == [account[f] EXCEPT !.near = FALSE, !.access = access, !.refresh = refresh]
           r == DoneRecord(w, f, access)
<1>1. /\ job[w].phase = "answered" /\ job[w].answer \in {"rotated", "renewed"} /\ job[w].at = f
      /\ lock' = [lock EXCEPT ![f] = Nothing]
      /\ UNCHANGED <<deployment, flow, grant, selected, machine>>
  BY DEF CommitRefresh
<1>2. Spends(w) /\ lock[f] = w /\ account[f] # Nothing
  BY <1>1, PluginValues DEF PluginInv, JobOK, AccountOK, Spends
<1>3. account[f] \in AccountRecord /\ grant[f] \in GrantRecord /\ job[w] \in JobRecord
  BY <1>2 DEF PluginInv, PluginTypes
<1>4. account' = [account EXCEPT ![f] = c]
  BY <1>3 DEF CommitRefresh, ParsedRefresh, AccountRecord
<1>5. access \in 1..MaxToken /\ refresh \in 0..MaxToken
  <2>1. /\ account[f].access \in 1..MaxToken /\ account[f].refresh \in 0..MaxToken
        /\ grant[f].token \in 0..MaxToken
    BY <1>3 DEF AccountRecord, GrantRecord
  <2>2. access \in 1..MaxToken
    BY <2>1, PluginValues
  <2> QED BY <2>1, <2>2
<1>6. c \in AccountRecord /\ c.access = access /\ c.refresh = refresh
  <2> HIDE DEF access, refresh
  <2> QED BY <1>3, <1>5 DEF AccountRecord
<1>7. account'[f] = c
  BY <1>4 DEF PluginInv, PluginTypes
<1>8. job' = [job EXCEPT ![w] = r]
  <2>1. account'[f].access = access
    BY <1>6, <1>7
  <2>2. job' = [job EXCEPT ![w] = DoneRecord(w, f, account'[f].access)]
    BY DEF CommitRefresh, Done, Set, DoneRecord
  <2> QED BY <2>1, <2>2
<1>9. r \in JobRecord /\ r.phase = "accounts" /\ r.answer = "none"
  <2> HIDE DEF access
  <2> QED BY <1>3, <1>5, DoneCall
<1>10. refresh = grant[f].token \/ (refresh = account[f].refresh /\ ~Rotated(f))
  BY <1>1, <1>2 DEF Rotated
<1> HIDE DEF access, refresh, c, r
<1>11. /\ job'[w] = r /\ \A v \in Job \ {w} : job'[v] = job[v]
       /\ lock'[f] = Nothing /\ \A g \in Flow \ {f} : lock'[g] = lock[g] /\ account'[g] = account[g]
  BY <1>1, <1>4, <1>8 DEF PluginInv, PluginTypes
<1>12. PluginTypes'
  BY <1>1, <1>4, <1>6, <1>8, <1>9 DEF PluginInv, PluginTypes
<1>13. ASSUME NEW v \in Job PROVE JobOK(v)'
  <2>1. CASE v = w
    BY <2>1, <1>9, <1>11 DEF JobOK, Spends
  <2>2. CASE v # w
    <3>1. Spends(v) => job[v].at \in Flow \ {f}
      BY <2>2, <1>1, <1>2, OneSpender DEF PluginInv, JobOK
    <3> QED BY <2>2, <1>1, <1>11, <3>1 DEF PluginInv, JobOK, Spends, ClientOf
  <2> QED BY <2>1, <2>2
<1>14. ASSUME NEW g \in Flow PROVE AccountOK(g)'
  <2>1. CASE g = f
    BY <2>1, <1>1, <1>2, <1>6, <1>7, <1>10, <1>11 DEF PluginInv, AccountOK, Rotated
  <2>2. CASE g # f
    <3>1. lock[g] # Nothing => lock[g] \in Job \ {w}
      BY <2>2, <1>1 DEF PluginInv, PluginTypes, AccountOK
    <3> QED BY <2>2, <1>1, <1>11, <3>1 DEF PluginInv, AccountOK, Spends, Rotated
  <2> QED BY <2>1, <2>2
<1> QED BY <1>12, <1>13, <1>14 DEF PluginInv

LEMMA RollBackKeeps ==
  ASSUME PluginInv, NEW w \in Job, NEW f \in Flow, RollBackRefresh(w, f)
  PROVE  PluginInv'
<1> DEFINE r == Abandoned(w, "authorization_required")
           lost == grant[f].lost \/ job[w].answer = "rotated"
           p == [grant[f] EXCEPT !.lost = lost]
<1>1. /\ job[w].phase = "answered" /\ job[w].at = f
      /\ lock' = [lock EXCEPT ![f] = Nothing] /\ grant' = [grant EXCEPT ![f] = p]
      /\ job' = [job EXCEPT ![w] = r]
      /\ UNCHANGED <<deployment, flow, account, selected, machine>>
  BY DEF RollBackRefresh, Abandon, Set, Abandoned
<1>2. Spends(w) /\ lock[f] = w /\ grant[f] \in GrantRecord /\ job[w] \in JobRecord
  BY <1>1 DEF PluginInv, PluginTypes, JobOK, Spends
<1>3. /\ r \in JobRecord /\ r.phase \in {"idle", "verdict"} /\ (r.phase # "verdict" => r.answer = "none")
      /\ (r.phase = "verdict" => r.answer \in Health)
  BY <1>2, AbandonedCall DEF Health
<1>4. p \in GrantRecord /\ p.token = grant[f].token /\ (p.lost <=> lost)
  BY <1>2 DEF GrantRecord
<1>5. Rotated(f) \/ grant[f].lost => lost
  BY <1>2 DEF Rotated
<1> HIDE DEF r, p, lost
<1>6. /\ job'[w] = r /\ \A v \in Job \ {w} : job'[v] = job[v]
      /\ lock'[f] = Nothing /\ grant'[f] = p
      /\ \A g \in Flow \ {f} : lock'[g] = lock[g] /\ grant'[g] = grant[g]
  BY <1>1 DEF PluginInv, PluginTypes
<1>7. PluginTypes'
  BY <1>1, <1>3, <1>4 DEF PluginInv, PluginTypes
<1>8. ASSUME NEW v \in Job PROVE JobOK(v)'
  <2>1. CASE v = w
    BY <2>1, <1>3, <1>6 DEF JobOK, Spends
  <2>2. CASE v # w
    <3>1. Spends(v) => job[v].at \in Flow \ {f}
      BY <2>2, <1>1, <1>2, OneSpender DEF PluginInv, JobOK
    <3> QED BY <2>2, <1>1, <1>6, <3>1 DEF PluginInv, JobOK, Spends, ClientOf
  <2> QED BY <2>1, <2>2
<1>9. ASSUME NEW g \in Flow PROVE AccountOK(g)'
  <2>1. CASE g = f
    BY <2>1, <1>1, <1>4, <1>5, <1>6 DEF PluginInv, AccountOK
  <2>2. CASE g # f
    <3>1. lock[g] # Nothing => lock[g] \in Job \ {w}
      BY <2>2, <1>1 DEF PluginInv, PluginTypes, AccountOK
    <3> QED BY <2>2, <1>1, <1>6, <3>1 DEF PluginInv, AccountOK, Spends, Rotated
  <2> QED BY <2>1, <2>2
<1> QED BY <1>7, <1>8, <1>9 DEF PluginInv

LEMMA SaveHealthKeeps ==
  ASSUME PluginInv, NEW w \in Job, NEW f \in Flow, SaveHealth(w, f)
  PROVE  PluginInv'
<1> DEFINE c == [account[f] EXCEPT !.health = job[w].answer]
<1>1. /\ job[w].phase = "verdict" /\ lock[f] = Nothing /\ job' = [job EXCEPT ![w] = NoJob]
      /\ account' = IF account[f] # Nothing THEN [account EXCEPT ![f] = c] ELSE account
      /\ UNCHANGED <<deployment, flow, grant, selected, lock, machine>>
  BY DEF SaveHealth, Set, Connected
<1>2. job[w].answer \in Health /\ ~Spends(w)
  BY <1>1 DEF PluginInv, JobOK, Spends
<1>3. PICK d \in AccountRecord \cup {Nothing} :
         /\ account' = [account EXCEPT ![f] = d]
         /\ d # Nothing => account[f] # Nothing /\ d.refresh = account[f].refresh
  <2>1. CASE account[f] # Nothing
    <3>1. account[f] \in AccountRecord
      BY <2>1 DEF PluginInv, PluginTypes
    <3>2. c \in AccountRecord /\ c.refresh = account[f].refresh
      BY <1>2, <3>1 DEF AccountRecord
    <3> QED BY <1>1, <2>1, <3>2
  <2>2. CASE account[f] = Nothing
    BY <1>1, <2>2 DEF PluginInv, PluginTypes
  <2> QED BY <2>1, <2>2
<1>4. /\ job'[w] = NoJob /\ \A v \in Job \ {w} : job'[v] = job[v]
      /\ account'[f] = d /\ \A g \in Flow \ {f} : account'[g] = account[g]
  BY <1>1, <1>3 DEF PluginInv, PluginTypes
<1>5. PluginTypes'
  BY <1>1, <1>3, IdleCall DEF PluginInv, PluginTypes
<1>6. ASSUME NEW v \in Job PROVE JobOK(v)'
  <2>1. CASE v = w
    BY <2>1, <1>4, IdleCall DEF JobOK, Spends
  <2>2. CASE v # w
    BY <2>2, <1>1, <1>4 DEF PluginInv, JobOK, Spends, ClientOf
  <2> QED BY <2>1, <2>2
<1>7. ASSUME NEW g \in Flow PROVE AccountOK(g)'
  <2>1. CASE g = f
    BY <2>1, <1>1, <1>3, <1>4 DEF PluginInv, AccountOK, Rotated
  <2>2. CASE g # f
    <3>1. lock[g] # Nothing => lock[g] \in Job \ {w}
      BY <1>2 DEF PluginInv, PluginTypes, AccountOK
    <3> QED BY <2>2, <1>1, <1>4, <3>1 DEF PluginInv, AccountOK, Spends, Rotated
  <2> QED BY <2>1, <2>2
<1> QED BY <1>5, <1>6, <1>7 DEF PluginInv

LEMMA RestartsKeep ==
  ASSUME PluginInv, DaemonRestarts \/ \E c \in Deployments : Redeploy(c)
  PROVE  PluginInv'
<1>1. CASE DaemonRestarts
  BY <1>1 DEF DaemonRestarts, PluginInv, PluginTypes, Projections, JobOK, AccountOK, Spends, Rotated, ClientOf
<1>2. ASSUME NEW c \in Deployments, Redeploy(c) PROVE PluginInv'
  <2>1. /\ deployment' = c /\ job' = [w \in Job |-> NoJob] /\ lock' = [f \in Flow |-> Nothing]
        /\ grant' = [f \in Flow |-> IF lock[f] # Nothing /\ job[lock[f]].answer = "rotated"
                                    THEN [grant[f] EXCEPT !.lost = TRUE] ELSE grant[f]]
        /\ UNCHANGED <<flow, account, selected, machine>>
    BY <1>2 DEF Redeploy
  <2>2. \A f \in Flow : /\ grant'[f] \in GrantRecord /\ grant'[f].token = grant[f].token
                        /\ grant[f].lost \/ Rotated(f) => grant'[f].lost
    <3> TAKE f \in Flow
    <3> DEFINE p == [grant[f] EXCEPT !.lost = TRUE]
    <3>1. grant[f] \in GrantRecord
      BY DEF PluginInv, PluginTypes
    <3>2. p \in GrantRecord /\ p.token = grant[f].token /\ p.lost
      BY <3>1 DEF GrantRecord
    <3>3. grant'[f] = IF Rotated(f) THEN p ELSE grant[f]
      BY <2>1 DEF Rotated
    <3> HIDE DEF p
    <3> QED BY <3>1, <3>2, <3>3
  <2>3. PluginTypes'
    <3>1. grant' \in [Flow -> GrantRecord]
      BY <2>1, <2>2
    <3> QED BY <2>1, <3>1, IdleCall DEF PluginInv, PluginTypes
  <2>4. \A w \in Job : JobOK(w)'
    BY <2>1, IdleCall DEF JobOK, Spends
  <2>5. \A f \in Flow : AccountOK(f)'
    BY <2>1, <2>2 DEF PluginInv, AccountOK
  <2> QED BY <2>3, <2>4, <2>5 DEF PluginInv
<1> QED BY <1>1, <1>2

LEMMA PluginStep == PluginInv /\ [PluginNext]_pluginVars => PluginInv'
<1> SUFFICES ASSUME PluginInv, [PluginNext]_pluginVars PROVE PluginInv'
  OBVIOUS
<1>1. CASE \E f \in Flow : \/ \E app \in Apps, meta \in Metadata : StartPluginConnection(f, app, meta)
                           \/ ExpireOrCancel(f) \/ ConsumePluginFlow(f)
  BY <1>1, LinkKeeps
<1>2. CASE \E f \in Flow : \/ DisconnectPlugin(f) \/ AccessExpires(f) \/ RevokeGrant(f)
                           \/ \E e \in BOOLEAN : AttachPlugin(f, e)
  BY <1>2, OwnerKeeps
<1>3. CASE \E f \in Flow, u, r \in BOOLEAN : CompletePluginConnection(f, u, r)
  BY <1>3, CompleteKeeps
<1>4. CASE DaemonRestarts \/ \E c \in Deployments : Redeploy(c)
  BY <1>4, RestartsKeep
<1>5. CASE \E w \in Job, f \in Flow : CheckPluginAccount(w, f) \/ AppRefresh(w, f)
  BY <1>5, CallsBegin
<1>6. CASE \E w \in Job : SyncConfiguration(w)
  <2>1. PICK w \in Job : SyncConfiguration(w)
    BY <1>6
  <2> QED BY <2>1, SyncBegins
<1>7. CASE \E w \in Job, f \in Flow, b \in BOOLEAN : ProviderAnswers(w, f, b)
  BY <1>7, AnswerKeeps
<1>8. CASE \E w \in Job : JobStep(w) \/ Discover(w, FALSE)
  BY <1>8, CallsMoveOn, CallsEnd, SendKeeps, AnswerKeeps, CommitKeeps, RollBackKeeps, SaveHealthKeeps DEF JobStep
<1>9. CASE UNCHANGED pluginVars
  BY <1>9 DEF pluginVars, PluginInv, PluginTypes, JobOK, AccountOK, Spends, Rotated, ClientOf
<1> QED BY <1>1, <1>2, <1>3, <1>4, <1>5, <1>6, <1>7, <1>8, <1>9 DEF PluginNext

\* A refresh carries the token the provider holds, through the client its grant was issued to and
\* to the App's own endpoint, whoever else refreshes the account (plugins.ts, packages/plugins/oauth.ts).
THEOREM RefreshSafe == PluginSpec => []RefreshCarriesTheGrant
<1>1. PluginInv => RefreshCarriesTheGrant
  <2> SUFFICES ASSUME PluginInv, NEW w \in Job, job[w].phase = "refreshing"
               PROVE  \E f \in {job[w].at} : /\ grant[f].lost \/ job[w].token = grant[f].token
                                             /\ ClientOf(flow[f].app) = flow[f].client
                                             /\ flow[f].endpoint = "pinned"
    BY DEF RefreshCarriesTheGrant
  <2>1. Spends(w) /\ job[w].at \in Flow /\ lock[job[w].at] = w
    BY DEF PluginInv, JobOK, Spends
  <2>2. flow[job[w].at].status = "consumed"
    BY <2>1, PluginValues DEF PluginInv, AccountOK
  <2>3. flow[job[w].at] \in LinkRecord
    BY <2>1, <2>2 DEF PluginInv, PluginTypes
  <2>4. flow[job[w].at].endpoint = "pinned"
    BY <2>3 DEF LinkRecord
  <2> QED BY <2>4 DEF PluginInv, JobOK
<1> QED BY <1>1, PluginBegins, PluginStep, PTL DEF PluginSpec

-----------------------------------------------------------------------------
\* Group discussions.

TurnRow == [st : {"queued", "running"} \cup Ended, cancel : BOOLEAN, source : Nat, pid : Nat,
            job : {"none", "run", "over"}, files : {"none", "missing", "stored", "ready"}]
TaskRow == [comp : Companion, by : [turn : Nat, call : Call \cup {0}], st : TaskActive \cup TaskOver,
            cancel : BOOLEAN, reported : BOOLEAN]

DiscussionTypes ==
  /\ central \in Seq(TurnRow) /\ tasks \in Seq(TaskRow)
  /\ calls \subseteq Turns \X Call
  /\ pid \in Nat

\* A task is of a call that is in the journal of its turn, and a continuation of a task.
Caused(t) ==
  tasks[t].by # ByUser =>
    /\ tasks[t].by.turn \in Turns /\ tasks[t].by.call \in Call
    /\ <<tasks[t].by.turn, tasks[t].by.call>> \in calls
Sourced(r) == central[r].source \in 0..Len(tasks)

DiscussionInv ==
  /\ DiscussionTypes
  /\ \A t \in Tasks : Caused(t)
  /\ \A r \in Turns : Sourced(r)
  /\ ResultContinuesOnce
  /\ CallActsOnce

-----------------------------------------------------------------------------
\* Sequences that are given as functions.

LEMMA ListOf ==
  ASSUME NEW S, NEW n \in Nat, NEW f \in [1..n -> S]
  PROVE  f \in Seq(S) /\ Len(f) = n
OBVIOUS

LEMMA Appended ==
  ASSUME NEW S, NEW s \in Seq(S), NEW x \in S
  PROVE  /\ Append(s, x) \in Seq(S) /\ Len(Append(s, x)) = Len(s) + 1
         /\ \A i \in 1..Len(s) : Append(s, x)[i] = s[i]
         /\ Append(s, x)[Len(s) + 1] = x
OBVIOUS

LEMMA Changed ==
  ASSUME NEW S, NEW s \in Seq(S), NEW i \in 1..Len(s), NEW x \in S
  PROVE  /\ [s EXCEPT ![i] = x] \in Seq(S) /\ Len([s EXCEPT ![i] = x]) = Len(s)
         /\ [s EXCEPT ![i] = x][i] = x
         /\ \A j \in 1..Len(s) : j # i => [s EXCEPT ![i] = x][j] = s[j]
OBVIOUS

LEMMA Joined ==
  ASSUME NEW S, NEW n \in Nat, NEW s \in Seq(S), NEW f \in [1..n -> S]
  PROVE  /\ s \o f \in Seq(S) /\ Len(s \o f) = Len(s) + n
         /\ \A i \in 1..Len(s) : (s \o f)[i] = s[i]
         /\ \A i \in 1..n : (s \o f)[Len(s) + i] = f[i]
         /\ \A i \in 1..(Len(s) + n) : i \notin 1..Len(s) => i - Len(s) \in 1..n
<1>1. f \in Seq(S) /\ Len(f) = n BY ListOf
<1>2. s \o f \in Seq(S) /\ Len(s \o f) = Len(s) + n BY <1>1
<1>3. \A i \in 1..Len(s) : (s \o f)[i] = s[i] BY <1>1
<1>4. ASSUME NEW i \in 1..n PROVE (s \o f)[Len(s) + i] = f[i] BY <1>1
<1>5. \A i \in 1..(Len(s) + n) : i \notin 1..Len(s) => i - Len(s) \in 1..n OBVIOUS
<1> QED BY <1>2, <1>3, <1>4, <1>5

-----------------------------------------------------------------------------
\* What a step that claims nothing does: turns and tasks stay what they are, new turns
\* continue nothing, and a new task is of a new call.

TurnsStay ==
  /\ central' \in Seq(TurnRow) /\ Len(central) <= Len(central')
  /\ \A r \in Turns : central'[r].source = central[r].source /\ (central[r].cancel => central'[r].cancel)

TasksStay ==
  /\ tasks' \in Seq(TaskRow) /\ Len(tasks) <= Len(tasks')
  /\ \A t \in Tasks : tasks'[t].by = tasks[t].by

Unclaimed ==
  /\ pid' \in Nat
  /\ calls \subseteq calls' /\ calls' \subseteq Turns' \X Call
  /\ \A r \in Turns' : r \notin Turns => central'[r].source = 0
  /\ \A t \in Tasks : (tasks'[t].reported <=> tasks[t].reported)
  /\ Len(tasks') <= Len(tasks) + 1
  /\ \A t \in Tasks' : t \notin Tasks =>
       /\ ~tasks'[t].reported
       /\ \/ tasks'[t].by = ByUser
          \/ /\ tasks'[t].by.turn \in Turns /\ tasks'[t].by.call \in Call
             /\ <<tasks'[t].by.turn, tasks'[t].by.call>> \in calls' \ calls

LEMMA CausesStay ==
  ASSUME DiscussionInv, TurnsStay, TasksStay, Unclaimed
  PROVE  (\A t \in Tasks : Caused(t))'
<1> USE DEF DiscussionInv, DiscussionTypes, Turns, Tasks
<1> SUFFICES ASSUME NEW t \in Tasks' PROVE Caused(t)'
  OBVIOUS
<1>1. Len(central) \in Nat /\ Len(central') \in Nat /\ Len(tasks) \in Nat /\ Len(tasks') \in Nat
  BY DEF TurnsStay, TasksStay
<1>2. Turns \subseteq Turns' BY <1>1 DEF TurnsStay
<1>3. CASE t \in Tasks
  <2>1. tasks'[t].by = tasks[t].by BY <1>3 DEF TasksStay
  <2>2. Caused(t) BY <1>3
  <2> QED BY <2>1, <2>2, <1>2 DEF Caused, Unclaimed
<1>4. CASE t \notin Tasks
  BY <1>4, <1>2 DEF Caused, Unclaimed
<1> QED BY <1>3, <1>4

LEMMA SourcesStay ==
  ASSUME DiscussionInv, TurnsStay, TasksStay,
         \A r \in Turns' : r \notin Turns => central'[r].source \in 0..Len(tasks)
  PROVE  (\A r \in Turns : Sourced(r))'
<1> USE DEF DiscussionInv, DiscussionTypes, Turns, Tasks
<1> SUFFICES ASSUME NEW r \in Turns' PROVE central'[r].source \in 0..Len(tasks')
  BY DEF Sourced
<1>1. Len(tasks) \in Nat /\ Len(tasks') \in Nat /\ Len(tasks) <= Len(tasks')
  BY DEF TasksStay
<1>2. CASE r \in Turns
  <2>1. central'[r].source = central[r].source BY <1>2 DEF TurnsStay
  <2>2. central[r].source \in 0..Len(tasks) BY <1>2 DEF Sourced
  <2> QED BY <2>1, <2>2, <1>1
<1>3. CASE r \notin Turns
  BY <1>3, <1>1
<1> QED BY <1>2, <1>3

LEMMA CallsActOnce ==
  ASSUME DiscussionInv, TurnsStay, TasksStay, Unclaimed
  PROVE  CallActsOnce'
<1> USE DEF DiscussionInv, DiscussionTypes, Tasks
<1> SUFFICES ASSUME NEW t \in Tasks', NEW u \in Tasks', tasks'[t].by = tasks'[u].by, tasks'[t].by # ByUser
             PROVE  t = u
  BY DEF CallActsOnce, ByUser
<1>1. Len(tasks) \in Nat /\ Len(tasks') \in Nat /\ Len(tasks') <= Len(tasks) + 1
  BY DEF TasksStay, Unclaimed
<1>2. ASSUME NEW x \in Tasks, tasks'[x].by # ByUser
      PROVE  <<tasks'[x].by.turn, tasks'[x].by.call>> \in calls
  BY <1>2 DEF Caused, TasksStay
<1>3. ASSUME NEW x \in Tasks', x \notin Tasks, tasks'[x].by # ByUser
      PROVE  <<tasks'[x].by.turn, tasks'[x].by.call>> \notin calls
  BY <1>3 DEF Unclaimed
<1>4. CASE t \in Tasks /\ u \in Tasks
  BY <1>4 DEF CallActsOnce, TasksStay
<1>5. CASE t \notin Tasks /\ u \notin Tasks
  BY <1>5, <1>1
<1> QED BY <1>2, <1>3, <1>4, <1>5

LEMMA ResultsContinue ==
  ASSUME DiscussionInv, TurnsStay, TasksStay, Unclaimed
  PROVE  ResultContinuesOnce'
<1> USE DEF DiscussionInv, DiscussionTypes, Turns, Tasks
<1>1. Len(central) \in Nat /\ Len(central') \in Nat /\ Len(tasks) \in Nat /\ Len(tasks') \in Nat
  BY DEF TurnsStay, TasksStay
<1>2. \A r \in Turns' : r \in Turns \/ central'[r].source = 0
  BY DEF Unclaimed
<1>3. ASSUME NEW r \in Turns', NEW s \in Turns', r # s, central'[r].source # 0
      PROVE  central'[r].source # central'[s].source
  BY <1>2, <1>3 DEF ResultContinuesOnce, TurnsStay
<1>4. ASSUME NEW t \in Tasks', tasks'[t].reported, tasks'[t].by # ByUser, ~central'[tasks'[t].by.turn].cancel
      PROVE  \E r \in Turns' : central'[r].source = t
  <2>1. t \in Tasks /\ tasks[t].reported /\ tasks'[t].by = tasks[t].by
    BY <1>4 DEF Unclaimed, TasksStay
  <2>2. tasks[t].by.turn \in Turns BY <1>4, <2>1 DEF Caused
  <2>3. ~central[tasks[t].by.turn].cancel BY <1>4, <2>1, <2>2 DEF TurnsStay
  <2>4. PICK r \in Turns : central[r].source = t BY <1>4, <2>1, <2>3 DEF ResultContinuesOnce
  <2>5. r \in Turns' BY <1>1 DEF TurnsStay
  <2> QED BY <2>4, <2>5 DEF TurnsStay
<1> QED BY <1>3, <1>4 DEF ResultContinuesOnce, ByUser

LEMMA OtherStepsKeep ==
  ASSUME DiscussionInv, TurnsStay, TasksStay, Unclaimed
  PROVE  DiscussionInv'
<1>1. DiscussionTypes' BY DEF DiscussionTypes, TurnsStay, TasksStay, Unclaimed, Turns
<1>2. \A r \in Turns' : r \notin Turns => central'[r].source \in 0..Len(tasks)
  BY DEF Unclaimed, DiscussionInv, DiscussionTypes
<1> QED BY <1>1, <1>2, CausesStay, SourcesStay, CallsActOnce, ResultsContinue DEF DiscussionInv

-----------------------------------------------------------------------------
\* Steps that change rows one by one.

LEMMA TurnsUnchanged == ASSUME DiscussionTypes, UNCHANGED central PROVE TurnsStay /\ Turns' = Turns
  BY DEF DiscussionTypes, TurnsStay, Turns
LEMMA TasksUnchanged == ASSUME DiscussionTypes, UNCHANGED tasks PROVE TasksStay /\ Tasks' = Tasks
  BY DEF DiscussionTypes, TasksStay, Tasks

\* Rows of turns that are rewritten in place keep what they continue and that they were asked to stop.
LEMMA TurnsRewritten ==
  ASSUME DiscussionTypes, central' \in [Turns -> TurnRow],
         \A r \in Turns : central'[r].source = central[r].source /\ (central[r].cancel => central'[r].cancel)
  PROVE  TurnsStay /\ Turns' = Turns
<1>1. Len(central) \in Nat BY DEF DiscussionTypes
<1>2. central' \in Seq(TurnRow) /\ Len(central') = Len(central) BY <1>1, ListOf DEF Turns
<1> QED BY <1>1, <1>2 DEF TurnsStay, Turns

LEMMA TurnRewritten ==
  ASSUME DiscussionTypes, NEW r \in Turns, NEW row \in TurnRow, central' = [central EXCEPT ![r] = row],
         row.source = central[r].source, central[r].cancel => row.cancel
  PROVE  TurnsStay /\ Turns' = Turns
<1>1. central \in [Turns -> TurnRow] BY DEF DiscussionTypes, Turns
<1>2. central' \in [Turns -> TurnRow] BY <1>1
<1>3. \A s \in Turns : central'[s].source = central[s].source /\ (central[s].cancel => central'[s].cancel)
  BY <1>1
<1> QED BY <1>2, <1>3, TurnsRewritten

LEMMA TurnAdded ==
  ASSUME DiscussionTypes, NEW row \in TurnRow, central' = Append(central, row)
  PROVE  TurnsStay /\ Turns \subseteq Turns' /\ \A r \in Turns' : r \notin Turns => central'[r] = row
<1>1. Len(central) \in Nat /\ central \in Seq(TurnRow) BY DEF DiscussionTypes
<1>2. Len(central') = Len(central) + 1 BY <1>1
<1>3. Turns = 1..Len(central) /\ Turns' = 1..(Len(central) + 1) BY <1>2 DEF Turns
<1>4. \A r \in Turns' : r \notin Turns => r = Len(central) + 1 BY <1>1, <1>3
<1> QED BY <1>1, <1>3, <1>4, Appended DEF TurnsStay

LEMMA TasksRewritten ==
  ASSUME DiscussionTypes, tasks' \in [Tasks -> TaskRow],
         \A t \in Tasks : tasks'[t].by = tasks[t].by
  PROVE  TasksStay /\ Tasks' = Tasks
<1>1. Len(tasks) \in Nat BY DEF DiscussionTypes
<1>2. tasks' \in Seq(TaskRow) /\ Len(tasks') = Len(tasks) BY <1>1, ListOf DEF Tasks
<1> QED BY <1>1, <1>2 DEF TasksStay, Tasks

LEMMA TaskRewritten ==
  ASSUME DiscussionTypes, NEW t \in Tasks, NEW row \in TaskRow, tasks' = [tasks EXCEPT ![t] = row],
         row.by = tasks[t].by, row.reported <=> tasks[t].reported
  PROVE  TasksStay /\ Tasks' = Tasks /\ \A u \in Tasks : (tasks'[u].reported <=> tasks[u].reported)
<1>1. tasks \in [Tasks -> TaskRow] BY DEF DiscussionTypes, Tasks
<1>2. tasks' \in [Tasks -> TaskRow] BY <1>1
<1>3. \A u \in Tasks : tasks'[u].by = tasks[u].by BY <1>1
<1>4. \A u \in Tasks : (tasks'[u].reported <=> tasks[u].reported) BY <1>1
<1> QED BY <1>2, <1>3, <1>4, TasksRewritten

LEMMA TaskAdded ==
  ASSUME DiscussionTypes, NEW row \in TaskRow, tasks' = Append(tasks, row)
  PROVE  /\ TasksStay /\ Len(tasks') <= Len(tasks) + 1
         /\ \A t \in Tasks : tasks'[t] = tasks[t]
         /\ \A t \in Tasks' : t \notin Tasks => tasks'[t] = row
<1>1. Len(tasks) \in Nat /\ tasks \in Seq(TaskRow) BY DEF DiscussionTypes
<1>2. Len(tasks') = Len(tasks) + 1 BY <1>1
<1>3. Tasks = 1..Len(tasks) /\ Tasks' = 1..(Len(tasks) + 1) BY <1>2 DEF Tasks
<1>4. \A t \in Tasks' : t \notin Tasks => t = Len(tasks) + 1 BY <1>1, <1>3
<1> QED BY <1>1, <1>2, <1>3, <1>4, Appended DEF TasksStay

\* Asking a task to stop leaves whose it is and whether it was reported.
LEMMA AskedTask ==
  ASSUME NEW task \in TaskRow
  PROVE  Asked(task) \in TaskRow /\ Asked(task).by = task.by /\ (Asked(task).reported <=> task.reported)
  BY DEF Asked, TaskRow, TaskActive, TaskOver

LEMMA AskedTasks ==
  ASSUME DiscussionTypes, NEW c, tasks' = [t \in Tasks |-> IF tasks[t].comp = c THEN Asked(tasks[t]) ELSE tasks[t]]
  PROVE  TasksStay /\ Tasks' = Tasks /\ \A u \in Tasks : (tasks'[u].reported <=> tasks[u].reported)
<1>1. \A t \in Tasks : tasks[t] \in TaskRow BY DEF DiscussionTypes, Tasks
<1>2. \A t \in Tasks : tasks'[t] \in TaskRow /\ tasks'[t].by = tasks[t].by
                        /\ (tasks'[t].reported <=> tasks[t].reported)
  BY <1>1, AskedTask
<1>3. tasks' \in [Tasks -> TaskRow] BY <1>2
<1> QED BY <1>2, <1>3, TasksRewritten

LEMMA NewTurn ==
  ASSUME NEW f \in {"none", "missing", "stored", "ready"}, NEW n \in Nat
  PROVE  Turn(n, f) \in TurnRow /\ Turn(n, f).source = n
  BY DEF Turn, TurnRow

LEMMA NewTask ==
  ASSUME NEW c \in Companion, NEW by \in [turn : Nat, call : Call \cup {0}]
  PROVE  Task(c, by) \in TaskRow /\ Task(c, by).by = by /\ ~Task(c, by).reported
  BY DEF Task, TaskRow, TaskActive

-----------------------------------------------------------------------------
\* Each action but Claim.

LEMMA QuietKeeps ==
  ASSUME DiscussionInv, UNCHANGED <<central, tasks, calls>>, pid' \in Nat
  PROVE  DiscussionInv'
<1>1. TurnsStay /\ TasksStay /\ Turns' = Turns /\ Tasks' = Tasks
  BY TurnsUnchanged, TasksUnchanged DEF DiscussionInv
<1>2. Unclaimed BY <1>1 DEF Unclaimed, DiscussionInv, DiscussionTypes
<1> QED BY <1>1, <1>2, OtherStepsKeep

\* Turns are rewritten, or one that continues nothing is added.
LEMMA TurnsOnlyKeep ==
  ASSUME DiscussionInv, TurnsStay, Turns \subseteq Turns', UNCHANGED <<tasks, calls, pid>>,
         \A r \in Turns' : r \notin Turns => central'[r].source = 0
  PROVE  DiscussionInv'
<1>1. TasksStay /\ Tasks' = Tasks BY TasksUnchanged DEF DiscussionInv
<1>2. Unclaimed BY <1>1 DEF Unclaimed, DiscussionInv, DiscussionTypes
<1> QED BY <1>1, <1>2, OtherStepsKeep

\* Tasks are rewritten, or one of a user or of a new call is added.
LEMMA TasksOnlyKeep ==
  ASSUME DiscussionInv, TasksStay, UNCHANGED <<central, pid>>,
         calls \subseteq calls', calls' \subseteq Turns \X Call,
         \A t \in Tasks : (tasks'[t].reported <=> tasks[t].reported),
         Len(tasks') <= Len(tasks) + 1,
         \A t \in Tasks' : t \notin Tasks =>
           /\ ~tasks'[t].reported
           /\ \/ tasks'[t].by = ByUser
              \/ /\ tasks'[t].by.turn \in Turns /\ tasks'[t].by.call \in Call
                 /\ <<tasks'[t].by.turn, tasks'[t].by.call>> \in calls' \ calls
  PROVE  DiscussionInv'
<1>1. TurnsStay /\ Turns' = Turns BY TurnsUnchanged DEF DiscussionInv
<1>2. pid' \in Nat BY DEF DiscussionInv, DiscussionTypes
<1>3. Unclaimed BY <1>1, <1>2 DEF Unclaimed
<1> QED BY <1>1, <1>3, OtherStepsKeep

LEMMA SameTasksKeep ==
  ASSUME DiscussionInv, TasksStay, Tasks' = Tasks, UNCHANGED <<central, pid>>,
         calls \subseteq calls', calls' \subseteq Turns \X Call,
         \A t \in Tasks : (tasks'[t].reported <=> tasks[t].reported)
  PROVE  DiscussionInv'
<1>1. Len(tasks) \in Nat /\ Len(tasks') \in Nat BY DEF DiscussionInv, DiscussionTypes, TasksStay
<1>2. Len(tasks') <= Len(tasks) + 1
  <2>1. CASE Len(tasks') = 0 BY <2>1, <1>1
  <2>2. CASE Len(tasks') # 0
    <3>1. Len(tasks') \in Tasks' BY <2>2, <1>1 DEF Tasks
    <3> QED BY <3>1, <1>1 DEF Tasks
  <2> QED BY <2>1, <2>2
<1> QED BY <1>2, TasksOnlyKeep

LEMMA OwnerOfFoldersKeeps ==
  ASSUME DiscussionInv,
         \/ \E put \in BOOLEAN : UpdateDiscussion(put)
         \/ \E cs \in SUBSET Companion : ChangeFolder(cs)
         \/ \E c \in Companion, remove \in BOOLEAN : ChangeParticipant(c, remove)
         \/ TakeLease
  PROVE  DiscussionInv'
<1>1. UNCHANGED <<central, tasks, calls>> BY DEF UpdateDiscussion, ChangeFolder, ChangeParticipant, TakeLease
<1>2. pid' \in Nat
  BY DEF UpdateDiscussion, ChangeFolder, ChangeParticipant, TakeLease, DiscussionInv, DiscussionTypes
<1> QED BY <1>1, <1>2, QuietKeeps

LEMMA StopsKeep ==
  ASSUME DiscussionInv, NEW c \in Companion, RetireParticipant(c) \/ CancelParticipant(c)
  PROVE  DiscussionInv'
<1>1. UNCHANGED <<central, pid, calls>>
      /\ tasks' = [t \in Tasks |-> IF tasks[t].comp = c THEN Asked(tasks[t]) ELSE tasks[t]]
  BY DEF RetireParticipant, CancelParticipant
<1>2. TasksStay /\ Tasks' = Tasks /\ \A u \in Tasks : (tasks'[u].reported <=> tasks[u].reported)
  BY <1>1, AskedTasks DEF DiscussionInv
<1> QED BY <1>1, <1>2, SameTasksKeep DEF DiscussionInv, DiscussionTypes

LEMMA CancelToolKeeps ==
  ASSUME DiscussionInv, NEW r \in Turns, NEW k \in Call, NEW t \in Tasks, CancelTool(r, k, t)
  PROVE  DiscussionInv'
<1>1. tasks[t] \in TaskRow BY DEF DiscussionInv, DiscussionTypes, Tasks
<1>2. tasks' = [tasks EXCEPT ![t] = Asked(tasks[t])] BY DEF CancelTool
<1>3. TasksStay /\ Tasks' = Tasks /\ \A u \in Tasks : (tasks'[u].reported <=> tasks[u].reported)
  BY <1>1, <1>2, AskedTask, TaskRewritten DEF DiscussionInv
<1> QED BY <1>3, SameTasksKeep DEF DiscussionInv, DiscussionTypes, CancelTool, Journal

LEMMA TaskMovesKeeps ==
  ASSUME DiscussionInv, NEW t \in Tasks, TaskMoves(t)
  PROVE  DiscussionInv'
<1>1. tasks[t] \in TaskRow BY DEF DiscussionInv, DiscussionTypes, Tasks
<1>2. PICK st \in TaskActive \cup TaskOver : tasks' = [tasks EXCEPT ![t] = [tasks[t] EXCEPT !.st = st]]
  BY DEF TaskMoves, TaskActive, TaskOver
<1>3. [tasks[t] EXCEPT !.st = st] \in TaskRow /\ [tasks[t] EXCEPT !.st = st].by = tasks[t].by
      /\ ([tasks[t] EXCEPT !.st = st].reported <=> tasks[t].reported)
  BY <1>1 DEF TaskRow
<1>4. TasksStay /\ Tasks' = Tasks /\ \A u \in Tasks : (tasks'[u].reported <=> tasks[u].reported)
  BY <1>2, <1>3, TaskRewritten DEF DiscussionInv
<1> QED BY <1>4, SameTasksKeep DEF DiscussionInv, DiscussionTypes, TaskMoves

LEMMA MessageKeeps ==
  ASSUME DiscussionInv, NEW m, NEW target \in Companion \cup {Nobody}, NEW f \in {"none", "missing"},
         AcceptMessage(m, target, f)
  PROVE  DiscussionInv'
<1>1. CASE target \in Companion /\ tasks' = Append(tasks, Task(target, ByUser)) /\ UNCHANGED central
  <2>1. ByUser \in [turn : Nat, call : Call \cup {0}] BY DEF ByUser
  <2>2. Task(target, ByUser) \in TaskRow /\ Task(target, ByUser).by = ByUser /\ ~Task(target, ByUser).reported
    BY <1>1, <2>1, NewTask
  <2>3. /\ TasksStay /\ Len(tasks') <= Len(tasks) + 1 /\ \A t \in Tasks : tasks'[t] = tasks[t]
        /\ \A t \in Tasks' : t \notin Tasks => tasks'[t] = Task(target, ByUser)
    BY <1>1, <2>2, TaskAdded DEF DiscussionInv
  <2>4. UNCHANGED <<calls, pid>> BY DEF AcceptMessage
  <2> QED BY <1>1, <2>2, <2>3, <2>4, TasksOnlyKeep DEF DiscussionInv, DiscussionTypes
<1>2. CASE central' = Append(central, Turn(0, f)) /\ UNCHANGED tasks
  <2>1. Turn(0, f) \in TurnRow /\ Turn(0, f).source = 0 BY NewTurn
  <2>2. TurnsStay /\ Turns \subseteq Turns' /\ \A r \in Turns' : r \notin Turns => central'[r] = Turn(0, f)
    BY <1>2, <2>1, TurnAdded DEF DiscussionInv
  <2>3. UNCHANGED <<calls, pid>> BY DEF AcceptMessage
  <2> QED BY <1>2, <2>1, <2>2, <2>3, TurnsOnlyKeep
<1> QED BY <1>1, <1>2 DEF AcceptMessage, AddTurns

LEMMA ProposalKeeps ==
  ASSUME DiscussionInv, NEW q \in Turns, NEW c \in Companion, NEW accept \in BOOLEAN, ResolveProposal(q, c, accept)
  PROVE  DiscussionInv'
<1>1. Turn(0, "none") \in TurnRow /\ Turn(0, "none").source = 0 BY NewTurn
<1>2. central' = Append(central, Turn(0, "none")) /\ UNCHANGED <<tasks, calls, pid>> BY DEF ResolveProposal
<1>3. TurnsStay /\ Turns \subseteq Turns' /\ \A r \in Turns' : r \notin Turns => central'[r] = Turn(0, "none")
  BY <1>1, <1>2, TurnAdded DEF DiscussionInv
<1> QED BY <1>1, <1>2, <1>3, TurnsOnlyKeep

\* Uploads and the end of a turn.
LEMMA TurnStepsKeep ==
  ASSUME DiscussionInv, NEW r \in Turns, UploadRow(r) \/ UploadReady(r) \/ TurnSucceeds(r) \/ TurnFails(r)
  PROVE  DiscussionInv'
<1>1. central[r] \in TurnRow /\ central \in [Turns -> TurnRow] BY DEF DiscussionInv, DiscussionTypes, Turns
<1>2. UNCHANGED <<tasks, calls, pid>> BY DEF UploadRow, UploadReady, TurnSucceeds, TurnFails
<1>3. PICK row \in TurnRow : central' = [central EXCEPT ![r] = row]
                             /\ row.source = central[r].source /\ (row.cancel <=> central[r].cancel)
  <2>1. CASE UploadRow(r)
    <3> DEFINE row == [central[r] EXCEPT !.files = "stored"]
    <3>1. row \in TurnRow /\ row.source = central[r].source /\ (row.cancel <=> central[r].cancel)
      BY <1>1 DEF TurnRow
    <3>2. central' = [central EXCEPT ![r] = row] BY <2>1, <1>1 DEF UploadRow
    <3> QED BY <3>1, <3>2
  <2>2. CASE UploadReady(r)
    <3> DEFINE row == [central[r] EXCEPT !.files = "ready"]
    <3>1. row \in TurnRow /\ row.source = central[r].source /\ (row.cancel <=> central[r].cancel)
      BY <1>1 DEF TurnRow
    <3>2. central' = [central EXCEPT ![r] = row] BY <2>2, <1>1 DEF UploadReady
    <3> QED BY <3>1, <3>2
  <2>3. CASE TurnSucceeds(r)
    <3> DEFINE row == [central[r] EXCEPT !.st = "succeeded", !.job = "over"]
    <3>1. row \in TurnRow /\ row.source = central[r].source /\ (row.cancel <=> central[r].cancel)
      BY <1>1 DEF TurnRow, Ended
    <3>2. central' = [central EXCEPT ![r] = row] BY <2>3, <1>1 DEF TurnSucceeds
    <3> QED BY <3>1, <3>2
  <2>4. CASE TurnFails(r)
    <3> DEFINE st == IF central[r].st # "running" \/ central[r].pid # pid THEN central[r].st
                     ELSE IF central[r].cancel THEN "cancelled" ELSE "failed"
               row == [central[r] EXCEPT !.st = st, !.job = "over"]
    <3>1. row \in TurnRow /\ row.source = central[r].source /\ (row.cancel <=> central[r].cancel)
      BY <1>1 DEF TurnRow, Ended
    <3>2. central' = [central EXCEPT ![r] = row] BY <2>4, <1>1 DEF TurnFails
    <3> QED BY <3>1, <3>2
  <2> QED BY <2>1, <2>2, <2>3, <2>4
<1>4. TurnsStay /\ Turns' = Turns BY <1>3, TurnRewritten DEF DiscussionInv
<1> QED BY <1>2, <1>4, TurnsOnlyKeep

LEMMA CancelChatKeeps ==
  ASSUME DiscussionInv, CancelChat
  PROVE  DiscussionInv'
<1>1. \A r \in Turns : central[r] \in TurnRow BY DEF DiscussionInv, DiscussionTypes, Turns
<1>2. ASSUME NEW r \in Turns
      PROVE  /\ central'[r] \in TurnRow /\ central'[r].source = central[r].source
             /\ central[r].cancel => central'[r].cancel
  BY <1>1 DEF CancelChat, TurnRow, Ended
<1>3. central' = [r \in Turns |-> central'[r]] BY DEF CancelChat
<1>4. central' \in [Turns -> TurnRow] BY <1>2, <1>3
<1>5. TurnsStay /\ Turns' = Turns BY <1>2, <1>4, TurnsRewritten DEF DiscussionInv
<1> QED BY <1>5, TurnsOnlyKeep DEF CancelChat

LEMMA DelegateToolKeeps ==
  ASSUME DiscussionInv, NEW r \in Turns, NEW k \in Call, NEW c \in Companion, DelegateTool(r, k, c)
  PROVE  DiscussionInv'
<1>1. /\ <<r, k>> \notin calls /\ calls' = calls \cup {<<r, k>>} /\ UNCHANGED <<central, pid>>
      /\ calls' \subseteq Turns \X Call
  BY DEF DelegateTool, Journal, DiscussionInv, DiscussionTypes
<1>2. CASE UNCHANGED tasks
  BY <1>1, <1>2, TasksUnchanged, SameTasksKeep DEF DiscussionInv
<1>3. CASE tasks' = Append(tasks, Task(c, [turn |-> r, call |-> k]))
  <2> DEFINE by == [turn |-> r, call |-> k]
  <2>1. r \in Nat BY DEF DiscussionInv, DiscussionTypes, Turns
  <2>2. by \in [turn : Nat, call : Call \cup {0}] /\ by.turn = r /\ by.call = k BY <2>1
  <2>3. Task(c, by) \in TaskRow /\ Task(c, by).by = by /\ ~Task(c, by).reported BY <2>2, NewTask
  <2> HIDE DEF by
  <2>4. /\ TasksStay /\ Len(tasks') <= Len(tasks) + 1 /\ \A t \in Tasks : tasks'[t] = tasks[t]
        /\ \A t \in Tasks' : t \notin Tasks => tasks'[t] = Task(c, by)
    BY <1>3, <2>3, TaskAdded DEF DiscussionInv, by
  <2> QED BY <1>1, <2>2, <2>3, <2>4, TasksOnlyKeep
<1> QED BY <1>2, <1>3 DEF DelegateTool

-----------------------------------------------------------------------------
\* The claim: what it expires and claims is rewritten, and each result it reports, whose
\* turn was not asked to stop, is given a turn of its own.

\* A list of turns that rewrites the one of the row.
Rewrites(cs, ds) ==
  /\ cs \in Seq(TurnRow) /\ Len(cs) = Len(ds)
  /\ \A r \in 1..Len(ds) : cs[r].source = ds[r].source /\ (cs[r].cancel <=> ds[r].cancel)

LEMMA InterruptedRewrites == ASSUME DiscussionTypes PROVE Rewrites(Interrupted, central)
<1>1. Len(central) \in Nat /\ \A r \in Turns : central[r] \in TurnRow BY DEF DiscussionTypes, Turns
<1>2. ASSUME NEW r \in Turns
      PROVE  /\ Interrupted[r] \in TurnRow /\ Interrupted[r].source = central[r].source
             /\ (Interrupted[r].cancel <=> central[r].cancel)
  BY <1>1 DEF Interrupted, TurnRow, Ended
<1>3. Interrupted \in [Turns -> TurnRow] BY <1>2 DEF Interrupted
<1>4. Interrupted \in Seq(TurnRow) /\ Len(Interrupted) = Len(central) BY <1>1, <1>3, ListOf DEF Turns
<1> QED BY <1>2, <1>4 DEF Rewrites, Turns

LEMMA ExpiredRewrites ==
  ASSUME NEW ds \in Seq(TurnRow), NEW late PROVE Rewrites(Expired(ds, late), ds)
<1>1. Len(ds) \in Nat /\ \A r \in 1..Len(ds) : ds[r] \in TurnRow OBVIOUS
<1>2. ASSUME NEW r \in 1..Len(ds)
      PROVE  /\ Expired(ds, late)[r] \in TurnRow /\ Expired(ds, late)[r].source = ds[r].source
             /\ (Expired(ds, late)[r].cancel <=> ds[r].cancel)
  BY <1>1 DEF Expired, TurnRow, Ended
<1>3. Expired(ds, late) \in [1..Len(ds) -> TurnRow] BY <1>2 DEF Expired
<1>4. Expired(ds, late) \in Seq(TurnRow) /\ Len(Expired(ds, late)) = Len(ds) BY <1>1, <1>3, ListOf
<1> QED BY <1>2, <1>4 DEF Rewrites

LEMMA ClaimedRewrites ==
  ASSUME NEW ds \in Seq(TurnRow), NEW next, NEW paid \in BOOLEAN, pid \in Nat
  PROVE  Rewrites(Claimed(ds, next, paid), ds)
<1>1. Len(ds) \in Nat /\ \A r \in 1..Len(ds) : ds[r] \in TurnRow OBVIOUS
<1>2. ASSUME NEW r \in 1..Len(ds)
      PROVE  /\ Claimed(ds, next, paid)[r] \in TurnRow /\ Claimed(ds, next, paid)[r].source = ds[r].source
             /\ (Claimed(ds, next, paid)[r].cancel <=> ds[r].cancel)
  BY <1>1 DEF Claimed, TurnRow, Ended
<1>3. Claimed(ds, next, paid) \in [1..Len(ds) -> TurnRow] BY <1>2 DEF Claimed
<1>4. Claimed(ds, next, paid) \in Seq(TurnRow) /\ Len(Claimed(ds, next, paid)) = Len(ds) BY <1>1, <1>3, ListOf
<1> QED BY <1>2, <1>4 DEF Rewrites

LEMMA RewritesTwice ==
  ASSUME NEW ds, NEW es, NEW fs, Rewrites(es, ds), Rewrites(fs, es) PROVE Rewrites(fs, ds)
  BY DEF Rewrites

LEMMA ContinuedTurns ==
  ASSUME NEW cs \in Seq(TurnRow), NEW n \in Nat, NEW S \in SUBSET Nat, NEW started \in Bijection(1..n, S)
  PROVE  /\ Continued(cs, started) \in Seq(TurnRow) /\ Len(Continued(cs, started)) = Len(cs) + n
         /\ \A r \in 1..Len(cs) : Continued(cs, started)[r] = cs[r]
         /\ \A i \in 1..n : Continued(cs, started)[Len(cs) + i].source = started[i]
         /\ \A i \in 1..(Len(cs) + n) : i \notin 1..Len(cs) => i - Len(cs) \in 1..n
         /\ \A i, j \in 1..n : started[i] = started[j] => i = j
         /\ \A t \in S : \E i \in 1..n : started[i] = t
         /\ \A i \in 1..n : started[i] \in S
<1> DEFINE f == [i \in 1..n |-> Turn(started[i], "none")]
<1>1. started \in [1..n -> S] /\ DOMAIN started = 1..n BY DEF Bijection, Injection
<1>2. \A i, j \in 1..n : started[i] = started[j] => i = j BY <1>1 DEF Bijection, Injection, IsInjective
<1>3. \A t \in S : \E i \in 1..n : started[i] = t BY DEF Bijection, Surjection
<1>4. \A i \in 1..n : started[i] \in Nat BY <1>1
<1>5. f \in [1..n -> TurnRow] /\ \A i \in 1..n : f[i].source = started[i] BY <1>4, NewTurn
<1>6. Continued(cs, started) = cs \o f BY <1>1 DEF Continued
<1> HIDE DEF f
<1> QED BY <1>1, <1>2, <1>3, <1>5, <1>6, Joined

\* What the claim leaves.
Started(n, started) ==
  /\ Len(central') = Len(central) + n
  /\ \A r \in Turns' : r \notin Turns => /\ r - Len(central) \in 1..n
                                        /\ central'[r].source = started[r - Len(central)]
  /\ \A i \in 1..n : /\ central'[Len(central) + i].source = started[i]
                     /\ started[i] \in Tasks /\ tasks[started[i]].st \in TaskOver /\ ~tasks[started[i]].reported
                     /\ \A r \in Turns : central[r].source # started[i]
  /\ \A i, j \in 1..n : started[i] = started[j] => i = j
  /\ \A t \in Tasks : tasks'[t].reported /\ ~tasks[t].reported /\ tasks[t].by # ByUser
                         /\ ~central[tasks[t].by.turn].cancel
       => \/ \E r \in Turns : central[r].source = t
          \/ \E i \in 1..n : started[i] = t

LEMMA ClaimMoves ==
  ASSUME DiscussionInv, NEW late, NEW paid \in BOOLEAN, Claim(late, paid)
  PROVE  /\ TurnsStay /\ TasksStay /\ Tasks' = Tasks
         /\ \E n \in Nat : \E started : Started(n, started)
<1> USE DEF DiscussionInv
<1>1. Rewrites(Interrupted, central) BY InterruptedRewrites
<1> DEFINE cs == Expired(Interrupted, late)
          S == {t \in Reportable : Continues(cs, t)}
<1>2. Rewrites(cs, central) BY <1>1, ExpiredRewrites, RewritesTwice DEF Rewrites
<1> HIDE DEF cs
<1>3. PICK n \in 0..Len(tasks) : \E started \in Bijection(1..n, S) :
        \E all \in {Continued(cs, started)} : \E next \in {Candidates(all)} : AddTurns(Claimed(all, next, paid))
  BY DEF Claim, cs
<1>4. PICK started \in Bijection(1..n, S) : AddTurns(Claimed(Continued(cs, started), Candidates(Continued(cs, started)), paid))
  BY <1>3
<1> DEFINE all == Continued(cs, started)
<1>5. Len(tasks) \in Nat /\ Len(central) \in Nat /\ n \in Nat BY DEF DiscussionTypes
<1>6. cs \in Seq(TurnRow) /\ Len(cs) = Len(central) BY <1>2 DEF Rewrites
<1>7. S \in SUBSET Nat BY <1>5 DEF Reportable, Tasks
<1>8. /\ all \in Seq(TurnRow) /\ Len(all) = Len(cs) + n
      /\ \A r \in 1..Len(cs) : all[r] = cs[r]
      /\ \A i \in 1..n : all[Len(cs) + i].source = started[i]
      /\ \A i \in 1..(Len(cs) + n) : i \notin 1..Len(cs) => i - Len(cs) \in 1..n
      /\ \A i, j \in 1..n : started[i] = started[j] => i = j
      /\ \A t \in S : \E i \in 1..n : started[i] = t
      /\ \A i \in 1..n : started[i] \in S
  BY <1>5, <1>6, <1>7, ContinuedTurns
<1> HIDE DEF all
<1>9. Rewrites(central', all)
  <2>1. central' = Claimed(all, Candidates(all), paid) BY <1>4 DEF AddTurns, all
  <2>2. pid \in Nat BY DEF DiscussionTypes
  <2> QED BY <2>1, <2>2, <1>8, ClaimedRewrites
<1>10. Len(central') = Len(central) + n /\ central' \in Seq(TurnRow) BY <1>6, <1>8, <1>9 DEF Rewrites
<1>11. \A r \in Turns : /\ central'[r].source = central[r].source /\ (central'[r].cancel <=> central[r].cancel)
                        /\ cs[r].source = central[r].source /\ (cs[r].cancel <=> central[r].cancel)
  BY <1>2, <1>5, <1>6, <1>8, <1>9 DEF Rewrites, Turns
<1>12. \A i \in 1..n : central'[Len(central) + i].source = started[i]
  BY <1>5, <1>6, <1>8, <1>9 DEF Rewrites
<1>13. \A t \in Tasks : tasks[t] \in TaskRow BY DEF DiscussionTypes, Tasks
<1>14. ASSUME NEW t \in Tasks
       PROVE  /\ tasks'[t] \in TaskRow /\ tasks'[t].by = tasks[t].by
              /\ (tasks'[t].reported <=> tasks[t].reported \/ t \in Reportable)
  BY <1>13 DEF Claim, TaskRow
<1>15. tasks' = [t \in Tasks |-> tasks'[t]] BY DEF Claim
<1>16. TasksStay /\ Tasks' = Tasks
  <2>1. tasks' \in [Tasks -> TaskRow] BY <1>14, <1>15
  <2> QED BY <2>1, <1>14, TasksRewritten
<1>17. TurnsStay BY <1>5, <1>10, <1>11 DEF TurnsStay
<1>18. \A r \in Turns' : r \notin Turns => /\ r - Len(central) \in 1..n
                                         /\ central'[r].source = started[r - Len(central)]
  <2>1. Turns' = 1..(Len(central) + n) /\ Turns = 1..Len(central) BY <1>10 DEF Turns
  <2> TAKE r \in Turns'
  <2> HAVE r \notin Turns
  <2>2. r \in Nat /\ r - Len(central) \in 1..n /\ Len(central) + (r - Len(central)) = r
    BY <2>1, <1>5, <1>6, <1>8
  <2> QED BY <2>2, <1>12
<1>19. ASSUME NEW i \in 1..n
       PROVE  /\ started[i] \in Tasks /\ tasks[started[i]].st \in TaskOver /\ ~tasks[started[i]].reported
              /\ \A r \in Turns : central[r].source # started[i]
  <2>1. started[i] \in Reportable /\ Continues(cs, started[i]) BY <1>8
  <2>2. \A r \in 1..Len(cs) : cs[r].source # started[i] BY <2>1 DEF Continues
  <2> QED BY <2>1, <2>2, <1>6, <1>11 DEF Reportable, Turns
<1>20. ASSUME NEW t \in Tasks, tasks'[t].reported, ~tasks[t].reported, tasks[t].by # ByUser,
              ~central[tasks[t].by.turn].cancel, \A r \in Turns : central[r].source # t
       PROVE  \E i \in 1..n : started[i] = t
  <2>1. t \in Reportable BY <1>14, <1>20
  <2>2. tasks[t].by.turn \in Turns BY <1>20 DEF Caused
  <2>3. Continues(cs, t) BY <1>6, <1>11, <1>20, <2>2 DEF Continues, Turns
  <2> QED BY <2>1, <2>3, <1>8
<1>21. Started(n, started) BY <1>8, <1>10, <1>12, <1>18, <1>19, <1>20 DEF Started
<1> QED BY <1>5, <1>16, <1>17, <1>21

LEMMA ClaimKeeps ==
  ASSUME DiscussionInv, NEW late, NEW paid \in BOOLEAN, Claim(late, paid)
  PROVE  DiscussionInv'
<1>1. TurnsStay /\ TasksStay /\ Tasks' = Tasks BY ClaimMoves
<1>2. PICK n \in Nat : \E started : Started(n, started) BY ClaimMoves
<1>3. PICK started : Started(n, started) BY <1>2
<1>4. UNCHANGED <<calls, pid>> BY DEF Claim
<1>5. Len(central) \in Nat /\ Len(tasks) \in Nat BY DEF DiscussionInv, DiscussionTypes
<1>6. Turns' = 1..(Len(central) + n) /\ Turns = 1..Len(central) BY <1>3 DEF Started, Turns
<1>7. Turns \subseteq Turns' BY <1>5, <1>6
<1>8. DiscussionTypes' BY <1>1, <1>4, <1>7 DEF DiscussionInv, DiscussionTypes, TurnsStay, TasksStay
<1>9. (\A t \in Tasks : Caused(t))'
  BY <1>1, <1>4, <1>7 DEF DiscussionInv, Caused, TasksStay
<1>10. (\A r \in Turns : Sourced(r))'
  <2>1. \A r \in Turns' : r \notin Turns => central'[r].source \in 0..Len(tasks)
    BY <1>3, <1>5 DEF Started, Tasks
  <2> QED BY <2>1, <1>1, SourcesStay
<1>11. CallActsOnce' BY <1>1 DEF CallActsOnce, DiscussionInv, TasksStay
<1>12. ASSUME NEW r \in Turns', NEW s \in Turns', r # s, central'[r].source # 0
       PROVE  central'[r].source # central'[s].source
  <2>1. CASE r \in Turns /\ s \in Turns
    BY <2>1, <1>1, <1>12 DEF TurnsStay, DiscussionInv, ResultContinuesOnce
  <2>2. CASE r \in Turns /\ s \notin Turns
    BY <2>2, <1>1, <1>3 DEF TurnsStay, Started
  <2>3. CASE r \notin Turns /\ s \in Turns
    BY <2>3, <1>1, <1>3 DEF TurnsStay, Started
  <2>4. CASE r \notin Turns /\ s \notin Turns
    <3>1. r - Len(central) \in 1..n /\ s - Len(central) \in 1..n /\ r - Len(central) # s - Len(central)
      BY <2>4, <1>3, <1>5, <1>6, <1>12 DEF Started
    <3> QED BY <2>4, <3>1, <1>3 DEF Started
  <2> QED BY <2>1, <2>2, <2>3, <2>4
<1>13. ASSUME NEW t \in Tasks', tasks'[t].reported, tasks'[t].by # ByUser, ~central'[tasks'[t].by.turn].cancel
       PROVE  \E r \in Turns' : central'[r].source = t
  <2>1. t \in Tasks /\ tasks'[t].by = tasks[t].by BY <1>1 DEF TasksStay
  <2>2. tasks[t].by.turn \in Turns BY <1>13, <2>1 DEF Caused, DiscussionInv
  <2>3. ~central[tasks[t].by.turn].cancel BY <1>1, <1>13, <2>1, <2>2 DEF TurnsStay
  <2>4. CASE \E r \in Turns : central[r].source = t BY <2>4, <1>1, <1>7 DEF TurnsStay
  <2>5. CASE ~ \E r \in Turns : central[r].source = t
    <3>1. ~tasks[t].reported BY <1>13, <2>1, <2>3, <2>5 DEF DiscussionInv, ResultContinuesOnce
    <3>2. PICK i \in 1..n : started[i] = t BY <1>3, <1>13, <2>1, <2>3, <2>5, <3>1 DEF Started
    <3>3. central'[Len(central) + i].source = t /\ Len(central) + i \in Turns'
      BY <3>2, <1>3, <1>5, <1>6 DEF Started
    <3> QED BY <3>3
  <2> QED BY <2>4, <2>5
<1>14. ResultContinuesOnce' BY <1>12, <1>13 DEF ResultContinuesOnce, ByUser
<1> QED BY <1>8, <1>9, <1>10, <1>11, <1>14 DEF DiscussionInv

-----------------------------------------------------------------------------
\* The theorems.

LEMMA DiscussionBegins == DiscussionInit => DiscussionInv
<1> SUFFICES ASSUME DiscussionInit PROVE DiscussionInv
  OBVIOUS
<1>1. central = <<>> /\ tasks = <<>> /\ calls = {} /\ pid = 1 BY DEF DiscussionInit
<1>2. Turns = {} /\ Tasks = {} BY <1>1 DEF Turns, Tasks
<1> QED BY <1>1, <1>2 DEF DiscussionInv, DiscussionTypes, ResultContinuesOnce, CallActsOnce

LEMMA DiscussionStep == DiscussionInv /\ [DiscussionNext]_discussionVars => DiscussionInv'
<1> SUFFICES ASSUME DiscussionInv, [DiscussionNext]_discussionVars PROVE DiscussionInv'
  OBVIOUS
<1>1. CASE OwnerActs
  BY <1>1, OwnerOfFoldersKeeps, StopsKeep, MessageKeeps, TurnStepsKeep, CancelChatKeeps, ProposalKeeps DEF OwnerActs
<1>2. CASE \E late \in SUBSET Waiting(Interrupted), paid \in BOOLEAN : Claim(late, paid)
  BY <1>2, ClaimKeeps
<1>3. CASE UNCHANGED discussionVars
  BY <1>3, QuietKeeps DEF discussionVars, DiscussionInv, DiscussionTypes
<1> QED BY <1>1, <1>2, <1>3, OwnerOfFoldersKeeps, TurnStepsKeep, DelegateToolKeeps, CancelToolKeeps, TaskMovesKeeps
        DEF DiscussionNext

LEMMA DiscussionInvariant == DiscussionSpec => []DiscussionInv
<1> QED BY DiscussionBegins, DiscussionStep, PTL DEF DiscussionSpec

LEMMA TurnsEndOnce ==
  ASSUME DiscussionTypes, NEW r \in Turns, [DiscussionNext]_discussionVars, central[r].st \in Ended
  PROVE  central'[r].st = central[r].st
<1> USE DEF DiscussionTypes, Turns, Ended
<1>1. /\ Len(central) \in Nat /\ central[r] \in TurnRow
      /\ central[r].st \notin {"queued", "running"}
  BY DEF Ended
<1>2. ASSUME UNCHANGED central PROVE central'[r].st = central[r].st
  BY <1>2
<1>3. ASSUME NEW row, central' = Append(central, row) PROVE central'[r].st = central[r].st
  BY <1>3
<1>4. CASE CancelChat
  BY <1>1, <1>4 DEF CancelChat
<1>5. ASSUME NEW q \in Turns, UploadRow(q) \/ UploadReady(q) \/ TurnSucceeds(q) \/ TurnFails(q)
      PROVE  central'[r].st = central[r].st
  <2>1. central[q] \in TurnRow /\ central \in [Turns -> TurnRow] OBVIOUS
  <2>2. q # r => central'[r] = central[r]
    BY <1>5, <2>1 DEF UploadRow, UploadReady, TurnSucceeds, TurnFails
  <2>3. CASE q = r
    <3>1. ~UploadRow(q) /\ ~TurnSucceeds(q) BY <1>1, <2>3 DEF UploadRow, TurnSucceeds, Fenced
    <3>2. UploadReady(q) => central'[r].st = central[r].st BY <2>1, <2>3 DEF UploadReady, TurnRow
    <3>3. TurnFails(q) => central'[r].st = central[r].st BY <1>1, <2>1, <2>3 DEF TurnFails, TurnRow
    <3> QED BY <1>5, <3>1, <3>2, <3>3
  <2> QED BY <2>2, <2>3
<1>6. ASSUME NEW late \in SUBSET Waiting(Interrupted), NEW paid \in BOOLEAN, Claim(late, paid)
      PROVE  central'[r].st = central[r].st
  <2> DEFINE cs == Expired(Interrupted, late)
  <2>1. /\ Interrupted \in Seq(TurnRow) /\ Len(Interrupted) = Len(central) /\ Rewrites(cs, Interrupted)
    BY InterruptedRewrites, ExpiredRewrites DEF Rewrites
  <2>2. Interrupted[r].st = central[r].st BY <1>1 DEF Interrupted
  <2>3. r \notin late BY <1>1, <2>2 DEF Waiting
  <2>4. cs \in Seq(TurnRow) /\ Len(cs) = Len(central) /\ cs[r].st = central[r].st
    BY <2>1, <2>2, <2>3 DEF Expired, Rewrites
  <2> HIDE DEF cs
  <2>0. PICK n \in 0..Len(tasks) : \E started \in Bijection(1..n, {t \in Reportable : Continues(cs, t)}) :
          AddTurns(Claimed(Continued(cs, started), Candidates(Continued(cs, started)), paid))
    BY <1>6 DEF Claim, cs
  <2>5. PICK started \in Bijection(1..n, {t \in Reportable : Continues(cs, t)}) :
          AddTurns(Claimed(Continued(cs, started), Candidates(Continued(cs, started)), paid))
    BY <2>0
  <2>6. n \in Nat /\ {t \in Reportable : Continues(cs, t)} \in SUBSET Nat BY DEF Reportable, Tasks
  <2> DEFINE all == Continued(cs, started)
  <2>7. all \in Seq(TurnRow) /\ Len(all) = Len(cs) + n /\ all[r] = cs[r]
    <3>1. r \in 1..Len(cs)
      BY <2>4
    <3>2. cs \in Seq(TurnRow)
      BY <2>4
    <3>3. all \in Seq(TurnRow) /\ Len(all) = Len(cs) + n /\ \A m \in 1..Len(cs) : all[m] = cs[m]
      BY <2>6, <3>2, ContinuedTurns
    <3> QED BY <3>1, <3>3
  <2> HIDE DEF all
  <2>8. r \in 1..Len(all) /\ r \notin Candidates(all)
    BY <2>4, <2>6, <2>7, <1>1 DEF Candidates
  <2>9. central' = Claimed(all, Candidates(all), paid) BY <2>5 DEF AddTurns, all
  <2> QED BY <2>4, <2>7, <2>8, <2>9 DEF Claimed
<1>7. CASE UNCHANGED discussionVars
  BY <1>2, <1>7 DEF discussionVars
<1>8. CASE OwnerActs
  <2>1. ASSUME NEW put \in BOOLEAN, UpdateDiscussion(put) PROVE UNCHANGED central
    BY <2>1 DEF UpdateDiscussion
  <2>2. ASSUME NEW set \in SUBSET Companion, ChangeFolder(set) PROVE UNCHANGED central
    BY <2>2 DEF ChangeFolder
  <2>3. ASSUME NEW c \in Companion, NEW remove \in BOOLEAN, ChangeParticipant(c, remove) PROVE UNCHANGED central
    BY <2>3 DEF ChangeParticipant
  <2>4. ASSUME NEW c \in Companion, RetireParticipant(c) \/ CancelParticipant(c) PROVE UNCHANGED central
    BY <2>4 DEF RetireParticipant, CancelParticipant
  <2>5. ASSUME NEW m \in Message, NEW target \in Companion \cup {Nobody}, NEW f \in {"none", "missing"},
               AcceptMessage(m, target, f)
        PROVE  central'[r].st = central[r].st
    BY <1>2, <1>3, <2>5 DEF AcceptMessage, AddTurns
  <2>6. ASSUME NEW q \in Turns, NEW c \in Companion, NEW accept \in BOOLEAN, ResolveProposal(q, c, accept)
        PROVE  central'[r].st = central[r].st
    BY <1>3, <2>6 DEF ResolveProposal
  <2> QED BY <1>2, <1>4, <1>5, <1>8, <2>1, <2>2, <2>3, <2>4, <2>5, <2>6 DEF OwnerActs
<1>9. ASSUME NEW q \in Turns, NEW k \in Call, NEW c \in Companion, DelegateTool(q, k, c) PROVE UNCHANGED central
  BY <1>9 DEF DelegateTool
<1>10. ASSUME NEW q \in Turns, NEW k \in Call, NEW t \in Tasks, CancelTool(q, k, t) PROVE UNCHANGED central
  BY <1>10 DEF CancelTool
<1>11. ASSUME NEW t \in Tasks, TaskMoves(t) PROVE UNCHANGED central
  BY <1>11 DEF TaskMoves
<1>12. TakeLease => UNCHANGED central BY DEF TakeLease
<1> QED BY <1>2, <1>5, <1>6, <1>7, <1>8, <1>9, <1>10, <1>11, <1>12 DEF DiscussionNext

LEMMA CallsAreFenced ==
  ASSUME [DiscussionNext]_discussionVars
  PROVE  \/ calls' = calls
         \/ \E q \in Turns, k \in Call : Fenced(q) /\ calls' = calls \cup {<<q, k>>}
<1>1. OwnerActs => calls' = calls
  BY DEF OwnerActs, UpdateDiscussion, ChangeFolder, ChangeParticipant, RetireParticipant, AcceptMessage, UploadRow,
         CancelParticipant, CancelChat, ResolveProposal
<1>2. ASSUME NEW q \in Turns, NEW k \in Call,
             (\E c \in Companion : DelegateTool(q, k, c)) \/ (\E t \in Tasks : CancelTool(q, k, t))
      PROVE  Fenced(q) /\ calls' = calls \cup {<<q, k>>}
  BY <1>2 DEF DelegateTool, CancelTool, Journal
<1> QED BY <1>1, <1>2 DEF DiscussionNext, discussionVars, UploadReady, TakeLease, Claim, TurnSucceeds, TurnFails, TaskMoves

\* The result of a delegated task is taken up by one turn of the coordinator, for any number of
\* participants, tasks and turns (discussions.ts, claim).
THEOREM ResultsContinueOnce == DiscussionSpec => []ResultContinuesOnce
<1>1. DiscussionInv => ResultContinuesOnce BY DEF DiscussionInv
<1> QED BY <1>1, DiscussionInvariant, PTL

\* A call of a tool that the daemon repeats creates one task: the journal of the turn answers
\* the repetitions, and a turn that was fenced off creates none (discussions.ts).
THEOREM CallsStartOnce == DiscussionSpec => []CallActsOnce
<1>1. DiscussionInv => CallActsOnce BY DEF DiscussionInv
<1> QED BY <1>1, DiscussionInvariant, PTL

\* A turn that has ended says nothing more: no step creates a task or a reply in its name.
THEOREM ClosedTurnsAreSilent == DiscussionSpec => ClosedTurnIsSilent
<1> DEFINE Quiet(r) ==
      /\ central[r].st \in Ended => central'[r].st = central[r].st
      /\ central[r].st \in Ended \/ central[r].cancel \/ central[r].pid # pid
           => {k \in Call : <<r, k>> \in calls'} = {k \in Call : <<r, k>> \in calls}
<1>1. ASSUME DiscussionInv, [DiscussionNext]_discussionVars, NEW r \in Turns PROVE Quiet(r)
  <2>1. central[r].st \in Ended => central'[r].st = central[r].st
    BY <1>1, TurnsEndOnce DEF DiscussionInv
  <2>2. ASSUME central[r].st \in Ended \/ central[r].cancel \/ central[r].pid # pid, NEW k \in Call
        PROVE  <<r, k>> \in calls' <=> <<r, k>> \in calls
    <3>1. ~Fenced(r) BY <2>2 DEF Fenced, Ended
    <3> QED BY <1>1, <3>1, CallsAreFenced
  <2> QED BY <2>1, <2>2
<1>2. DiscussionInv /\ [DiscussionNext]_discussionVars => [\A r \in Turns : Quiet(r)]_discussionVars
  BY <1>1
<1> QED BY <1>2, DiscussionInvariant, PTL DEF DiscussionSpec, ClosedTurnIsSilent

-----------------------------------------------------------------------------
\* Delegation between Companions.

DelegationRow ==
  [parent : Partners, target : Partners, st : {"queued", "active", "over"},
   daemon : {"none", "has", "lost"}, saved : BOOLEAN,
   reviews : {<<>>, <<"open">>, <<"over">>}, finished : BOOLEAN]

DelegationTypes == delegations \in Seq(DelegationRow)

DelegationInv == DelegationTypes /\ NoCircularWait

-----------------------------------------------------------------------------
\* The relation "waits for" and its closure.

LEMMA WaitsInside == ASSUME DelegationTypes, NEW c PROVE WaitsFor(c) \subseteq Partners
<1>1. \A i \in D : delegations[i] \in DelegationRow BY DEF DelegationTypes, D
<1>2. \A i \in D : delegations[i].target \in Partners BY <1>1 DEF DelegationRow
<1> QED BY <1>2 DEF WaitsFor

\* Reachable(c) is one of the sets it is the least of.
LEMMA ReachableIsClosed ==
  ASSUME DelegationTypes, NEW c
  PROVE  Reachable(c) \in SUBSET Partners /\ WaitsFor(c) \subseteq Reachable(c) /\ Closed(Reachable(c))
<1>1. Reachable(c) \in SUBSET Partners BY DEF Reachable
<1>2. WaitsFor(c) \subseteq Reachable(c) BY WaitsInside DEF Reachable
<1>3. ASSUME NEW x \in Reachable(c), NEW y \in WaitsFor(x) PROVE y \in Reachable(c)
  <2>1. y \in Partners BY WaitsInside
  <2>2. ASSUME NEW S \in SUBSET Partners, WaitsFor(c) \subseteq S, Closed(S) PROVE y \in S
    BY <2>2 DEF Reachable, Closed
  <2> QED BY <2>1, <2>2 DEF Reachable
<1> QED BY <1>1, <1>2, <1>3 DEF Closed

LEMMA ReachableIsLeast ==
  ASSUME NEW c, NEW S \in SUBSET Partners, WaitsFor(c) \subseteq S, Closed(S)
  PROVE  Reachable(c) \subseteq S
  BY DEF Reachable

\* Fewer waits, or the same, make no circle.
LEMMA FewerWaits ==
  ASSUME DelegationInv, \A x \in Partners : WaitsFor(x)' \subseteq WaitsFor(x)
  PROVE  NoCircularWait'
<1> SUFFICES ASSUME NEW c \in Partners PROVE c \notin Reachable(c)'
  BY DEF NoCircularWait
<1> DEFINE S == Reachable(c)
<1>1. S \in SUBSET Partners /\ WaitsFor(c) \subseteq S /\ Closed(S) /\ c \notin S
  BY ReachableIsClosed DEF DelegationInv, NoCircularWait
<1> HIDE DEF S
<1>2. WaitsFor(c)' \subseteq S /\ \A x \in S : WaitsFor(x)' \subseteq S
  BY <1>1 DEF Closed
<1> QED BY <1>1, <1>2 DEF Reachable, Closed

\* One more wait makes no circle if the parent is not reached from its target.
LEMMA OneMoreWait ==
  ASSUME DelegationInv, NEW p \in Partners, NEW t \in Partners, p # t, ~Circular(p, t),
         \A x \in Partners : WaitsFor(x)' \subseteq WaitsFor(x) \cup (IF x = p THEN {t} ELSE {})
  PROVE  NoCircularWait'
<1> SUFFICES ASSUME NEW c \in Partners PROVE c \notin Reachable(c)'
  BY DEF NoCircularWait
<1> DEFINE R == Reachable(c)
           T == Reachable(t)
<1>1. R \in SUBSET Partners /\ WaitsFor(c) \subseteq R /\ Closed(R) /\ c \notin R
  BY ReachableIsClosed DEF DelegationInv, NoCircularWait
<1>2. T \in SUBSET Partners /\ WaitsFor(t) \subseteq T /\ Closed(T) /\ t \notin T /\ p \notin T
  BY ReachableIsClosed DEF DelegationInv, NoCircularWait, Circular
<1>3. c \in T => R \subseteq T
  BY <1>2, ReachableIsLeast DEF Closed
<1>0. c = t => R = T OBVIOUS
<1> HIDE DEF R, T
<1>4. CASE p \notin R /\ c # p
  <2>1. WaitsFor(c)' \subseteq R /\ \A x \in R : WaitsFor(x)' \subseteq R BY <1>1, <1>4 DEF Closed
  <2> QED BY <1>1, <2>1 DEF Reachable, Closed
<1>5. CASE p \in R \/ c = p
  <2> DEFINE S == R \cup {t} \cup T
  <2>1. S \in SUBSET Partners BY <1>1, <1>2
  <2>2. WaitsFor(c)' \subseteq S BY <1>1
  <2>3. ASSUME NEW x \in S PROVE WaitsFor(x)' \subseteq S
    BY <1>1, <1>2 DEF Closed
  <2>4. c \notin S BY <1>0, <1>1, <1>2, <1>3, <1>5
  <2> HIDE DEF S
  <2> QED BY <2>1, <2>2, <2>3, <2>4 DEF Reachable, Closed
<1> QED BY <1>4, <1>5

-----------------------------------------------------------------------------
\* A step rewrites rows so that nobody waits who did not, or adds one row.

RowsStay ==
  /\ delegations' \in Seq(DelegationRow) /\ D' = D
  /\ \A i \in D : /\ delegations'[i].parent = delegations[i].parent
                  /\ delegations'[i].target = delegations[i].target
                  /\ delegations'[i].st # "over" /\ ~delegations'[i].finished
                       => delegations[i].st # "over" /\ ~delegations[i].finished

\* What a step may do to the reviews of a delegation.
OneReview(i) ==
  delegations'[i].reviews # delegations[i].reviews /\ "open" \in {delegations'[i].reviews[n] : n \in DOMAIN delegations'[i].reviews}
    => delegations[i].reviews = <<>> /\ ~delegations[i].finished /\ delegations[i].parent \notin gone

LEMMA RowsKeep ==
  ASSUME DelegationInv, RowsStay
  PROVE  DelegationInv'
<1>1. DelegationTypes' BY DEF RowsStay, DelegationTypes
<1>2. ASSUME NEW x \in Partners PROVE WaitsFor(x)' \subseteq WaitsFor(x)
  BY DEF WaitsFor, Active, RowsStay
<1> QED BY <1>1, <1>2, FewerWaits DEF DelegationInv

LEMMA RowsRewritten ==
  ASSUME DelegationTypes, delegations' \in [D -> DelegationRow]
  PROVE  delegations' \in Seq(DelegationRow) /\ D' = D
<1>1. Len(delegations) \in Nat BY DEF DelegationTypes
<1>2. delegations' \in Seq(DelegationRow) /\ Len(delegations') = Len(delegations) BY <1>1 DEF D
<1> QED BY <1>1, <1>2 DEF D

LEMMA RowRewritten ==
  ASSUME DelegationTypes, NEW i \in D, NEW row \in DelegationRow, delegations' = [delegations EXCEPT ![i] = row],
         row.parent = delegations[i].parent, row.target = delegations[i].target,
         row.st # "over" /\ ~row.finished => delegations[i].st # "over" /\ ~delegations[i].finished,
         \/ row.reviews = delegations[i].reviews
         \/ row.reviews = <<"over">>
         \/ delegations[i].reviews = <<>> /\ ~delegations[i].finished /\ delegations[i].parent \notin gone
  PROVE  RowsStay /\ \A j \in D : OneReview(j)
<1>1. delegations \in [D -> DelegationRow] BY DEF DelegationTypes, D
<1>2. delegations'[i] = row /\ \A j \in D : j # i => delegations'[j] = delegations[j] BY <1>1
<1>3. delegations' \in [D -> DelegationRow] BY <1>1
<1>4. RowsStay BY <1>2, <1>3, RowsRewritten DEF RowsStay
<1>5. "open" \notin {<<"over">>[n] : n \in DOMAIN <<"over">>} OBVIOUS
<1>6. ASSUME NEW j \in D PROVE OneReview(j)
  BY <1>2, <1>5 DEF OneReview
<1> QED BY <1>4, <1>6

\* The runs, the reviews and the executor.
LEMMA RunStepsMove ==
  ASSUME DelegationTypes, NEW i \in D,
         (\E reached \in BOOLEAN : Dispatched(i, reached)) \/ RunOver(i) \/ ReviewOver(i)
         \/ \E e \in Worker : SaveFiles(e, i) \/ HandBack(e, i) \/ Finish(e, i)
  PROVE  RowsStay /\ \A j \in D : OneReview(j)
<1>1. /\ delegations \in [D -> DelegationRow] /\ delegations[i] \in DelegationRow
  BY DEF DelegationTypes, D
<1> DEFINE row == delegations[i]
           Allowed(new) ==
             /\ new \in DelegationRow /\ delegations' = [delegations EXCEPT ![i] = new]
             /\ new.parent = row.parent /\ new.target = row.target
             /\ new.st # "over" /\ ~new.finished => row.st # "over" /\ ~row.finished
             /\ \/ new.reviews = row.reviews
                \/ new.reviews = <<"over">>
                \/ row.reviews = <<>> /\ ~row.finished /\ row.parent \notin gone
<1>2. SUFFICES \E new : Allowed(new)
  BY RowRewritten
<1>3. ASSUME NEW reached \in BOOLEAN, Dispatched(i, reached) PROVE \E new : Allowed(new)
  <2> DEFINE new == [row EXCEPT !.st = "active", !.daemon = IF reached THEN "has" ELSE "lost"]
  <2>1. Allowed(new) BY <1>1, <1>3 DEF Dispatched, DelegationRow
  <2> QED BY <2>1
<1>4. CASE RunOver(i)
  <2> DEFINE new == [row EXCEPT !.st = "over"]
  <2>1. Allowed(new) BY <1>1, <1>4 DEF RunOver, DelegationRow
  <2> QED BY <2>1
<1>5. CASE ReviewOver(i)
  <2> DEFINE new == [row EXCEPT !.reviews = <<"over">>]
  <2>1. PICK n \in DOMAIN row.reviews : row.reviews[n] = "open" /\ delegations' = [delegations EXCEPT ![i].reviews[n] = "over"]
    BY <1>5 DEF ReviewOver
  <2>2. row.reviews \in {<<>>, <<"open">>, <<"over">>} BY <1>1 DEF DelegationRow
  <2>3. row.reviews = <<"open">> /\ n = 1 BY <2>1, <2>2
  <2>4. [row.reviews EXCEPT ![n] = "over"] = <<"over">> BY <2>3
  <2>5. delegations' = [delegations EXCEPT ![i] = new] BY <1>1, <2>1, <2>4
  <2>6. Allowed(new) BY <1>1, <2>5 DEF DelegationRow
  <2> QED BY <2>6
<1>6. ASSUME NEW e \in Worker, SaveFiles(e, i) PROVE \E new : Allowed(new)
  <2> DEFINE new == IF e = holder THEN [row EXCEPT !.saved = @ \/ Durable(i)] ELSE row
  <2>1. Durable(i) \in BOOLEAN BY DEF Durable
  <2>2. delegations' = [delegations EXCEPT ![i] = new] BY <1>1, <1>6 DEF SaveFiles, Checkpoint
  <2>3. Allowed(new) BY <1>1, <2>1, <2>2 DEF DelegationRow
  <2> QED BY <2>3
<1>7. ASSUME NEW e \in Worker, HandBack(e, i) PROVE \E new : Allowed(new)
  <2> DEFINE new == IF e # holder \/ Returned(i) THEN row
                    ELSE IF row.parent \in gone \/ ~at[<<e, i>>].paid THEN [row EXCEPT !.finished = TRUE]
                    ELSE [row EXCEPT !.reviews = Append(@, "open")]
  <2>1. delegations' = [delegations EXCEPT ![i] = new] BY <1>1, <1>7 DEF HandBack, Checkpoint
  <2>2. CASE new = row
    <3>1. delegations' = [delegations EXCEPT ![i] = row] BY <2>1, <2>2
    <3>2. Allowed(row) BY <1>1, <3>1
    <3> QED BY <3>2
  <2>3. CASE new = [row EXCEPT !.finished = TRUE]
    <3>1. delegations' = [delegations EXCEPT ![i] = [row EXCEPT !.finished = TRUE]] BY <2>1, <2>3
    <3>2. Allowed([row EXCEPT !.finished = TRUE]) BY <1>1, <3>1 DEF DelegationRow
    <3> QED BY <3>2
  <2>4. CASE ~Returned(i) /\ row.parent \notin gone /\ new = [row EXCEPT !.reviews = Append(@, "open")]
    <3>1. row.reviews = <<>> /\ ~row.finished BY <2>4 DEF Returned
    <3>2. Append(<<>>, "open") = <<"open">> OBVIOUS
    <3>3. new = [row EXCEPT !.reviews = <<"open">>] BY <2>4, <3>1, <3>2
    <3> QED BY <1>1, <2>1, <2>4, <3>1, <3>3 DEF DelegationRow
  <2> QED BY <2>2, <2>3, <2>4
<1>8. ASSUME NEW e \in Worker, Finish(e, i) PROVE \E new : Allowed(new)
  <2> DEFINE new == [row EXCEPT !.finished = TRUE]
  <2>1. Allowed(new) BY <1>1, <1>8 DEF Finish, DelegationRow
  <2> QED BY <2>1
<1> QED BY <1>3, <1>4, <1>5, <1>6, <1>7, <1>8

\* Removals: what they end waits no more, and no review of theirs stays open.
LEMMA RemovalsMove ==
  ASSUME DelegationTypes, NEW c \in Partners, Retire(c) \/ Archived(c)
  PROVE  RowsStay /\ \A j \in D : OneReview(j)
<1>1. \A i \in D : delegations[i] \in DelegationRow BY DEF DelegationTypes, D
<1>2. \A s \in {<<>>, <<"open">>, <<"over">>} :
        /\ [n \in DOMAIN s |-> "over"] \in {<<>>, <<"over">>}
        /\ s = <<>> => [n \in DOMAIN s |-> "over"] = <<>>
  OBVIOUS
<1>3. "open" \notin {<<"over">>[n] : n \in DOMAIN <<"over">>} OBVIOUS
<1>4. ASSUME NEW i \in D
      PROVE  /\ delegations'[i] \in DelegationRow
             /\ delegations'[i].parent = delegations[i].parent
             /\ delegations'[i].target = delegations[i].target
             /\ delegations'[i].st # "over" /\ ~delegations'[i].finished
                  => delegations[i].st # "over" /\ ~delegations[i].finished
             /\ OneReview(i)
  <2>1. delegations[i] \in DelegationRow /\ delegations[i].reviews \in {<<>>, <<"open">>, <<"over">>}
    BY <1>1 DEF DelegationRow
  <2>2. CASE Retire(c)
    <3> DEFINE st == IF c \in {delegations[i].parent, delegations[i].target} /\ delegations[i].st = "queued"
                     THEN "over" ELSE delegations[i].st
               reviews == IF c = delegations[i].parent THEN [n \in DOMAIN delegations[i].reviews |-> "over"]
                          ELSE delegations[i].reviews
    <3>1. delegations'[i] = [delegations[i] EXCEPT !.st = st, !.reviews = reviews] BY <2>2 DEF Retire
    <3>2. st \in {"queued", "active", "over"} BY <2>1 DEF DelegationRow
    <3>3. /\ reviews \in {<<>>, <<"open">>, <<"over">>}
          /\ \/ reviews = delegations[i].reviews
             \/ reviews = <<"over">>
      BY <1>2, <2>1
    <3>4. st # "over" => delegations[i].st # "over" OBVIOUS
    <3> HIDE DEF st, reviews
    <3>5. delegations'[i].reviews = reviews /\ delegations'[i].st = st BY <2>1, <3>1 DEF DelegationRow
    <3>6. OneReview(i) BY <1>3, <3>3, <3>5 DEF OneReview
    <3> QED BY <2>1, <3>1, <3>2, <3>3, <3>4, <3>6 DEF DelegationRow
  <2>3. CASE Archived(c)
    <3>1. delegations'[i] = delegations[i]
          \/ delegations'[i] = [delegations[i] EXCEPT !.st = "over", !.finished = TRUE]
      BY <2>3 DEF Archived
    <3>2. delegations'[i].reviews = delegations[i].reviews BY <2>1, <3>1 DEF DelegationRow
    <3>3. OneReview(i) BY <3>2 DEF OneReview
    <3> QED BY <2>1, <3>1, <3>3 DEF DelegationRow
  <2> QED BY <2>2, <2>3
<1>5. delegations' = [i \in D |-> delegations'[i]] BY DEF Retire, Archived
<1>6. delegations' \in [D -> DelegationRow] BY <1>4, <1>5
<1> QED BY <1>4, <1>6, RowsRewritten DEF RowsStay

LEMMA DelegateKeeps ==
  ASSUME DelegationInv, NEW p \in Partners, NEW t \in Partners, DelegateTask(p, t)
  PROVE  DelegationInv' /\ \A i \in D : OneReview(i)
<1> DEFINE row == [parent |-> p, target |-> t, st |-> "queued", daemon |-> "none",
                   saved |-> FALSE, reviews |-> <<>>, finished |-> FALSE]
<1>1. row \in DelegationRow BY DEF DelegationRow
<1>2. delegations \in Seq(DelegationRow) /\ Len(delegations) \in Nat BY DEF DelegationInv, DelegationTypes
<1>3. delegations' = Append(delegations, row) BY DEF DelegateTask
<1>4. row.parent = p /\ row.target = t OBVIOUS
<1> HIDE DEF row
<1>5. /\ delegations' \in Seq(DelegationRow) /\ D' = D \cup {Len(delegations) + 1}
      /\ \A i \in D : delegations'[i] = delegations[i]
      /\ delegations'[Len(delegations) + 1] = row
  BY <1>1, <1>2, <1>3 DEF D
<1>6. ASSUME NEW x \in Partners
      PROVE  WaitsFor(x)' \subseteq WaitsFor(x) \cup (IF x = p THEN {t} ELSE {})
  BY <1>4, <1>5 DEF WaitsFor, Active
<1>7. NoCircularWait' BY <1>6, OneMoreWait DEF DelegateTask
<1>8. \A i \in D : OneReview(i) BY <1>5 DEF OneReview
<1> QED BY <1>5, <1>7, <1>8 DEF DelegationInv, DelegationTypes

LEMMA DelegationBegins == DelegationInit => DelegationInv
<1> SUFFICES ASSUME DelegationInit PROVE DelegationInv
  OBVIOUS
<1>1. delegations = <<>> /\ D = {} BY DEF DelegationInit, D
<1>2. \A c : WaitsFor(c) = {} BY <1>1 DEF WaitsFor
<1>3. \A c : Reachable(c) = {} BY <1>2 DEF Reachable, Closed
<1> QED BY <1>1, <1>3 DEF DelegationInv, DelegationTypes, NoCircularWait

LEMMA DelegationStep ==
  ASSUME DelegationInv, [DelegationNext]_delegationVars
  PROVE  DelegationInv' /\ \A i \in D : OneReview(i)
<1>1. ASSUME NEW p \in Pairs, DelegateTask(p[1], p[2]) PROVE DelegationInv' /\ \A i \in D : OneReview(i)
  <2>1. p[1] \in Partners /\ p[2] \in Partners BY DEF Partners
  <2> QED BY <1>1, <2>1, DelegateKeeps
<1>2. ASSUME RowsStay /\ \A j \in D : OneReview(j) PROVE DelegationInv' /\ \A i \in D : OneReview(i)
  BY <1>2, RowsKeep
<1>3. ASSUME UNCHANGED delegations PROVE RowsStay /\ \A j \in D : OneReview(j)
  BY <1>3 DEF RowsStay, OneReview, D, DelegationInv, DelegationTypes
<1>4. (\E e \in Worker : PassLease(e)) \/ (\E e \in Worker, i \in D : Begin(e, i)) => UNCHANGED delegations
  BY DEF PassLease, Begin
<1>5. UNCHANGED delegationVars => UNCHANGED delegations BY DEF delegationVars
<1> QED BY <1>1, <1>2, <1>3, <1>4, <1>5, RunStepsMove, RemovalsMove DEF DelegationNext, DelegationInv

LEMMA DelegationInvariant == DelegationSpec => []DelegationInv
<1> QED BY DelegationBegins, DelegationStep, PTL DEF DelegationSpec

\* No Companion waits for itself, through any number of others: a delegation is refused to a
\* Companion from which the asking one can be reached along active delegations (delegation.ts).
THEOREM NobodyWaitsForItself == DelegationSpec => []NoCircularWait
<1>1. DelegationInv => NoCircularWait BY DEF DelegationInv
<1> QED BY <1>1, DelegationInvariant, PTL

\* Every delegation is reviewed by one message to its parent, whatever retries the executor.
THEOREM OneReviewEach == DelegationSpec => ReturnedOnce
<1>1. DelegationInv /\ [DelegationNext]_delegationVars => [\A i \in D : OneReview(i)]_delegationVars
  BY DelegationStep
<1> QED BY <1>1, DelegationInvariant, PTL DEF DelegationSpec, ReturnedOnce, OneReview
=============================================================================
