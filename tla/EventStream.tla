----------------------------- MODULE EventStream -----------------------------
(***************************************************************************)
(* The event streams of Companion pages (apps/server/src/events.ts).       *)
(* Triggers of PostgreSQL (events.sql) notify the Companions a transaction *)
(* changed; one LISTEN connection of the API process hears them, and the   *)
(* hub hands them to the open streams.  A stream carries no data: it tells *)
(* the page to read again, merges what comes while the page is slow, and   *)
(* ends by itself.  The driver reconnects a lost LISTEN connection and     *)
(* calls onlisten again; what was notified meanwhile is never heard.       *)
(***************************************************************************)
EXTENDS Naturals, FiniteSets

CONSTANTS
  Page,              \* pages that may open a stream: records with companion and account
  Total, PerAccount, \* limits.total and limits.perOwner
  MaxDrops           \* bound on losses of the LISTEN connection

ASSUME StreamLimits == Total \in Nat /\ PerAccount \in Nat /\ MaxDrops \in Nat

Topics == {s.companion : s \in Page}
Accounts == {s.account : s \in Page}

VARIABLES
  hub,       \* startPromise: "off", "starting", "on"
  link,      \* the LISTEN connection: "down", "listening", "heard" (onlisten has run)
  notices,   \* Companions whose notification is on its way to the hub
  drops,
  stage,     \* stage[s]: "idle", "starting" (awaits hub.start), "open"
  counts,    \* counts[o]: ownerCounts
  pending,   \* pending[s]: dirty, what the stream has to tell
  armed,     \* pages whose flushTimer is set
  chunk,     \* chunk[s]: what the response holds that the page has not read
  stale,     \* pages that show less than the database has
  left,      \* pages whose request was aborted before its stream opened
  ended      \* pages whose session has ended

eventVars == <<hub, link, notices, drops, stage, counts, pending, armed, chunk, stale, left, ended>>

Events == {"invalidate", "resync"}
Open == {s \in Page : stage[s] = "open"}

EventTypeOK ==
  /\ hub \in {"off", "starting", "on"} /\ link \in {"down", "listening", "heard"}
  /\ notices \subseteq Topics /\ drops \in 0..MaxDrops
  /\ stage \in [Page -> {"idle", "starting", "open"}] /\ counts \in [Accounts -> Nat]
  /\ pending \in [Page -> Events \cup {"none"}]
  /\ chunk \in [Page -> Events \cup {"none", "keepalive"}]
  /\ armed \subseteq Open /\ stale \subseteq Open /\ left \subseteq Page /\ ended \subseteq Page

EventInit ==
  /\ hub = "off" /\ link = "down" /\ notices = {} /\ drops = 0
  /\ stage = [s \in Page |-> "idle"] /\ counts = [o \in Accounts |-> 0]
  /\ pending = [s \in Page |-> "none"] /\ chunk = [s \in Page |-> "none"]
  /\ armed = {} /\ stale = {} /\ left = {} /\ ended = {}
-------------------------------------------------------------------------------
\* The database

\* A transaction that changes rows of c commits, and its notification with it.
Change(c) ==
  /\ stale' = stale \cup {s \in Open : s.companion = c}
  /\ notices' = IF link = "down" THEN notices ELSE notices \cup {c}
  /\ UNCHANGED <<hub, link, drops, stage, counts, pending, armed, chunk, left, ended>>

LinkLost ==
  /\ link # "down" /\ drops < MaxDrops
  /\ link' = "down" /\ notices' = {} /\ drops' = drops + 1
  /\ UNCHANGED <<hub, stage, counts, pending, armed, chunk, stale, left, ended>>

\* LISTEN takes effect: from now on notifications are queued for the hub.
Listens ==
  /\ hub # "off" /\ link = "down"
  /\ link' = "listening"
  /\ UNCHANGED <<hub, notices, drops, stage, counts, pending, armed, chunk, stale, left, ended>>

SessionEnds(s) ==
  /\ s \notin ended /\ ended' = ended \cup {s}
  /\ UNCHANGED <<hub, link, notices, drops, stage, counts, pending, armed, chunk, stale, left>>
-------------------------------------------------------------------------------
\* The hub

\* deliver(kind) of the streams ss: a resync covers an invalidate, and is not covered by one.
Deliver(ss, kind) ==
  /\ pending' = [s \in Page |-> IF s \in ss /\ (kind = "resync" \/ pending[s] = "none")
                                  THEN kind ELSE pending[s]]
  /\ armed' = armed \cup ss

\* The subscribers that broadcast reaches for a Companion.
Watching(c) == {s \in Open : s.companion = c}

\* Mutant: nothing is told after a reconnection.
HeardQuietly ==
  /\ link = "listening" /\ link' = "heard"
  /\ UNCHANGED <<hub, notices, drops, stage, counts, pending, armed, chunk, stale, left, ended>>

\* The callback onlisten, the first time and after every reconnection.
Heard ==
  /\ link = "listening" /\ link' = "heard"
  /\ Deliver(Open, "resync")
  /\ UNCHANGED <<hub, notices, drops, stage, counts, chunk, stale, left, ended>>

\* The callback onnotify.
Notified(c) ==
  /\ c \in notices /\ notices' = notices \ {c}
  /\ Deliver(Watching(c), "invalidate")
  /\ UNCHANGED <<hub, link, drops, stage, counts, chunk, stale, left, ended>>

Started ==
  /\ hub = "starting" /\ link # "down" /\ hub' = "on"
  /\ UNCHANGED <<link, notices, drops, stage, counts, pending, armed, chunk, stale, left, ended>>

\* listen() fails: whoever waits for it gets an error, and the next request tries again.
StartFails ==
  /\ hub = "starting" /\ link = "down" /\ hub' = "off"
  /\ stage' = [s \in Page |-> IF stage[s] = "starting" THEN "idle" ELSE stage[s]]
  /\ left' = left \cap Open
  /\ UNCHANGED <<link, notices, drops, counts, pending, armed, chunk, stale, ended>>
-------------------------------------------------------------------------------
\* The streams

\* The request of a page with a session; the look at the Companion precedes hub.start().
RequestEvents(s) ==
  /\ stage[s] = "idle" /\ s \notin ended
  /\ stage' = [stage EXCEPT ![s] = "starting"]
  /\ hub' = IF hub = "off" THEN "starting" ELSE hub
  /\ UNCHANGED <<link, notices, drops, counts, pending, armed, chunk, stale, left, ended>>

HasPlace(s) == Cardinality(Open) < Total /\ counts[s.account] < PerAccount

\* The hub has a place: the stream begins with a resync.
Subscribe(s) ==
  /\ stage[s] = "starting" /\ hub = "on" /\ HasPlace(s)
  /\ stage' = [stage EXCEPT ![s] = "open"]
  /\ counts' = [counts EXCEPT ![s.account] = @ + 1]
  /\ chunk' = [chunk EXCEPT ![s] = "resync"] /\ stale' = stale \cup {s}
  /\ UNCHANGED <<hub, link, notices, drops, pending, armed, left, ended>>

Refused(s) ==
  /\ stage[s] = "starting" /\ hub = "on" /\ ~HasPlace(s)
  /\ stage' = [stage EXCEPT ![s] = "idle"] /\ left' = left \ {s}
  /\ UNCHANGED <<hub, link, notices, drops, counts, pending, armed, chunk, stale, ended>>

\* The timer of flush; while the response is full it is set again, which changes nothing.
Flush(s) ==
  /\ s \in armed /\ chunk[s] = "none"
  /\ armed' = armed \ {s}
  /\ chunk' = [chunk EXCEPT ![s] = pending[s]] /\ pending' = [pending EXCEPT ![s] = "none"]
  /\ UNCHANGED <<hub, link, notices, drops, stage, counts, stale, left, ended>>

Heartbeat(s) ==
  /\ s \in Open /\ chunk[s] = "none"
  /\ chunk' = [chunk EXCEPT ![s] = "keepalive"]
  /\ UNCHANGED <<hub, link, notices, drops, stage, counts, pending, armed, stale, left, ended>>

\* The page takes what the response holds, and on an event reads the Companion again.
PageReads(s) ==
  /\ s \in Open \ left /\ chunk[s] # "none"
  /\ chunk' = [chunk EXCEPT ![s] = "none"]
  /\ stale' = IF chunk[s] \in Events THEN stale \ {s} ELSE stale
  /\ UNCHANGED <<hub, link, notices, drops, stage, counts, pending, armed, left, ended>>

\* What subscribe returned, called at most once.
Unsubscribe(s) == counts' = [counts EXCEPT ![s.account] = @ - 1]

\* cleanup: the timers, the place and the stream are given back, once.
Cleanup(s) ==
  /\ stage' = [stage EXCEPT ![s] = "idle"] /\ Unsubscribe(s)
  /\ pending' = [pending EXCEPT ![s] = "none"] /\ chunk' = [chunk EXCEPT ![s] = "none"]
  /\ armed' = armed \ {s} /\ stale' = stale \ {s} /\ left' = left \ {s}
  /\ UNCHANGED <<hub, link, notices, drops, ended>>

\* lifetimeTimer, or an error of the check of the session.
LifetimeOver(s) == s \in Open /\ Cleanup(s)
\* authTimer: a page without its session is told so and loses the stream.
SessionChecked(s) == s \in Open \cap ended /\ Cleanup(s)
\* The page goes away: its stream ends at once, but before the stream is open nobody listens.
PageLeaves(s) ==
  \/ s \in Open /\ Cleanup(s)
  \/ /\ stage[s] = "starting" /\ left' = left \cup {s}
     /\ UNCHANGED <<hub, link, notices, drops, stage, counts, pending, armed, chunk, stale, ended>>

EventNext ==
  \/ \E c \in Topics : Change(c) \/ Notified(c)
  \/ LinkLost \/ Listens \/ Heard \/ Started \/ StartFails
  \/ \E s \in Page :
       \/ SessionEnds(s) \/ RequestEvents(s) \/ Subscribe(s) \/ Refused(s) \/ Flush(s)
       \/ Heartbeat(s) \/ PageReads(s) \/ LifetimeOver(s) \/ SessionChecked(s) \/ PageLeaves(s)

EventSpec == EventInit /\ [][EventNext]_eventVars
-------------------------------------------------------------------------------
\* A page with a stream shows what the database has, or something is on its way that makes
\* it read again: an event it has not taken, one the stream will flush, a notification,
\* or the resync that follows a lost connection.
\* events.ts:40-54 and 143-156: a change between any two steps of a reconnection, of a
\* subscription or of a flush under back-pressure is not lost.
NoChangeIsMissed ==
  \A s \in stale :
    \/ chunk[s] \in Events
    \/ s \in armed /\ pending[s] \in Events
    \/ s.companion \in notices
    \/ hub = "on" /\ link # "heard"

\* An account has as many places as it has open streams, and no more than it may.
\* events.ts:58-80: the count is read, raised and given back apart from the set of streams,
\* by callbacks of which several may end the same stream.
PlacesAreCounted ==
  /\ Cardinality(Open) <= Total
  /\ \A o \in Accounts : /\ counts[o] = Cardinality({s \in Open : s.account = o})
                         /\ counts[o] <= PerAccount
===============================================================================
