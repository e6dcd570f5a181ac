------------------------------ MODULE Billing ------------------------------
(***************************************************************************)
(* The money of one account.  Stripe's signed events arrive in any order,  *)
(* repeatedly, and again until they are accepted; the webhook keeps the    *)
(* account's customer, its selected subscription and the state of every    *)
(* subscription.  Usage that the gateway verified, and the audit events of *)
(* machines, become rows of a ledger that workers report to Stripe's       *)
(* meters.  Every transaction of the webhook is one step.                  *)
(***************************************************************************)
EXTENDS Naturals, Sequences, FiniteSets

CONSTANTS
  StripeEvent,     \* Stripe's events: CheckoutEvent(...) and SubscriptionEvent(...)
  Metered, Audit,  \* operations with a meter; operations of category box_lifecycle
  Worker,          \* processes that record usage
  MaxStumbles      \* bound: lost answers and transactions, dead workers

\* What requireEvent accepts, and the categories of the ledger.
ASSUME StripeEvents ==
  \A e \in StripeEvent :
    /\ e.type \in {"checkout", "subscription"} /\ e.created \in Nat
    /\ e.type = "subscription" => e.grants \in BOOLEAN
ASSUME Categories == Metered \cap Audit = {}

VARIABLES
  account,         \* billing_accounts of the owner, or NoAccount
  subscriptions,   \* subscriptions[s]: billing_subscriptions, or NoSubscription
  acceptedEvents,         \* stripe_webhook_events
  occurred,        \* operations whose usage is settled and not recorded before
  ledger,          \* ledger[o]: stripe_delivery_status, or "none"
  recorded,        \* the operations of the ledger by created_at
  pass,            \* pass[w]: where recordUsage or flushPendingUsage stands
  meters,          \* meter events that Stripe counts
  stumbles

billingVars == <<account, subscriptions, acceptedEvents, occurred, ledger, recorded, pass,
                 meters, stumbles>>

Operations == Metered \cup Audit
Subscription == {e.subscription : e \in StripeEvent}
NoAccount == [customer |-> "none"]
NoSubscription == [created |-> 0]
IdleWorker == [step |-> "idle", left |-> {}]

CheckoutEvent(name, c, s, t) ==
  [id |-> name, type |-> "checkout", customer |-> c, subscription |-> s, created |-> t]
\* grants: the status is active or trialing and the prices are the configured ones.
SubscriptionEvent(name, c, s, t, g) ==
  [id |-> name, type |-> "subscription", customer |-> c, subscription |-> s, created |-> t,
   grants |-> g]

BillingInit ==
  /\ account = NoAccount
  /\ subscriptions = [s \in Subscription |-> NoSubscription]
  /\ acceptedEvents = {} /\ occurred = {}
  /\ ledger = [o \in Operations |-> "none"] /\ recorded = << >>
  /\ pass = [w \in Worker |-> IdleWorker]
  /\ meters = {} /\ stumbles = 0

ledgerSide == <<occurred, ledger, recorded, pass, meters>>
stripeSide == <<account, subscriptions, acceptedEvents>>
Stumble == stumbles < MaxStumbles /\ stumbles' = stumbles + 1
-----------------------------------------------------------------------------
(***************************************************************************)
(* handleStripeWebhook.                                                    *)
(***************************************************************************)
Known(s) == subscriptions[s] # NoSubscription

\* Mutant: whichever event arrives last is taken for the newest.
NotOlderEver(previous, e) == TRUE
NotOlder(previous, e) == previous.created <= e.created

\* The customer stays the first; the selection moves forward only.
CheckoutCompleted(e) ==
  /\ e.type = "checkout"
  /\ Known(e.subscription) => subscriptions[e.subscription].customer = e.customer
  /\ account = NoAccount \/ account.customer = e.customer
  /\ account' = IF account = NoAccount \/ NotOlder(account, e)
                THEN [customer |-> e.customer, selected |-> e.subscription, created |-> e.created]
                ELSE account
  /\ UNCHANGED subscriptions

\* The metadata of Checkout names the owner, with or without an account yet.
SubscriptionChanged(e) ==
  /\ e.type = "subscription"
  /\ account = NoAccount \/ account.customer = e.customer
  /\ Known(e.subscription) => subscriptions[e.subscription].customer = e.customer
  /\ subscriptions' =
       IF Known(e.subscription) /\ ~NotOlder(subscriptions[e.subscription], e) THEN subscriptions
       ELSE [subscriptions EXCEPT ![e.subscription] =
               [customer |-> e.customer, grants |-> e.grants, created |-> e.created]]
  /\ UNCHANGED account

\* hasEntitlement: the subscription of the last checkout, under the account's own customer.
Entitled ==
  /\ account # NoAccount /\ Known(account.selected)
  /\ subscriptions[account.selected].customer = account.customer
  /\ subscriptions[account.selected].grants

\* An event that is refused is not claimed either: Stripe sends it again.
Webhook(e) ==
  /\ e \notin acceptedEvents
  /\ CheckoutCompleted(e) \/ SubscriptionChanged(e)
  /\ acceptedEvents' = acceptedEvents \cup {e}
  /\ UNCHANGED <<ledgerSide, stumbles>>
-----------------------------------------------------------------------------
(***************************************************************************)
(* recordUsage and flushPendingUsage.  The executor records audit events   *)
(* and retries each until it is told of success; workers record the rest.  *)
(***************************************************************************)
Occurs(o) ==
  /\ o \notin occurred /\ occurred' = occurred \cup {o}
  /\ UNCHANGED <<stripeSide, ledger, recorded, pass, meters, stumbles>>

At(w, step) == pass[w].step = step
Goes(w, next) == pass' = [pass EXCEPT ![w] = next]
Unrecorded == {o \in occurred : ledger[o] = "none"}

\* recordCompletedUsage reads what has no row yet.
StartPass(w) ==
  /\ At(w, "idle") /\ Unrecorded # {}
  /\ Goes(w, [step |-> "record", left |-> Unrecorded])
  /\ UNCHANGED <<stripeSide, occurred, ledger, recorded, meters, stumbles>>

\* The insert, then the reading of the account; a row that exists is a duplicate.
Record(w, o) ==
  /\ At(w, "record") /\ o \in pass[w].left
  /\ LET rest == [step |-> "record", left |-> pass[w].left \ {o}] IN
     IF ledger[o] # "none" THEN Goes(w, rest) /\ UNCHANGED <<ledger, recorded>>
     ELSE /\ ledger' = [ledger EXCEPT ![o] = "pending"]
          /\ recorded' = Append(recorded, o)
          /\ Goes(w, CASE o \in Audit -> [step |-> "skip", left |-> rest.left, on |-> o]
                       [] o \in Metered /\ account = NoAccount -> rest
                       [] o \in Metered /\ account # NoAccount ->
                            [step |-> "meter", left |-> rest.left, on |-> o, flush |-> FALSE])
  /\ UNCHANGED <<stripeSide, occurred, meters, stumbles>>

Skip(w) ==
  /\ At(w, "skip")
  /\ ledger' = [ledger EXCEPT ![pass[w].on] = "skipped"]
  /\ Goes(w, [step |-> "record", left |-> pass[w].left])
  /\ UNCHANGED <<stripeSide, occurred, recorded, meters, stumbles>>

Pending == {o \in Operations : ledger[o] = "pending"}

\* The end of the recording, or a later pass that has nothing to record.
StartFlush(w) ==
  /\ \/ At(w, "record") /\ pass[w].left = {}
     \/ At(w, "idle") /\ Unrecorded = {} /\ Pending # {}
  /\ Goes(w, IF account = NoAccount THEN IdleWorker ELSE [step |-> "flush", left |-> Pending])
  /\ UNCHANGED <<stripeSide, occurred, ledger, recorded, meters, stumbles>>

Oldest(left, o) ==
  \E n \in DOMAIN recorded :
    recorded[n] = o /\ o \in left /\ \A m \in 1..(n - 1) : recorded[m] \notin left
FlushNext(w, o) ==
  /\ At(w, "flush") /\ Oldest(pass[w].left, o)
  /\ Goes(w, IF o \in Audit THEN IdleWorker          \* no meter: the pass breaks off
             ELSE [step |-> "meter", left |-> pass[w].left \ {o}, on |-> o, flush |-> TRUE])
  /\ UNCHANGED <<stripeSide, occurred, ledger, recorded, meters, stumbles>>

FlushEnds(w) ==
  /\ At(w, "flush") /\ pass[w].left = {}
  /\ Goes(w, IdleWorker)
  /\ UNCHANGED <<stripeSide, occurred, ledger, recorded, meters, stumbles>>

\* Mutant: every attempt has an identifier of its own.
IdentifierPerWorker(w) == <<pass[w].on, w>>
\* identifier and Idempotency-Key: Stripe counts one identifier once.
Identifier(w) == <<pass[w].on>>

Meter(w) ==
  /\ At(w, "meter")
  /\ meters' = meters \cup {Identifier(w)}
  /\ Goes(w, [pass[w] EXCEPT !.step = "mark"])
  /\ UNCHANGED <<stripeSide, occurred, ledger, recorded, stumbles>>

\* A failure keeps the row pending; recording goes on, a flush breaks off.
Interrupted(w) ==
  IF pass[w].flush THEN IdleWorker ELSE [step |-> "record", left |-> pass[w].left]
MeterFails(w, counted) ==
  /\ At(w, "meter") /\ Stumble
  /\ meters' = IF counted THEN meters \cup {Identifier(w)} ELSE meters
  /\ Goes(w, Interrupted(w))
  /\ UNCHANGED <<stripeSide, occurred, ledger, recorded>>

Mark(w) ==
  /\ At(w, "mark")
  /\ ledger' = [ledger EXCEPT ![pass[w].on] = "sent"]
  /\ Goes(w, [step |-> IF pass[w].flush THEN "flush" ELSE "record", left |-> pass[w].left])
  /\ UNCHANGED <<stripeSide, occurred, recorded, meters, stumbles>>

MarkFails(w) ==
  /\ At(w, "mark") /\ Stumble
  /\ Goes(w, Interrupted(w))
  /\ UNCHANGED <<stripeSide, occurred, ledger, recorded, meters>>

\* The statements of a pass that fail otherwise end it, as a death does.
WorkerStops(w) ==
  /\ pass[w] # IdleWorker /\ Stumble
  /\ Goes(w, IdleWorker)
  /\ UNCHANGED <<stripeSide, occurred, ledger, recorded, meters>>

UsageNext(w) ==
  \/ \E o \in Operations : Record(w, o) \/ FlushNext(w, o)
  \/ StartPass(w) \/ Skip(w) \/ StartFlush(w) \/ FlushEnds(w)
  \/ Meter(w) \/ Mark(w)
BillingNext ==
  \/ \E e \in StripeEvent : Webhook(e)
  \/ \E o \in Operations : Occurs(o)
  \/ \E w \in Worker : UsageNext(w) \/ MarkFails(w) \/ WorkerStops(w)
  \/ \E w \in Worker, b \in BOOLEAN : MeterFails(w, b)

BillingSpec ==
  /\ BillingInit /\ [][BillingNext]_billingVars
  /\ \A w \in Worker : WF_billingVars(UsageNext(w))
-----------------------------------------------------------------------------
(***************************************************************************)
(* However Stripe's events arrive, what grants access is what Stripe said  *)
(* last: every subscription has the state of one of its newest events that *)
(* were accepted, and the account follows one of its newest checkouts.     *)
(* Two events of one second are equally new here: Stripe's created counts  *)
(* seconds.                                                                *)
(***************************************************************************)
Newest(E) == {e \in E : \A f \in E : f.created <= e.created}
Accepted(type) == {e \in acceptedEvents : e.type = type}
Changes(s) == {e \in Accepted("subscription") : e.subscription = s}
EntitlementFollowsStripe ==
  /\ \A s \in Subscription :
       IF Changes(s) = {} THEN subscriptions[s] = NoSubscription
       ELSE \E e \in Newest(Changes(s)) : subscriptions[s].grants = e.grants
  /\ IF Accepted("checkout") = {} THEN ~Entitled
     ELSE \E c \in Newest(Accepted("checkout")) :
            LET latest == Newest(Changes(c.subscription)) IN
            /\ Entitled => \E e \in latest : e.grants
            /\ (latest # {} /\ \A e \in latest : e.grants) => Entitled

(***************************************************************************)
(* Stripe counts each recorded operation at most once and no audit event   *)
(* ever, whichever workers report it and wherever they stop; and a row     *)
(* that says 'sent' was counted.                                           *)
(***************************************************************************)
UsageCountsOnce ==
  /\ \A o \in Operations :
       LET counted == {m \in meters : m[1] = o} IN
       /\ Cardinality(counted) <= (IF o \in Audit THEN 0 ELSE 1)
       /\ ledger[o] = "sent" => counted # {}
       /\ counted # {} => ledger[o] \in {"pending", "sent"}
  /\ \A m \in meters : m[1] \in occurred

(***************************************************************************)
(* What flushPendingUsage is for: usage recorded before the account had a  *)
(* customer is reported once it has one.  The code does not keep this      *)
(* after a process stopped between the two statements of an audit row: the *)
(* row stays 'pending', and the flush breaks off at it for ever.           *)
(***************************************************************************)
UsageIsReported ==
  \A o \in Metered : (ledger[o] = "pending" /\ account # NoAccount) ~> ledger[o] = "sent"
===============================================================================
