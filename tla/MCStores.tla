----------------------------- MODULE MCStores ---------------------------------
(***************************************************************************)
(* The journalled stores, each on its own: a behaviour is one of the       *)
(* memories of a machine, of its own skills, of the base images, of the    *)
(* gateway's model requests, or of the account's money: the events of      *)
(* Stripe in any order, or the usage of an account with one checkout.      *)
(***************************************************************************)
EXTENDS MemoryStore, LocalSkills, BaseImages, ModelGateway, Billing, TLC

CONSTANTS p, q         \* two callers, mutations or Companions of whichever store moves
Both == {p, q}
BothSymmetry == Permutations(Both)

VARIABLE part

FirstCheckout == CheckoutEvent("e1", "c1", "s1", 1)
MCStripeEvents ==
  { FirstCheckout, CheckoutEvent("e2", "c1", "s2", 2), CheckoutEvent("e3", "c2", "s3", 2),
    SubscriptionEvent("e4", "c1", "s1", 1, TRUE), SubscriptionEvent("e5", "c1", "s1", 2, FALSE),
    SubscriptionEvent("e6", "c1", "s1", 2, TRUE), SubscriptionEvent("e7", "c2", "s3", 2, TRUE) }

machineSide == <<memoryVars, skillVars, imageVars>>
storesVars == <<machineSide, gatewayVars, billingVars, part>>

InMemory(A) ==
  part = "memory" /\ A /\ UNCHANGED <<skillVars, imageVars, gatewayVars, billingVars, part>>
InSkills(A) ==
  part = "skills" /\ A /\ UNCHANGED <<memoryVars, imageVars, gatewayVars, billingVars, part>>
InImages(A) ==
  part = "images" /\ A /\ UNCHANGED <<memoryVars, skillVars, gatewayVars, billingVars, part>>
InGateway(A) == part = "gateway" /\ A /\ UNCHANGED <<machineSide, billingVars, part>>
InBilling(A) == part \in {"stripe", "usage"} /\ A /\ UNCHANGED <<machineSide, gatewayVars, part>>
InUsage(A) == part = "usage" /\ InBilling(A)

MCInit ==
  /\ MemoryInit /\ SkillInit /\ ImageInit /\ GatewayInit /\ BillingInit
  /\ part \in {"memory", "skills", "images", "gateway", "stripe", "usage"}
-------------------------------------------------------------------------------
MemoryMoves ==
  \/ \E k \in Call, o \in Operation : \E x \in Payload : InMemory(RequestMutation(k, o, x))
  \/ \E k, j \in Call : InMemory(RetryMutation(k, j))
  \/ \E k \in Call : InMemory(CallTimesOut(k))
  \/ InMemory(WorkerDies)
  \/ InMemory(Cooled)
  \/ InMemory(AfterResponse)
  \/ \E i \in Ids : InMemory(Expire(i))
  \/ InMemory(Open)
  \/ \E k \in Call : InMemory(Mutate(k))
  \/ \E outcome \in {"done", "rebuild", "mark"} : InMemory(Derive(outcome))
  \/ InMemory(Reply)
  \/ InMemory(MaintainExpired)
  \/ InMemory(MaintainDirty)
  \/ InMemory(MaintainCursor)
  \/ InMemory(MaintainSnapshots)

SkillsMoves ==
  \/ \E m \in Mutation, k \in {"install", "update", "remove"}, n, e \in Content \cup {Absent} :
       InSkills(MutateSkill(m, k, n, e))
  \/ \E m \in Mutation : InSkills(Retry(m))
  \/ \E m \in Mutation : InSkills(ReconcileSkill(m))
  \/ \E m \in Mutation : InSkills(StoreResult(m))
  \/ \E m \in Mutation : InSkills(ControlImport(m))
  \/ \E m \in Mutation : InSkills(Remove(m))
  \/ \E m \in Mutation : InSkills(TakeAway(m))
  \/ \E m \in Mutation : InSkills(CompleteRemoval(m))
  \/ \E h \in Content : InSkills(ServerImport(h))
  \/ \E h \in Content : InSkills(EditSkill(h))
  \/ InSkills(ServerAnswered)
  \/ InSkills(Displace)
  \/ InSkills(Place)
  \/ InSkills(DaemonDies)

ImagesMoves ==
  \/ \E i \in Image : InImages(CheckReady(i))
  \/ \E i \in Image : InImages(ResumePublication(i))
  \/ \E i \in Image : InImages(Enter(i))
  \/ \E i \in Image, b \in Boxes : InImages(CreateIntent(i, b))
  \/ \E i \in Image, b \in Boxes : InImages(CreateUnresolved(i, b))
  \/ \E i \in Image, b \in Boxes, o \in {"created", "limited", "lost"}, h \in BOOLEAN :
       InImages(CreateAnswers(i, b, o, h))
  \/ \E i \in Image : InImages(InstallIntent(i))
  \/ \E i \in Image, w \in BOOLEAN : InImages(Install(i, w))
  \/ \E i \in Image : InImages(VerifySource(i))
  \/ \E i \in Image, o \in {"accepted", "limit"} : InImages(Capture(i, o))
  \/ \E i \in Image, e \in {"ready", "failed"} : InImages(CaptureEnds(i, e))
  \/ \E i \in Image : InImages(CaptureFailed(i))
  \/ \E i \in Image : InImages(VerifierRefuses(i))
  \/ \E i \in Image : InImages(Publish(i))
  \/ \E i \in Image : InImages(ReconcileDeletion(i))
  \/ \E i \in Image : InImages(MarkDeletion(i))
  \/ \E i \in Image, o \in {"deleted", "in use", "unknown"} : InImages(DeleteAnswers(i, o))
  \/ \E i \in Image : InImages(Vanish(i))
  \/ \E h \in BOOLEAN, n \in 1..MaxReleases : InImages(LeaderLost(h, n))
  \/ \E c \in Tenant : InImages(Pin(c))
  \/ \E c \in Tenant : InImages(StartCreation(c))
  \/ \E c \in Tenant : InImages(CreateTenant(c))

GatewayMoves ==
  \/ \E x \in Exchange, g \in Gateway, i \in RequestId : InGateway(Admit(x, g, i))
  \/ \E x \in Exchange : InGateway(Allowed(x))
  \/ \E x \in Exchange, b \in BOOLEAN : InGateway(ReadBody(x, b))
  \/ \E x \in Exchange : InGateway(Claim(x))
  \/ \E x \in Exchange : InGateway(Confirm(x))
  \/ \E x \in Exchange, b \in BOOLEAN : InGateway(Send(x, b))
  \/ \E x \in Exchange, s \in {"failed", "interrupted"} : InGateway(NoAnswer(x, s))
  \/ \E x \in Exchange : InGateway(Fail(x))
  \/ \E x \in Exchange : InGateway(HandOver(x))
  \/ \E x \in Exchange, r \in {"complete", "refused", "cut"} : InGateway(PumpEnds(x, r))
  \/ InGateway(GrantEnds)
  \/ \E g \in Gateway : InGateway(GatewayDies(g))

BillingMoves ==
  \/ \E e \in StripeEvent : (part = "usage" => e = FirstCheckout) /\ InBilling(Webhook(e))
  \/ \E o \in Operations : InUsage(Occurs(o))
  \/ \E w \in Worker : InUsage(StartPass(w))
  \/ \E w \in Worker, o \in Operations : InUsage(Record(w, o))
  \/ \E w \in Worker : InUsage(Skip(w))
  \/ \E w \in Worker : InUsage(StartFlush(w))
  \/ \E w \in Worker, o \in Operations : InUsage(FlushNext(w, o))
  \/ \E w \in Worker : InUsage(FlushEnds(w))
  \/ \E w \in Worker : InUsage(Meter(w))
  \/ \E w \in Worker, b \in BOOLEAN : InUsage(MeterFails(w, b))
  \/ \E w \in Worker : InUsage(Mark(w))
  \/ \E w \in Worker : InUsage(MarkFails(w))
  \/ \E w \in Worker : InUsage(WorkerStops(w))

MCNext == MemoryMoves \/ SkillsMoves \/ ImagesMoves \/ GatewayMoves \/ BillingMoves
MCSpec == MCInit /\ [][MCNext]_storesVars
===============================================================================
