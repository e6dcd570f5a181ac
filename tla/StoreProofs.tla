----------------------------- MODULE StoreProofs -----------------------------
(***************************************************************************)
(* What is true of any number of requests, mutations, images, accounts and *)
(* processes.  Models: the provider is asked once for a request, and no slot *)
(* leaks.  Skills: a removal spares what was installed since, and a success *)
(* is of what was asked for.  Images: no step is made twice, and one that a *)
(* creation waits for stays.  Money: access follows the newest events, and *)
(* usage counts once.  Memory: an operation acts once, and an index that is *)
(* trusted is complete.                                                    *)
(***************************************************************************)
EXTENDS ModelGateway, LocalSkills, BaseImages, Billing, MemoryStore, FiniteSetTheorems,
        WellFoundedInduction, TLAPS

-----------------------------------------------------------------------------
\* Requests of the model gateway.

\* An exchange that claimed the row of its request and has not ended.
Holds(x) ==
  \/ exchange[x].step \in {"confirm", "send", "upstream", "pump"}
  \/ exchange[x].step = "fail" /\ exchange[x].claimed

GatewayTypes ==
  /\ granted \in BOOLEAN
  /\ exchange \in [Exchange -> [step : {"closed"} \cup Steps, at : {Nowhere} \cup Gateway,
                               id : {Nowhere} \cup RequestId, claimed : BOOLEAN, body : BOOLEAN]]
  /\ \A x \in Exchange : IsOpen(x) => exchange[x].at \in Gateway /\ exchange[x].id \in RequestId
  /\ admitted \in [Gateway -> Int]
  /\ bodyBytes \in [Gateway -> Int]
  /\ entry \in [RequestId -> {"none", "forwarding", "succeeded", "failed", "interrupted"}]
  /\ verified \subseteq RequestId
  /\ forwarded \in [RequestId -> Nat]

\* What an exchange knows of the row of its request at each step.
StepOK(x) ==
  /\ Holds(x) => entry[exchange[x].id] = "forwarding"
  /\ exchange[x].step \in {"allow", "read", "claim"} => ~exchange[x].claimed
  /\ exchange[x].step \in {"confirm", "send", "upstream"} => exchange[x].claimed
  /\ exchange[x].step \in {"confirm", "send"} => forwarded[exchange[x].id] = 0
  /\ exchange[x].step = "pump" => forwarded[exchange[x].id] = 1

\* The unique index: at most one row of the run is being forwarded, by one exchange.
OneForwarding ==
  /\ \A x, y \in Exchange : Holds(x) /\ Holds(y) => x = y
  /\ \A i, j \in RequestId : entry[i] = "forwarding" /\ entry[j] = "forwarding" => i = j

RowOK(i) ==
  /\ forwarded[i] \in {0, 1}
  /\ entry[i] = "none" => forwarded[i] = 0
  /\ i \in verified => forwarded[i] = 1

RequestInv ==
  /\ GatewayTypes
  /\ \A x \in Exchange : StepOK(x)
  /\ OneForwarding
  /\ \A i \in RequestId : RowOK(i)

LEMMA InitRequest == GatewayInit => RequestInv
  BY DEF GatewayInit, RequestInv, GatewayTypes, StepOK, OneForwarding, RowOK, Holds, Closed, Opened, IsOpen, Steps

LEMMA NextRequest == RequestInv /\ [GatewayNext]_gatewayVars => RequestInv'
<1> SUFFICES ASSUME RequestInv, [GatewayNext]_gatewayVars PROVE RequestInv'
  OBVIOUS
<1> USE DEF RequestInv, GatewayTypes, StepOK, OneForwarding, RowOK, Holds, Closed, Opened, IsOpen, Steps, Stands, Moves
<1>1. CASE \E x \in Exchange, g \in Gateway, i \in RequestId : Admit(x, g, i)
  BY <1>1 DEF Admit
<1>2. CASE \E x \in Exchange : Allowed(x)
  BY <1>2 DEF Allowed
<1>3. CASE \E x \in Exchange : Claim(x)
  <2> PICK x \in Exchange : Claim(x)
    BY <1>3
  <2>1. exchange[x].step = "claim" /\ exchange[x].id \in RequestId /\ ~Holds(x)
    BY DEF Claim
  <2>2. UNCHANGED <<granted, admitted, bodyBytes, verified, forwarded>>
    BY DEF Claim
  <2>3. CASE Claimable(exchange[x].id)
    <3>1. /\ entry' = [entry EXCEPT ![exchange[x].id] = "forwarding"]
          /\ exchange' = [exchange EXCEPT ![x].step = "confirm", ![x].claimed = TRUE]
          /\ forwarded[exchange[x].id] = 0
          /\ \A j \in RequestId : entry[j] # "forwarding"
      BY <2>1, <2>3 DEF Claim, Claimable
    <3>2. \A y \in Exchange : ~Holds(y)
      BY <3>1
    <3>3. GatewayTypes'
      BY <2>1, <2>2, <3>1
    <3>4. \A y \in Exchange : StepOK(y)'
      BY <2>1, <2>2, <3>1
    <3>5. OneForwarding'
      BY <2>1, <2>2, <3>1, <3>2
    <3>6. \A i \in RequestId : RowOK(i)'
      BY <2>1, <2>2, <3>1
    <3> QED
      BY <3>3, <3>4, <3>5, <3>6
  <2>4. CASE ~Claimable(exchange[x].id)
    <3>1. exchange' = [exchange EXCEPT ![x].step = "fail"] /\ UNCHANGED entry
      BY <2>4 DEF Claim
    <3> QED
      BY <2>1, <2>2, <3>1
  <2> QED
    BY <2>3, <2>4
<1>4. CASE \E x \in Exchange : Confirm(x)
  BY <1>4 DEF Confirm
<1>5. CASE \E x \in Exchange : Fail(x)
  BY <1>5 DEF Fail, Settles, SettleIsLost, Outage, GiveBackBody, GiveBackSlot
<1>6. CASE \E x \in Exchange : HandOver(x)
  BY <1>6 DEF HandOver, GiveBackBody
<1>7. CASE \E x \in Exchange, b \in BOOLEAN : ReadBody(x, b)
  <2> PICK x \in Exchange, b \in BOOLEAN : ReadBody(x, b)
    BY <1>7
  <2>1. exchange[x].at \in Gateway /\ UNCHANGED <<granted, admitted, entry, verified, forwarded>>
    BY DEF ReadBody
  <2>2. CASE bodyBytes[exchange[x].at] < BodyBudget
    <3>1. bodyBytes' \in [Gateway -> Int]
      BY <2>1, <2>2 DEF ReadBody
    <3>2. exchange' = [exchange EXCEPT ![x].step = IF b THEN "claim" ELSE "fail", ![x].body = TRUE]
      BY <2>2 DEF ReadBody
    <3> QED
      BY <2>1, <3>1, <3>2 DEF ReadBody
  <2>3. CASE ~(bodyBytes[exchange[x].at] < BodyBudget)
    <3>1. exchange' = [exchange EXCEPT ![x].step = "fail"] /\ UNCHANGED bodyBytes
      BY <2>3 DEF ReadBody
    <3> QED
      BY <2>1, <3>1 DEF ReadBody
  <2> QED
    BY <2>2, <2>3
<1>8. CASE \E x \in Exchange, b \in BOOLEAN : Send(x, b)
  BY <1>8 DEF Send
<1>9. CASE \E x \in Exchange, s \in {"failed", "interrupted"} : NoAnswer(x, s)
  <2> PICK x \in Exchange, s \in {"failed", "interrupted"} : NoAnswer(x, s)
    BY <1>9
  <2>1. /\ exchange[x].step = "upstream" /\ exchange[x].at \in Gateway
        /\ exchange' = [exchange EXCEPT ![x] = Closed]
        /\ UNCHANGED <<granted, forwarded>>
    BY DEF NoAnswer
  <2>2. admitted' \in [Gateway -> Int] /\ bodyBytes' \in [Gateway -> Int]
    BY <2>1 DEF NoAnswer, GiveBackBody, GiveBackSlot
  <2>3. \/ UNCHANGED <<entry, verified>>
        \/ entry' = [entry EXCEPT ![exchange[x].id] = s] /\ UNCHANGED verified
    BY <2>1 DEF NoAnswer, Settles, SettleIsLost
  <2>4. GatewayTypes'
    BY <2>1, <2>2, <2>3
  <2>5. \A y \in Exchange : StepOK(y)'
    BY <2>1, <2>3
  <2>6. OneForwarding'
    BY <2>1, <2>3
  <2>7. \A i \in RequestId : RowOK(i)'
    BY <2>1, <2>3
  <2> QED
    BY <2>4, <2>5, <2>6, <2>7
<1>10. CASE \E x \in Exchange, r \in {"complete", "refused", "cut"} : PumpEnds(x, r)
  BY <1>10 DEF PumpEnds, Settles, SettleIsLost, Outage, GiveBackSlot, Outcome
<1>11. CASE \E g \in Gateway : GatewayDies(g)
  BY <1>11 DEF GatewayDies, Outage
<1>12. CASE GrantEnds
  BY <1>12 DEF GrantEnds
<1>13. CASE UNCHANGED gatewayVars
  BY <1>13 DEF gatewayVars
<1> QED
  BY <1>1, <1>2, <1>3, <1>4, <1>5, <1>6, <1>7, <1>8, <1>9, <1>10, <1>11, <1>12, <1>13 DEF GatewayNext

LEMMA RequestsAreSound == GatewaySpec => []RequestInv
  BY InitRequest, NextRequest, PTL DEF GatewaySpec

LEMMA SoundImpliesOnce == RequestInv => ProviderSeesItOnce
<1> SUFFICES ASSUME RequestInv PROVE ProviderSeesItOnce
  OBVIOUS
<1>1. \A i \in RequestId : forwarded[i] <= 1
  BY DEF RequestInv, RowOK
<1>2. \A i \in verified : forwarded[i] = 1
  BY DEF RequestInv, RowOK, GatewayTypes
<1>3. Cardinality(AtProvider) <= 1
  <2>1. CASE AtProvider = {}
    BY <2>1, FS_EmptySet
  <2>2. CASE AtProvider # {}
    <3>1. PICK x \in Exchange : x \in AtProvider
      BY <2>2 DEF AtProvider
    <3>2. AtProvider = {x}
      BY <3>1 DEF AtProvider, RequestInv, OneForwarding, Holds
    <3> QED
      BY <3>2, FS_Singleton
  <2> QED
    BY <2>1, <2>2
<1> QED
  BY <1>1, <1>2, <1>3 DEF ProviderSeesItOnce

(***************************************************************************)
(* A request id reaches the provider at most once and one request of the   *)
(* run is open there at a time, in any number of processes and through     *)
(* lost settlements and crashes (model-gateway.ts, handle and pump).       *)
(***************************************************************************)
THEOREM ProviderIsAskedOnce == GatewaySpec => []ProviderSeesItOnce
  BY RequestsAreSound, SoundImpliesOnce, PTL
-------------------------------------------------------------------------------
(***************************************************************************)
(* Slots and bodies.                                                       *)
(***************************************************************************)
BodiesAt(g) == {x \in OpenAt(g) : exchange[x].body}

\* Only between the reading of the body and the handover does an exchange hold one.
NoBodyYet(x) == exchange[x].step \in {"closed", "allow", "read", "pump"} => ~exchange[x].body

SlotInv ==
  /\ GatewayTypes
  /\ \A x \in Exchange : NoBodyYet(x)
  /\ SlotsAreReturned

LEMMA FiniteAt == \A g : IsFiniteSet(OpenAt(g)) /\ IsFiniteSet(BodiesAt(g))
<1> TAKE g
<1>1. OpenAt(g) \subseteq Exchange /\ BodiesAt(g) \subseteq Exchange
  BY DEF OpenAt, BodiesAt
<1> QED
  BY <1>1, GatewayAssumption, FS_Subset

LEMMA SlotCounts ==
  SlotsAreReturned <=> \A g \in Gateway : /\ admitted[g] = Cardinality(OpenAt(g))
                                         /\ bodyBytes[g] = Cardinality(BodiesAt(g))
  BY DEF SlotsAreReturned, BodiesAt

LEMMA BodyGivenBack ==
  ASSUME NEW x, bodyBytes \in [Gateway -> Int], GiveBackBody(x)
  PROVE  \A g \in Gateway : bodyBytes'[g] = IF g = exchange[x].at /\ exchange[x].body
                                            THEN bodyBytes[g] - 1 ELSE bodyBytes[g]
<1>1. CASE exchange[x].body
  BY <1>1 DEF GiveBackBody
<1>2. CASE ~exchange[x].body
  BY <1>2 DEF GiveBackBody
<1> QED
  BY <1>1, <1>2

LEMMA InitSlots == GatewayInit => SlotInv
<1> SUFFICES ASSUME GatewayInit PROVE SlotInv
  OBVIOUS
<1>1. \A g \in Gateway : OpenAt(g) = {} /\ BodiesAt(g) = {}
  BY DEF GatewayInit, OpenAt, BodiesAt, IsOpen, Closed, Opened
<1>2. SlotsAreReturned
  BY <1>1, SlotCounts, FS_EmptySet DEF GatewayInit
<1> QED
  BY <1>2, InitRequest DEF SlotInv, RequestInv, NoBodyYet, GatewayInit, Closed, Opened

LEMMA NextSlots == SlotInv /\ GatewayTypes' /\ [GatewayNext]_gatewayVars => SlotInv'
<1> SUFFICES ASSUME SlotInv, GatewayTypes', [GatewayNext]_gatewayVars PROVE SlotInv'
  OBVIOUS
<1> DEFINE Same == \A g \in Gateway : /\ OpenAt(g)' = OpenAt(g) /\ admitted'[g] = admitted[g]
                                      /\ BodiesAt(g)' = BodiesAt(g) /\ bodyBytes'[g] = bodyBytes[g]
<1> USE DEF GatewayTypes
<1>0. \A g \in Gateway : admitted[g] = Cardinality(OpenAt(g)) /\ bodyBytes[g] = Cardinality(BodiesAt(g))
  BY SlotCounts DEF SlotInv
<1>a. ASSUME Same, \A x \in Exchange : NoBodyYet(x)' PROVE SlotInv'
  BY <1>0, <1>a, SlotCounts DEF SlotInv, SlotsAreReturned, BodiesAt
<1>b. ASSUME NEW x \in Exchange, IsOpen(x), NEW s \in Steps \ {"allow", "pump"},
             s = "read" => ~exchange[x].body,
             exchange' = [exchange EXCEPT ![x].step = s], UNCHANGED <<admitted, bodyBytes>>
      PROVE  SlotInv'
  <2>1. Same
    BY <1>b DEF OpenAt, BodiesAt, IsOpen, Steps
  <2>2. \A y \in Exchange : NoBodyYet(y)'
    BY <1>b DEF SlotInv, NoBodyYet, IsOpen, Steps
  <2> QED
    BY <1>a, <2>1, <2>2
<1>c. ASSUME NEW x \in Exchange, IsOpen(x), GiveBackSlot(x),
             GiveBackBody(x) \/ (~exchange[x].body /\ UNCHANGED bodyBytes),
             exchange' = [exchange EXCEPT ![x] = Closed]
      PROVE  SlotInv'
  <2> DEFINE h == exchange[x].at
  <2>1. h \in Gateway /\ x \in OpenAt(h) /\ (x \in BodiesAt(h) <=> exchange[x].body)
    BY <1>c DEF SlotInv, OpenAt, BodiesAt
  <2>2. \A g \in Gateway : OpenAt(g)' = OpenAt(g) \ {x} /\ BodiesAt(g)' = BodiesAt(g) \ {x}
    BY <1>c DEF OpenAt, BodiesAt, IsOpen, Closed, Opened
  <2>3. \A g \in Gateway : g # h => x \notin OpenAt(g) /\ x \notin BodiesAt(g)
    BY DEF OpenAt, BodiesAt
  <2>4. \A g \in Gateway : bodyBytes'[g] = IF g = h /\ exchange[x].body THEN bodyBytes[g] - 1 ELSE bodyBytes[g]
    <3>1. CASE GiveBackBody(x)
      BY <3>1, BodyGivenBack DEF SlotInv
    <3>2. CASE ~exchange[x].body /\ UNCHANGED bodyBytes
      BY <3>2
    <3> QED
      BY <1>c, <3>1, <3>2
  <2>5. \A g \in Gateway : admitted'[g] = Cardinality(OpenAt(g)')
    <3> TAKE g \in Gateway
    <3>1. Cardinality(OpenAt(g) \ {x}) = IF x \in OpenAt(g) THEN Cardinality(OpenAt(g)) - 1
                                         ELSE Cardinality(OpenAt(g))
      BY FiniteAt, FS_RemoveElement
    <3> QED
      BY <1>0, <1>c, <2>1, <2>2, <2>3, <3>1 DEF SlotInv, GiveBackSlot
  <2>6. \A g \in Gateway : bodyBytes'[g] = Cardinality(BodiesAt(g)')
    <3> TAKE g \in Gateway
    <3>1. Cardinality(BodiesAt(g) \ {x}) = IF x \in BodiesAt(g) THEN Cardinality(BodiesAt(g)) - 1
                                           ELSE Cardinality(BodiesAt(g))
      BY FiniteAt, FS_RemoveElement
    <3> QED
      <4>1. BodiesAt(g)' = BodiesAt(g) \ {x} /\ bodyBytes[g] = Cardinality(BodiesAt(g))
        BY <1>0, <2>2
      <4>2. x \in BodiesAt(g) <=> g = h /\ exchange[x].body
        BY <2>1, <2>3
      <4> HIDE DEF h, GatewayTypes
      <4> QED
        BY <2>4, <3>1, <4>1, <4>2
  <2>7. \A y \in Exchange : NoBodyYet(y)'
    BY <1>c DEF SlotInv, NoBodyYet, Closed, Opened
  <2> QED
    BY <2>5, <2>6, <2>7 DEF SlotInv, SlotsAreReturned, BodiesAt
<1>1. CASE \E x \in Exchange, g \in Gateway, i \in RequestId : Admit(x, g, i)
  <2> PICK x \in Exchange, h \in Gateway, i \in RequestId : Admit(x, h, i)
    BY <1>1
  <2>1. x \notin OpenAt(h) /\ OpenAt(h)' = OpenAt(h) \cup {x} /\ BodiesAt(h)' = BodiesAt(h)
    BY DEF SlotInv, Admit, OpenAt, BodiesAt, IsOpen, Opened, Stands, NoBodyYet
  <2>2. \A g \in Gateway : g # h => OpenAt(g)' = OpenAt(g) /\ BodiesAt(g)' = BodiesAt(g)
    BY DEF SlotInv, Admit, OpenAt, BodiesAt, IsOpen, Opened, Stands, NoBodyYet
  <2>3. Cardinality(OpenAt(h)') = Cardinality(OpenAt(h)) + 1
    BY <2>1, FiniteAt, FS_AddElement
  <2>4. \A g \in Gateway : admitted'[g] = Cardinality(OpenAt(g)')
    BY <1>0, <2>2, <2>3 DEF Admit, SlotInv
  <2>5. \A g \in Gateway : bodyBytes'[g] = Cardinality(BodiesAt(g)')
    BY <1>0, <2>1, <2>2 DEF Admit
  <2>6. \A y \in Exchange : NoBodyYet(y)'
    BY DEF SlotInv, NoBodyYet, Admit, Opened
  <2> QED
    BY <2>4, <2>5, <2>6 DEF SlotInv, SlotsAreReturned, BodiesAt
<1>2. CASE \E x \in Exchange : Allowed(x)
  <2> PICK x \in Exchange : Allowed(x)
    BY <1>2
  <2>1. IsOpen(x) /\ ~exchange[x].body
    BY DEF Allowed, Stands, SlotInv, NoBodyYet, IsOpen
  <2>2. UNCHANGED <<admitted, bodyBytes>>
    BY DEF Allowed
  <2>3. CASE granted
    BY <1>b, <2>1, <2>2, <2>3 DEF Allowed, Moves, Steps
  <2>4. CASE ~granted
    BY <1>b, <2>1, <2>2, <2>4 DEF Allowed, Moves, Steps
  <2> QED
    BY <2>3, <2>4
<1>3. CASE \E x \in Exchange : Claim(x)
  <2> PICK x \in Exchange : Claim(x)
    BY <1>3
  <2>1. Same
    BY DEF Claim, Stands, Moves, OpenAt, BodiesAt, IsOpen
  <2>2. \A y \in Exchange : NoBodyYet(y)'
    BY DEF Claim, Stands, Moves, SlotInv, NoBodyYet
  <2> QED
    BY <1>a, <2>1, <2>2
<1>4. CASE \E x \in Exchange : Confirm(x) \/ (\E b \in BOOLEAN : Send(x, b))
  <2> PICK x \in Exchange : Confirm(x) \/ (\E b \in BOOLEAN : Send(x, b))
    BY <1>4
  <2>1. IsOpen(x) /\ UNCHANGED <<admitted, bodyBytes>>
    BY DEF Confirm, Send, Stands, IsOpen
  <2>2. PICK s \in {"send", "fail", "upstream"} : exchange' = [exchange EXCEPT ![x].step = s]
    BY DEF Confirm, Send, Moves
  <2> QED
    BY <1>b, <2>1, <2>2 DEF Steps
<1>5. CASE \E x \in Exchange : Fail(x) \/ (\E s \in {"failed", "interrupted"} : NoAnswer(x, s))
                               \/ (\E r \in {"complete", "refused", "cut"} : PumpEnds(x, r))
  <2> PICK x \in Exchange : Fail(x) \/ (\E s \in {"failed", "interrupted"} : NoAnswer(x, s))
                               \/ (\E r \in {"complete", "refused", "cut"} : PumpEnds(x, r))
    BY <1>5
  <2>1. IsOpen(x) /\ GiveBackSlot(x) /\ exchange' = [exchange EXCEPT ![x] = Closed]
    BY DEF Fail, NoAnswer, PumpEnds, Stands, IsOpen
  <2>2. GiveBackBody(x) \/ (~exchange[x].body /\ UNCHANGED bodyBytes)
    BY DEF Fail, NoAnswer, PumpEnds, Stands, SlotInv, NoBodyYet
  <2> QED
    BY <1>c, <2>1, <2>2
<1>6. CASE \E x \in Exchange : HandOver(x)
  <2> PICK x \in Exchange : HandOver(x)
    BY <1>6
  <2> DEFINE h == exchange[x].at
  <2>1. h \in Gateway /\ x \in OpenAt(h) /\ (x \in BodiesAt(h) <=> exchange[x].body)
    BY DEF HandOver, Stands, SlotInv, OpenAt, BodiesAt, IsOpen
  <2>2. \A g \in Gateway : OpenAt(g)' = OpenAt(g) /\ BodiesAt(g)' = BodiesAt(g) \ {x}
    BY DEF HandOver, Stands, OpenAt, BodiesAt, IsOpen, SlotInv
  <2>3. \A g \in Gateway : g # h => x \notin BodiesAt(g)
    BY DEF OpenAt, BodiesAt
  <2>4. \A g \in Gateway : bodyBytes'[g] = IF g = h /\ exchange[x].body THEN bodyBytes[g] - 1 ELSE bodyBytes[g]
    BY BodyGivenBack DEF HandOver, SlotInv
  <2>5. \A g \in Gateway : bodyBytes'[g] = Cardinality(BodiesAt(g)')
    <3> TAKE g \in Gateway
    <3>1. Cardinality(BodiesAt(g) \ {x}) = IF x \in BodiesAt(g) THEN Cardinality(BodiesAt(g)) - 1
                                           ELSE Cardinality(BodiesAt(g))
      BY FiniteAt, FS_RemoveElement
    <3> QED
      <4>1. BodiesAt(g)' = BodiesAt(g) \ {x} /\ bodyBytes[g] = Cardinality(BodiesAt(g))
        BY <1>0, <2>2
      <4>2. x \in BodiesAt(g) <=> g = h /\ exchange[x].body
        BY <2>1, <2>3
      <4> HIDE DEF h, GatewayTypes
      <4> QED
        BY <2>4, <3>1, <4>1, <4>2
  <2>6. \A g \in Gateway : admitted'[g] = Cardinality(OpenAt(g)')
    BY <1>0, <2>2 DEF HandOver
  <2>7. \A y \in Exchange : NoBodyYet(y)'
    BY DEF HandOver, SlotInv, NoBodyYet
  <2> QED
    BY <2>5, <2>6, <2>7 DEF SlotInv, SlotsAreReturned, BodiesAt
<1>7. CASE \E x \in Exchange, b \in BOOLEAN : ReadBody(x, b)
  <2> PICK x \in Exchange, b \in BOOLEAN : ReadBody(x, b)
    BY <1>7
  <2> DEFINE h == exchange[x].at
  <2>0. exchange[x].step = "read" /\ IsOpen(x) /\ ~exchange[x].body /\ h \in Gateway /\ UNCHANGED admitted
    BY DEF ReadBody, Stands, SlotInv, NoBodyYet, IsOpen
  <2>1. CASE bodyBytes[h] < BodyBudget
    <3>1. /\ bodyBytes' = [bodyBytes EXCEPT ![h] = @ + 1]
          /\ exchange' = [exchange EXCEPT ![x].step = IF b THEN "claim" ELSE "fail", ![x].body = TRUE]
      BY <2>1 DEF ReadBody
    <3>2. /\ \A g \in Gateway : OpenAt(g)' = OpenAt(g)
          /\ \A g \in Gateway : g # h => BodiesAt(g)' = BodiesAt(g)
          /\ x \notin BodiesAt(h) /\ BodiesAt(h)' = BodiesAt(h) \cup {x}
      BY <2>0, <3>1 DEF OpenAt, BodiesAt, IsOpen, SlotInv
    <3>3. Cardinality(BodiesAt(h)') = Cardinality(BodiesAt(h)) + 1
      BY <3>2, FiniteAt, FS_AddElement
    <3>4. \A g \in Gateway : bodyBytes'[g] = Cardinality(BodiesAt(g)')
      BY <1>0, <2>0, <3>1, <3>2, <3>3 DEF SlotInv
    <3>5. \A g \in Gateway : admitted'[g] = Cardinality(OpenAt(g)')
      BY <1>0, <2>0, <3>2
    <3>6. \A y \in Exchange : NoBodyYet(y)'
      BY <2>0, <3>1 DEF SlotInv, NoBodyYet
    <3> QED
      BY <3>4, <3>5, <3>6 DEF SlotInv, SlotsAreReturned, BodiesAt
  <2>2. CASE ~(bodyBytes[h] < BodyBudget)
    <3>1. exchange' = [exchange EXCEPT ![x].step = "fail"] /\ UNCHANGED bodyBytes
      BY <2>2 DEF ReadBody, Moves
    <3> QED
      BY <1>b, <2>0, <3>1 DEF Steps
  <2> QED
    BY <2>1, <2>2
<1>11. CASE \E g \in Gateway : GatewayDies(g)
  <2> PICK h \in Gateway : GatewayDies(h)
    BY <1>11
  <2>1. OpenAt(h)' = {} /\ BodiesAt(h)' = {}
    BY DEF GatewayDies, OpenAt, BodiesAt, IsOpen, Closed, Opened
  <2>2. \A g \in Gateway : g # h => OpenAt(g)' = OpenAt(g) /\ BodiesAt(g)' = BodiesAt(g)
    BY DEF GatewayDies, OpenAt, BodiesAt, IsOpen, Closed, Opened
  <2>3. \A g \in Gateway : admitted'[g] = Cardinality(OpenAt(g)') /\ bodyBytes'[g] = Cardinality(BodiesAt(g)')
    <3> TAKE g \in Gateway
    <3>1. /\ admitted'[g] = IF g = h THEN 0 ELSE admitted[g]
          /\ bodyBytes'[g] = IF g = h THEN 0 ELSE bodyBytes[g]
      BY DEF GatewayDies, SlotInv
    <3> HIDE DEF GatewayTypes
    <3> QED
      BY <1>0, <2>1, <2>2, <3>1, FS_EmptySet
  <2>4. \A y \in Exchange : NoBodyYet(y)'
    BY DEF GatewayDies, SlotInv, NoBodyYet, Closed, Opened
  <2> QED
    BY <2>3, <2>4 DEF SlotInv, SlotsAreReturned, BodiesAt
<1>12. CASE GrantEnds \/ UNCHANGED gatewayVars
  <2>1. UNCHANGED <<exchange, admitted, bodyBytes>>
    BY <1>12 DEF GrantEnds, gatewayVars
  <2>2. Same /\ \A y \in Exchange : NoBodyYet(y)'
    BY <2>1 DEF SlotInv, OpenAt, BodiesAt, NoBodyYet, IsOpen
  <2> QED
    BY <1>a, <2>2
<1> QED
  BY <1>1, <1>2, <1>3, <1>4, <1>5, <1>6, <1>7, <1>11, <1>12 DEF GatewayNext

(***************************************************************************)
(* The counts of a process are those of its open requests and of their     *)
(* bodies: no way out of a request forgets its slot or gives it back twice *)
(* (model-gateway.ts, the finally of handle and of pump).                  *)
(***************************************************************************)
THEOREM SlotsDoNotLeak == GatewaySpec => []SlotsAreReturned
<1>1. RequestInv => GatewayTypes
  BY DEF RequestInv
<1>2. SlotInv => SlotsAreReturned
  BY DEF SlotInv
<1> QED
  BY <1>1, <1>2, InitSlots, NextSlots, RequestsAreSound, PTL DEF GatewaySpec

-----------------------------------------------------------------------------
\* Packages of local skills.

Hashes == Content \cup {Absent}
PackageRecord == [hash : Hashes, marker : Hashes, ino : 0..MaxInode]
WorkRecord == [id : Mutation \cup {Absent},
               step : {"ready", "control", "reconcile", "succeeded", "refused", "displace", "place", "take", "complete"},
               new : Hashes, staged : 0..MaxInode, old : PackageRecord \cup {Absent}]
RequestRecord == [status : {"none", "pending", "done"}, kind : {"none", "install", "update", "remove"},
                  new : Hashes, expected : Hashes, before : Hashes, noted : BOOLEAN,
                  result : {"none", "succeeded", "refused"}]
EntryRecord == [there : BOOLEAN, identity : 0..MaxInode, complete : BOOLEAN]

SkillTypes ==
  /\ package \in PackageRecord \cup {Absent}
  /\ local \in [Mutation -> RequestRecord]
  /\ removal \in [Mutation -> EntryRecord]
  /\ daemon \in WorkRecord
  /\ taken \in [Mutation -> 0..MaxInode]
  /\ inodes \in 0..MaxInode

\* What the daemon is about to take away is the directory its journal names, a directory it
\* places is the one its request asks for, and nothing is taken before the journal has an entry.
SkillInv ==
  /\ SkillTypes
  /\ daemon.step = "take" =>
       /\ daemon.id \in Mutation /\ removal[daemon.id].there
       /\ package # Absent /\ package.ino = removal[daemon.id].identity
  /\ daemon.step \in {"take", "complete"} => daemon.id \in Mutation /\ local[daemon.id].kind = "remove"
  /\ daemon.step \in {"displace", "place"} /\ daemon.id \in Mutation => daemon.new = local[daemon.id].new
  /\ \A m \in Mutation : ~removal[m].there => taken[m] = 0
  /\ RemovalSparesReinstallation
  /\ SuccessIsTrue

LEMMA IdleDaemon == NoWork \in WorkRecord /\ NoWork.id = Absent /\ NoWork.step = "ready"
  BY SkillValues DEF NoWork, WorkRecord, Hashes

Work(m, s) == [NoWork EXCEPT !.id = m, !.step = s]

LEMMA WorkFields ==
  ASSUME NEW m \in Mutation \cup {Absent},
         NEW s \in {"ready", "control", "reconcile", "succeeded", "refused", "take", "complete"}
  PROVE  Work(m, s) \in WorkRecord /\ Work(m, s).id = m /\ Work(m, s).step = s
  BY IdleDaemon DEF Work, WorkRecord

LEMMA SkillBegins == SkillInit => SkillInv
<1> SUFFICES ASSUME SkillInit PROVE SkillInv
  OBVIOUS
<1>1. NoRequest \in RequestRecord /\ NoEntry \in EntryRecord
  BY SkillValues DEF NoRequest, NoEntry, RequestRecord, EntryRecord, Hashes
<1>2. SkillTypes
  BY <1>1, IdleDaemon, SkillValues DEF SkillInit, SkillTypes
<1>3. RemovalSparesReinstallation /\ \A m \in Mutation : ~removal[m].there => taken[m] = 0
  BY DEF SkillInit, RemovalSparesReinstallation
<1>4. SuccessIsTrue
  BY IdleDaemon DEF SkillInit, SuccessIsTrue
<1> QED BY <1>2, <1>3, <1>4, IdleDaemon DEF SkillInit, SkillInv

\* Between the steps of a request: the daemon takes it up, answers it or drops it.
LEMMA WorkMoves ==
  ASSUME SkillInv, NEW w \in WorkRecord, daemon' = w,
         w.step \notin {"displace", "place", "take", "complete"},
         UNCHANGED <<package, removal, taken, inodes>>,
         local' \in [Mutation -> RequestRecord],
         \A m \in Mutation : w.id = m /\ w.step = "succeeded" /\ local'[m].kind # "remove" =>
           HashOf(package) = local'[m].new
  PROVE  SkillInv'
<1>1. SkillTypes'
  BY DEF SkillInv, SkillTypes
<1>2. SuccessIsTrue'
  BY DEF SuccessIsTrue, HashOf
<1>3. RemovalSparesReinstallation'
  BY DEF SkillInv, RemovalSparesReinstallation
<1> QED BY <1>1, <1>2, <1>3 DEF SkillInv

LEMMA RequestsKeep ==
  ASSUME SkillInv, NEW m \in Mutation,
         \/ \E k \in {"install", "update", "remove"}, n, e \in Content \cup {Absent} : MutateSkill(m, k, n, e)
         \/ Retry(m) \/ StoreResult(m)
  PROVE  SkillInv'
<1>1. CASE \E k \in {"install", "update", "remove"}, n, e \in Content \cup {Absent} : MutateSkill(m, k, n, e)
  <2>1. PICK k \in {"install", "update", "remove"}, n, e \in Content \cup {Absent} : MutateSkill(m, k, n, e)
    BY <1>1
  <2> DEFINE r == [NoRequest EXCEPT !.status = "pending", !.kind = k, !.new = n,
                     !.expected = e, !.before = HashOf(package), !.noted = Noted(k, n, e)]
             w == Work(m, "control")
  <2>2. HashOf(package) \in Hashes /\ Noted(k, n, e) \in BOOLEAN
    BY DEF SkillInv, SkillTypes, HashOf, PackageRecord, Hashes, Noted
  <2>3. r \in RequestRecord
    BY <2>2 DEF NoRequest, RequestRecord, Hashes
  <2>4. local' = [local EXCEPT ![m] = r] /\ daemon' = w /\ UNCHANGED <<package, removal, taken, inodes>>
    BY <2>1 DEF Work, MutateSkill, Handles
  <2>5. w \in WorkRecord /\ w.step = "control"
    BY WorkFields
  <2>6. local' \in [Mutation -> RequestRecord]
    BY <2>3, <2>4 DEF SkillInv, SkillTypes
  <2> HIDE DEF r, w
  <2> QED BY <2>4, <2>5, <2>6, WorkMoves
<1>2. CASE Retry(m)
  <2> DEFINE s == IF local[m].noted THEN "reconcile" ELSE "control"
             w == Work(m, s)
  <2>1. s \in {"reconcile", "control"}
    OBVIOUS
  <2>2. daemon' = w /\ UNCHANGED <<package, local, removal, taken, inodes>>
    BY <1>2 DEF Work, Retry, Again, Handles
  <2> HIDE DEF s
  <2>3. w \in WorkRecord /\ w.step = s
    BY <2>1, WorkFields
  <2> HIDE DEF w
  <2> QED BY <2>1, <2>2, <2>3, WorkMoves DEF SkillInv, SkillTypes
<1>3. CASE StoreResult(m)
  <2> DEFINE r == [local[m] EXCEPT !.status = "done", !.result = daemon.step]
  <2>1. /\ local' = [local EXCEPT ![m] = r] /\ daemon' = NoWork /\ daemon.step \in {"succeeded", "refused"}
        /\ UNCHANGED <<package, removal, taken, inodes>>
    BY <1>3 DEF StoreResult
  <2>2. r \in RequestRecord
    BY ZenonT(30), <2>1 DEF SkillInv, SkillTypes, RequestRecord
  <2>3. local' \in [Mutation -> RequestRecord]
    BY <2>1, <2>2 DEF SkillInv, SkillTypes
  <2> QED BY <2>1, <2>3, IdleDaemon, WorkMoves
<1> QED BY <1>1, <1>2, <1>3

LEMMA ReconcileKeeps ==
  ASSUME SkillInv, NEW m \in Mutation, ReconcileSkill(m)
  PROVE  SkillInv'
<1>1. PICK s \in {"succeeded", "control", "refused"} :
         daemon' = Work(m, s) /\ (s = "succeeded" => HashOf(package) = local[m].new)
  BY DEF Work, ReconcileSkill, Reconciled, Answers, Handles
<1>2. UNCHANGED <<package, local, removal, taken, inodes>>
  BY DEF ReconcileSkill
<1> QED BY <1>1, <1>2, WorkFields, WorkMoves DEF SkillInv, SkillTypes

LEMMA ServerAndDeathKeep ==
  ASSUME SkillInv, ServerAnswered \/ DaemonDies
  PROVE  SkillInv'
<1>1. daemon' = NoWork /\ UNCHANGED <<package, local, removal, taken, inodes>>
  BY DEF ServerAnswered, DaemonDies
<1> QED BY <1>1, IdleDaemon, WorkMoves, SkillValues DEF SkillInv, SkillTypes

\* Import, for a request or for the server.
LEMMA ImportKeeps ==
  ASSUME SkillInv, NEW m \in Mutation \cup {Absent}, NEW kind, NEW new \in Hashes, NEW expected,
         Import(m, kind, new, expected), m \in Mutation => new = local[m].new,
         UNCHANGED <<package, local, removal, taken>>
  PROVE  SkillInv'
<1>1. CASE inodes' = inodes
  <2>1. PICK s \in {"succeeded", "refused"} :
           daemon' = Work(m, s) /\ (s = "succeeded" => HashOf(package) = new)
    BY <1>1 DEF Work, Import, Answers, SkillInv, SkillTypes
  <2> QED BY <1>1, <2>1, WorkFields, WorkMoves, SkillValues DEF SkillInv, SkillTypes
<1>2. CASE inodes' # inodes
  <2> DEFINE s == IF package = Absent THEN "place" ELSE "displace"
  <2>1. s \in {"place", "displace"}
    OBVIOUS
  <2>2. inodes' = inodes + 1 /\ inodes < MaxInode 
           /\ daemon' = [id |-> m, step |-> s, new |-> new, staged |-> inodes', old |-> Absent]
    BY <1>2 DEF Import
  <2> HIDE DEF s
  <2>3. daemon' \in WorkRecord /\ daemon'.id = m /\ daemon'.step = s /\ daemon'.new = new /\ inodes' \in 0..MaxInode
    BY <2>1, <2>2, SkillValues DEF SkillInv, SkillTypes, WorkRecord
  <2>4. SkillTypes'
    BY <2>3 DEF SkillInv, SkillTypes
  <2>5. SuccessIsTrue' /\ RemovalSparesReinstallation'
    BY <2>1, <2>3 DEF SuccessIsTrue, SkillInv, RemovalSparesReinstallation
  <2> QED BY <2>1, <2>3, <2>4, <2>5 DEF SkillInv
<1> QED BY <1>1, <1>2

LEMMA PlacingKeeps ==
  ASSUME SkillInv, Displace \/ Place
  PROVE  SkillInv'
<1>0. daemon \in WorkRecord
  BY DEF SkillInv, SkillTypes
<1>1. CASE Displace
  <2> DEFINE w == [daemon EXCEPT !.step = "place", !.old = package]
  <2>1. daemon' = w /\ package' = Absent /\ UNCHANGED <<local, removal, taken, inodes>> /\ daemon.step = "displace"
    BY <1>1 DEF Displace
  <2>2. w \in WorkRecord /\ w.step = "place" /\ w.id = daemon.id /\ w.new = daemon.new
    <3>1. package \in PackageRecord \cup {Absent}
      BY DEF SkillInv, SkillTypes
    <3> QED BY <1>0, <3>1 DEF WorkRecord
  <2> HIDE DEF w
  <2>3. SkillTypes'
    BY <2>1, <2>2 DEF SkillInv, SkillTypes
  <2>4. SuccessIsTrue' /\ RemovalSparesReinstallation'
    BY <2>1, <2>2 DEF SuccessIsTrue, SkillInv, RemovalSparesReinstallation
  <2> QED BY <2>1, <2>2, <2>3, <2>4 DEF SkillInv
<1>2. CASE Place
  <2> DEFINE w == [daemon EXCEPT !.step = "succeeded", !.new = Absent, !.staged = 0, !.old = Absent]
             d == Directory(daemon.new, daemon.staged)
  <2>1. daemon' = w /\ package' = d /\ UNCHANGED <<local, removal, taken, inodes>> /\ daemon.step = "place"
    BY <1>2 DEF Place
  <2>2. w \in WorkRecord /\ w.step = "succeeded" /\ w.id = daemon.id
    <3>1. Absent \in Hashes /\ 0 \in 0..MaxInode
      BY SkillValues DEF Hashes
    <3> QED BY <1>0, <3>1 DEF WorkRecord
  <2>3. d \in PackageRecord /\ d.hash = daemon.new /\ d # Absent
    BY <1>0, SkillValues DEF Directory, PackageRecord, WorkRecord, Hashes
  <2> HIDE DEF w, d
  <2>4. SkillTypes'
    BY <2>1, <2>2, <2>3 DEF SkillInv, SkillTypes
  <2>5. HashOf(package)' = daemon.new
    BY <2>1, <2>3 DEF HashOf
  <2>6. SuccessIsTrue' /\ RemovalSparesReinstallation'
    BY <2>1, <2>2, <2>5 DEF SuccessIsTrue, SkillInv, RemovalSparesReinstallation
  <2> QED BY <2>1, <2>2, <2>4, <2>6 DEF SkillInv
<1> QED BY <1>1, <1>2

\* A step of a removal that at most writes its journal's first entry.
LEMMA RemoveMoves ==
  ASSUME SkillInv, NEW m \in Mutation, UNCHANGED <<package, local, taken, inodes>>, local[m].kind = "remove",
         daemon' \in WorkRecord, daemon'.id = m,
         daemon'.step \in {"succeeded", "refused", "complete", "take"},
         removal' \in [Mutation -> EntryRecord], \A n \in Mutation \ {m} : removal'[n] = removal[n],
         removal'[m].there, removal[m].there => removal'[m] = removal[m],
         daemon'.step = "take" => package # Absent /\ removal'[m].identity = package.ino
  PROVE  SkillInv'
<1>1. SkillTypes'
  BY DEF SkillInv, SkillTypes
<1>2. RemovalSparesReinstallation' /\ \A n \in Mutation : ~removal'[n].there => taken'[n] = 0
  BY DEF SkillInv, RemovalSparesReinstallation
<1>3. SuccessIsTrue'
  BY DEF SuccessIsTrue
<1> QED BY <1>1, <1>2, <1>3 DEF SkillInv

LEMMA RemoveKeeps ==
  ASSUME SkillInv, NEW m \in Mutation, Remove(m)
  PROVE  SkillInv'
<1>1. /\ UNCHANGED <<package, local, aside, backup, taken, inodes>> /\ local[m].kind = "remove"
      /\ daemon.id = m /\ daemon.step = "control"
  BY DEF Remove
<1>2. \/ \E s \in {"succeeded", "refused", "complete"} : daemon' = Work(m, s)
      \/ daemon' = Work(m, "take") /\ package # Absent /\ (removal[m].there => ~OtherDirectory(m))
  BY DEF Remove, Takes, Answers, Handles, Work
<1>3. /\ daemon' \in WorkRecord /\ daemon'.id = m
      /\ daemon'.step \in {"succeeded", "refused", "complete", "take"}
      /\ daemon'.step = "take" => package # Absent /\ (removal[m].there => ~OtherDirectory(m))
  BY <1>2, WorkFields
<1>4. package \in PackageRecord \cup {Absent} /\ removal \in [Mutation -> EntryRecord] /\ removal[m] \in EntryRecord
  BY DEF SkillInv, SkillTypes
<1>5. CASE removal[m].there
  <2>1. removal' = removal
    BY <1>5 DEF Remove
  <2>2. daemon'.step = "take" => removal[m].identity = package.ino
    BY <1>3, <1>5 DEF OtherDirectory
  <2> QED BY <1>1, <1>3, <1>4, <1>5, <2>1, <2>2, RemoveMoves
<1>6. CASE ~removal[m].there
  <2> DEFINE i == IF package = Absent THEN 0 ELSE package.ino
             c == package = Absent
             r == [there |-> TRUE, complete |-> c, identity |-> i]
  <2>1. i \in 0..MaxInode /\ c \in BOOLEAN /\ (package # Absent => i = package.ino)
    BY <1>4, SkillValues DEF PackageRecord
  <2>2. removal' = [removal EXCEPT ![m] = r]
    BY <1>6 DEF Remove
  <2> HIDE DEF i, c
  <2>3. r \in EntryRecord /\ r.there /\ r.identity = i
    BY <2>1 DEF EntryRecord
  <2> HIDE DEF r
  <2>4. removal' \in [Mutation -> EntryRecord] /\ removal'[m] = r /\ \A n \in Mutation \ {m} : removal'[n] = removal[n]
    BY <1>4, <2>2, <2>3
  <2> QED BY <1>1, <1>3, <1>6, <2>1, <2>3, <2>4, RemoveMoves
<1> QED BY <1>5, <1>6

LEMMA TakingKeeps ==
  ASSUME SkillInv, NEW m \in Mutation, TakeAway(m) \/ CompleteRemoval(m)
  PROVE  SkillInv'
<1>1. CASE TakeAway(m)
  <2>1. /\ daemon.id = m /\ daemon.step = "take" /\ taken' = [taken EXCEPT ![m] = package.ino] /\ package' = Absent
        /\ daemon' = Work(m, "complete")
        /\ UNCHANGED <<local, removal, inodes>>
    BY <1>1 DEF Work, TakeAway, Handles
  <2>2. daemon' \in WorkRecord /\ daemon'.step = "complete"
    BY <2>1, WorkFields
  <2>3. removal[m].there /\ package # Absent /\ package.ino = removal[m].identity /\ local[m].kind = "remove"
    BY <2>1 DEF SkillInv
  <2>4. package.ino \in 0..MaxInode
    BY <2>3 DEF SkillInv, SkillTypes, PackageRecord
  <2>5. SkillTypes'
    BY <2>1, <2>2, <2>4 DEF SkillInv, SkillTypes
  <2>6. RemovalSparesReinstallation' /\ \A n \in Mutation : ~removal'[n].there => taken'[n] = 0
    BY <2>1, <2>3 DEF SkillInv, SkillTypes, RemovalSparesReinstallation
  <2>7. SuccessIsTrue'
    BY <2>2 DEF SuccessIsTrue
  <2>8. daemon'.id = m
    BY <2>1, WorkFields
  <2> QED BY <2>1, <2>2, <2>3, <2>5, <2>6, <2>7, <2>8 DEF SkillInv
<1>2. CASE CompleteRemoval(m)
  <2> DEFINE r == [removal[m] EXCEPT !.complete = TRUE]
  <2>1. /\ daemon.id = m /\ daemon.step = "complete" /\ removal' = [removal EXCEPT ![m] = r]
        /\ daemon' = Work(m, "succeeded")
        /\ UNCHANGED <<package, local, taken, inodes>>
    BY <1>2 DEF Work, CompleteRemoval, Answers
  <2>2. daemon' \in WorkRecord /\ daemon'.step = "succeeded" /\ daemon'.id = m
    BY <2>1, WorkFields
  <2>3. removal[m] \in EntryRecord
    BY DEF SkillInv, SkillTypes
  <2>4. r \in EntryRecord /\ (r.there <=> removal[m].there) /\ r.identity = removal[m].identity
    BY <2>3 DEF EntryRecord
  <2> HIDE DEF r
  <2>5. SkillTypes'
    BY <2>1, <2>2, <2>4 DEF SkillInv, SkillTypes
  <2>6. RemovalSparesReinstallation' /\ \A n \in Mutation : ~removal'[n].there => taken'[n] = 0
    BY <2>1, <2>4 DEF SkillInv, SkillTypes, RemovalSparesReinstallation
  <2>7. local[m].kind = "remove"
    BY <2>1 DEF SkillInv
  <2>8. SuccessIsTrue'
    BY <2>1, <2>2, <2>7 DEF SuccessIsTrue
  <2> QED BY <2>2, <2>5, <2>6, <2>8 DEF SkillInv
<1> QED BY <1>1, <1>2

LEMMA EditKeeps ==
  ASSUME SkillInv, NEW hash \in Content, EditSkill(hash)
  PROVE  SkillInv'
<1> DEFINE p == [package EXCEPT !.hash = hash]
<1>1. /\ daemon = NoWork /\ package # Absent /\ package' = p
      /\ UNCHANGED <<local, removal, daemon, taken, inodes>>
  BY DEF EditSkill, Ready
<1>2. package \in PackageRecord
  BY <1>1 DEF SkillInv, SkillTypes
<1>3. p \in PackageRecord
  BY <1>2 DEF PackageRecord, Hashes
<1> HIDE DEF p
<1>4. SkillTypes'
  BY <1>1, <1>3 DEF SkillInv, SkillTypes
<1>5. SuccessIsTrue' /\ RemovalSparesReinstallation'
  BY <1>1, IdleDaemon DEF SkillInv, SuccessIsTrue, RemovalSparesReinstallation
<1> QED BY <1>1, <1>4, <1>5, IdleDaemon DEF SkillInv

LEMMA SkillStep == SkillInv /\ [SkillNext]_skillVars => SkillInv'
<1> SUFFICES ASSUME SkillInv, [SkillNext]_skillVars PROVE SkillInv'
  OBVIOUS
<1>1. ASSUME NEW m \in Mutation, ControlImport(m) PROVE SkillInv'
  <2>1. local[m].new \in Hashes
    BY DEF SkillInv, SkillTypes, RequestRecord
  <2> QED BY <1>1, <2>1, ImportKeeps DEF ControlImport
<1>2. ASSUME NEW hash \in Content, ServerImport(hash) PROVE SkillInv'
  BY <1>2, ImportKeeps, SkillValues DEF ServerImport, Hashes
<1>3. CASE UNCHANGED skillVars
  BY <1>3 DEF skillVars, SkillInv, SkillTypes, RemovalSparesReinstallation, SuccessIsTrue, HashOf
<1> QED BY <1>1, <1>2, <1>3, RequestsKeep, ReconcileKeeps, ServerAndDeathKeep, PlacingKeeps, RemoveKeeps,
           TakingKeeps, EditKeeps DEF SkillNext

\* A removal that is retried after a crash takes the directory its journal names and no package
\* installed in the meantime (packages/control/skills.ts, remove).
THEOREM RemovalSafe == SkillSpec => []RemovalSparesReinstallation
<1>1. SkillInv => RemovalSparesReinstallation
  BY DEF SkillInv
<1> QED BY <1>1, SkillBegins, SkillStep, PTL DEF SkillSpec

\* A success that is about to be recorded is of the package the request asked for, however
\* often the daemon died on the way (packages/control/skills.ts).
THEOREM SkillSuccessSafe == SkillSpec => []SuccessIsTrue
<1>1. SkillInv => SuccessIsTrue
  BY DEF SkillInv
<1> QED BY <1>1, SkillBegins, SkillStep, PTL DEF SkillSpec

-----------------------------------------------------------------------------
\* The managed base image.

BoxStates == {"none", "intent", "box", "unresolved"}
ImageStatuses == {"none", "publishing", "ready", "retired", "missing", "failed", "blocked", "deleted"}
ImageRecord == [status : ImageStatuses,
                release : Nat, intent : BOOLEAN, gone : BOOLEAN, source : BoxStates, verifier : BoxStates,
                install : BOOLEAN, requested : BOOLEAN]
MadeRecord == [source : Nat, verifier : Nat, capture : Nat]
PublicationJob == [step : {"idle", "working", "create", "install", "capture", "delete"}, image : Nat]
PinRecord == [image : Nat, accepted : BOOLEAN, started : BOOLEAN, boxed : BOOLEAN]

ImageTypes ==
  /\ images \in [Image -> ImageRecord]
  /\ snapshot \in [Image -> {"absent", "pending", "ready", "failed"}]
  /\ made \in [Image -> MadeRecord]
  /\ pub \in PublicationJob /\ release \in Nat
  /\ pin \in [Tenant -> PinRecord]
  /\ vanished \in SUBSET Image

StaysThere(i) == snapshot[i] = "ready" \/ i \in vanished
TenantWaits(c, i) == pin[c].image = i /\ ~pin[c].boxed

\* What the journal of an image says was not asked for has not happened, whatever was asked
\* for happened at most once, and an image that can be served or verified is at the provider.
ImageOK(i) ==
  /\ images[i].install => images[i].source = "box"
  /\ images[i].requested => images[i].install
  /\ ~images[i].requested => images[i].verifier = "none" /\ made[i].capture = 0
  /\ images[i].source = "none" => made[i].source = 0
  /\ images[i].verifier = "none" => made[i].verifier = 0
  /\ made[i].source <= 1 /\ made[i].verifier <= 1 /\ made[i].capture <= 1
  /\ images[i].status = "none" => images[i].source = "none" /\ ~images[i].install /\ ~images[i].requested
  /\ images[i].intent => images[i].status \notin {"none", "publishing", "ready"}
  /\ images[i].gone => images[i].status \in {"deleted", "blocked"}
  /\ images[i].status \in {"ready", "retired"} => StaysThere(i)
  /\ images[i].status = "publishing" /\ images[i].verifier # "none" => StaysThere(i)

\* The effect the leader is about to have is one whose intent is recorded and that has not
\* happened; what it deletes, no Companion waits for.
PublicationOK ==
  /\ pub.step # "idle" => pub.image \in Image
  /\ pub.step \in {"working", "create", "install", "capture"} => images[pub.image].status = "publishing"
  /\ pub.step = "create" =>
       /\ images[pub.image].source = "intent" \/ images[pub.image].verifier = "intent"
       /\ images[pub.image].source = "intent" => made[pub.image].source = 0
       /\ images[pub.image].verifier = "intent" => made[pub.image].verifier = 0
  /\ pub.step = "capture" =>
       images[pub.image].requested /\ images[pub.image].verifier = "none" /\ made[pub.image].capture = 0
  /\ pub.step = "delete" => images[pub.image].intent /\ \A c \in Tenant : ~TenantWaits(c, pub.image)

PinOK(c) ==
  /\ pin[c].started \/ pin[c].accepted => pin[c].image # 0
  /\ pin[c].image # 0 => pin[c].image \in Image /\ images[pin[c].image].status \notin {"none", "publishing"}
  /\ pin[c].image # 0 /\ ~pin[c].boxed => StaysThere(pin[c].image)

ImageInv ==
  /\ ImageTypes /\ PublicationOK
  /\ \A i \in Image : ImageOK(i)
  /\ \A c \in Tenant : PinOK(c)

LEMMA ImagesBegin == ImageInit => ImageInv
<1> SUFFICES ASSUME ImageInit PROVE ImageInv
  OBVIOUS
<1>1. /\ Unpublished \in ImageRecord /\ Unpublished.status = "none" /\ Unpublished.source = "none"
      /\ Unpublished.verifier = "none" /\ ~Unpublished.install /\ ~Unpublished.requested
      /\ ~Unpublished.intent /\ ~Unpublished.gone
  BY DEF Unpublished, ImageRecord, BoxStates, ImageStatuses
<1>2. NoPublication \in PublicationJob /\ NoPublication.step = "idle"
  BY DEF NoPublication, PublicationJob
<1>3. Unpinned \in PinRecord /\ Unpinned.image = 0 /\ ~Unpinned.started /\ ~Unpinned.accepted
  BY DEF Unpinned, PinRecord
<1>4. [source |-> 0, verifier |-> 0, capture |-> 0] \in MadeRecord
  BY DEF MadeRecord
<1>5. ImageTypes
  BY <1>1, <1>2, <1>3, <1>4 DEF ImageInit, ImageTypes
<1>6. \A i \in Image : ImageOK(i)
  BY <1>1 DEF ImageInit, ImageOK
<1>7. PublicationOK /\ \A c \in Tenant : PinOK(c)
  BY <1>2, <1>3 DEF ImageInit, PublicationOK, PinOK
<1> QED BY <1>5, <1>6, <1>7 DEF ImageInv

\* A step that leaves the Companions alone and takes no image from one that waits for it.
LEMMA ImagesMove ==
  ASSUME ImageInv, ImageTypes', PublicationOK', \A i \in Image : ImageOK(i)', pin' = pin,
         \A i \in Image : images[i].status \notin {"none", "publishing"} => images'[i].status \notin {"none", "publishing"},
         \A i \in Image : StaysThere(i) /\ (\E c \in Tenant : TenantWaits(c, i)) => StaysThere(i)'
  PROVE  ImageInv'
<1>1. ASSUME NEW c \in Tenant PROVE PinOK(c)'
  BY DEF ImageInv, PinOK, TenantWaits
<1> QED BY <1>1 DEF ImageInv

\* An image a step does not touch.
LEMMA Untouched ==
  ASSUME ImageInv, NEW i \in Image, images'[i] = images[i], snapshot'[i] = snapshot[i], made'[i] = made[i],
         vanished \subseteq vanished'
  PROVE  ImageOK(i)'
  BY DEF ImageInv, ImageOK, StaysThere

\* A step of one image's journal.
LEMMA JournalMoves ==
  ASSUME ImageInv, NEW i \in Image, NEW r \in ImageRecord, NEW p \in PublicationJob,
         images' = [images EXCEPT ![i] = r], pub' = p, release' \in Nat,
         UNCHANGED <<snapshot, made, pin, vanished>>,
         ImageOK(i)', PublicationOK',
         images[i].status \notin {"none", "publishing"} => r.status \notin {"none", "publishing"}
  PROVE  ImageInv'
<1>1. images'[i] = r /\ \A j \in Image \ {i} : images'[j] = images[j]
  BY DEF ImageInv, ImageTypes
<1>2. ImageTypes'
  BY DEF ImageInv, ImageTypes
<1>3. \A j \in Image : ImageOK(j)'
  BY <1>1, Untouched
<1> QED BY <1>1, <1>2, <1>3, ImagesMove DEF StaysThere

\* The publication's step and the image it is at.
LEMMA ImageAt ==
  ASSUME NEW step \in {"idle", "working", "create", "install", "capture", "delete"}, NEW i \in Image
  PROVE  LET p == [step |-> step, image |-> i] IN p \in PublicationJob /\ p.step = step /\ p.image = i
  BY DEF PublicationJob, Image

LEMMA NoImageWork == NoPublication \in PublicationJob /\ NoPublication.step = "idle"
  BY DEF NoPublication, PublicationJob

\* Two journals that tell the same of the publication, and of the deletion.
SamePublication(r, m) ==
  /\ r.source = m.source /\ r.verifier = m.verifier
  /\ (r.install <=> m.install)
  /\ (r.requested <=> m.requested)
SameDeletion(r, m) ==
  /\ (r.intent <=> m.intent)
  /\ (r.gone <=> m.gone)

LEMMA StatusMoves ==
  ASSUME NEW m \in ImageRecord, NEW s \in ImageStatuses
  PROVE  LET r == [m EXCEPT !.status = s]
         IN  r \in ImageRecord /\ r.status = s /\ SamePublication(r, m) /\ SameDeletion(r, m)
  BY DEF ImageRecord, SamePublication, SameDeletion

LEMMA CheckKeeps ==
  ASSUME ImageInv, NEW i \in Image, CheckReady(i)
  PROVE  ImageInv'
<1> DEFINE s == IF snapshot[i] = "absent" THEN "missing" ELSE "failed"
           r == [images[i] EXCEPT !.status = s]
<1>1. /\ images' = [images EXCEPT ![i] = r] /\ images[i].status = "ready" /\ pub.step = "idle"
      /\ UNCHANGED <<World, pub, release, pin, vanished>>
  BY DEF CheckReady, ServedNow, RecordImage
<1>2. images[i] \in ImageRecord
  BY DEF ImageInv, ImageTypes
<1>3. s \in {"missing", "failed"} /\ s \in ImageStatuses
  BY DEF ImageStatuses
<1> HIDE DEF s
<1>4. r \in ImageRecord /\ r.status = s /\ SamePublication(r, images[i]) /\ SameDeletion(r, images[i])
  BY <1>2, <1>3, StatusMoves
<1> HIDE DEF r
<1>5. images'[i] = r
  BY <1>1 DEF ImageInv, ImageTypes
<1>6. ImageOK(i)'
  BY <1>1, <1>3, <1>4, <1>5 DEF ImageInv, ImageOK, SamePublication, SameDeletion, World
<1>7. PublicationOK'
  BY <1>1 DEF PublicationOK
<1> QED BY <1>1, <1>3, <1>4, <1>6, <1>7, JournalMoves DEF World, ImageInv, ImageTypes

\* A step of the leader's job that writes no journal and has no effect.
LEMMA ResumeKeeps ==
  ASSUME ImageInv, NEW i \in Image, ResumePublication(i)
  PROVE  ImageInv'
<1>1. /\ pub' = [step |-> "working", image |-> i] /\ images[i].status = "publishing"
      /\ UNCHANGED <<images, World, release, pin, vanished>>
  BY DEF ResumePublication, Advance, Publishing
<1>2. pub' \in PublicationJob /\ pub'.step = "working" /\ pub'.image = i
  BY <1>1, ImageAt
<1>3. ImageTypes'
  BY <1>1, <1>2 DEF ImageInv, ImageTypes, World
<1>4. PublicationOK'
  BY <1>1, <1>2 DEF PublicationOK
<1>5. \A j \in Image : ImageOK(j)'
  BY <1>1, Untouched DEF World
<1> QED BY <1>1, <1>3, <1>4, <1>5, ImagesMove DEF World, StaysThere

LEMMA EnterKeeps ==
  ASSUME ImageInv, NEW i \in Image, Enter(i)
  PROVE  ImageInv'
<1> DEFINE r == [Unpublished EXCEPT !.status = "publishing", !.release = release]
<1>1. /\ images' = [images EXCEPT ![i] = r] /\ pub' = [step |-> "working", image |-> i]
      /\ images[i].status = "none" /\ UNCHANGED <<World, release, pin, vanished>>
  BY DEF Enter, RecordImage, Advance
<1>2. release \in Nat
  BY DEF ImageInv, ImageTypes
<1>3. /\ r \in ImageRecord /\ r.status = "publishing" /\ r.source = "none" /\ r.verifier = "none"
      /\ ~r.install /\ ~r.requested /\ ~r.intent /\ ~r.gone
  BY <1>2 DEF Unpublished, ImageRecord, BoxStates, ImageStatuses
<1> HIDE DEF r
<1>4. images'[i] = r
  BY <1>1 DEF ImageInv, ImageTypes
<1>5. ImageOK(i)'
  BY <1>1, <1>3, <1>4 DEF ImageInv, ImageOK, World
<1>6. PublicationOK'
  BY <1>1, <1>3, <1>4, ImageAt DEF PublicationOK
<1> QED BY <1>1, <1>2, <1>3, <1>5, <1>6, ImageAt, JournalMoves DEF World

LEMMA CreateIntentKeeps ==
  ASSUME ImageInv, NEW i \in Image, NEW b \in Boxes, CreateIntent(i, b)
  PROVE  ImageInv'
<1> DEFINE r == [images[i] EXCEPT ![b] = "intent"]
<1>1. /\ images' = [images EXCEPT ![i] = r] /\ pub' = [step |-> "create", image |-> i]
      /\ pub = [step |-> "working", image |-> i] /\ Needs(i, b) /\ images[i][b] = "none"
      /\ UNCHANGED <<World, release, pin, vanished>>
  BY DEF CreateIntent, RecordImage, Advance, PublicationAt
<1>2. images[i] \in ImageRecord /\ images[i].status = "publishing" /\ ImageOK(i) /\ release \in Nat
  BY <1>1, ImageAt DEF ImageInv, ImageTypes, PublicationOK
<1>3. images'[i] = r
  BY <1>1 DEF ImageInv, ImageTypes
<1>4. CASE b = "source"
  <2>1. /\ r \in ImageRecord /\ r.source = "intent" /\ r.verifier = images[i].verifier /\ r.status = "publishing"
        /\ (r.install <=> images[i].install)
        /\ (r.requested <=> images[i].requested)
        /\ SameDeletion(r, images[i])
    BY <1>2, <1>4 DEF ImageRecord, BoxStates, SameDeletion
  <2>2. images[i].source = "none" /\ ~images[i].requested
    BY <1>1, <1>4 DEF Needs
  <2> HIDE DEF r
  <2>3. ImageOK(i)'
    BY <1>1, <1>2, <1>3, <2>1, <2>2 DEF ImageOK, SameDeletion, World, StaysThere
  <2>4. PublicationOK'
    BY <1>1, <1>2, <1>3, <2>1, <2>2, ImageAt DEF ImageOK, PublicationOK, World
  <2> QED BY ZenonT(30), <1>1, <1>2, <2>1, <2>3, <2>4, ImageAt, JournalMoves DEF World
<1>5. CASE b = "verifier"
  <2>1. /\ r \in ImageRecord /\ r.source = images[i].source /\ r.verifier = "intent" /\ r.status = "publishing"
        /\ (r.install <=> images[i].install)
        /\ (r.requested <=> images[i].requested)
        /\ SameDeletion(r, images[i])
    BY <1>2, <1>5 DEF ImageRecord, BoxStates, SameDeletion
  <2>2. images[i].verifier = "none" /\ images[i].requested /\ snapshot[i] = "ready"
    BY <1>1, <1>5 DEF Needs
  <2> HIDE DEF r
  <2>3. ImageOK(i)'
    BY <1>1, <1>2, <1>3, <2>1, <2>2 DEF ImageOK, SameDeletion, World, StaysThere
  <2>4. PublicationOK'
    BY <1>1, <1>2, <1>3, <2>1, <2>2, ImageAt DEF ImageOK, PublicationOK, World
  <2> QED BY ZenonT(30), <1>1, <1>2, <2>1, <2>3, <2>4, ImageAt, JournalMoves DEF World
<1> QED BY <1>4, <1>5 DEF Boxes

\* A publication that is given up: the journal of the image stays, perhaps with one Box of
\* it in doubt.
LEMMA BlockKeeps ==
  ASSUME ImageInv, NEW i \in Image, NEW r \in ImageRecord, images[i].status = "publishing",
         images' = [images EXCEPT ![i] = r], pub' = NoPublication, r.status \in {"blocked", "failed"},
         r.source = images[i].source \/ (images[i].source = "intent" /\ r.source = "unresolved"),
         r.verifier = images[i].verifier \/ (images[i].verifier = "intent" /\ r.verifier = "unresolved"),
         r.install <=> images[i].install, r.requested <=> images[i].requested, SameDeletion(r, images[i]),
         UNCHANGED <<World, release, pin, vanished>>
  PROVE  ImageInv'
<1>1. images'[i] = r
  BY DEF ImageInv, ImageTypes
<1>2. ImageOK(i)'
  BY <1>1 DEF ImageInv, ImageOK, SameDeletion, World
<1>3. PublicationOK'
  BY NoImageWork DEF PublicationOK
<1> QED BY <1>2, <1>3, NoImageWork, JournalMoves DEF World, ImageInv, ImageTypes

LEMMA BlocksKeep ==
  ASSUME ImageInv, NEW i \in Image, NEW b \in Boxes,
         CreateUnresolved(i, b) \/ CaptureFailed(i) \/ VerifierRefuses(i)
  PROVE  ImageInv'
<1>1. pub = [step |-> "working", image |-> i] /\ UNCHANGED <<World, release, pin, vanished>> /\ pub' = NoPublication
  BY DEF CreateUnresolved, CaptureFailed, VerifierRefuses, PublicationAt, Block
<1>2. images[i] \in ImageRecord /\ images[i].status = "publishing"
  BY <1>1, ImageAt DEF ImageInv, ImageTypes, PublicationOK
<1>3. CASE CreateUnresolved(i, b)
  <2> DEFINE u == [images[i] EXCEPT ![b] = "unresolved"]
             r == [u EXCEPT !.status = "blocked"]
  <2>1. images' = [images EXCEPT ![i] = r] /\ images[i][b] = "intent"
    BY <1>3 DEF CreateUnresolved, Block, RecordImage
  <2>2. /\ u \in ImageRecord /\ (u.install <=> images[i].install)
        /\ (u.requested <=> images[i].requested)
        /\ SameDeletion(u, images[i])
        /\ u.source = images[i].source \/ (images[i].source = "intent" /\ u.source = "unresolved")
        /\ u.verifier = images[i].verifier \/ (images[i].verifier = "intent" /\ u.verifier = "unresolved")
    <3>1. CASE b = "source"
      BY <1>2, <2>1, <3>1 DEF ImageRecord, BoxStates, SameDeletion
    <3>2. CASE b = "verifier"
      BY <1>2, <2>1, <3>2 DEF ImageRecord, BoxStates, SameDeletion
    <3> QED BY <3>1, <3>2 DEF Boxes
  <2> HIDE DEF u
  <2>3. r \in ImageRecord /\ r.status = "blocked" /\ SamePublication(r, u) /\ SameDeletion(r, u)
    BY <2>2, StatusMoves DEF ImageStatuses
  <2> HIDE DEF r
  <2> QED BY <1>1, <1>2, <2>1, <2>2, <2>3, BlockKeeps DEF SamePublication, SameDeletion
<1>4. CASE CaptureFailed(i)
  <2> DEFINE r == [images[i] EXCEPT !.status = "failed"]
  <2>1. images' = [images EXCEPT ![i] = r]
    BY <1>4 DEF CaptureFailed, RecordImage
  <2>2. r \in ImageRecord /\ r.status = "failed" /\ SamePublication(r, images[i]) /\ SameDeletion(r, images[i])
    BY <1>2, StatusMoves DEF ImageStatuses
  <2> HIDE DEF r
  <2> QED BY <1>1, <1>2, <2>1, <2>2, BlockKeeps DEF SamePublication
<1>5. CASE VerifierRefuses(i)
  <2> DEFINE r == [images[i] EXCEPT !.status = "blocked"]
  <2>1. images' = [images EXCEPT ![i] = r]
    BY <1>5 DEF VerifierRefuses, Block, RecordImage
  <2>2. r \in ImageRecord /\ r.status = "blocked" /\ SamePublication(r, images[i]) /\ SameDeletion(r, images[i])
    BY <1>2, StatusMoves DEF ImageStatuses
  <2> HIDE DEF r
  <2> QED BY <1>1, <1>2, <2>1, <2>2, BlockKeeps DEF SamePublication
<1> QED BY <1>3, <1>4, <1>5

\* The answer to a creation: it happened, it was refused, or nobody knows.
LEMMA CreateAnswersKeep ==
  ASSUME ImageInv, NEW i \in Image, NEW b \in Boxes, NEW outcome, NEW happened \in BOOLEAN,
         CreateAnswers(i, b, outcome, happened)
  PROVE  ImageInv'
<1> DEFINE n == IF happened THEN made[i][b] + 1 ELSE made[i][b]
           d == [made[i] EXCEPT ![b] = n]
<1>1. /\ pub = [step |-> "create", image |-> i] /\ images[i][b] = "intent"
      /\ UNCHANGED <<snapshot, release, pin, vanished>>
  BY DEF CreateAnswers, PublicationAt
<1>2. /\ images[i] \in ImageRecord /\ made[i] \in MadeRecord /\ images[i].status = "publishing" /\ ImageOK(i)
      /\ release \in Nat
      /\ images[i].source = "intent" => made[i].source = 0
      /\ images[i].verifier = "intent" => made[i].verifier = 0
  BY <1>1, ImageAt DEF ImageInv, ImageTypes, PublicationOK
<1>3. made' = [made EXCEPT ![i] = d]
  BY <1>2 DEF CreateAnswers
<1>4. PICK r \in ImageRecord :
        /\ images' = [images EXCEPT ![i] = r]
        /\ SameDeletion(r, images[i])
        /\ (r.install <=> images[i].install)
        /\ (r.requested <=> images[i].requested)
        /\ r.status \in {"publishing", "blocked"}
        /\ b = "source" => r.verifier = images[i].verifier
        /\ b = "verifier" => r.source = images[i].source
        /\ b = "source" => r.source \in {"none", "box", "unresolved"} /\ (r.source = "none" => ~happened)
        /\ b = "verifier" => r.verifier \in {"none", "box", "unresolved"} /\ (r.verifier = "none" => ~happened)
        /\ \/ pub' = [step |-> "working", image |-> i] /\ r.status = "publishing"
           \/ pub' = NoPublication
  <2>1. ASSUME NEW j \in {"none", "box", "unresolved"}, j = "none" => ~happened
        PROVE  LET u == [images[i] EXCEPT ![b] = j]
               IN  /\ u \in ImageRecord /\ SameDeletion(u, images[i]) /\ u.status = "publishing"
                   /\ (u.install <=> images[i].install)
                   /\ (u.requested <=> images[i].requested)
                   /\ b = "source" => u.verifier = images[i].verifier /\ u.source = j
                   /\ b = "verifier" => u.source = images[i].source /\ u.verifier = j
    <3>1. CASE b = "source"
      BY <1>2, <2>1, <3>1 DEF ImageRecord, BoxStates, SameDeletion
    <3>2. CASE b = "verifier"
      BY <1>2, <2>1, <3>2 DEF ImageRecord, BoxStates, SameDeletion
    <3> QED BY <3>1, <3>2 DEF Boxes
  <2>2. CASE outcome = "created" /\ happened
    <3> DEFINE u == [images[i] EXCEPT ![b] = "box"]
    <3>1. images' = [images EXCEPT ![i] = u] /\ pub' = [step |-> "working", image |-> i]
      BY <2>2 DEF CreateAnswers, RecordImage, Advance
    <3> QED BY <2>1, <2>2, <3>1
  <2>3. CASE outcome = "limited" /\ ~happened
    <3> DEFINE u == [images[i] EXCEPT ![b] = "none"]
    <3>1. images' = [images EXCEPT ![i] = u] /\ pub' = NoPublication
      BY <2>3 DEF CreateAnswers, RecordImage
    <3> QED BY <2>1, <2>3, <3>1
  <2>4. CASE outcome = "lost"
    <3> DEFINE u == [images[i] EXCEPT ![b] = "unresolved"]
               r == [u EXCEPT !.status = "blocked"]
    <3>1. images' = [images EXCEPT ![i] = r] /\ pub' = NoPublication
      BY <2>4 DEF CreateAnswers, RecordImage, Block
    <3>2. /\ u \in ImageRecord /\ SameDeletion(u, images[i])
          /\ (u.install <=> images[i].install)
          /\ (u.requested <=> images[i].requested)
          /\ b = "source" => u.verifier = images[i].verifier /\ u.source = "unresolved"
          /\ b = "verifier" => u.source = images[i].source /\ u.verifier = "unresolved"
      BY <2>1
    <3> HIDE DEF u
    <3>3. r \in ImageRecord /\ r.status = "blocked" /\ SamePublication(r, u) /\ SameDeletion(r, u)
      BY <3>2, StatusMoves DEF ImageStatuses
    <3> HIDE DEF r
    <3> QED BY <3>1, <3>2, <3>3 DEF SamePublication, SameDeletion
  <2> QED BY <2>2, <2>3, <2>4 DEF CreateAnswers
<1>5. /\ d \in MadeRecord /\ d.capture = made[i].capture
      /\ b = "source" => d.verifier = made[i].verifier /\ d.source \in {0, 1} /\ (~happened => d.source = 0)
      /\ b = "verifier" => d.source = made[i].source /\ d.verifier \in {0, 1} /\ (~happened => d.verifier = 0)
  <2>1. CASE b = "source"
    BY <1>1, <1>2, <2>1 DEF MadeRecord
  <2>2. CASE b = "verifier"
    BY <1>1, <1>2, <2>2 DEF MadeRecord
  <2> QED BY <2>1, <2>2 DEF Boxes
<1> HIDE DEF n, d
<1>6. images'[i] = r /\ made'[i] = d /\ \A j \in Image \ {i} : images'[j] = images[j] /\ made'[j] = made[j]
  BY <1>3, <1>4 DEF ImageInv, ImageTypes
<1>7. ImageTypes'
  <2>1. pub' \in PublicationJob
    BY <1>4, ImageAt, NoImageWork
  <2> QED BY <1>1, <1>3, <1>4, <1>5, <2>1 DEF ImageInv, ImageTypes
<1>8. ImageOK(i)'
  <2>1. CASE b = "source"
    BY <2>1, <1>1, <1>2, <1>4, <1>5, <1>6 DEF ImageOK, SameDeletion, StaysThere
  <2>2. CASE b = "verifier"
    BY <2>2, <1>1, <1>2, <1>4, <1>5, <1>6 DEF ImageOK, SameDeletion, StaysThere
  <2> QED BY <2>1, <2>2 DEF Boxes
<1>9. \A j \in Image : ImageOK(j)'
  BY <1>1, <1>6, <1>8, Untouched
<1>10. PublicationOK'
  BY <1>4, <1>6, ImageAt, NoImageWork DEF PublicationOK
<1>11. \A j \in Image : images[j].status \notin {"none", "publishing"} => images'[j].status \notin {"none", "publishing"}
  BY <1>2, <1>6
<1> QED BY <1>1, <1>7, <1>9, <1>10, <1>11, ImagesMove DEF StaysThere

LEMMA InstallKeeps ==
  ASSUME ImageInv, NEW i \in Image, InstallIntent(i) \/ \E whole \in BOOLEAN : Install(i, whole)
  PROVE  ImageInv'
<1>0. release \in Nat
  BY DEF ImageInv, ImageTypes
<1>1. CASE InstallIntent(i)
  <2> DEFINE r == [images[i] EXCEPT !.install = TRUE]
  <2>1. /\ images' = [images EXCEPT ![i] = r] /\ pub' = [step |-> "install", image |-> i]
        /\ pub = [step |-> "working", image |-> i] /\ images[i].source = "box"
        /\ UNCHANGED <<World, release, pin, vanished>>
    BY <1>1 DEF InstallIntent, RecordImage, Advance, PublicationAt
  <2>2. images[i] \in ImageRecord /\ images[i].status = "publishing" /\ ImageOK(i)
    BY <2>1, ImageAt DEF ImageInv, ImageTypes, PublicationOK
  <2>3. /\ r \in ImageRecord /\ r.status = "publishing" /\ r.install
        /\ r.source = images[i].source /\ r.verifier = images[i].verifier
        /\ (r.requested <=> images[i].requested)
        /\ SameDeletion(r, images[i])
    BY <2>2 DEF ImageRecord, SameDeletion
  <2> HIDE DEF r
  <2>4. images'[i] = r
    BY <2>1 DEF ImageInv, ImageTypes
  <2>5. ImageOK(i)'
    BY <2>1, <2>2, <2>3, <2>4 DEF ImageOK, SameDeletion, World, StaysThere
  <2>6. PublicationOK'
    BY <2>1, <2>3, <2>4, ImageAt DEF PublicationOK
  <2> QED BY ZenonT(30), <1>0, <2>1, <2>2, <2>3, <2>5, <2>6, ImageAt, JournalMoves DEF World
<1>2. CASE \E whole \in BOOLEAN : Install(i, whole)
  <2>1. /\ pub = [step |-> "install", image |-> i]
        /\ pub' = [step |-> "working", image |-> i] \/ pub' = NoPublication
        /\ UNCHANGED <<images, snapshot, made, release, pin, vanished>>
    BY <1>2 DEF Install, Advance, PublicationAt
  <2>2. images[i].status = "publishing"
    BY <2>1, ImageAt DEF ImageInv, PublicationOK
  <2>3. ImageTypes'
    BY <2>1, ImageAt, NoImageWork DEF ImageInv, ImageTypes
  <2>4. PublicationOK'
    BY <2>1, <2>2, ImageAt, NoImageWork DEF PublicationOK
  <2>5. \A j \in Image : ImageOK(j)'
    BY <2>1, Untouched
  <2> QED BY <2>1, <2>3, <2>4, <2>5, ImagesMove DEF StaysThere
<1> QED BY <1>1, <1>2

LEMMA VerifySourceKeeps ==
  ASSUME ImageInv, NEW i \in Image, VerifySource(i)
  PROVE  ImageInv'
<1>1. /\ pub = [step |-> "working", image |-> i] /\ images[i].install /\ ~images[i].requested
      /\ UNCHANGED <<World, release, pin, vanished>>
  BY DEF VerifySource, PublicationAt
<1>2. images[i] \in ImageRecord /\ images[i].status = "publishing" /\ ImageOK(i) /\ release \in Nat
  BY <1>1, ImageAt DEF ImageInv, ImageTypes, PublicationOK
<1>3. CASE content[i] = "whole"
  <2> DEFINE r == [images[i] EXCEPT !.requested = TRUE]
  <2>1. images' = [images EXCEPT ![i] = r] /\ pub' = [step |-> "capture", image |-> i]
    BY <1>3 DEF VerifySource, RecordImage, Advance
  <2>2. /\ r \in ImageRecord /\ r.status = "publishing" /\ r.requested
        /\ r.source = images[i].source /\ r.verifier = images[i].verifier
        /\ (r.install <=> images[i].install)
        /\ SameDeletion(r, images[i])
    BY <1>2 DEF ImageRecord, SameDeletion
  <2> HIDE DEF r
  <2>3. images'[i] = r
    BY <2>1 DEF ImageInv, ImageTypes
  <2>4. ImageOK(i)'
    BY <1>1, <1>2, <2>2, <2>3 DEF ImageOK, SameDeletion, World, StaysThere
  <2>5. PublicationOK'
    BY <1>1, <1>2, <2>1, <2>2, <2>3, ImageAt DEF ImageOK, PublicationOK, World
  <2> QED BY ZenonT(30), <1>1, <1>2, <2>1, <2>2, <2>4, <2>5, ImageAt, JournalMoves DEF World
<1>4. CASE content[i] # "whole"
  <2> DEFINE r == [images[i] EXCEPT !.status = "blocked"]
  <2>1. images' = [images EXCEPT ![i] = r] /\ pub' = NoPublication
    BY <1>4 DEF VerifySource, RecordImage, Block
  <2>2. r \in ImageRecord /\ r.status = "blocked" /\ SamePublication(r, images[i]) /\ SameDeletion(r, images[i])
    BY <1>2, StatusMoves DEF ImageStatuses
  <2> HIDE DEF r
  <2> QED BY <1>1, <1>2, <2>1, <2>2, BlockKeeps DEF SamePublication
<1> QED BY <1>3, <1>4

\* A step of one image's journal in which other served images are retired.
LEMMA RetireOthers ==
  ASSUME ImageInv, NEW i \in Image, NEW r \in ImageRecord, images'[i] = r,
         DOMAIN images' = Image, images' = [j \in Image |-> images'[j]],
         \A j \in Image \ {i} : \/ images'[j] = images[j]
                                \/ images[j].status = "ready" /\ images'[j] = [images[j] EXCEPT !.status = "retired"],
         pub' = NoPublication, UNCHANGED <<World, release, pin, vanished>>, ImageOK(i)',
         images[i].status = "publishing"
  PROVE  ImageInv'
<1>1. ASSUME NEW j \in Image \ {i}
      PROVE  /\ images'[j] \in ImageRecord /\ ImageOK(j)'
             /\ images[j].status \notin {"none", "publishing"} => images'[j].status \notin {"none", "publishing"}
  <2>1. images[j] \in ImageRecord /\ ImageOK(j)
    BY DEF ImageInv, ImageTypes
  <2>2. CASE images'[j] = images[j]
    BY <2>1, <2>2, Untouched DEF World
  <2>3. CASE images[j].status = "ready" /\ images'[j] = [images[j] EXCEPT !.status = "retired"]
    <3> DEFINE o == [images[j] EXCEPT !.status = "retired"]
    <3>0. o \in ImageRecord /\ o.status = "retired" /\ SamePublication(o, images[j]) /\ SameDeletion(o, images[j])
      BY <2>1, StatusMoves DEF ImageStatuses
    <3>1. /\ images'[j] \in ImageRecord /\ images'[j].status = "retired"
          /\ SamePublication(images'[j], images[j]) /\ SameDeletion(images'[j], images[j])
      BY <2>3, <3>0
    <3>2. ImageOK(j)'
      BY <2>1, <2>3, <3>1 DEF ImageOK, SamePublication, SameDeletion, World, StaysThere
    <3> QED BY <2>3, <3>1, <3>2
  <2> QED BY <2>2, <2>3
<1>2. ImageTypes'
  <2>1. \A j \in Image : images'[j] \in ImageRecord
    BY <1>1
  <2> QED BY <2>1, NoImageWork DEF ImageInv, ImageTypes, World
<1>3. PublicationOK'
  BY NoImageWork DEF PublicationOK
<1> QED BY <1>1, <1>2, <1>3, ImagesMove DEF World, StaysThere

\* A step that writes no journal, and has an effect at the provider on one image.
LEMMA EffectMoves ==
  ASSUME ImageInv, NEW i \in Image, images' = images, pin' = pin,
         snapshot' \in [Image -> {"absent", "pending", "ready", "failed"}], made' \in [Image -> MadeRecord],
         \A j \in Image \ {i} : snapshot'[j] = snapshot[j] /\ made'[j] = made[j],
         vanished' \in SUBSET Image, vanished \subseteq vanished', pub' \in PublicationJob, release' \in Nat,
         ImageOK(i)', PublicationOK',
         images[i].status \notin {"none", "publishing"} /\ StaysThere(i) => StaysThere(i)'
  PROVE  ImageInv'
<1>1. \A j \in Image : ImageOK(j)'
  BY Untouched
<1>2. ImageTypes'
  BY DEF ImageInv, ImageTypes
<1>3. ASSUME NEW j \in Image, StaysThere(j), NEW c \in Tenant, TenantWaits(c, j) PROVE StaysThere(j)'
  <2>1. images[j].status \notin {"none", "publishing"}
    <3>1. j # 0
      BY DEF Image
    <3> QED BY <1>3, <3>1 DEF ImageInv, PinOK, TenantWaits
  <2> QED BY <1>3, <2>1 DEF StaysThere
<1> QED BY <1>1, <1>2, <1>3, ImagesMove

LEMMA CaptureKeeps ==
  ASSUME ImageInv, NEW i \in Image, NEW outcome, Capture(i, outcome)
  PROVE  ImageInv'
<1>1. pub = [step |-> "capture", image |-> i] /\ UNCHANGED <<content, release, pin, vanished>>
  BY DEF Capture, PublicationAt
<1>2. /\ images[i] \in ImageRecord /\ made[i] \in MadeRecord /\ ImageOK(i) /\ release \in Nat
      /\ images[i].status = "publishing" /\ images[i].requested /\ images[i].verifier = "none" /\ made[i].capture = 0
  BY <1>1, ImageAt DEF ImageInv, ImageTypes, PublicationOK
<1>3. CASE outcome = "accepted"
  <2> DEFINE d == [made[i] EXCEPT !.capture = made[i].capture + 1]
  <2>1. /\ snapshot' = [snapshot EXCEPT ![i] = "pending"]
        /\ made' = [made EXCEPT ![i].capture = @ + 1]
        /\ pub' = [step |-> "working", image |-> i] /\ images' = images
    BY <1>3 DEF Capture, Advance
  <2>2. made' = [made EXCEPT ![i] = d]
    BY <2>1
  <2>3. d \in MadeRecord /\ d.source = made[i].source /\ d.verifier = made[i].verifier /\ d.capture = 1
    BY <1>2 DEF MadeRecord
  <2> HIDE DEF d
  <2>4. /\ made'[i] = d /\ snapshot'[i] = "pending"
        /\ \A j \in Image \ {i} : snapshot'[j] = snapshot[j] /\ made'[j] = made[j]
    BY <2>1, <2>2 DEF ImageInv, ImageTypes
  <2>5. made' \in [Image -> MadeRecord] /\ snapshot' \in [Image -> {"absent", "pending", "ready", "failed"}]
    BY <2>1, <2>2, <2>3 DEF ImageInv, ImageTypes
  <2>6. ImageOK(i)'
    BY <1>2, <2>1, <2>3, <2>4 DEF ImageOK
  <2>7. PublicationOK'
    BY <1>2, <2>1, ImageAt DEF PublicationOK
  <2>8. vanished \in SUBSET Image
    BY DEF ImageInv, ImageTypes
  <2> QED BY <1>1, <1>2, <2>1, <2>4, <2>5, <2>6, <2>7, <2>8, ImageAt, EffectMoves
<1>4. CASE outcome = "limit"
  <2> DEFINE r == [images[i] EXCEPT !.requested = FALSE]
  <2>1. /\ images' = [j \in Image |->
             CASE j = i -> [images[j] EXCEPT !.requested = FALSE]
               [] j # i /\ images[j].status = "ready" /\ images[j].release # release ->
                    [images[j] EXCEPT !.status = "retired"]
               [] OTHER -> images[j]]
        /\ pub' = NoPublication /\ UNCHANGED <<snapshot, made>>
    BY <1>4 DEF Capture
  <2>2. images'[i] = r /\ DOMAIN images' = Image /\ images' = [j \in Image |-> images'[j]]
    BY <2>1
  <2>3. \A j \in Image \ {i} : \/ images'[j] = images[j]
                               \/ images[j].status = "ready" /\ images'[j] = [images[j] EXCEPT !.status = "retired"]
    BY <2>1
  <2>4. /\ r \in ImageRecord /\ ~r.requested /\ r.status = "publishing"
        /\ r.source = images[i].source /\ r.verifier = images[i].verifier
        /\ (r.install <=> images[i].install)
        /\ SameDeletion(r, images[i])
    BY <1>2 DEF ImageRecord, SameDeletion
  <2> HIDE DEF r
  <2>5. ImageOK(i)'
    BY <1>1, <1>2, <2>1, <2>2, <2>4 DEF ImageOK, SameDeletion
  <2>6. UNCHANGED <<World, release, pin, vanished>>
    BY <1>1, <2>1 DEF World
  <2> HIDE <2>1
  <2>7. pub' = NoPublication
    BY <2>1
  <2> QED BY <1>2, <2>2, <2>3, <2>4, <2>5, <2>6, <2>7, RetireOthers
<1> QED BY <1>3, <1>4 DEF Capture

LEMMA PublishKeeps ==
  ASSUME ImageInv, NEW i \in Image, Publish(i)
  PROVE  ImageInv'
<1>1. /\ pub = [step |-> "working", image |-> i] /\ images[i].requested /\ images[i].verifier = "box"
      /\ pub' = NoPublication /\ UNCHANGED <<World, release, pin, vanished>>
  BY DEF Publish, PublicationAt
<1>2. images[i] \in ImageRecord /\ ImageOK(i) /\ images[i].status = "publishing"
  BY <1>1, ImageAt DEF ImageInv, ImageTypes, PublicationOK
<1> DEFINE s == IF images[i].release # release THEN "retired" ELSE "ready"
           r == [images[i] EXCEPT !.status = s]
<1>3. images'[i] = r /\ DOMAIN images' = Image /\ images' = [j \in Image |-> images'[j]]
  BY DEF Publish
<1>4. \A j \in Image \ {i} : \/ images'[j] = images[j]
                             \/ images[j].status = "ready" /\ images'[j] = [images[j] EXCEPT !.status = "retired"]
  BY DEF Publish
<1>5. s \in ImageStatuses /\ s \in {"ready", "retired"}
  BY DEF ImageStatuses
<1> HIDE DEF s
<1>6. r \in ImageRecord /\ r.status = s /\ SamePublication(r, images[i]) /\ SameDeletion(r, images[i])
  BY <1>2, <1>5, StatusMoves
<1> HIDE DEF r
<1>7. ImageOK(i)'
  BY <1>1, <1>2, <1>3, <1>5, <1>6 DEF ImageOK, SamePublication, SameDeletion, World, StaysThere
<1> QED BY <1>1, <1>2, <1>3, <1>4, <1>6, <1>7, RetireOthers

\* What the cleanup deletes or withdraws.
LEMMA IntentMoves ==
  ASSUME NEW m \in ImageRecord, NEW b \in BOOLEAN
  PROVE  LET r == [m EXCEPT !.intent = b]
         IN  /\ r \in ImageRecord /\ r.status = m.status /\ (r.intent <=> b)
             /\ SamePublication(r, m)
             /\ (r.gone <=> m.gone)
  BY DEF ImageRecord, SamePublication

LEMMA GoneMoves ==
  ASSUME NEW i, images[i] \in ImageRecord
  PROVE  /\ Gone(i) \in ImageRecord /\ Gone(i).status \in {"blocked", "deleted"} /\ Gone(i).gone
         /\ SamePublication(Gone(i), images[i])
<1> DEFINE s == IF images[i].status = "blocked" THEN "blocked" ELSE "deleted"
           r == [images[i] EXCEPT !.gone = TRUE, !.status = s]
<1>1. Gone(i) = r
  BY DEF Gone
<1>2. s \in ImageStatuses /\ s \in {"blocked", "deleted"}
  BY DEF ImageStatuses
<1> HIDE DEF s
<1>3. /\ r \in ImageRecord /\ r.status = s /\ r.gone
      /\ SamePublication(r, images[i])
  BY <1>2 DEF ImageRecord, SamePublication
<1> QED BY <1>1, <1>2, <1>3

LEMMA ReconcileDeletionKeeps ==
  ASSUME ImageInv, NEW i \in Image, ReconcileDeletion(i)
  PROVE  ImageInv'
<1>1. /\ pub.step = "idle" /\ Obsolete(i) /\ UNCHANGED <<World, pub, release, pin, vanished>>
  BY DEF ReconcileDeletion
<1>2. images[i] \in ImageRecord /\ ImageOK(i) /\ pub \in PublicationJob /\ release \in Nat
  BY DEF ImageInv, ImageTypes
<1>3. images[i].status \in {"retired", "missing", "failed", "blocked"}
  BY <1>1 DEF Obsolete
<1>4. PICK r \in ImageRecord :
        /\ images' = [images EXCEPT ![i] = r] /\ SamePublication(r, images[i])
        /\ \/ r.status = images[i].status /\ ~r.intent /\ ~r.gone
           \/ r.status \in {"deleted", "blocked"}
  <2>1. CASE snapshot[i] = "absent"
    BY <1>2, <2>1, GoneMoves DEF ReconcileDeletion, RecordImage
  <2>2. CASE snapshot[i] # "absent"
    <3> DEFINE r == [images[i] EXCEPT !.intent = FALSE]
    <3>1. images' = [images EXCEPT ![i] = r]
      BY <2>2 DEF ReconcileDeletion, RecordImage
    <3>2. /\ r \in ImageRecord /\ r.status = images[i].status /\ (r.intent <=> FALSE)
          /\ SamePublication(r, images[i])
          /\ (r.gone <=> images[i].gone)
      BY <1>2, IntentMoves
    <3> HIDE DEF r
    <3> QED BY <1>1, <3>1, <3>2 DEF Obsolete
  <2> QED BY <2>1, <2>2
<1>5. images'[i] = r
  BY <1>4 DEF ImageInv, ImageTypes
<1>6. ImageOK(i)'
  BY <1>1, <1>2, <1>3, <1>4, <1>5 DEF ImageOK, SamePublication, World, StaysThere
<1>7. PublicationOK'
  BY <1>1 DEF PublicationOK
<1> QED BY <1>1, <1>2, <1>3, <1>4, <1>6, <1>7, JournalMoves DEF World

LEMMA MarkKeeps ==
  ASSUME ImageInv, NEW i \in Image, MarkDeletion(i)
  PROVE  ImageInv'
<1> DEFINE r == [images[i] EXCEPT !.intent = TRUE]
<1>1. /\ Obsolete(i) /\ ~Referenced(i) /\ images' = [images EXCEPT ![i] = r]
      /\ pub' = [step |-> "delete", image |-> i] /\ UNCHANGED <<World, release, pin, vanished>>
  BY DEF MarkDeletion, RecordImage, Advance
<1>2. images[i] \in ImageRecord /\ ImageOK(i) /\ release \in Nat
  BY DEF ImageInv, ImageTypes
<1>3. images[i].status \in {"retired", "missing", "failed", "blocked"} /\ ~images[i].gone
  BY <1>1 DEF Obsolete
<1>4. /\ r \in ImageRecord /\ r.status = images[i].status /\ (r.intent <=> TRUE)
      /\ SamePublication(r, images[i])
      /\ (r.gone <=> images[i].gone)
  BY <1>2, IntentMoves
<1> HIDE DEF r
<1>5. images'[i] = r
  BY <1>1 DEF ImageInv, ImageTypes
<1>6. ImageOK(i)'
  BY <1>1, <1>2, <1>3, <1>4, <1>5 DEF ImageOK, SamePublication, World, StaysThere
<1>7. PublicationOK'
  BY <1>1, <1>4, <1>5, ImageAt DEF PublicationOK, Referenced, TenantWaits
<1>8. pub' \in PublicationJob
  BY <1>1, ImageAt
<1>9. images[i].status \notin {"none", "publishing"} => r.status \notin {"none", "publishing"}
  BY <1>4
<1>10. release' \in Nat /\ UNCHANGED <<snapshot, made, pin, vanished>>
  BY <1>1, <1>2 DEF World
<1> QED BY <1>1, <1>4, <1>6, <1>7, <1>8, <1>9, <1>10, JournalMoves

LEMMA DeleteAnswersKeep ==
  ASSUME ImageInv, NEW i \in Image, NEW outcome, DeleteAnswers(i, outcome)
  PROVE  ImageInv'
<1>1. pub = [step |-> "delete", image |-> i] /\ pub' = NoPublication /\ UNCHANGED <<made, release, pin, vanished>>
  BY DEF DeleteAnswers, PublicationAt
<1>2. /\ images[i] \in ImageRecord /\ ImageOK(i) /\ release \in Nat /\ images[i].intent
      /\ \A c \in Tenant : ~TenantWaits(c, i)
  BY <1>1, ImageAt DEF ImageInv, ImageTypes, PublicationOK
<1>3. images[i].status \notin {"none", "publishing", "ready"}
  BY <1>2 DEF ImageOK
<1>4. PublicationOK'
  BY <1>1, NoImageWork DEF PublicationOK
<1>5. CASE outcome = "deleted"
  <2>1. images' = [images EXCEPT ![i] = Gone(i)] /\ snapshot' = [snapshot EXCEPT ![i] = "absent"]
    BY <1>5 DEF DeleteAnswers, RecordImage
  <2>2. /\ Gone(i) \in ImageRecord /\ Gone(i).status \in {"blocked", "deleted"} /\ Gone(i).gone
        /\ SamePublication(Gone(i), images[i])
    BY <1>2, GoneMoves
  <2>3. /\ images'[i] = Gone(i)
        /\ \A j \in Image \ {i} : images'[j] = images[j] /\ snapshot'[j] = snapshot[j]
    BY <2>1 DEF ImageInv, ImageTypes
  <2>4. ImageOK(i)'
    BY <1>1, <1>2, <1>3, <2>2, <2>3 DEF ImageOK, SamePublication
  <2>5. \A j \in Image : ImageOK(j)'
    BY <1>1, <2>3, <2>4, Untouched
  <2>6. ImageTypes'
    BY <1>1, <2>1, <2>2, NoImageWork DEF ImageInv, ImageTypes
  <2>7. \A j \in Image : images[j].status \notin {"none", "publishing"} => images'[j].status \notin {"none", "publishing"}
    BY <2>2, <2>3
  <2>8. \A j \in Image : StaysThere(j) /\ (\E c \in Tenant : TenantWaits(c, j)) => StaysThere(j)'
    BY <1>1, <1>2, <2>3 DEF StaysThere
  <2> QED BY <1>1, <1>4, <2>5, <2>6, <2>7, <2>8, ImagesMove
<1>6. CASE outcome = "in use"
  <2> DEFINE r == [images[i] EXCEPT !.intent = FALSE]
  <2>1. images' = [images EXCEPT ![i] = r] /\ snapshot' = snapshot
    BY <1>6 DEF DeleteAnswers, RecordImage
  <2>2. /\ r \in ImageRecord /\ r.status = images[i].status /\ (r.intent <=> FALSE)
        /\ SamePublication(r, images[i])
        /\ (r.gone <=> images[i].gone)
    BY <1>2, IntentMoves
  <2> HIDE DEF r
  <2>3. images'[i] = r
    BY <2>1 DEF ImageInv, ImageTypes
  <2>4. ImageOK(i)'
    BY <1>1, <1>2, <1>3, <2>1, <2>2, <2>3 DEF ImageOK, SamePublication, StaysThere
  <2> QED BY <1>1, <1>2, <1>3, <1>4, <2>1, <2>2, <2>4, NoImageWork, JournalMoves
<1>7. CASE outcome = "unknown"
  <2>1. images' = images /\ snapshot' = snapshot
    BY <1>7 DEF DeleteAnswers
  <2>2. \A j \in Image : ImageOK(j)'
    BY <1>1, <2>1, Untouched
  <2>3. ImageTypes'
    BY <1>1, <2>1, NoImageWork DEF ImageInv, ImageTypes
  <2> QED BY <1>1, <1>4, <2>1, <2>2, <2>3, ImagesMove DEF StaysThere
<1> QED BY <1>5, <1>6, <1>7 DEF DeleteAnswers

LEMMA ProviderKeeps ==
  ASSUME ImageInv, NEW i \in Image, Vanish(i) \/ \E ends \in {"ready", "failed"} : CaptureEnds(i, ends)
  PROVE  ImageInv'
<1>1. /\ UNCHANGED <<images, made, pub, release, pin>>
      /\ \E s \in {"absent", "ready", "failed"} : snapshot' = [snapshot EXCEPT ![i] = s]
      /\ \/ snapshot[i] = "ready" /\ vanished' = vanished \cup {i}
         \/ snapshot[i] = "pending" /\ vanished' = vanished
  BY DEF Vanish, CaptureEnds
<1>2. /\ snapshot' \in [Image -> {"absent", "pending", "ready", "failed"}]
      /\ \A j \in Image \ {i} : snapshot'[j] = snapshot[j]
      /\ vanished' \in SUBSET Image /\ vanished \subseteq vanished'
  BY <1>1 DEF ImageInv, ImageTypes
<1>3. StaysThere(i) => StaysThere(i)'
  BY <1>1 DEF StaysThere
<1>4. ImageOK(i)'
  BY <1>1, <1>3 DEF ImageInv, ImageOK
<1>5. PublicationOK'
  BY <1>1 DEF ImageInv, PublicationOK, TenantWaits
<1>6. made' \in [Image -> MadeRecord] /\ pub' \in PublicationJob /\ release' \in Nat
  BY <1>1 DEF ImageInv, ImageTypes
<1>7. images' = images /\ pin' = pin
  BY <1>1
<1>8. images[i].status \notin {"none", "publishing"} /\ StaysThere(i) => StaysThere(i)'
  BY <1>3
<1>9. \A j \in Image \ {i} : snapshot'[j] = snapshot[j] /\ made'[j] = made[j]
  BY <1>1, <1>2
<1> QED BY <1>2, <1>4, <1>5, <1>6, <1>7, <1>8, <1>9, EffectMoves

\* The leader is lost: the call it was making may have had its effect, and no executor that
\* has accepted an image is left.
LEMMA LeaderKeeps ==
  ASSUME ImageInv, NEW happened \in BOOLEAN, NEW next \in Nat, LeaderLost(happened, next)
  PROVE  ImageInv'
<1>0. PICK i : i = pub.image
  OBVIOUS
<1> DEFINE b == CHOOSE b \in Boxes : images[i][b] = "intent"
<1>1. /\ release' = next /\ pub' = NoPublication /\ images' = images /\ vanished' = vanished
      /\ pin' = [c \in Tenant |-> [pin[c] EXCEPT !.accepted = FALSE]]
  BY DEF LeaderLost
<1>2. \/ made' = made /\ snapshot' = snapshot
      \/ /\ pub.step = "create" /\ snapshot' = snapshot
         /\ made' = [made EXCEPT ![i][b] = @ + 1]
      \/ /\ pub.step = "capture" /\ snapshot' = [snapshot EXCEPT ![i] = "pending"]
         /\ made' = [made EXCEPT ![i].capture = @ + 1]
  BY <1>0 DEF LeaderLost
<1>3. \A j \in Image : images[j] \in ImageRecord /\ made[j] \in MadeRecord /\ ImageOK(j)
  BY DEF ImageInv, ImageTypes
<1>4. /\ made' \in [Image -> MadeRecord] /\ snapshot' \in [Image -> {"absent", "pending", "ready", "failed"}]
      /\ \A j \in Image : ImageOK(j)'
      /\ \A j \in Image : images[j].status \notin {"none", "publishing"} /\ StaysThere(j) => StaysThere(j)'
  <2>1. CASE made' = made /\ snapshot' = snapshot
    BY <1>1, <2>1, Untouched DEF ImageInv, ImageTypes, StaysThere
  <2>2. CASE /\ pub.step = "create" /\ snapshot' = snapshot
             /\ made' = [made EXCEPT ![i][b] = @ + 1]
    <3> DEFINE n == made[i][b] + 1
               d == [made[i] EXCEPT ![b] = n]
    <3>1. /\ i \in Image /\ images[i].status = "publishing"
          /\ images[i].source = "intent" \/ images[i].verifier = "intent"
          /\ images[i].source = "intent" => made[i].source = 0
          /\ images[i].verifier = "intent" => made[i].verifier = 0
      BY <1>0, <2>2 DEF ImageInv, PublicationOK
    <3>2. b \in Boxes /\ images[i][b] = "intent"
      <4>1. \E k \in Boxes : images[i][k] = "intent"
        BY <3>1 DEF Boxes
      <4> QED BY <4>1
    <3> HIDE DEF b
    <3>3. made' = [made EXCEPT ![i] = d]
      BY <2>2
    <3>4. /\ d \in MadeRecord /\ d.capture = made[i].capture
          /\ images[i].source = "none" => d.source = made[i].source
          /\ images[i].verifier = "none" => d.verifier = made[i].verifier
          /\ d.source <= 1 /\ d.verifier <= 1
      <4>1. CASE b = "source"
        BY <1>3, <3>1, <3>2, <4>1 DEF MadeRecord, ImageOK
      <4>2. CASE b = "verifier"
        BY <1>3, <3>1, <3>2, <4>2 DEF MadeRecord, ImageOK
      <4> QED BY <3>2, <4>1, <4>2 DEF Boxes
    <3> HIDE DEF d
    <3>5. made'[i] = d /\ \A j \in Image \ {i} : made'[j] = made[j]
      BY <3>1, <3>3 DEF ImageInv, ImageTypes
    <3>6. made' \in [Image -> MadeRecord]
      BY <3>3, <3>4 DEF ImageInv, ImageTypes
    <3>7. ImageOK(i)'
      BY <1>1, <1>3, <2>2, <3>1, <3>4, <3>5 DEF ImageOK, StaysThere
    <3>8. \A j \in Image : ImageOK(j)'
      BY <1>1, <2>2, <3>5, <3>7, Untouched
    <3> QED BY <1>1, <2>2, <3>6, <3>8 DEF ImageInv, ImageTypes, StaysThere
  <2>3. CASE /\ pub.step = "capture" /\ snapshot' = [snapshot EXCEPT ![i] = "pending"]
             /\ made' = [made EXCEPT ![i].capture = @ + 1]
    <3> DEFINE d == [made[i] EXCEPT !.capture = made[i].capture + 1]
    <3>1. /\ i \in Image /\ images[i].status = "publishing" /\ images[i].requested
          /\ images[i].verifier = "none" /\ made[i].capture = 0
      BY <1>0, <2>3 DEF ImageInv, PublicationOK
    <3>2. made' = [made EXCEPT ![i] = d]
      BY <2>3
    <3>3. d \in MadeRecord /\ d.source = made[i].source /\ d.verifier = made[i].verifier /\ d.capture = 1
      BY <1>3, <3>1 DEF MadeRecord
    <3> HIDE DEF d
    <3>4. /\ made'[i] = d /\ snapshot'[i] = "pending"
          /\ \A j \in Image \ {i} : made'[j] = made[j] /\ snapshot'[j] = snapshot[j]
      BY <2>3, <3>1, <3>2 DEF ImageInv, ImageTypes
    <3>5. made' \in [Image -> MadeRecord] /\ snapshot' \in [Image -> {"absent", "pending", "ready", "failed"}]
      BY <2>3, <3>2, <3>3 DEF ImageInv, ImageTypes
    <3>6. ImageOK(i)'
      BY <1>1, <1>3, <3>1, <3>3, <3>4 DEF ImageOK
    <3>7. \A j \in Image : ImageOK(j)'
      BY <1>1, <3>4, <3>6, Untouched
    <3> QED BY <1>1, <3>1, <3>4, <3>5, <3>7 DEF StaysThere
  <2> QED BY <1>2, <2>1, <2>2, <2>3
<1>5. \A c \in Tenant : /\ pin'[c] \in PinRecord /\ pin'[c].image = pin[c].image /\ ~pin'[c].accepted
                        /\ (pin'[c].started <=> pin[c].started)
                        /\ (pin'[c].boxed <=> pin[c].boxed)
  <2>1. ASSUME NEW c \in Tenant
        PROVE  LET q == [pin[c] EXCEPT !.accepted = FALSE]
               IN  /\ q \in PinRecord /\ q.image = pin[c].image /\ ~q.accepted
                   /\ (q.started <=> pin[c].started)
                   /\ (q.boxed <=> pin[c].boxed)
    BY DEF ImageInv, ImageTypes, PinRecord
  <2> QED BY <1>1, <2>1
<1>6. ImageTypes'
  BY <1>1, <1>4, <1>5, NoImageWork DEF ImageInv, ImageTypes
<1>7. PublicationOK'
  BY <1>1, NoImageWork DEF PublicationOK
<1>8. ASSUME NEW c \in Tenant PROVE PinOK(c)'
  BY <1>1, <1>4, <1>5 DEF ImageInv, PinOK
<1> QED BY <1>4, <1>6, <1>7, <1>8 DEF ImageInv

\* A step of one Companion's creation.
LEMMA TenantMoves ==
  ASSUME ImageInv, NEW c \in Tenant, NEW q \in PinRecord, pin' = [pin EXCEPT ![c] = q],
         UNCHANGED <<images, World, pub, release, vanished>>,
         \/ q.image = pin[c].image /\ (pin[c].boxed => q.boxed) /\ (q.started \/ q.accepted => q.image # 0)
         \/ q.image \in Image /\ images[q.image].status \in {"ready", "retired"} /\ ~images[q.image].intent
  PROVE  ImageInv'
<1>1. pin'[c] = q /\ \A d \in Tenant \ {c} : pin'[d] = pin[d]
  BY DEF ImageInv, ImageTypes
<1>2. ImageTypes'
  BY DEF ImageInv, ImageTypes, World
<1>3. \A j \in Image : ImageOK(j)'
  BY Untouched DEF World
<1>4. PinOK(c)'
  <2>1. CASE q.image = pin[c].image /\ (pin[c].boxed => q.boxed) /\ (q.started \/ q.accepted => q.image # 0)
    BY <1>1, <2>1 DEF ImageInv, PinOK, StaysThere, World
  <2>2. CASE q.image \in Image /\ images[q.image].status \in {"ready", "retired"} /\ ~images[q.image].intent
    <3>1. StaysThere(q.image) /\ q.image # 0
      BY <2>2 DEF ImageInv, ImageOK, Image
    <3> QED BY <1>1, <2>2, <3>1 DEF PinOK, StaysThere, World
  <2> QED BY <2>1, <2>2
<1>5. \A d \in Tenant \ {c} : PinOK(d)'
  BY <1>1 DEF ImageInv, PinOK, StaysThere, World
<1>6. ASSUME pub.step = "delete", q.image = pub.image, ~q.boxed PROVE FALSE
  <2>1. pub.image \in Image /\ images[pub.image].intent /\ ~TenantWaits(c, pub.image) /\ pub.image # 0
    BY <1>6 DEF ImageInv, PublicationOK, Image
  <2>2. images[pub.image].status # "ready"
    BY <2>1 DEF ImageInv, ImageOK
  <2> QED BY <1>6, <2>1, <2>2 DEF TenantWaits
<1>7. PublicationOK'
  BY <1>1, <1>6 DEF ImageInv, PublicationOK, TenantWaits, World
<1> QED BY <1>2, <1>3, <1>4, <1>5, <1>7 DEF ImageInv

LEMMA PinKeeps ==
  ASSUME ImageInv, NEW c \in Tenant, Pin(c) \/ StartCreation(c)
  PROVE  ImageInv'
<1>0. pin[c] \in PinRecord /\ UNCHANGED <<images, World, pub, release, vanished>> /\ ~pin[c].boxed
  BY DEF ImageInv, ImageTypes, Pin, StartCreation
<1>1. CASE StartCreation(c)
  <2> DEFINE q == [pin[c] EXCEPT !.started = TRUE]
  <2>1. pin' = [pin EXCEPT ![c] = q] /\ pin[c].accepted
    BY <1>1 DEF StartCreation
  <2>2. q \in PinRecord /\ q.image = pin[c].image
    BY <1>0 DEF PinRecord
  <2>3. pin[c].image # 0
    BY <2>1 DEF ImageInv, PinOK
  <2> HIDE DEF q
  <2> QED BY <1>0, <2>1, <2>2, <2>3, TenantMoves
<1>2. CASE Pin(c) /\ pin[c].image # 0 /\ Usable(pin[c].image) /\ images[pin[c].image].release = release
  <2> DEFINE q == [pin[c] EXCEPT !.accepted = TRUE]
  <2>1. pin' = [pin EXCEPT ![c] = q]
    BY <1>2 DEF Pin
  <2>2. q \in PinRecord /\ q.image = pin[c].image
    BY <1>0 DEF PinRecord
  <2> HIDE DEF q
  <2> QED BY <1>0, <1>2, <2>1, <2>2, TenantMoves
<1>3. CASE Pin(c) /\ ~(pin[c].image # 0 /\ Usable(pin[c].image) /\ images[pin[c].image].release = release)
  <2>1. PICK i \in Selected : pin' = [pin EXCEPT ![c].image = i, ![c].accepted = TRUE]
    BY <1>3 DEF Pin
  <2> DEFINE q == [pin[c] EXCEPT !.image = i, !.accepted = TRUE]
  <2>2. i \in Image /\ images[i].status \in {"ready", "retired"} /\ ~images[i].intent
    <3>1. CASE i \in ServedNow
      BY <3>1 DEF ServedNow, ImageInv, ImageOK
    <3>2. CASE i \in Image /\ Usable(i)
      BY <3>2 DEF Usable
    <3> QED BY <3>1, <3>2 DEF Selected
  <2>3. pin' = [pin EXCEPT ![c] = q]
    BY <2>1
  <2>4. q \in PinRecord /\ q.image = i
    <3>1. i \in Nat
      BY <2>2 DEF Image
    <3> QED BY <1>0, <3>1 DEF PinRecord
  <2> HIDE DEF q
  <2> QED BY <1>0, <2>2, <2>3, <2>4, TenantMoves
<1> QED BY <1>1, <1>2, <1>3

LEMMA CreateTenantKeeps ==
  ASSUME ImageInv, NEW c \in Tenant, CreateTenant(c)
  PROVE  ImageInv'
<1>a. PICK i : i = pin[c].image
  OBVIOUS
<1>0. /\ pin[c] \in PinRecord /\ UNCHANGED <<World, pub, release, vanished>> /\ ~pin[c].boxed /\ pin[c].started
      /\ i \in Image /\ i # 0 /\ i = pin[c].image
  BY <1>a DEF ImageInv, ImageTypes, PinOK, CreateTenant
<1>1. CASE snapshot[i] = "ready"
  <2> DEFINE q == [pin[c] EXCEPT !.boxed = TRUE]
  <2>1. pin' = [pin EXCEPT ![c] = q] /\ images' = images
    BY <1>0, <1>1 DEF CreateTenant
  <2>2. q \in PinRecord /\ q.image = pin[c].image
    BY <1>0 DEF PinRecord
  <2> HIDE DEF q
  <2> QED BY <1>0, <2>1, <2>2, TenantMoves
<1>2. CASE snapshot[i] # "ready"
  <2> DEFINE r == [images[i] EXCEPT !.status = "missing"]
  <2>1. /\ pin' = [pin EXCEPT ![c] = Unpinned] /\ images' = [images EXCEPT ![i] = r]
        /\ images[i].status \in {"ready", "retired", "missing"}
    BY <1>0, <1>2 DEF CreateTenant, RecordImage
  <2>2. images[i] \in ImageRecord /\ ImageOK(i)
    BY <1>0 DEF ImageInv, ImageTypes
  <2>3. r \in ImageRecord /\ r.status = "missing" /\ SamePublication(r, images[i]) /\ SameDeletion(r, images[i])
    BY <2>2, StatusMoves DEF ImageStatuses
  <2> HIDE DEF r
  <2>4. /\ images'[i] = r /\ \A j \in Image \ {i} : images'[j] = images[j]
        /\ pin'[c] = Unpinned /\ \A d \in Tenant \ {c} : pin'[d] = pin[d]
    BY <1>0, <2>1 DEF ImageInv, ImageTypes
  <2>5. Unpinned \in PinRecord /\ Unpinned.image = 0 /\ ~Unpinned.started /\ ~Unpinned.accepted
    BY DEF Unpinned, PinRecord
  <2>6. ImageTypes'
    BY <1>0, <2>1, <2>3, <2>5 DEF ImageInv, ImageTypes, World
  <2>7. ImageOK(i)'
    BY <1>0, <2>1, <2>2, <2>3, <2>4 DEF ImageOK, SamePublication, SameDeletion, World
  <2>8. \A j \in Image : ImageOK(j)'
    BY <1>0, <2>4, <2>7, Untouched DEF World
  <2>9. PinOK(c)'
    BY <2>4, <2>5 DEF PinOK
  <2>10. \A d \in Tenant \ {c} : PinOK(d)'
    BY <1>0, <2>3, <2>4 DEF ImageInv, PinOK, StaysThere, World
  <2>11. /\ pub.step \in {"working", "create", "install", "capture"} => pub.image # i
         /\ pub.step = "delete" => \A d \in Tenant : ~TenantWaits(d, pub.image)'
    BY <1>0, <2>1, <2>4, <2>5 DEF ImageInv, PublicationOK, TenantWaits, Image
  <2>12. images'[i].intent <=> images[i].intent
    BY <2>3, <2>4 DEF SameDeletion
  <2>13. PublicationOK'
    BY <1>0, <2>4, <2>11, <2>12 DEF ImageInv, PublicationOK, World
  <2> QED BY <2>6, <2>8, <2>9, <2>10, <2>13 DEF ImageInv
<1> QED BY <1>1, <1>2

LEMMA ImageStep == ImageInv /\ [ImageNext]_imageVars => ImageInv'
<1> SUFFICES ASSUME ImageInv, [ImageNext]_imageVars PROVE ImageInv'
  OBVIOUS
<1>1. ASSUME NEW i \in Image, CheckReady(i) \/ ResumePublication(i) \/ Enter(i) \/ VerifySource(i) \/ Publish(i)
                 \/ ReconcileDeletion(i) \/ MarkDeletion(i)
      PROVE  ImageInv'
  BY <1>1, CheckKeeps, ResumeKeeps, EnterKeeps, VerifySourceKeeps, PublishKeeps, ReconcileDeletionKeeps, MarkKeeps
<1>2. ASSUME NEW i \in Image, CaptureFailed(i) \/ VerifierRefuses(i)
      PROVE  ImageInv'
  <2>1. "source" \in Boxes
    BY DEF Boxes
  <2> QED BY <1>2, <2>1, BlocksKeep
<1>3. ASSUME NEW i \in Image, InstallIntent(i) \/ \E w \in BOOLEAN : Install(i, w)
      PROVE  ImageInv'
  BY <1>3, InstallKeeps
<1>4. ASSUME NEW i \in Image, Vanish(i) \/ \E e \in {"ready", "failed"} : CaptureEnds(i, e)
      PROVE  ImageInv'
  BY <1>4, ProviderKeeps
<1>5. ASSUME NEW i \in Image, NEW b \in Boxes, CreateIntent(i, b) \/ CreateUnresolved(i, b)
      PROVE  ImageInv'
  BY <1>5, CreateIntentKeeps, BlocksKeep
<1>6. ASSUME NEW i \in Image, NEW b \in Boxes, NEW o \in {"created", "limited", "lost"}, NEW h \in BOOLEAN,
             CreateAnswers(i, b, o, h)
      PROVE  ImageInv'
  BY <1>6, CreateAnswersKeep
<1>7. ASSUME NEW i \in Image, \/ \E o \in {"accepted", "limit"} : Capture(i, o)
                              \/ \E o \in {"deleted", "in use", "unknown"} : DeleteAnswers(i, o)
      PROVE  ImageInv'
  BY <1>7, CaptureKeeps, DeleteAnswersKeep
<1>8. ASSUME NEW h \in BOOLEAN, NEW n \in 1..MaxReleases, LeaderLost(h, n)
      PROVE  ImageInv'
  <2>1. n \in Nat
    OBVIOUS
  <2> QED BY <1>8, <2>1, LeaderKeeps
<1>9. ASSUME NEW c \in Tenant, Pin(c) \/ StartCreation(c) \/ CreateTenant(c)
      PROVE  ImageInv'
  BY <1>9, PinKeeps, CreateTenantKeeps
<1>10. CASE UNCHANGED imageVars
  <2>1. ImageTypes' /\ PublicationOK'
    BY <1>10 DEF imageVars, ImageInv, ImageTypes, PublicationOK, TenantWaits
  <2>2. \A i \in Image : ImageOK(i)'
    BY <1>10, Untouched DEF imageVars
  <2>3. \A c \in Tenant : PinOK(c)'
    BY <1>10 DEF imageVars, ImageInv, PinOK, StaysThere
  <2> QED BY <2>1, <2>2, <2>3 DEF ImageInv
<1> QED BY <1>1, <1>2, <1>3, <1>4, <1>5, <1>6, <1>7, <1>8, <1>9, <1>10 DEF ImageNext

LEMMA ImageInvariant == ImageSpec => []ImageInv
<1> QED BY ImagesBegin, ImageStep, PTL DEF ImageSpec

\* A publication makes at most one source and one verifier Box and captures at most once,
\* whatever dies between an intent and its answer (managed-base-image.ts, progress).
THEOREM ReplaySafe == ImageSpec => []NothingIsReplayed
<1>1. ImageInv => NothingIsReplayed
  BY DEF ImageInv, ImageOK, NothingIsReplayed
<1> QED BY <1>1, ImageInvariant, PTL

\* The image of a creation under way stays at the provider, short of a snapshot that vanishes
\* by itself or by a deletion its executor had given up (managed-base-image.ts, cleanup and pin).
THEOREM SourceSafe == ImageSpec => []PendingKeepsItsSource
<1>1. ImageInv => PendingKeepsItsSource
  BY DEF ImageInv, PinOK, StaysThere, PendingKeepsItsSource
<1> QED BY <1>1, ImageInvariant, PTL

-----------------------------------------------------------------------------
\* The account: the events of Stripe, and usage.

StateOf(e) == [customer |-> e.customer, grants |-> e.grants, created |-> e.created]
ChoiceOf(c) == [customer |-> c.customer, selected |-> c.subscription, created |-> c.created]

StateFollows(s) ==
  IF Changes(s) = {} THEN subscriptions[s] = NoSubscription
  ELSE \E e \in Newest(Changes(s)) : subscriptions[s] = StateOf(e)
SelectionFollows ==
  IF Accepted("checkout") = {} THEN account = NoAccount
  ELSE \E c \in Newest(Accepted("checkout")) : account = ChoiceOf(c)
\* The subscription of the last checkout is of the customer of the account.
OneCustomer ==
  account # NoAccount /\ Known(account.selected)
    => subscriptions[account.selected].customer = account.customer
StripeInv ==
  /\ acceptedEvents \subseteq StripeEvent
  /\ DOMAIN subscriptions = Subscription
  /\ subscriptions = [s \in Subscription |-> subscriptions[s]]
  /\ \A s \in Subscription : StateFollows(s)
  /\ SelectionFollows /\ OneCustomer

LEMMA StatesAreKnown == \A e : StateOf(e) # NoSubscription /\ ChoiceOf(e) # NoAccount
<1>1. SUFFICES ASSUME NEW e PROVE StateOf(e) # NoSubscription /\ ChoiceOf(e) # NoAccount
  OBVIOUS
<1>2. DOMAIN StateOf(e) = {"customer", "grants", "created"} /\ DOMAIN NoSubscription = {"created"}
  BY DEF StateOf, NoSubscription
<1>3. DOMAIN ChoiceOf(e) = {"customer", "selected", "created"} /\ DOMAIN NoAccount = {"customer"}
  BY DEF ChoiceOf, NoAccount
<1> QED BY <1>2, <1>3

LEMMA Fields ==
  \A e : /\ StateOf(e).customer = e.customer /\ StateOf(e).created = e.created
         /\ (StateOf(e).grants = e.grants)
         /\ ChoiceOf(e).customer = e.customer /\ ChoiceOf(e).selected = e.subscription
         /\ ChoiceOf(e).created = e.created
  BY DEF StateOf, ChoiceOf

\* A new event is one of the newest, or an earlier newest one stays so.
LEMMA NewestOf ==
  ASSUME NEW E, NEW e, \A f \in E \cup {e} : f.created \in Nat
  PROVE  /\ (\A f \in E : f.created <= e.created) => e \in Newest(E \cup {e})
         /\ \A d \in Newest(E) : ~(d.created <= e.created) => d \in Newest(E \cup {e})
         /\ \A d \in Newest(E) : d.created <= e.created => \A f \in E : f.created <= e.created
<1>1. (\A f \in E : f.created <= e.created) => e \in Newest(E \cup {e})
  BY DEF Newest
<1>2. ASSUME NEW d \in Newest(E), ~(d.created <= e.created) PROVE d \in Newest(E \cup {e})
  BY <1>2 DEF Newest
<1>3. ASSUME NEW d \in Newest(E), d.created <= e.created PROVE \A f \in E : f.created <= e.created
  BY <1>3 DEF Newest
<1> QED BY <1>1, <1>2, <1>3

LEMMA StripeInitially == BillingInit => StripeInv
  BY DEF BillingInit, StripeInv, StateFollows, SelectionFollows, OneCustomer, Changes, Accepted

LEMMA CheckoutFollows ==
  ASSUME StripeInv, NEW e \in StripeEvent, CheckoutCompleted(e),
         acceptedEvents' = acceptedEvents \cup {e}
  PROVE  StripeInv'
<1>1. /\ e.type = "checkout" /\ subscriptions' = subscriptions
      /\ acceptedEvents' \subseteq StripeEvent
  BY DEF CheckoutCompleted, StripeInv
<1>2. \A s \in Subscription : Changes(s)' = Changes(s)
  BY <1>1 DEF Changes, Accepted
<1>3. \A s \in Subscription : StateFollows(s)'
  BY <1>1, <1>2 DEF StripeInv, StateFollows
<1>4. Accepted("checkout")' = Accepted("checkout") \cup {e}
  BY <1>1 DEF Accepted
<1>5. \A f \in Accepted("checkout") \cup {e} : f.created \in Nat
  BY StripeEvents DEF StripeInv, Accepted
<1>6. e.subscription \in Subscription
  BY DEF Subscription
<1>7. CASE account = NoAccount
  <2>1. Accepted("checkout") = {}
    BY <1>7, StatesAreKnown DEF StripeInv, SelectionFollows
  <2>2. account' = ChoiceOf(e)
    BY <1>7 DEF CheckoutCompleted, ChoiceOf
  <2>3. e \in Newest(Accepted("checkout"))'
    BY <2>1, <1>4, <1>5 DEF Newest
  <2>4. SelectionFollows'
    BY <2>2, <2>3 DEF SelectionFollows, Newest
  <2>5. OneCustomer'
    BY <2>2, <1>1, Fields DEF OneCustomer, CheckoutCompleted, Known
  <2> QED BY <1>1, <1>3, <2>4, <2>5 DEF StripeInv
<1>8. CASE account # NoAccount
  <2>1. PICK c \in Newest(Accepted("checkout")) : account = ChoiceOf(c)
    BY <1>8 DEF StripeInv, SelectionFollows
  <2>2. account.created = c.created /\ account.customer = c.customer /\ account.customer = e.customer
    BY <1>8, <2>1, Fields DEF CheckoutCompleted
  <2>3. CASE c.created <= e.created
    <3>1. account' = ChoiceOf(e)
      BY <1>8, <2>2, <2>3 DEF CheckoutCompleted, ChoiceOf, NotOlder
    <3>2. e \in Newest(Accepted("checkout"))'
      BY <2>3, <1>4, <1>5, NewestOf
    <3>3. SelectionFollows'
      BY <3>1, <3>2 DEF SelectionFollows, Newest
    <3>4. OneCustomer'
      BY <3>1, <1>1, Fields DEF OneCustomer, CheckoutCompleted, Known
    <3> QED BY <1>1, <1>3, <3>3, <3>4 DEF StripeInv
  <2>4. CASE ~(c.created <= e.created)
    <3>1. account' = account
      BY <1>8, <2>2, <2>4 DEF CheckoutCompleted, NotOlder
    <3>2. c \in Newest(Accepted("checkout"))'
      BY <2>4, <1>4, <1>5, NewestOf
    <3>3. SelectionFollows'
      BY <3>1, <3>2, <2>1 DEF SelectionFollows, Newest
    <3>4. OneCustomer'
      BY <3>1, <1>1 DEF StripeInv, OneCustomer, Known
    <3> QED BY <1>1, <1>3, <3>3, <3>4 DEF StripeInv
  <2> QED BY <2>3, <2>4
<1> QED BY <1>7, <1>8

LEMMA ChangeFollows ==
  ASSUME StripeInv, NEW e \in StripeEvent, SubscriptionChanged(e),
         acceptedEvents' = acceptedEvents \cup {e}
  PROVE  StripeInv'
<1> DEFINE s == e.subscription
<1>1. /\ e.type = "subscription" /\ account' = account
      /\ acceptedEvents' \subseteq StripeEvent /\ s \in Subscription
  BY DEF SubscriptionChanged, StripeInv, Subscription
<1>2. Accepted("checkout")' = Accepted("checkout")
  BY <1>1 DEF Accepted
<1>3. SelectionFollows'
  BY <1>1, <1>2 DEF StripeInv, SelectionFollows
<1>4. \A t \in Subscription \ {s} : Changes(t)' = Changes(t)
  BY <1>1 DEF Changes, Accepted
<1>5. Changes(s)' = Changes(s) \cup {e}
  BY <1>1 DEF Changes, Accepted
<1>6. \A f \in Changes(s) \cup {e} : f.created \in Nat
  BY StripeEvents DEF StripeInv, Changes, Accepted
<1>7. /\ DOMAIN subscriptions' = Subscription
      /\ subscriptions' = [t \in Subscription |-> subscriptions'[t]]
      /\ \A t \in Subscription \ {s} : subscriptions'[t] = subscriptions[t]
      /\ subscriptions'[s] = IF Known(s) /\ ~NotOlder(subscriptions[s], e) THEN subscriptions[s]
                             ELSE StateOf(e)
  <2>1. CASE Known(s) /\ ~NotOlder(subscriptions[s], e)
    BY <1>1, <2>1 DEF SubscriptionChanged, StripeInv
  <2>2. CASE ~(Known(s) /\ ~NotOlder(subscriptions[s], e))
    <3>1. subscriptions' = [subscriptions EXCEPT ![s] = StateOf(e)]
      BY <2>2 DEF SubscriptionChanged, StateOf
    <3> QED BY <3>1, <2>2, <1>1 DEF StripeInv
  <2> QED BY <2>1, <2>2
<1>8. \A t \in Subscription \ {s} : StateFollows(t)'
  BY <1>4, <1>7 DEF StripeInv, StateFollows
<1>9. StateFollows(s)' /\ (subscriptions'[s].customer = e.customer)
  <2>1. CASE ~Known(s)
    <3>1. Changes(s) = {}
      BY <2>1, <1>1, StatesAreKnown DEF StripeInv, StateFollows, Known
    <3>2. e \in Newest(Changes(s))'
      BY <3>1, <1>5, <1>6 DEF Newest
    <3> QED BY <3>2, <1>7, <2>1, Fields DEF StateFollows, Newest
  <2>2. CASE Known(s)
    <3>1. PICK d \in Newest(Changes(s)) : subscriptions[s] = StateOf(d)
      BY <2>2, <1>1 DEF StripeInv, StateFollows, Known
    <3>2. subscriptions[s].created = d.created /\ subscriptions[s].customer = e.customer
      BY <3>1, <2>2, Fields DEF SubscriptionChanged
    <3>3. CASE d.created <= e.created
      <4>1. e \in Newest(Changes(s))'
        BY <3>3, <1>5, <1>6, NewestOf
      <4>2. subscriptions'[s] = StateOf(e)
        BY <3>3, <3>2, <1>7 DEF NotOlder
      <4> QED BY <4>1, <4>2, Fields DEF StateFollows, Newest
    <3>4. CASE ~(d.created <= e.created)
      <4>1. d \in Newest(Changes(s))'
        BY <3>4, <1>5, <1>6, NewestOf
      <4>2. subscriptions'[s] = subscriptions[s]
        BY <3>4, <3>2, <2>2, <1>7 DEF NotOlder
      <4> QED BY <4>1, <4>2, <3>1, <3>2 DEF StateFollows, Newest
    <3> QED BY <3>3, <3>4
  <2> QED BY <2>1, <2>2
<1>10. OneCustomer'
  <2>1. SUFFICES ASSUME account # NoAccount, Known(account.selected)'
                 PROVE  subscriptions'[account.selected].customer = account.customer
    BY <1>1 DEF OneCustomer
  <2>2. account.customer = e.customer
    BY <2>1 DEF SubscriptionChanged
  <2>3. account.selected \in Subscription
    <3>1. PICK c \in Newest(Accepted("checkout")) : account = ChoiceOf(c)
      BY <2>1 DEF StripeInv, SelectionFollows
    <3>2. c \in StripeEvent
      BY <3>1 DEF StripeInv, Newest, Accepted
    <3> QED BY <3>1, <3>2, Fields DEF Subscription
  <2>4. CASE account.selected = s
    BY <2>4, <2>2, <1>9
  <2>5. CASE account.selected # s
    <3>1. subscriptions'[account.selected] = subscriptions[account.selected]
      BY <2>5, <2>3, <1>7
    <3>2. Known(account.selected)
      BY <3>1, <2>1, <1>1 DEF Known
    <3> QED BY <3>1, <3>2, <2>1 DEF StripeInv, OneCustomer
  <2> QED BY <2>4, <2>5
<1> QED BY <1>1, <1>3, <1>7, <1>8, <1>9, <1>10 DEF StripeInv

LEMMA StripeStep == StripeInv /\ [BillingNext]_billingVars => StripeInv'
<1>1. SUFFICES ASSUME StripeInv, [BillingNext]_billingVars PROVE StripeInv'
  OBVIOUS
<1>2. ASSUME UNCHANGED stripeSide PROVE StripeInv'
  BY <1>1, <1>2 DEF stripeSide, StripeInv, StateFollows, SelectionFollows, OneCustomer, Changes, Accepted, Known
<1>3. ASSUME NEW e \in StripeEvent, Webhook(e) PROVE StripeInv'
  BY <1>1, <1>3, CheckoutFollows, ChangeFollows DEF Webhook
<1>4. ASSUME NEW o \in Operations, Occurs(o) PROVE UNCHANGED stripeSide
  BY <1>4 DEF Occurs
<1>5. ASSUME NEW w \in Worker, UsageNext(w) PROVE UNCHANGED stripeSide
  BY <1>5 DEF UsageNext, Record, FlushNext, StartPass, Skip, StartFlush, FlushEnds, Meter, Mark
<1>6. ASSUME NEW w \in Worker, MarkFails(w) \/ WorkerStops(w) \/ \E b \in BOOLEAN : MeterFails(w, b)
      PROVE  UNCHANGED stripeSide
  BY <1>6 DEF MarkFails, WorkerStops, MeterFails
<1>7. CASE UNCHANGED billingVars
  BY <1>7, <1>2 DEF billingVars, stripeSide
<1> QED BY <1>1, <1>2, <1>3, <1>4, <1>5, <1>6, <1>7 DEF BillingNext

LEMMA StripeInvFollows == StripeInv => EntitlementFollowsStripe
<1>1. SUFFICES ASSUME StripeInv PROVE EntitlementFollowsStripe
  OBVIOUS
<1>2. ASSUME NEW s \in Subscription
      PROVE  IF Changes(s) = {} THEN subscriptions[s] = NoSubscription
             ELSE \E e \in Newest(Changes(s)) : (subscriptions[s].grants = e.grants)
  BY <1>1, Fields DEF StripeInv, StateFollows
<1>3. Accepted("checkout") = {} => ~Entitled
  BY <1>1 DEF StripeInv, SelectionFollows, Entitled
<1>4. ASSUME Accepted("checkout") # {}
      PROVE  \E c \in Newest(Accepted("checkout")) :
               LET latest == Newest(Changes(c.subscription)) IN
               /\ Entitled => \E e \in latest : e.grants
               /\ (latest # {} /\ \A e \in latest : e.grants) => Entitled
  <2>1. PICK c \in Newest(Accepted("checkout")) : account = ChoiceOf(c)
    BY <1>1, <1>4 DEF StripeInv, SelectionFollows
  <2>2. account # NoAccount /\ account.selected = c.subscription
    BY <2>1, StatesAreKnown, Fields
  <2>3. c.subscription \in Subscription
    BY <1>1, <2>1 DEF StripeInv, Newest, Accepted, Subscription
  <2> DEFINE latest == Newest(Changes(c.subscription))
  <2>4. ASSUME Entitled PROVE \E e \in latest : e.grants
    <3>1. PICK e \in latest : subscriptions[c.subscription] = StateOf(e)
      BY <1>1, <2>2, <2>3, <2>4 DEF StripeInv, StateFollows, Entitled, Known
    <3>2. (subscriptions[c.subscription].grants = e.grants)
      BY <3>1, Fields
    <3>3. subscriptions[c.subscription].grants
      BY <2>2, <2>4 DEF Entitled
    <3> QED BY <3>2, <3>3
  <2>5. ASSUME latest # {}, \A e \in latest : e.grants PROVE Entitled
    <3>1. PICK e \in latest : subscriptions[c.subscription] = StateOf(e)
      BY <1>1, <2>3, <2>5 DEF StripeInv, StateFollows, Newest
    <3>2. (subscriptions[c.subscription].grants = e.grants)
      BY <3>1, Fields
    <3>3. Known(c.subscription)
      BY <3>1, StatesAreKnown DEF Known
    <3> QED BY <3>2, <3>3, <2>2, <2>5, <1>1 DEF Entitled, StripeInv, OneCustomer
  <2> QED BY <2>4, <2>5
<1> QED BY <1>2, <1>3, <1>4 DEF EntitlementFollowsStripe

\* However the events of Stripe arrive, access follows the newest of those accepted: the state
\* of every subscription and the selection of the account move forward only, and the selected
\* subscription is of the customer of the account (billing.ts, the webhook).
THEOREM AccessFollowsStripe == BillingSpec => []EntitlementFollowsStripe
<1>1. BillingSpec => []StripeInv
  BY StripeInitially, StripeStep, PTL DEF BillingSpec
<1> QED BY <1>1, StripeInvFollows, PTL

-----------------------------------------------------------------------------
Passes ==
  [step : {"idle", "record", "flush"}, left : SUBSET Operations]
    \cup [step : {"skip"}, left : SUBSET Operations, on : Audit]
    \cup [step : {"meter", "mark"}, left : SUBSET Operations, on : Metered, flush : BOOLEAN]
\* What an operation is to the worker that has it in hand.
PassGrounded(w) ==
  /\ pass[w].left \subseteq occurred
  /\ At(w, "flush") => \A o \in pass[w].left : ledger[o] # "none"
  /\ At(w, "skip") => pass[w].on \in occurred
  /\ At(w, "meter") \/ At(w, "mark") => ledger[pass[w].on] \in {"pending", "sent"}
  /\ At(w, "mark") => <<pass[w].on>> \in meters
  /\ At(w, "meter") \/ At(w, "mark") => \A o \in pass[w].left : pass[w].flush => ledger[o] # "none"
\* A row that Stripe counted has the meter of its operation, and no other.
LedgerRow(o) ==
  /\ ledger[o] # "none" => o \in occurred
  /\ o \in Audit => <<o>> \notin meters
  /\ ledger[o] = "skipped" => o \in Audit
  /\ ledger[o] = "sent" => <<o>> \in meters
  /\ <<o>> \in meters => ledger[o] \in {"pending", "sent"}
UsageInv ==
  /\ pass \in [Worker -> Passes]
  /\ ledger \in [Operations -> {"none", "pending", "sent", "skipped"}]
  /\ occurred \subseteq Operations
  /\ meters \subseteq {<<o>> : o \in Operations}
  /\ \A o \in Operations : LedgerRow(o)
  /\ \A w \in Worker : PassGrounded(w)

LEMMA UsageInitially == BillingInit => UsageInv
<1>1. SUFFICES ASSUME BillingInit PROVE UsageInv
  OBVIOUS
<1>2. IdleWorker \in Passes
  BY DEF IdleWorker, Passes
<1>3. \A w \in Worker : pass[w].step = "idle" /\ pass[w].left = {}
  BY <1>1 DEF BillingInit, IdleWorker
<1>4. \A w \in Worker : PassGrounded(w)
  BY <1>3 DEF PassGrounded, At
<1>5. \A o \in Operations : LedgerRow(o)
  BY <1>1 DEF BillingInit, LedgerRow
<1> QED BY <1>1, <1>2, <1>4, <1>5 DEF BillingInit, UsageInv

\* A step of one worker that touches at most the operation it has in hand.
LEMMA WorkerMoves ==
  ASSUME UsageInv, NEW w \in Worker, NEW p \in Passes,
         pass' = [pass EXCEPT ![w] = p], occurred' = occurred,
         ledger' \in [Operations -> {"none", "pending", "sent", "skipped"}],
         meters \subseteq meters', meters' \subseteq {<<o>> : o \in Operations},
         \A o \in Operations : LedgerRow(o)',
         \A o \in Operations : ledger[o] # "none" => ledger'[o] # "none",
         \A o \in Metered : ledger[o] \in {"pending", "sent"} => ledger'[o] \in {"pending", "sent"},
         p.left \subseteq occurred,
         p.step = "skip" => p.on \in occurred,
         p.step = "flush" => \A o \in p.left : ledger'[o] # "none",
         p.step \in {"meter", "mark"} =>
           /\ ledger'[p.on] \in {"pending", "sent"}
           /\ \A o \in p.left : p.flush => ledger'[o] # "none",
         p.step = "mark" => <<p.on>> \in meters'
  PROVE  UsageInv'
<1>1. pass' \in [Worker -> Passes] /\ (pass'[w] = p) /\ \A v \in Worker \ {w} : pass'[v] = pass[v]
  BY DEF UsageInv
<1>2. PassGrounded(w)'
  BY <1>1 DEF PassGrounded, At
<1>3. ASSUME NEW v \in Worker \ {w} PROVE PassGrounded(v)'
  <2>1. pass'[v] = pass[v] /\ PassGrounded(v) /\ pass[v] \in Passes
    BY <1>1, <1>3 DEF UsageInv
  <2>2. pass[v].left \subseteq Operations
    BY <2>1 DEF Passes
  <2>3. At(v, "meter") \/ At(v, "mark") => pass[v].on \in Metered
    BY <2>1 DEF Passes, At
  <2>4. At(v, "meter") \/ At(v, "mark") => ledger'[pass[v].on] \in {"pending", "sent"}
    BY <2>1, <2>3 DEF PassGrounded
  <2>5. At(v, "flush") => \A o \in pass[v].left : ledger'[o] # "none"
    BY <2>1, <2>2 DEF PassGrounded
  <2>6. At(v, "meter") \/ At(v, "mark") => \A o \in pass[v].left : pass[v].flush => ledger'[o] # "none"
    BY <2>1, <2>2 DEF PassGrounded
  <2>7. At(v, "mark") => <<pass[v].on>> \in meters'
    BY <2>1 DEF PassGrounded
  <2>8. pass[v].left \subseteq occurred' /\ (At(v, "skip") => pass[v].on \in occurred')
    BY <2>1 DEF PassGrounded
  <2> QED BY <2>1, <2>4, <2>5, <2>6, <2>7, <2>8 DEF PassGrounded, At
<1> QED BY <1>1, <1>2, <1>3 DEF UsageInv

LEMMA WorkerStays ==
  ASSUME UsageInv, NEW w \in Worker, NEW p \in Passes,
         pass' = [pass EXCEPT ![w] = p], UNCHANGED <<occurred, ledger, meters>>,
         p.left \subseteq occurred,
         p.step = "skip" => p.on \in occurred,
         p.step = "flush" => \A o \in p.left : ledger[o] # "none",
         p.step \in {"meter", "mark"} =>
           /\ ledger[p.on] \in {"pending", "sent"}
           /\ \A o \in p.left : p.flush => ledger[o] # "none",
         p.step = "mark" => <<p.on>> \in meters
  PROVE  UsageInv'
<1>1. \A o \in Operations : LedgerRow(o)'
  BY DEF UsageInv, LedgerRow
<1>2. Metered \subseteq Operations
  BY DEF Operations
<1> QED BY <1>1, <1>2, WorkerMoves DEF UsageInv

LEMMA PassRecords ==
  ASSUME NEW L \in SUBSET Operations
  PROVE  /\ \A st \in {"idle", "record", "flush"} :
              [step |-> st, left |-> L] \in Passes
         /\ \A o \in Audit : [step |-> "skip", left |-> L, on |-> o] \in Passes
         /\ \A o \in Metered, f \in BOOLEAN :
              [step |-> "meter", left |-> L, on |-> o, flush |-> f] \in Passes
  BY DEF Passes

LEMMA Goings ==
  ASSUME UsageInv, NEW w \in Worker
  PROVE  /\ pass[w] \in Passes /\ pass[w].left \in SUBSET Operations
         /\ At(w, "skip") => pass[w].on \in Audit
         /\ At(w, "meter") \/ At(w, "mark") => pass[w].on \in Metered /\ pass[w].flush \in BOOLEAN
         /\ IdleWorker \in Passes
<1>1. pass[w] \in Passes
  BY DEF UsageInv
<1>2. pass[w].left \in SUBSET Operations
  BY <1>1 DEF Passes
<1>3. At(w, "skip") => pass[w].on \in Audit
  BY <1>1 DEF Passes, At
<1>4. At(w, "meter") \/ At(w, "mark") => pass[w].on \in Metered /\ pass[w].flush \in BOOLEAN
  BY <1>1 DEF Passes, At
<1>5. IdleWorker \in Passes
  BY DEF Passes, IdleWorker
<1> QED BY <1>1, <1>2, <1>3, <1>4, <1>5

LEMMA IdleKeeps ==
  ASSUME UsageInv, NEW w \in Worker, Goes(w, IdleWorker), UNCHANGED <<occurred, ledger, meters>>
  PROVE  UsageInv'
<1>1. IdleWorker.step = "idle" /\ IdleWorker.left = {} /\ IdleWorker \in Passes
  BY DEF IdleWorker, Passes
<1> HIDE DEF IdleWorker
<1> QED BY <1>1, WorkerStays DEF Goes

LEMMA RecordKeeps == 
  ASSUME UsageInv, NEW w \in Worker, NEW o \in Operations, Record(w, o)
  PROVE  UsageInv'
<1> DEFINE L == pass[w].left \ {o}
           rest == [step |-> "record", left |-> L]
           skip == [step |-> "skip", left |-> L, on |-> o]
           meter == [step |-> "meter", left |-> L, on |-> o, flush |-> FALSE]
<1>1. L \in SUBSET Operations /\ L \subseteq occurred /\ o \in occurred
  BY Goings DEF Record, UsageInv, PassGrounded
<1>2. rest \in Passes /\ rest.step = "record" /\ rest.left = L
  BY <1>1, PassRecords
<1>3. o \in Audit => skip \in Passes /\ skip.step = "skip" /\ skip.left = L /\ skip.on = o
  BY <1>1, PassRecords
<1>4. o \in Metered => /\ meter \in Passes /\ meter.step = "meter" /\ meter.left = L
                        /\ meter.on = o /\ (meter.flush <=> FALSE)
  BY <1>1, PassRecords
<1>5. CASE ledger[o] # "none"
  <2>1. pass' = [pass EXCEPT ![w] = rest] /\ UNCHANGED <<occurred, ledger, meters>>
    BY <1>5 DEF Record, Goes
  <2> HIDE DEF L, rest
  <2> QED BY <2>1, <1>1, <1>2, WorkerStays
<1>6. CASE ledger[o] = "none"
  <2>1. /\ ledger' = [ledger EXCEPT ![o] = "pending"] /\ occurred' = occurred /\ meters' = meters
        /\ \/ o \in Audit /\ pass' = [pass EXCEPT ![w] = skip]
           \/ o \in Metered /\ account = NoAccount /\ pass' = [pass EXCEPT ![w] = rest]
           \/ o \in Metered /\ account # NoAccount /\ pass' = [pass EXCEPT ![w] = meter]
    <3>1. CASE o \in Audit
      BY <3>1, <1>6 DEF Record, Goes
    <3>2. CASE o \in Metered
      <4>1. o \notin Audit
        BY <3>2, Categories
      <4> QED BY <3>2, <4>1, <1>6 DEF Record, Goes
    <3> QED BY <3>1, <3>2 DEF Operations
  <2>2. /\ ledger' \in [Operations -> {"none", "pending", "sent", "skipped"}]
        /\ ledger'[o] = "pending" /\ \A q \in Operations \ {o} : ledger'[q] = ledger[q]
    BY <2>1 DEF UsageInv
  <2>3. \A q \in Operations : LedgerRow(q)'
    <3>1. ASSUME NEW q \in Operations \ {o} PROVE LedgerRow(q)'
      BY <3>1, <2>1, <2>2 DEF UsageInv, LedgerRow
    <3>2. LedgerRow(o)'
      BY <1>1, <2>1, <2>2 DEF UsageInv, LedgerRow
    <3> QED BY <3>1, <3>2
  <2>4. /\ meters \subseteq meters' /\ meters' \subseteq {<<q>> : q \in Operations}
        /\ \A q \in Operations : ledger[q] # "none" => ledger'[q] # "none"
        /\ \A q \in Metered : ledger[q] \in {"pending", "sent"} => ledger'[q] \in {"pending", "sent"}
    BY <2>1, <2>2 DEF UsageInv, Operations
  <2> HIDE DEF L, rest, skip, meter
  <2>5. CASE o \in Audit /\ pass' = [pass EXCEPT ![w] = skip]
    BY ZenonT(30), <2>5, <2>1, <2>2, <2>3, <2>4, <1>1, <1>3, WorkerMoves
  <2>6. CASE pass' = [pass EXCEPT ![w] = rest]
    BY <2>6, <2>1, <2>2, <2>3, <2>4, <1>1, <1>2, WorkerMoves
  <2>7. CASE o \in Metered /\ pass' = [pass EXCEPT ![w] = meter]
    BY <2>7, <2>1, <2>2, <2>3, <2>4, <1>1, <1>4, WorkerMoves
  <2> QED BY <2>1, <2>5, <2>6, <2>7
<1> QED BY <1>5, <1>6

LEMMA SkipKeeps ==
  ASSUME UsageInv, NEW w \in Worker, Skip(w), NEW o, o = pass[w].on
  PROVE  UsageInv'
<1> DEFINE L == pass[w].left
           rest == [step |-> "record", left |-> L]
<1>1. o \in Audit /\ o \in Operations /\ L \in SUBSET Operations /\ L \subseteq occurred
  BY Goings DEF Skip, Operations, UsageInv, PassGrounded
<1>2. rest \in Passes /\ rest.step = "record" /\ rest.left = L
  BY <1>1, PassRecords
<1>3. /\ ledger' = [ledger EXCEPT ![o] = "skipped"] /\ occurred' = occurred /\ meters' = meters
      /\ pass' = [pass EXCEPT ![w] = rest]
  BY DEF Skip, Goes
<1>4. /\ ledger' \in [Operations -> {"none", "pending", "sent", "skipped"}]
      /\ ledger'[o] = "skipped" /\ \A q \in Operations \ {o} : ledger'[q] = ledger[q]
  BY <1>1, <1>3 DEF UsageInv
<1>5. o \notin Metered
  BY <1>1, Categories
<1>6. \A q \in Operations : LedgerRow(q)'
  <2>1. ASSUME NEW q \in Operations \ {o} PROVE LedgerRow(q)'
    BY <1>3, <1>4 DEF UsageInv, LedgerRow
  <2>2. o \in occurred
    BY DEF Skip, UsageInv, PassGrounded
  <2>3. LedgerRow(o)'
    BY <1>1, <1>3, <1>4, <2>2 DEF UsageInv, LedgerRow
  <2> QED BY <2>1, <2>3
<1> HIDE DEF L, rest
<1> QED BY ZenonT(30), <1>1, <1>2, <1>3, <1>4, <1>5, <1>6, WorkerMoves DEF UsageInv, Operations

LEMMA FlushStarts ==
  ASSUME UsageInv, NEW w \in Worker, StartFlush(w)
  PROVE  UsageInv'
<1> DEFINE next == [step |-> "flush", left |-> Pending]
<1>1. Pending \in SUBSET Operations /\ Pending \subseteq occurred /\ \A o \in Pending : ledger[o] # "none"
  BY DEF Pending, UsageInv, LedgerRow
<1>2. next \in Passes /\ next.step = "flush" /\ next.left = Pending
  BY <1>1, PassRecords
<1>3. /\ UNCHANGED <<occurred, ledger, meters>>
      /\ Goes(w, IdleWorker) \/ pass' = [pass EXCEPT ![w] = next]
  BY DEF StartFlush, Goes
<1>4. CASE Goes(w, IdleWorker)
  BY <1>3, <1>4, IdleKeeps
<1>5. CASE pass' = [pass EXCEPT ![w] = next]
  <2> HIDE DEF next
  <2> QED BY <1>1, <1>2, <1>3, <1>5, WorkerStays
<1> QED BY <1>3, <1>4, <1>5

LEMMA PassStarts ==
  ASSUME UsageInv, NEW w \in Worker, StartPass(w)
  PROVE  UsageInv'
<1> DEFINE next == [step |-> "record", left |-> Unrecorded]
<1>1. Unrecorded \in SUBSET Operations /\ Unrecorded \subseteq occurred
  BY DEF Unrecorded, UsageInv
<1>2. next \in Passes /\ next.step = "record" /\ next.left = Unrecorded
  BY <1>1, PassRecords
<1>3. UNCHANGED <<occurred, ledger, meters>> /\ pass' = [pass EXCEPT ![w] = next]
  BY DEF StartPass, Goes
<1> HIDE DEF next
<1> QED BY <1>1, <1>2, <1>3, WorkerStays

LEMMA FlushKeeps ==
  ASSUME UsageInv, NEW w \in Worker, NEW o \in Operations, FlushNext(w, o)
  PROVE  UsageInv'
<1> DEFINE L == pass[w].left \ {o}
           next == [step |-> "meter", left |-> L, on |-> o, flush |-> TRUE]
<1>1. /\ UNCHANGED <<occurred, ledger, meters>>
      /\ \/ o \in Audit /\ Goes(w, IdleWorker)
         \/ o \notin Audit /\ pass' = [pass EXCEPT ![w] = next]
  BY DEF FlushNext, Goes
<1>2. CASE Goes(w, IdleWorker)
  BY <1>1, <1>2, IdleKeeps
<1>3. CASE o \notin Audit /\ pass' = [pass EXCEPT ![w] = next]
  <2>1. o \in Metered /\ o \in pass[w].left
    BY <1>3 DEF Operations, FlushNext, Oldest
  <2>2. L \in SUBSET Operations /\ L \subseteq occurred /\ \A q \in pass[w].left : ledger[q] # "none"
    BY Goings DEF UsageInv, PassGrounded, FlushNext
  <2>3. ledger[o] \in {"pending", "sent"}
    <3>1. ledger[o] # "none" /\ ledger[o] # "skipped"
      BY <2>1, <2>2, <1>3 DEF UsageInv, LedgerRow
    <3> QED BY <3>1 DEF UsageInv
  <2>4. /\ next \in Passes /\ next.step = "meter" /\ next.left = L /\ next.on = o
    BY <2>1, <2>2, PassRecords
  <2>5. L \subseteq pass[w].left
    OBVIOUS
  <2> HIDE DEF L, next
  <2> QED BY <1>1, <1>3, <2>2, <2>3, <2>4, <2>5, WorkerStays
<1> QED BY <1>1, <1>2, <1>3

\* What a worker in hand of an operation goes on with after its meter.
LEMMA AfterMeter ==
  ASSUME UsageInv, NEW w \in Worker, At(w, "meter") \/ At(w, "mark"),
         NEW st \in {"flush", "record"}, (st = "flush") => pass[w].flush
  PROVE  LET next == [step |-> st, left |-> pass[w].left] IN
         /\ next \in Passes /\ next.step = st /\ next.left = pass[w].left
         /\ next.left \subseteq occurred
         /\ st = "flush" => \A o \in next.left : ledger[o] # "none"
  BY Goings, PassRecords DEF UsageInv, PassGrounded

LEMMA CountedMeters ==
  ASSUME UsageInv, NEW w \in Worker, At(w, "meter"), ledger' = ledger, occurred' = occurred,
         meters' = meters \/ meters' = meters \cup {Identifier(w)}
  PROVE  /\ meters \subseteq meters' /\ meters' \subseteq {<<q>> : q \in Operations}
         /\ \A q \in Operations : LedgerRow(q)'
<1>1. pass[w].on \in Metered /\ pass[w].on \in Operations /\ pass[w].on \notin Audit
  BY Goings, Categories DEF Operations
<1>2. ledger[pass[w].on] \in {"pending", "sent"}
  BY DEF UsageInv, PassGrounded
<1>3. meters \subseteq meters' /\ meters' \subseteq {<<q>> : q \in Operations}
  BY <1>1 DEF UsageInv, Identifier
<1>4. ASSUME NEW q \in Operations PROVE LedgerRow(q)'
  <2>1. LedgerRow(q)
    BY DEF UsageInv
  <2>2. <<q>> \in meters' => <<q>> \in meters \/ q = pass[w].on
    BY DEF Identifier
  <2> QED BY <2>1, <2>2, <1>1, <1>2, <1>3 DEF LedgerRow
<1> QED BY <1>3, <1>4

LEMMA MeterKeeps ==
  ASSUME UsageInv, NEW w \in Worker, Meter(w)
  PROVE  UsageInv'
<1> DEFINE next == [pass[w] EXCEPT !.step = "mark"]
<1>1. /\ UNCHANGED <<occurred, ledger>> /\ meters' = meters \cup {Identifier(w)}
      /\ pass' = [pass EXCEPT ![w] = next] /\ At(w, "meter")
  BY DEF Meter, Goes
<1>2. /\ next \in Passes /\ next.step = "mark" /\ next.left = pass[w].left
      /\ next.on = pass[w].on /\ (next.flush <=> pass[w].flush)
  <2>1. pass[w] \in [step : {"meter", "mark"}, left : SUBSET Operations, on : Metered, flush : BOOLEAN]
    BY <1>1, Goings DEF Passes, At
  <2> QED BY <2>1 DEF Passes
<1>3. <<next.on>> \in meters'
  BY <1>1, <1>2 DEF Identifier
<1>4. /\ next.left \subseteq occurred /\ ledger'[next.on] \in {"pending", "sent"}
      /\ \A o \in next.left : next.flush => ledger'[o] # "none"
  BY <1>1, <1>2 DEF UsageInv, PassGrounded
<1>5. /\ meters \subseteq meters' /\ meters' \subseteq {<<q>> : q \in Operations}
      /\ \A q \in Operations : LedgerRow(q)'
  BY <1>1, CountedMeters
<1>6. ledger' \in [Operations -> {"none", "pending", "sent", "skipped"}]
  BY <1>1 DEF UsageInv
<1> HIDE DEF next
<1> QED BY <1>1, <1>2, <1>3, <1>4, <1>5, <1>6, WorkerMoves

LEMMA InterruptedKeeps ==
  ASSUME UsageInv, NEW w \in Worker, At(w, "meter") \/ At(w, "mark"), Goes(w, Interrupted(w)),
         UNCHANGED <<occurred, ledger>>, meters \subseteq meters',
         meters' \subseteq {<<q>> : q \in Operations}, \A q \in Operations : LedgerRow(q)'
  PROVE  UsageInv'
<1> DEFINE next == Interrupted(w)
<1>1. next \in Passes /\ next.left \subseteq occurred /\ next.step \in {"idle", "record"}
  <2>1. CASE pass[w].flush
    BY <2>1, Goings DEF Interrupted, IdleWorker
  <2>2. CASE ~pass[w].flush
    <3>1. next = [step |-> "record", left |-> pass[w].left]
      BY <2>2 DEF Interrupted
    <3>2. next \in Passes
      BY <3>1, Goings, PassRecords
    <3>3. next.left = pass[w].left /\ next.step = "record"
      BY <3>1
    <3> QED BY <3>2, <3>3 DEF UsageInv, PassGrounded
  <2> QED BY <2>1, <2>2
<1>2. pass' = [pass EXCEPT ![w] = next]
  BY DEF Goes
<1> HIDE DEF next
<1>3. ledger' \in [Operations -> {"none", "pending", "sent", "skipped"}]
  BY DEF UsageInv
<1> QED BY <1>1, <1>2, <1>3, WorkerMoves

LEMMA LedgerMarkKeeps ==
  ASSUME UsageInv, NEW w \in Worker, Mark(w), NEW o, o = pass[w].on
  PROVE  UsageInv'
<1> DEFINE st == IF pass[w].flush THEN "flush" ELSE "record"
           next == [step |-> st, left |-> pass[w].left]
<1>1. /\ ledger' = [ledger EXCEPT ![o] = "sent"] /\ occurred' = occurred /\ meters' = meters
      /\ pass' = [pass EXCEPT ![w] = next] /\ At(w, "mark")
  BY DEF Mark, Goes
<1>2. o \in Operations /\ <<o>> \in meters /\ ledger[o] \in {"pending", "sent"}
  BY <1>1, Goings DEF UsageInv, PassGrounded, Operations
<1>3. /\ ledger' \in [Operations -> {"none", "pending", "sent", "skipped"}]
      /\ ledger'[o] = "sent" /\ \A q \in Operations \ {o} : ledger'[q] = ledger[q]
  BY <1>1, <1>2 DEF UsageInv
<1>4. \A q \in Operations : LedgerRow(q)'
  <2>1. ASSUME NEW q \in Operations \ {o} PROVE LedgerRow(q)'
    BY <2>1, <1>1, <1>3 DEF UsageInv, LedgerRow
  <2>2. LedgerRow(o)
    BY <1>2 DEF UsageInv
  <2>3. LedgerRow(o)'
    BY <2>2, <1>1, <1>2, <1>3 DEF LedgerRow
  <2> QED BY <2>1, <2>3
<1>5. /\ next \in Passes /\ next.step = st /\ next.left = pass[w].left /\ next.left \subseteq occurred
      /\ next.step = "flush" => \A q \in next.left : ledger[q] # "none"
  BY <1>1, AfterMeter
<1>6. /\ next.step \in {"flush", "record"} /\ next.left \in SUBSET Operations
  BY <1>5, Goings
<1>7. \A q \in Operations : ledger[q] # "none" => ledger'[q] # "none"
  BY <1>3
<1>8. \A q \in Metered : ledger[q] \in {"pending", "sent"} => ledger'[q] \in {"pending", "sent"}
  BY <1>3 DEF Operations
<1>9. meters \subseteq meters' /\ meters' \subseteq {<<q>> : q \in Operations}
  BY <1>1 DEF UsageInv
<1> HIDE DEF next, st
<1> QED BY <1>1, <1>3, <1>4, <1>5, <1>6, <1>7, <1>8, <1>9, WorkerMoves

LEMMA UsageStep == UsageInv /\ [BillingNext]_billingVars => UsageInv'
<1>1. SUFFICES ASSUME UsageInv, [BillingNext]_billingVars PROVE UsageInv'
  OBVIOUS
<1>2. ASSUME UNCHANGED ledgerSide PROVE UsageInv'
  BY <1>1, <1>2 DEF ledgerSide, UsageInv, LedgerRow, PassGrounded, At
<1>3. ASSUME NEW e \in StripeEvent, Webhook(e) PROVE UsageInv'
  BY <1>2, <1>3 DEF Webhook
<1>4. ASSUME NEW o \in Operations, Occurs(o) PROVE UsageInv'
  BY <1>1, <1>4 DEF Occurs, UsageInv, LedgerRow, PassGrounded, At
<1>5. ASSUME NEW w \in Worker, UsageNext(w) PROVE UsageInv'
  <2>1. ASSUME FlushEnds(w) PROVE UsageInv'
    BY <1>1, <2>1, IdleKeeps DEF FlushEnds
  <2> QED BY <1>1, <1>5, <2>1, RecordKeeps, FlushKeeps, PassStarts, SkipKeeps, FlushStarts,
             MeterKeeps, LedgerMarkKeeps DEF UsageNext
<1>6. ASSUME NEW w \in Worker, MarkFails(w) PROVE UsageInv'
  <2>1. \A q \in Operations : LedgerRow(q)'
    BY <1>1, <1>6 DEF MarkFails, UsageInv, LedgerRow
  <2> QED BY <1>1, <1>6, <2>1, InterruptedKeeps DEF MarkFails, UsageInv
<1>7. ASSUME NEW w \in Worker, WorkerStops(w) PROVE UsageInv'
  BY <1>1, <1>7, IdleKeeps DEF WorkerStops
<1>8. ASSUME NEW w \in Worker, NEW b \in BOOLEAN, MeterFails(w, b) PROVE UsageInv'
  <2>1. /\ meters \subseteq meters' /\ meters' \subseteq {<<q>> : q \in Operations}
        /\ \A q \in Operations : LedgerRow(q)'
    BY <1>1, <1>8, CountedMeters DEF MeterFails
  <2> QED BY <1>1, <1>8, <2>1, InterruptedKeeps DEF MeterFails
<1>9. CASE UNCHANGED billingVars
  BY <1>2, <1>9 DEF billingVars, ledgerSide
<1> QED BY <1>1, <1>3, <1>4, <1>5, <1>6, <1>7, <1>8, <1>9 DEF BillingNext

LEMMA UsageInvCounts == UsageInv => UsageCountsOnce
<1>1. SUFFICES ASSUME UsageInv PROVE UsageCountsOnce
  OBVIOUS
<1>2. \A m \in meters : m = <<m[1]>> /\ m[1] \in Operations
  BY <1>1 DEF UsageInv
<1>3. \A m \in meters : m[1] \in occurred
  BY <1>1, <1>2 DEF UsageInv, LedgerRow
<1>4. ASSUME NEW o \in Operations
      PROVE LET counted == {m \in meters : m[1] = o} IN
            /\ Cardinality(counted) <= (IF o \in Audit THEN 0 ELSE 1)
            /\ ledger[o] = "sent" => counted # {}
            /\ counted # {} => ledger[o] \in {"pending", "sent"}
  <2> DEFINE counted == {m \in meters : m[1] = o}
  <2>1. LedgerRow(o)
    BY <1>1 DEF UsageInv
  <2>2. CASE <<o>> \in meters
    <3>1. counted = {<<o>>}
      BY <1>2, <2>2
    <3>2. Cardinality(counted) = 1
      BY <3>1, FS_Singleton
    <3> QED BY <2>1, <2>2, <3>1, <3>2 DEF LedgerRow
  <2>3. CASE <<o>> \notin meters
    <3>1. counted = {}
      BY <1>2, <2>3
    <3>2. Cardinality(counted) = 0
      BY <3>1, FS_EmptySet
    <3> QED BY <2>1, <2>3, <3>1, <3>2 DEF LedgerRow
  <2> QED BY <2>2, <2>3
<1> QED BY <1>3, <1>4 DEF UsageCountsOnce

\* Stripe counts an operation once and an audit event never, whichever workers report it: the
\* identifier of a meter event is the operation's, and a row that says 'sent' was counted.
THEOREM UsageIsCountedOnce == BillingSpec => []UsageCountsOnce
<1>1. BillingSpec => []UsageInv
  BY UsageInitially, UsageStep, PTL DEF BillingSpec
<1> QED BY <1>1, UsageInvCounts, PTL

-----------------------------------------------------------------------------
\* The memory of a machine.

\* The least-number principle, from the well-foundedness of < on Nat.
LEMMA Smallest ==
  ASSUME NEW S \in SUBSET Nat, S # {}
  PROVE  \E i \in S : \A j \in S : i <= j
<1> DEFINE R == OpToRel(<, Nat)
<1>1. IsWellFoundedOn(R, Nat)
  BY NatLessThanWellFounded
<1>2. \A i, j \in Nat : i < j => <<i, j>> \in R
  BY DEF OpToRel
<1> HIDE DEF R
<1>3. PICK i \in S : \A j \in S : <<j, i>> \notin R
  BY <1>1, WFMin
<1>4. \A j \in S : ~(j < i) /\ j \in Nat /\ i \in Nat
  BY <1>2, <1>3
<1> QED BY <1>3, <1>4

\* A finite set of numbers has a greatest element: one with the fewest above it.
LEMMA Greatest ==
  ASSUME NEW S \in SUBSET Nat, IsFiniteSet(S), S # {}
  PROVE  \E i \in S : \A j \in S : j <= i
<1> DEFINE Above(i) == {j \in S : i < j}
           Sizes == {Cardinality(Above(i)) : i \in S}
<1>1. \A i \in S : IsFiniteSet(Above(i)) /\ Cardinality(Above(i)) \in Nat
  BY FS_Subset, FS_CardinalityType
<1>2. Sizes \in SUBSET Nat /\ Sizes # {}
  BY <1>1
<1>3. \E n \in Sizes : \A m \in Sizes : n <= m
  <2> HIDE DEF Sizes
  <2> QED BY <1>2, Smallest
<1>4. PICK i \in S : \A j \in S : Cardinality(Above(i)) <= Cardinality(Above(j))
  BY <1>3
<1>5. ASSUME NEW j \in S, i < j PROVE FALSE
  <2>1. Above(j) \subseteq Above(i) \ {j} /\ j \in Above(i)
    <3>1. \A k \in S : j < k => i < k /\ k # j
      BY <1>4, <1>5
    <3> QED BY <3>1, <1>5
  <2>2. Cardinality(Above(i) \ {j}) = Cardinality(Above(i)) - 1 /\ IsFiniteSet(Above(i) \ {j})
    BY <1>1, <2>1, FS_RemoveElement
  <2>3. Cardinality(Above(j)) <= Cardinality(Above(i) \ {j})
    BY <2>1, <2>2, FS_Subset
  <2> HIDE DEF Above
  <2> QED BY <1>1, <1>4, <2>2, <2>3
<1> QED BY <1>5

\* First(S, n) is a beginning of S, all of it or n of its elements.
LEMMA FirstIs ==
  ASSUME NEW S \in SUBSET Nat, IsFiniteSet(S), NEW n \in Nat \ {0}
  PROVE  /\ First(S, n) \subseteq S /\ IsFiniteSet(First(S, n))
         /\ \A i \in First(S, n), j \in S : j <= i => j \in First(S, n)
         /\ First(S, n) = S \/ Cardinality(First(S, n)) = n
         /\ Cardinality(First(S, n)) \in 0..n
<1> DEFINE B == First(S, n)
           Below(i) == {j \in S : j < i}
<1>1. B \subseteq S /\ IsFiniteSet(B) /\ Cardinality(B) \in Nat
  BY FS_Subset, FS_CardinalityType DEF First
<1>2. \A i \in S : IsFiniteSet(Below(i)) /\ Cardinality(Below(i)) \in Nat /\ Below(i) \subseteq S
  BY FS_Subset, FS_CardinalityType
<1>3. \A i \in S : i \in B <=> Cardinality(Below(i)) < n
  BY DEF First
<1>4. ASSUME NEW i \in B, NEW j \in S, j <= i PROVE j \in B
  <2>1. Below(j) \subseteq Below(i)
    <3>1. i \in Nat /\ j \in Nat /\ \A k \in S : k \in Nat
      BY <1>1
    <3>2. \A k \in S : k < j => k < i
      BY <3>1, <1>4
    <3> QED BY <3>2
  <2>2. Cardinality(Below(j)) <= Cardinality(Below(i))
    BY <1>1, <1>2, <2>1, FS_Subset
  <2> HIDE DEF B, Below
  <2> QED BY <1>1, <1>2, <1>3, <2>2
<1>5. ASSUME B # S PROVE Cardinality(B) >= n
  <2>1. PICK i \in S \ B : \A j \in S \ B : i <= j
    <3>1. S \ B \in SUBSET Nat /\ S \ B # {}
      BY <1>1, <1>5
    <3> HIDE DEF B
    <3> QED BY <3>1, Smallest
  <2>2. Below(i) \subseteq B
    <3>1. \A j \in S : j < i => j \in B
      BY <2>1
    <3> QED BY <3>1
  <2>3. Cardinality(Below(i)) <= Cardinality(B)
    BY <2>2, <1>1, FS_Subset
  <2> HIDE DEF B, Below
  <2> QED BY <1>1, <1>2, <1>3, <2>1, <2>3
<1>6. Cardinality(B) <= n
  <2>1. CASE B = {}
    BY <2>1, FS_EmptySet
  <2>2. CASE B # {}
    <3>1. PICK m \in B : \A j \in B : j <= m
      <4>1. B \in SUBSET Nat
        BY <1>1
      <4> HIDE DEF B
      <4> QED BY <1>1, <2>2, <4>1, Greatest
    <3>2. B \subseteq Below(m) \cup {m} /\ m \in S /\ m \notin Below(m)
      <4>1. \A j \in B : j \in Nat
        BY <1>1
      <4> HIDE DEF B
      <4>2. \A j \in B : j < m \/ j = m
        BY <3>1, <4>1
      <4>3. m \in Nat /\ ~(m < m)
        BY <3>1, <4>1
      <4> QED BY <4>2, <4>3, <3>1, <1>1
    <3>3. Cardinality(Below(m) \cup {m}) = Cardinality(Below(m)) + 1 /\ IsFiniteSet(Below(m) \cup {m})
      BY <3>2, <1>2, FS_AddElement
    <3>4. Cardinality(B) <= Cardinality(Below(m) \cup {m})
      BY <3>2, <3>3, FS_Subset
    <3> HIDE DEF B, Below
    <3> QED BY <1>1, <1>2, <1>3, <3>1, <3>2, <3>3, <3>4
  <2> QED BY <2>1, <2>2
<1>7. B = S \/ Cardinality(B) = n
  <2> HIDE DEF B
  <2> QED BY <1>1, <1>5, <1>6
<1>8. Cardinality(B) \in 0..n
  <2> HIDE DEF B
  <2> QED BY <1>1, <1>6
<1> QED BY <1>1, <1>4, <1>7, <1>8

\* What lies before the cursor after a batch from S has been copied: nothing of S but the batch.
LEMMA AfterIs ==
  ASSUME NEW S \in SUBSET Nat, IsFiniteSet(S), NEW n \in Nat \ {0}, NEW batch, batch = First(S, n)
  PROVE  /\ After(batch, n) \in Nat
         /\ After(batch, n) = NoCursor => batch = S
         /\ After(batch, n) # NoCursor => \A i \in S : i < After(batch, n) => i \in batch
<1>2. /\ batch \subseteq S /\ IsFiniteSet(batch)
      /\ \A i \in batch, j \in S : j <= i => j \in batch
      /\ batch = S \/ Cardinality(batch) = n
  BY FirstIs
<1>3. CASE Cardinality(batch) # n
  BY <1>2, <1>3 DEF After, NoCursor
<1>4. CASE Cardinality(batch) = n
  <2>1. batch # {}
    BY <1>4, FS_EmptySet
  <2>2. \E i \in batch : \A j \in batch : j <= i
    BY <2>1, <1>2, Greatest
  <2> DEFINE m == CHOOSE i \in batch : \A j \in batch : j <= i
  <2>3. m \in batch /\ \A j \in batch : j <= m
    BY <2>2
  <2>4. After(batch, n) = 1 + m
    BY <1>4 DEF After
  <2>5. m \in Nat
    BY <2>3, <1>2
  <2> HIDE DEF m
  <2>6. After(batch, n) \in Nat /\ After(batch, n) # NoCursor
    BY <2>4, <2>5 DEF NoCursor
  <2>7. ASSUME NEW i \in S, i < After(batch, n) PROVE i \in batch
    BY <2>3, <2>4, <2>5, <2>7, <1>2
  <2> QED BY <2>6, <2>7
<1> QED BY <1>3, <1>4

-----------------------------------------------------------------------------
RowsAreRows ==
  /\ memories = [i \in Ids |-> memories[i]]
  /\ \A i \in Ids : memories[i] = [version |-> memories[i].version, content |-> memories[i].content,
                                   kind |-> memories[i].kind, expired |-> memories[i].expired]
\* Rows that are not marked, and that an open rebuild has passed, are indexed.
Right(i) == i \notin dirty /\ (Rebuilding => i < cursor) => fts[i] = memories[i].content
IndexInv ==
  /\ RowsAreRows
  /\ template \subseteq Ids /\ cursor \in Nat
  /\ \A i \in Rows : Right(i)

\* The worker copies rows only when the marked ones have left something of the batch.
LeftInv ==
  /\ dirty \subseteq Ids
  /\ worker = [state |-> worker.state, call |-> worker.call, answer |-> worker.answer, left |-> worker.left]
  /\ worker.state = "copying" => worker.left \in 1..Batch

LEMMA IndexInitially == MemoryInit => IndexInv
  BY MemoryValues DEF MemoryInit, IndexInv, RowsAreRows, Rows, NoRow, Right, NoCursor

LEMMA RowFields ==
  ASSUME NEW v, NEW c, NEW k
  PROVE  /\ Row(v, c, k).version = v /\ Row(v, c, k).content = c
         /\ Row(v, c, k) = [version |-> Row(v, c, k).version, content |-> Row(v, c, k).content,
                            kind |-> Row(v, c, k).kind, expired |-> Row(v, c, k).expired]
         /\ NoRow.version = 0
         /\ NoRow = [version |-> NoRow.version, content |-> NoRow.content,
                     kind |-> NoRow.kind, expired |-> NoRow.expired]
  BY DEF Row, NoRow

LEMMA EnsureKeeps ==
  ASSUME IndexInv, NEW ids, EnsureIndex(ids), dirty' = dirty, template' \subseteq Ids, RowsAreRows',
         \A i \in Rows' : i \in Rows /\ memories'[i].content = memories[i].content
  PROVE  IndexInv'
<1>1. CASE UNCHANGED <<fts, cursor>>
  BY <1>1 DEF IndexInv, Right, Rebuilding
<1>2. CASE cursor' = Start
  <2>1. \A i \in Rows' : i \in Nat \ {0} /\ ~(i < cursor')
    <3>1. \A i \in Rows' : i \in Ids
      BY DEF Rows
    <3>2. \A i \in Ids : i \in Nat /\ i # 0
      BY MemoryValues
    <3>3. \A i \in Nat : i # 0 => ~(i < 1)
      OBVIOUS
    <3> QED BY <1>2, <3>1, <3>2, <3>3 DEF Start
  <2> QED BY <1>2, <2>1 DEF IndexInv, Right, Rebuilding, Start, NoCursor
<1> QED BY <1>1, <1>2 DEF EnsureIndex

\* Copying rows into the index makes them right and no other wrong.
LEMMA IndexedKeeps ==
  ASSUME IndexInv, NEW ids, fts' = Indexed(fts, ids), dirty' \subseteq dirty, dirty \ dirty' \subseteq ids,
         UNCHANGED <<memories, cursor>>, template' \subseteq Ids
  PROVE  IndexInv'
<1>1. Rows' = Rows /\ RowsAreRows' /\ Rows \subseteq Ids
  BY DEF IndexInv, Rows, RowsAreRows
<1>2. ASSUME NEW i \in Rows PROVE Right(i)'
  BY <1>1 DEF IndexInv, Right, Rebuilding, Indexed
<1> QED BY <1>1, <1>2 DEF IndexInv

LEMMA OpenKeeps == ASSUME IndexInv, Open PROVE IndexInv'
<1>1. CASE imported \/ Rows # {}
  <2>1. EnsureIndex(Rows) /\ UNCHANGED <<memories, dirty, template>>
    BY <1>1 DEF Open, files
  <2> QED BY <2>1, EnsureKeeps DEF IndexInv, RowsAreRows, Rows
<1>2. CASE ~(imported \/ Rows # {})
  <2> DEFINE batch == First(template, Batch)
  <2>1. /\ memories' = [i \in Ids |-> IF i \in template THEN Row(1, "imported", "procedure") ELSE NoRow]
        /\ fts' = [i \in Ids |-> IF i \in batch THEN "imported" ELSE "none"]
        /\ cursor' = After(batch, Batch) /\ template' = template
    BY <1>2 DEF Open
  <2>2. RowsAreRows'
    BY <2>1, RowFields DEF RowsAreRows
  <2>3. Rows' = template /\ \A i \in Rows' : memories'[i].content = "imported"
    BY <2>1, RowFields DEF IndexInv, Rows
  <2>4. template \in SUBSET Nat /\ IsFiniteSet(template)
    BY MemoryValues, FS_Subset DEF IndexInv
  <2> HIDE DEF batch
  <2>5. /\ cursor' \in Nat /\ (cursor' = NoCursor => batch = template)
        /\ cursor' # NoCursor => \A i \in template : i < cursor' => i \in batch
    BY <2>1, <2>4, AfterIs, MemoryValues DEF batch
  <2>6. ASSUME NEW i \in Rows' PROVE Right(i)'
    <3>1. (Rebuilding => i < cursor)' => i \in batch
      BY <2>3, <2>5 DEF Rebuilding
    <3>2. i \in batch => fts'[i] = "imported"
      BY <2>1, <2>3 DEF IndexInv
    <3> QED BY <2>3, <3>1, <3>2 DEF Right
  <2> QED BY <2>1, <2>2, <2>5, <2>6 DEF IndexInv
<1> QED BY <1>1, <1>2

LEMMA ChangeKeeps ==
  ASSUME IndexInv, NEW i \in Ids, NEW row,
         row = [version |-> row.version, content |-> row.content, kind |-> row.kind, expired |-> row.expired],
         memories' = [memories EXCEPT ![i] = row], dirty' = dirty \cup {i},
         UNCHANGED <<fts, cursor, template>>
  PROVE  IndexInv'
<1>1. /\ memories' = [j \in Ids |-> memories'[j]] /\ memories'[i] = row
      /\ \A j \in Ids \ {i} : memories'[j] = memories[j]
  BY DEF IndexInv, RowsAreRows
<1>2. RowsAreRows'
  BY <1>1 DEF IndexInv, RowsAreRows
<1>3. \A j \in Rows' : Right(j)'
  BY <1>1 DEF IndexInv, Right, Rebuilding, Rows
<1> QED BY <1>2, <1>3 DEF IndexInv

LEMMA MutateKeeps == ASSUME IndexInv, NEW k \in Call, Mutate(k) PROVE IndexInv'
<1>1. UNCHANGED <<fts, cursor, template>>
  BY DEF Mutate, files
<1>2. ASSUME NEW i \in Ids, NEW v, NEW c, NEW d, ChangeRow(k, i, Row(v, c, d)) PROVE IndexInv'
  <2> DEFINE row == Row(v, c, d)
  <2>1. row = [version |-> row.version, content |-> row.content, kind |-> row.kind, expired |-> row.expired]
    BY DEF Row
  <2>2. memories' = [memories EXCEPT ![i] = row] /\ dirty' = dirty \cup {i}
    BY <1>2 DEF ChangeRow, Behind
  <2> HIDE DEF row
  <2> QED BY <1>1, <2>1, <2>2, ChangeKeeps
<1>3. ASSUME NEW i \in Ids, ChangeRow(k, i, NoRow) PROVE IndexInv'
  BY <1>1, <1>3, RowFields, ChangeKeeps DEF ChangeRow, Behind
<1>4. ASSUME UNCHANGED <<memories, dirty>> PROVE IndexInv'
  BY <1>1, <1>4 DEF IndexInv, RowsAreRows, Rows, Right, Rebuilding
<1>5. Current(calls[k].payload) => calls[k].payload.id \in Ids
  BY DEF Current, Rows
<1> QED BY <1>2, <1>3, <1>4, <1>5 DEF Mutate, Replay, Refuse

LEMMA DeriveKeeps == ASSUME IndexInv, NEW outcome, Derive(outcome) PROVE IndexInv'
<1>1. UNCHANGED <<memories, template>>
  BY DEF Derive, files
<1>2. CASE fts' = Indexed(fts, {worker.answer.id}) /\ dirty' = dirty \ {worker.answer.id} /\ cursor' = cursor
  BY <1>1, <1>2, IndexedKeeps DEF IndexInv
<1>3. CASE cursor' = Start
  <2>1. \A i \in Rows' : i \in Nat \ {0} /\ ~(i < cursor')
    BY <1>3, MemoryValues DEF Rows, Start
  <2> QED BY <1>1, <1>3, <2>1 DEF IndexInv, RowsAreRows, Right, Rebuilding, Start, NoCursor
<1>4. CASE UNCHANGED <<fts, dirty, cursor>>
  BY <1>1, <1>4 DEF IndexInv, RowsAreRows, Rows, Right, Rebuilding
<1> QED BY <1>2, <1>3, <1>4 DEF Derive

LEMMA ExpireKeeps == ASSUME IndexInv, NEW i \in Ids, Expire(i) PROVE IndexInv'
<1>1. /\ memories' = [memories EXCEPT ![i].expired = TRUE]
      /\ UNCHANGED <<dirty, fts, cursor, template>>
  BY DEF Expire, files
<1>2. /\ memories' = [j \in Ids |-> memories'[j]]
      /\ memories'[i] = [memories[i] EXCEPT !.expired = TRUE]
      /\ \A j \in Ids \ {i} : memories'[j] = memories[j]
  BY <1>1 DEF IndexInv, RowsAreRows
<1>3. memories'[i] = [version |-> memories[i].version, content |-> memories[i].content,
                      kind |-> memories[i].kind, expired |-> TRUE]
  <2>1. memories[i] = [version |-> memories[i].version, content |-> memories[i].content,
                       kind |-> memories[i].kind, expired |-> memories[i].expired]
    BY DEF IndexInv, RowsAreRows
  <2> QED BY <1>2, <2>1
<1>4. RowsAreRows'
  <2>1. ASSUME NEW j \in Ids \ {i}
        PROVE (memories[j] = [version |-> memories[j].version, content |-> memories[j].content,
                             kind |-> memories[j].kind, expired |-> memories[j].expired])'
    BY <1>2 DEF IndexInv, RowsAreRows
  <2>2. (memories[i] = [version |-> memories[i].version, content |-> memories[i].content,
                        kind |-> memories[i].kind, expired |-> memories[i].expired])'
    BY <1>3
  <2> QED BY <1>2, <2>1, <2>2 DEF RowsAreRows
<1>5. \A j \in Ids : (memories'[j].version = memories[j].version) /\ (memories'[j].content = memories[j].content)
  BY <1>2, <1>3
<1>6. Rows' = Rows
  BY <1>5 DEF Rows
<1> QED BY <1>1, <1>4, <1>5, <1>6 DEF IndexInv, Right, Rebuilding, Rows

LEMMA ExpiredGo == ASSUME IndexInv, MaintainExpired PROVE IndexInv'
<1> DEFINE kept == {i \in Rows : ~memories[i].expired}
<1>1. /\ memories' = [i \in Ids |-> IF i \in kept THEN memories[i] ELSE NoRow]
      /\ EnsureIndex(kept) /\ UNCHANGED <<dirty, template>>
  BY DEF MaintainExpired, files
<1> HIDE DEF kept
<1>2. RowsAreRows'
  BY <1>1, RowFields DEF IndexInv, RowsAreRows
<1>3. \A i \in Rows' : i \in kept /\ memories'[i].content = memories[i].content
  BY <1>1, RowFields DEF Rows
<1>4. kept \subseteq Rows
  BY DEF kept
<1> QED BY <1>1, <1>2, <1>3, <1>4, EnsureKeeps DEF IndexInv

LEMMA DirtyGo == ASSUME IndexInv, MaintainDirty PROVE IndexInv'
<1>1. /\ fts' = Indexed(fts, First(dirty, Batch)) /\ dirty' = dirty \ First(dirty, Batch)
      /\ UNCHANGED <<memories, cursor, template>>
  BY DEF MaintainDirty, files
<1> QED BY <1>1, IndexedKeeps DEF IndexInv

LEMMA CursorGoes == ASSUME IndexInv, LeftInv, MaintainCursor PROVE IndexInv'
<1>1. UNCHANGED <<memories, dirty, template>>
  BY DEF MaintainCursor, files
<1>2. CASE ~Rebuilding
  BY <1>1, <1>2 DEF MaintainCursor, IndexInv, RowsAreRows, Rows, Right, Rebuilding
<1>3. CASE Rebuilding
  <2> DEFINE S == {i \in Rows : i >= cursor}
             n == worker.left
             batch == First(S, n)
  <2>1. fts' = Indexed(fts, batch) /\ cursor' = After(batch, n) /\ n \in Nat \ {0}
    BY <1>3, MemoryValues DEF MaintainCursor, Copied, LeftInv
  <2>2. S \in SUBSET Nat /\ IsFiniteSet(S)
    BY MemoryValues, FS_Subset DEF Rows
  <2> HIDE DEF batch, S, n
  <2>3. /\ cursor' \in Nat /\ (cursor' = NoCursor => batch = S)
        /\ cursor' # NoCursor => \A i \in S : i < cursor' => i \in batch
    BY <2>1, <2>2, AfterIs DEF batch
  <2>4. Rows' = Rows /\ RowsAreRows'
    BY <1>1 DEF IndexInv, Rows, RowsAreRows
  <2>5. ASSUME NEW i \in Rows PROVE Right(i)'
    <3>1. CASE i \in batch
      <4>1. i \in Ids
        BY DEF Rows
      <4> QED BY <1>1, <2>1, <3>1, <4>1 DEF Right, Indexed
    <3>2. CASE i \notin batch
      <4>1. fts'[i] = fts[i]
        BY <2>1, <3>2 DEF Indexed, Rows
      <4>2. i \in Nat /\ cursor \in Nat
        BY MemoryValues DEF Rows, IndexInv
      <4>3. (Rebuilding => i < cursor)' => i \notin S
        BY <2>3, <3>2 DEF Rebuilding
      <4>4. i \notin S => i < cursor
        BY <4>2 DEF S
      <4> QED BY <1>1, <4>1, <4>3, <4>4 DEF IndexInv, Right
    <3> QED BY <3>1, <3>2
  <2> QED BY <1>1, <2>3, <2>4, <2>5 DEF IndexInv
<1> QED BY <1>2, <1>3

LEMMA LeftInitially == MemoryInit => LeftInv
  BY DEF MemoryInit, LeftInv, Resting

LEMMA LeftStep == LeftInv /\ [MemoryNext]_memoryVars => LeftInv'
<1>1. SUFFICES ASSUME LeftInv, [MemoryNext]_memoryVars PROVE LeftInv'
  OBVIOUS
<1>2. ASSUME UNCHANGED dirty,
             \/ worker' = worker
             \/ \E st \in {"starting", "down", "derived", "indexing", "indexed", "more"} : worker' = [worker EXCEPT !.state = st]
             \/ worker' = Resting
             \/ worker' = [Resting EXCEPT !.state = "cooling"]
      PROVE  LeftInv'
  BY <1>1, <1>2 DEF LeftInv, Resting
<1>3. ASSUME NEW k \in Call, NEW o, NEW p, AskFor(k, o, p) PROVE LeftInv'
  BY <1>2, <1>3 DEF AskFor, storeVars
<1>4. ASSUME NEW k \in Call, CallTimesOut(k) PROVE LeftInv'
  BY <1>2, <1>4 DEF CallTimesOut, storeVars
<1>5. ASSUME WorkerDies \/ Cooled \/ AfterResponse PROVE LeftInv'
  BY <1>2, <1>5 DEF WorkerDies, Cooled, AfterResponse, storeVars
<1>6. ASSUME NEW k \in Call, Mutate(k) PROVE LeftInv'
  <2>1. \E a : \E st \in {"replayed", "committed"} : worker' = Has(st, k, a)
    BY <1>6 DEF Mutate, Replay, Refuse, ChangeRow
  <2>2. dirty' \subseteq Ids
    BY <1>1, <1>6 DEF Mutate, Replay, Refuse, ChangeRow, Behind, Current, Rows, LeftInv
  <2> QED BY <2>1, <2>2 DEF LeftInv, Has
<1>7. ASSUME NEW outcome, Derive(outcome) PROVE LeftInv'
  <2>1. dirty' \subseteq dirty /\ worker' = [worker EXCEPT !.state = "derived"]
    BY <1>7 DEF Derive
  <2> QED BY <1>1, <2>1 DEF LeftInv
<1>8. ASSUME Open \/ Reply \/ MaintainExpired \/ MaintainCursor \/ MaintainSnapshots PROVE LeftInv'
  BY <1>2, <1>8 DEF Open, Reply, MaintainExpired, MaintainCursor, MaintainSnapshots, storeVars
<1>9. ASSUME MaintainDirty PROVE LeftInv'
  <2> DEFINE n == Cardinality(First(dirty, Batch))
             st == IF n = Batch THEN "more" ELSE "copying"
  <2>1. /\ dirty' \subseteq dirty
        /\ worker' = [worker EXCEPT !.state = st, !.left = Batch - n]
    BY <1>9 DEF MaintainDirty
  <2>2. n \in 0..Batch /\ Batch \in Nat
    <3>1. dirty \in SUBSET Nat /\ IsFiniteSet(dirty)
      BY <1>1, MemoryValues, FS_Subset DEF LeftInv
    <3> QED BY <3>1, FirstIs, MemoryValues
  <2>3. st = "copying" => Batch - n \in 1..Batch
    <3> HIDE DEF n
    <3> QED BY <2>2
  <2> HIDE DEF st, n
  <2> QED BY <1>1, <2>1, <2>3 DEF LeftInv
<1>10. ASSUME NEW i \in Ids, Expire(i) PROVE LeftInv'
  BY <1>2, <1>10 DEF Expire
<1>11. CASE UNCHANGED memoryVars
  BY <1>2, <1>11 DEF memoryVars, storeVars
<1> QED BY <1>1, <1>3, <1>4, <1>5, <1>6, <1>7, <1>8, <1>9, <1>10, <1>11
        DEF MemoryNext, WorkerStep, RequestMutation, RetryMutation

LEMMA IndexStep == IndexInv /\ LeftInv /\ [MemoryNext]_memoryVars => IndexInv'
<1>1. SUFFICES ASSUME IndexInv, LeftInv, [MemoryNext]_memoryVars PROVE IndexInv'
  OBVIOUS
<1>2. ASSUME UNCHANGED <<memories, fts, dirty, cursor>>, template' = template \/ WriteSnapshots PROVE IndexInv'
  <2>1. template' \subseteq Ids
    BY <1>1, <1>2 DEF WriteSnapshots, IndexInv, Rows
  <2> QED BY <1>1, <1>2, <2>1 DEF IndexInv, RowsAreRows, Rows, Right, Rebuilding
<1>3. ASSUME NEW k \in Call, NEW o, NEW p, AskFor(k, o, p) PROVE IndexInv'
  BY <1>2, <1>3 DEF AskFor, storeVars, files
<1>4. ASSUME WorkerStep PROVE IndexInv'
  <2>1. ASSUME Reply \/ MaintainSnapshots PROVE IndexInv'
    BY <1>2, <2>1 DEF Reply, MaintainSnapshots, storeVars, files
  <2> QED BY <1>1, <1>4, <2>1, OpenKeeps, MutateKeeps, DeriveKeeps, ExpiredGo, DirtyGo, CursorGoes DEF WorkerStep
<1>5. ASSUME NEW k \in Call, CallTimesOut(k) PROVE IndexInv'
  BY <1>2, <1>5 DEF CallTimesOut, storeVars, files
<1>6. ASSUME WorkerDies \/ Cooled \/ AfterResponse PROVE IndexInv'
  BY <1>2, <1>6 DEF WorkerDies, Cooled, AfterResponse, storeVars, files
<1>7. CASE UNCHANGED memoryVars
  BY <1>2, <1>7 DEF memoryVars
<1>8. ASSUME NEW i \in Ids, Expire(i) PROVE IndexInv'
  BY <1>1, <1>8, ExpireKeeps
<1>9. ASSUME NEW outcome, Derive(outcome) PROVE IndexInv'
  BY <1>1, <1>9, DeriveKeeps
<1> QED BY <1>1, <1>3, <1>4, <1>5, <1>6, <1>7, <1>8, <1>9 DEF MemoryNext, RequestMutation, RetryMutation

\* Whenever a search may trust the index it holds every row with its current content: what is
\* behind is marked or lies after the cursor of an open rebuild, for batches of any size and
\* crashes between any two transactions (memory-store.ts).
THEOREM IndexIsComplete == MemorySpec => []TrustedIndexIsComplete
<1>1. IndexInv => TrustedIndexIsComplete
  BY DEF IndexInv, TrustedIndexIsComplete, IndexDirty, Right
<1> QED BY <1>1, IndexInitially, IndexStep, LeftInitially, LeftStep, PTL DEF MemorySpec

-----------------------------------------------------------------------------
Waits(k) == calls[k].state \in {"pending", "abandoned"}
Done(o) == receipts[o].answer.status = "ok"
InHand == worker.state \in {"committed", "replayed", "derived"}

RecordsAreRecords ==
  /\ calls = [k \in Call |-> calls[k]]
  /\ \A k \in Call : calls[k] = [state |-> calls[k].state, operation |-> calls[k].operation,
                                 payload |-> calls[k].payload, answer |-> calls[k].answer]
  /\ worker = [state |-> worker.state, call |-> worker.call, answer |-> worker.answer, left |-> worker.left]
  /\ receipts = [o \in Operation |-> receipts[o]] /\ applied = [o \in Operation |-> applied[o]]
CallSound(k) ==
  /\ calls[k].state = "idle" => calls[k].answer.status = "none"
  /\ calls[k].state # "idle" => calls[k].operation \in Operation
  /\ calls[k].answer.status = "ok" => calls[k].operation \in Operation /\ Done(calls[k].operation)
\* A request is in the pipe once or in the worker's hand, until the service has its answer.
Queued ==
  /\ pipe \in Seq(Call)
  /\ \A n \in 1..Len(pipe) : Waits(pipe[n])
  /\ \A n, m \in 1..Len(pipe) : pipe[n] = pipe[m] => n = m
Held ==
  InHand =>
    /\ worker.call \in Call /\ Waits(worker.call)
    /\ \A n \in 1..Len(pipe) : pipe[n] # worker.call
    /\ worker.answer.status = "ok" => Done(calls[worker.call].operation)
ActedOnce == \A o \in Operation : applied[o] = IF Done(o) THEN 1 ELSE 0
OnceInv ==
  /\ RecordsAreRecords /\ (\A k \in Call : CallSound(k)) /\ Queued /\ Held /\ ActedOnce

LEMMA CallRecords ==
  /\ \A c, s, a : /\ Answered(c, s, a).state = s /\ Answered(c, s, a).operation = c.operation
                  /\ Answered(c, s, a).answer = a
                  /\ Answered(c, s, a) = [state |-> Answered(c, s, a).state,
                                         operation |-> Answered(c, s, a).operation,
                                         payload |-> Answered(c, s, a).payload,
                                         answer |-> Answered(c, s, a).answer]
  /\ \A s, k, a : /\ Has(s, k, a).state = s /\ Has(s, k, a).call = k /\ Has(s, k, a).answer = a
                  /\ Has(s, k, a) = [state |-> Has(s, k, a).state, call |-> Has(s, k, a).call,
                                    answer |-> Has(s, k, a).answer, left |-> Has(s, k, a).left]
  BY DEF Answered, Has

LEMMA OnceInitially == MemoryInit => OnceInv
<1>1. SUFFICES ASSUME MemoryInit PROVE OnceInv
  OBVIOUS
<1>2. RecordsAreRecords
  BY <1>1 DEF MemoryInit, RecordsAreRecords, Quiet, Resting
<1>3. \A k \in Call : CallSound(k)
  BY <1>1 DEF MemoryInit, CallSound, Quiet, Answer
<1>4. Queued
  BY <1>1 DEF MemoryInit, Queued
<1>5. Held
  BY <1>1 DEF MemoryInit, Held, InHand, Resting
<1>6. ActedOnce
  BY <1>1 DEF MemoryInit, ActedOnce, Done, NoReceipt, Answer
<1> QED BY <1>2, <1>3, <1>4, <1>5, <1>6 DEF OnceInv

\* A step of the worker alone.
LEMMA WorkerBecomes ==
  ASSUME OnceInv, UNCHANGED <<calls, pipe, receipts, applied>>,
         worker' = [state |-> worker'.state, call |-> worker'.call, answer |-> worker'.answer, left |-> worker'.left],
         InHand' => InHand /\ worker'.call = worker.call /\ worker'.answer = worker.answer
  PROVE  OnceInv'
<1>3. Held'
  BY DEF OnceInv, Held, Waits, Done
<1>4. RecordsAreRecords'
  BY DEF OnceInv, RecordsAreRecords
<1>5. Queued' /\ ActedOnce' /\ \A k \in Call : CallSound(k)'
  BY DEF OnceInv, Queued, ActedOnce, CallSound, Waits, Done
<1> QED BY <1>3, <1>4, <1>5 DEF OnceInv

LEMMA WorkerGoes ==
  ASSUME OnceInv, UNCHANGED <<calls, pipe, receipts, applied>>,
         NEW st, worker' = [worker EXCEPT !.state = st] \/ worker' = Resting,
         st \in {"committed", "replayed", "derived"} => InHand
  PROVE  OnceInv'
<1>1. worker = [state |-> worker.state, call |-> worker.call, answer |-> worker.answer, left |-> worker.left]
  BY DEF OnceInv, RecordsAreRecords
<1>2. \/ worker' = Resting
      \/ worker' = [state |-> st, call |-> worker.call, answer |-> worker.answer, left |-> worker.left]
  BY <1>1
<1>3. worker' = [state |-> worker'.state, call |-> worker'.call, answer |-> worker'.answer, left |-> worker'.left]
  BY <1>2 DEF Resting
<1>4. InHand' => InHand /\ worker'.call = worker.call /\ worker'.answer = worker.answer
  BY <1>2 DEF InHand, Resting
<1> QED BY <1>3, <1>4, WorkerBecomes

\* A step of the service on one call that the worker does not have, or that stays open.
LEMMA CallMoves ==
  ASSUME OnceInv, NEW k \in Call, NEW c, calls' = [calls EXCEPT ![k] = c],
         c = [state |-> c.state, operation |-> c.operation, payload |-> c.payload, answer |-> c.answer],
         UNCHANGED <<receipts, applied>>,
         c.state # "idle" /\ c.operation \in Operation,
         c.answer.status = "ok" => Done(c.operation)
  PROVE  /\ \A j \in Call : CallSound(j)' /\ ActedOnce'
         /\ calls'[k] = c /\ \A j \in Call \ {k} : calls'[j] = calls[j]
         /\ calls' = [j \in Call |-> calls'[j]]
         /\ \A j \in Call : calls'[j] = [state |-> calls'[j].state, operation |-> calls'[j].operation,
                                         payload |-> calls'[j].payload, answer |-> calls'[j].answer]
<1>1. calls'[k] = c /\ (\A j \in Call \ {k} : calls'[j] = calls[j]) /\ calls' = [j \in Call |-> calls'[j]]
  BY DEF OnceInv, RecordsAreRecords
<1>2. CallSound(k)'
  BY <1>1 DEF CallSound, Done
<1>3. \A j \in Call \ {k} : CallSound(j)'
  BY <1>1 DEF OnceInv, CallSound, Done
<1>4. ActedOnce'
  BY DEF OnceInv, ActedOnce, Done
<1>5. ASSUME NEW j \in Call
      PROVE calls'[j] = [state |-> calls'[j].state, operation |-> calls'[j].operation,
                         payload |-> calls'[j].payload, answer |-> calls'[j].answer]
  <2>1. CASE j = k
    BY <2>1, <1>1
  <2>2. CASE j # k
    BY <2>2, <1>1 DEF OnceInv, RecordsAreRecords
  <2> QED BY <2>1, <2>2
<1> QED BY <1>1, <1>2, <1>3, <1>4, <1>5

LEMMA AskKeeps ==
  ASSUME OnceInv, NEW k \in Call, NEW o \in Operation, NEW p, AskFor(k, o, p)
  PROVE  OnceInv'
<1> DEFINE c == Asked(o, p)
<1>1. /\ c.state = "pending" /\ c.operation = o /\ c.answer.status = "none"
      /\ c = [state |-> c.state, operation |-> c.operation, payload |-> c.payload, answer |-> c.answer]
  BY DEF Asked, Answer
<1>2. /\ calls' = [calls EXCEPT ![k] = c] /\ pipe' = Append(pipe, k) /\ UNCHANGED <<receipts, applied>>
      /\ worker' = IF worker.state = "down" THEN [worker EXCEPT !.state = "starting"] ELSE worker
      /\ ~Waits(k)
  BY DEF AskFor, storeVars, Waits
<1> HIDE DEF c
<1>3. /\ \A j \in Call : CallSound(j)' /\ ActedOnce'
      /\ calls'[k] = c /\ \A j \in Call \ {k} : calls'[j] = calls[j]
      /\ calls' = [j \in Call |-> calls'[j]]
      /\ \A j \in Call : calls'[j] = [state |-> calls'[j].state, operation |-> calls'[j].operation,
                                      payload |-> calls'[j].payload, answer |-> calls'[j].answer]
  BY <1>1, <1>2, CallMoves
<1>4. worker' = [state |-> worker'.state, call |-> worker'.call, answer |-> worker'.answer, left |-> worker'.left]
      /\ worker'.call = worker.call /\ worker'.answer = worker.answer
      /\ (InHand' => InHand)
  BY <1>2 DEF OnceInv, RecordsAreRecords, InHand
<1>5. RecordsAreRecords'
  BY <1>2, <1>3, <1>4 DEF OnceInv, RecordsAreRecords
<1>6. /\ pipe' \in Seq(Call) /\ Len(pipe') = Len(pipe) + 1 /\ pipe'[Len(pipe) + 1] = k
      /\ \A n \in 1..Len(pipe) : pipe'[n] = pipe[n] /\ pipe[n] \in Call
  BY <1>2 DEF OnceInv, Queued
<1>7. Len(pipe) \in Nat
  BY DEF OnceInv, Queued
<1>8. \A n \in 1..Len(pipe) : pipe[n] # k
  BY <1>2 DEF OnceInv, Queued
<1>9. \A j \in Call : Waits(j) => Waits(j)' /\ j # k
  BY <1>2, <1>3 DEF Waits
<1>10. Waits(k)'
  BY <1>1, <1>3 DEF Waits
<1>11. \A n \in 1..Len(pipe') : n \in 1..Len(pipe) \/ n = Len(pipe) + 1
  BY <1>6, <1>7
<1>12. Queued'
  BY <1>6, <1>7, <1>8, <1>9, <1>10, <1>11 DEF OnceInv, Queued
<1>13. Held'
  <2>1. SUFFICES ASSUME InHand' PROVE Held'
    BY DEF Held
  <2>2. /\ worker.call \in Call /\ Waits(worker.call) /\ worker.call # k
        /\ \A n \in 1..Len(pipe) : pipe[n] # worker.call
        /\ worker.answer.status = "ok" => Done(calls[worker.call].operation)
    BY <2>1, <1>4, <1>9 DEF OnceInv, Held
  <2>3. calls'[worker.call] = calls[worker.call]
    BY <2>2, <1>3
  <2>4. \A n \in 1..Len(pipe') : pipe'[n] # worker.call
    BY <2>2, <1>6, <1>11
  <2>5. Waits(worker.call)'
    BY <2>2, <2>3, <1>4 DEF Waits
  <2> QED BY <2>2, <2>3, <2>4, <2>5, <1>2, <1>4 DEF Held, Done
<1> QED BY <1>3, <1>5, <1>12, <1>13 DEF OnceInv

LEMMA TimeOutKeeps == ASSUME OnceInv, NEW k \in Call, CallTimesOut(k) PROVE OnceInv'
<1> DEFINE c == Answered(calls[k], "abandoned", Unknown)
<1>1. calls[k].state = "pending"
  BY DEF CallTimesOut
<1>2. calls' = [calls EXCEPT ![k] = c]
  BY DEF CallTimesOut
<1>3. /\ c.state = "abandoned" /\ c.operation = calls[k].operation /\ c.answer = Unknown
      /\ c = [state |-> c.state, operation |-> c.operation, payload |-> c.payload, answer |-> c.answer]
  BY DEF Answered
<1>4. UNCHANGED <<receipts, applied, pipe, worker>>
  BY DEF CallTimesOut, storeVars
<1> HIDE DEF c
<1>10. c.operation \in Operation /\ c.answer.status # "ok"
  BY <1>1, <1>3 DEF OnceInv, CallSound, Unknown, Answer
<1>5. /\ \A j \in Call : CallSound(j)' /\ ActedOnce'
      /\ calls'[k] = c /\ \A j \in Call \ {k} : calls'[j] = calls[j]
      /\ calls' = [j \in Call |-> calls'[j]]
      /\ \A j \in Call : calls'[j] = [state |-> calls'[j].state, operation |-> calls'[j].operation,
                                      payload |-> calls'[j].payload, answer |-> calls'[j].answer]
  BY <1>2, <1>3, <1>4, <1>10, CallMoves
<1>6. \A j \in Call : (Waits(j)' <=> Waits(j)) /\ calls'[j].operation = calls[j].operation
  BY <1>1, <1>3, <1>5 DEF Waits
<1>7. RecordsAreRecords'
  BY <1>4, <1>5 DEF OnceInv, RecordsAreRecords
<1>8. Queued'
  BY <1>4, <1>6 DEF OnceInv, Queued
<1>9. Held'
  BY <1>4, <1>6 DEF OnceInv, Held, InHand, Done
<1> QED BY <1>5, <1>7, <1>8, <1>9 DEF OnceInv

LEMMA DeathKeeps == ASSUME OnceInv, WorkerDies PROVE OnceInv'
<1>1. /\ UNCHANGED <<receipts, applied>> /\ pipe' = << >>
      /\ calls' = [k \in Call |-> IF Waits(k) THEN Answered(calls[k], "answered", Unknown) ELSE calls[k]]
  BY DEF WorkerDies, Outstanding, storeVars, Waits
<1>2. worker' = [state |-> "cooling", call |-> "none", answer |-> Answer("none", NoId), left |-> 0]
  BY DEF WorkerDies, Resting
<1>3. \A k \in Call : \/ calls'[k] = calls[k] /\ ~Waits(k)
                      \/ calls'[k] = Answered(calls[k], "answered", Unknown) /\ Waits(k)
  BY <1>1
<1>4. ASSUME NEW k \in Call PROVE CallSound(k)'
  <2>1. CASE calls'[k] = calls[k]
    BY <1>1, <2>1 DEF OnceInv, CallSound, Done
  <2>2. CASE calls'[k] = Answered(calls[k], "answered", Unknown) /\ Waits(k)
    <3>1. /\ calls'[k].state = "answered" /\ calls'[k].operation = calls[k].operation
          /\ calls'[k].answer = Unknown
      BY <2>2, CallRecords
    <3>2. Unknown.status = "unknown"
      BY DEF Unknown, Answer
    <3> QED BY <3>1, <3>2, <2>2 DEF OnceInv, CallSound, Waits
  <2> QED BY <1>3, <2>1, <2>2
<1>5. ASSUME NEW k \in Call
      PROVE calls'[k] = [state |-> calls'[k].state, operation |-> calls'[k].operation,
                         payload |-> calls'[k].payload, answer |-> calls'[k].answer]
  <2>1. CASE calls'[k] = calls[k]
    BY <2>1 DEF OnceInv, RecordsAreRecords
  <2>2. CASE calls'[k] = Answered(calls[k], "answered", Unknown)
    BY <2>2, CallRecords
  <2> QED BY <1>3, <2>1, <2>2
<1>6. calls' = [k \in Call |-> calls'[k]]
  BY <1>1
<1>7. RecordsAreRecords'
  BY <1>1, <1>2, <1>5, <1>6 DEF OnceInv, RecordsAreRecords
<1>8. Queued'
  BY <1>1 DEF Queued
<1>9. Held'
  BY <1>2 DEF Held, InHand
<1>10. ActedOnce'
  BY <1>1 DEF OnceInv, ActedOnce, Done
<1> QED BY <1>4, <1>7, <1>8, <1>9, <1>10 DEF OnceInv

LEMMA ReplyKeeps == ASSUME OnceInv, Reply PROVE OnceInv'
<1> DEFINE k == worker.call
           a == IF calls[k].state = "pending" THEN worker.answer ELSE calls[k].answer
           c == Answered(calls[k], "answered", a)
<1>1. /\ k \in Call /\ Waits(k) /\ \A n \in 1..Len(pipe) : pipe[n] # k
      /\ worker.answer.status = "ok" => Done(calls[k].operation)
  BY DEF Reply, OnceInv, Held, InHand
<1>3. calls' = [calls EXCEPT ![k] = c]
  BY DEF Reply
<1>4. UNCHANGED <<receipts, applied, pipe>> /\ worker' = Resting
  BY DEF Reply, storeVars
<1>2. /\ c.state = "answered" /\ c.operation = calls[k].operation /\ c.answer = a
      /\ c = [state |-> c.state, operation |-> c.operation, payload |-> c.payload, answer |-> c.answer]
  BY DEF Answered
<1> HIDE DEF c
<1>5. c.answer.status = "ok" => Done(c.operation)
  BY <1>1, <1>2 DEF OnceInv, CallSound
<1>6. c.operation \in Operation
  BY <1>1, <1>2 DEF OnceInv, CallSound, Waits
<1> HIDE DEF a
<1>7. /\ \A j \in Call : CallSound(j)' /\ ActedOnce'
      /\ calls'[k] = c /\ \A j \in Call \ {k} : calls'[j] = calls[j]
      /\ calls' = [j \in Call |-> calls'[j]]
      /\ \A j \in Call : calls'[j] = [state |-> calls'[j].state, operation |-> calls'[j].operation,
                                      payload |-> calls'[j].payload, answer |-> calls'[j].answer]
  <2> HIDE DEF k
  <2> QED BY <1>1, <1>2, <1>3, <1>4, <1>5, <1>6, CallMoves
<1>8. worker' = [state |-> worker'.state, call |-> worker'.call, answer |-> worker'.answer, left |-> worker'.left] /\ worker'.state = "waiting"
  BY <1>4 DEF Resting
<1>9. RecordsAreRecords'
  BY <1>4, <1>7, <1>8 DEF OnceInv, RecordsAreRecords
<1>10. \A n \in 1..Len(pipe) : pipe[n] \in Call /\ pipe[n] # k
  BY <1>1 DEF OnceInv, Queued
<1>11. Queued'
  BY <1>4, <1>7, <1>10 DEF OnceInv, Queued, Waits
<1>12. Held'
  BY <1>8 DEF Held, InHand
<1> QED BY <1>1, <1>7, <1>9, <1>11, <1>12 DEF OnceInv

\* What the worker takes from the pipe is in its hand and nowhere else.
LEMMA TakenFromPipe ==
  ASSUME OnceInv, NEW k \in Call, Heads(k), pipe' = Tail(pipe), calls' = calls,
         worker'.call = k, UNCHANGED calls
  PROVE  /\ Queued' /\ Waits(k)' /\ \A n \in 1..Len(pipe') : pipe'[n] # k
         /\ calls[k].operation \in Operation
<1>1. pipe \in Seq(Call) /\ pipe # << >> /\ pipe[1] = k
  BY DEF OnceInv, Queued, Heads
<1>2. /\ pipe' \in Seq(Call) /\ Len(pipe) \in Nat \ {0} /\ Len(pipe') = Len(pipe) - 1
      /\ \A n \in 1..Len(pipe') : pipe'[n] = pipe[n + 1]
  BY <1>1
<1>3. \A n \in 1..Len(pipe') : n + 1 \in 1..Len(pipe) /\ n + 1 # 1 /\ n \in Nat
  BY <1>2
<1>4. 1 \in 1..Len(pipe)
  BY <1>2
<1>5. \A n \in 1..Len(pipe) : Waits(pipe[n])
  BY DEF OnceInv, Queued
<1>6. \A n, m \in 1..Len(pipe) : pipe[n] = pipe[m] => n = m
  BY DEF OnceInv, Queued
<1>7. \A n \in 1..Len(pipe') : pipe'[n] # k
  BY <1>1, <1>2, <1>3, <1>4, <1>6
<1>8. (\A n \in 1..Len(pipe) : Waits(pipe[n]))'
  BY <1>2, <1>3, <1>5 DEF Waits
<1>9. \A n, m \in 1..Len(pipe') : pipe'[n] = pipe'[m] => n = m
  BY <1>2, <1>3, <1>6
<1>10. Waits(k) /\ Waits(k)'
  BY <1>1, <1>4, <1>5 DEF Waits
<1>11. calls[k].operation \in Operation
  BY <1>10 DEF OnceInv, CallSound, Waits
<1> QED BY <1>2, <1>7, <1>8, <1>9, <1>10, <1>11 DEF Queued

LEMMA MutateOnce ==
  ASSUME OnceInv, NEW k \in Call, Mutate(k), NEW o, o = calls[k].operation
  PROVE  OnceInv'
<1>1. Heads(k) /\ pipe' = Tail(pipe) /\ UNCHANGED calls
  BY DEF Mutate
<1>2. \/ Receipted(o) /\ Replay(k)
      \/ ~Receipted(o) /\ Refuse(k)
      \/ ~Receipted(o) /\ \E i, row : ChangeRow(k, i, row)
  BY DEF Mutate
<1>3. worker'.call = k /\ worker' = [state |-> worker'.state, call |-> worker'.call, answer |-> worker'.answer, left |-> worker'.left]
  <2>1. PICK s, a : worker' = Has(s, k, a)
    BY <1>2 DEF Replay, Refuse, ChangeRow
  <2> QED BY <2>1, CallRecords
<1>4. /\ Queued' /\ Waits(k)' /\ \A n \in 1..Len(pipe') : pipe'[n] # k
      /\ o \in Operation
  BY <1>1, <1>3, TakenFromPipe
<1>5. ASSUME \A q \in Operation : Done(q) => Done(q)',
             receipts' = [q \in Operation |-> receipts'[q]], applied' = [q \in Operation |-> applied'[q]],
             ActedOnce', worker'.answer.status = "ok" => Done(o)'
      PROVE  OnceInv'
  <2>1. RecordsAreRecords'
    BY <1>1, <1>3, <1>5 DEF OnceInv, RecordsAreRecords
  <2>2. \A j \in Call : CallSound(j)'
    BY <1>1, <1>5 DEF OnceInv, CallSound
  <2>3. Held'
    BY <1>1, <1>3, <1>4, <1>5 DEF Held
  <2> QED BY <1>4, <1>5, <2>1, <2>2, <2>3 DEF OnceInv
<1>6. CASE Receipted(o) /\ Replay(k)
  <2>1. receipts' = receipts /\ applied' = applied
    BY <1>6 DEF Replay
  <2>2. worker'.answer = receipts[o].answer \/ worker'.answer = Answer("conflict", NoId)
    BY <1>6 DEF Replay, Has
  <2>3. worker'.answer.status = "ok" => Done(o)
    BY <2>2 DEF Done, Answer
  <2>4. ActedOnce' /\ \A q \in Operation : Done(q)' <=> Done(q)
    BY <2>1 DEF OnceInv, ActedOnce, Done
  <2> QED BY <1>4, <1>5, <2>1, <2>3, <2>4 DEF OnceInv, RecordsAreRecords
<1>7. CASE ~Receipted(o) /\ Refuse(k)
  <2> DEFINE r == [payload |-> calls[k].payload, answer |-> Answer("conflict", NoId)]
  <2>1. receipts' = [receipts EXCEPT ![o] = r] /\ applied' = applied
    BY <1>7 DEF Refuse
  <2>2. worker'.answer = Answer("conflict", NoId)
    BY <1>7 DEF Refuse, Has
  <2>3. r.answer.status # "ok" /\ worker'.answer.status # "ok" /\ ~Done(o)
    BY <1>7, <2>2 DEF Answer, Receipted, Done
  <2> HIDE DEF r
  <2>4. /\ receipts' = [q \in Operation |-> receipts'[q]] /\ receipts'[o] = r
        /\ \A q \in Operation \ {o} : receipts'[q] = receipts[q]
    BY <1>4, <2>1 DEF OnceInv, RecordsAreRecords
  <2>5. \A q \in Operation : Done(q)' <=> Done(q)
    BY <2>3, <2>4 DEF Done
  <2>6. ActedOnce'
    BY <2>1, <2>5 DEF OnceInv, ActedOnce
  <2> QED BY <1>5, <2>1, <2>3, <2>4, <2>5, <2>6 DEF OnceInv, RecordsAreRecords
<1>8. CASE ~Receipted(o) /\ \E i, row : ChangeRow(k, i, row)
  <2>1. PICK i, row : ChangeRow(k, i, row)
    BY <1>8
  <2> DEFINE r == [payload |-> calls[k].payload, answer |-> Answer("ok", i)]
  <2>2. receipts' = [receipts EXCEPT ![o] = r] /\ applied' = [applied EXCEPT ![o] = @ + 1]
    BY <2>1 DEF ChangeRow
  <2>3. r.answer.status = "ok" /\ ~Done(o)
    BY <1>8 DEF Answer, Receipted, Done
  <2> HIDE DEF r
  <2>4. /\ receipts' = [q \in Operation |-> receipts'[q]] /\ receipts'[o] = r
        /\ \A q \in Operation \ {o} : receipts'[q] = receipts[q]
    BY <1>4, <2>2 DEF OnceInv, RecordsAreRecords
  <2>5. /\ applied' = [q \in Operation |-> applied'[q]] /\ applied'[o] = applied[o] + 1
        /\ \A q \in Operation \ {o} : applied'[q] = applied[q]
    BY <1>4, <2>2 DEF OnceInv, RecordsAreRecords
  <2>6. Done(o)' /\ \A q \in Operation \ {o} : Done(q)' <=> Done(q)
    BY <2>3, <2>4 DEF Done
  <2>7. applied[o] = 0
    BY <1>4, <2>3 DEF OnceInv, ActedOnce
  <2>8. ActedOnce'
    BY <2>5, <2>6, <2>7 DEF OnceInv, ActedOnce
  <2> QED BY <1>5, <2>4, <2>5, <2>6, <2>8
<1> QED BY <1>2, <1>6, <1>7, <1>8

LEMMA OnceStep == OnceInv /\ [MemoryNext]_memoryVars => OnceInv'
<1>1. SUFFICES ASSUME OnceInv, [MemoryNext]_memoryVars PROVE OnceInv'
  OBVIOUS
<1>2. ASSUME NEW k \in Call, NEW o \in Operation, NEW p, RequestMutation(k, o, p) PROVE OnceInv'
  BY <1>1, <1>2, AskKeeps DEF RequestMutation
<1>3. ASSUME NEW k \in Call, NEW j \in Call, RetryMutation(k, j) PROVE OnceInv'
  <2>1. calls[k].answer.status # "none"
    BY <1>3 DEF RetryMutation, Unknown, Answer
  <2>2. calls[k].operation \in Operation
    BY <1>1, <2>1 DEF OnceInv, CallSound
  <2> QED BY <1>1, <1>3, <2>2, AskKeeps DEF RetryMutation
<1>4. ASSUME Cooled PROVE OnceInv'
  BY <1>1, <1>4, WorkerGoes DEF Cooled, storeVars
<1>5. ASSUME AfterResponse PROVE OnceInv'
  <2>1. UNCHANGED <<calls, pipe, receipts, applied>>
    BY <1>5 DEF AfterResponse, storeVars
  <2>2. CASE worker.state = "down"
    <3>1. worker' = [worker EXCEPT !.state = "starting"]
      BY <1>5, <2>2 DEF AfterResponse
    <3> QED BY <1>1, <2>1, <3>1, WorkerGoes
  <2>3. CASE worker.state # "down"
    <3>1. worker' = worker
      BY <1>5, <2>3 DEF AfterResponse
    <3> QED BY <1>1, <2>1, <3>1 DEF OnceInv, RecordsAreRecords, CallSound, Queued, Held, InHand, ActedOnce, Waits, Done
  <2> QED BY <2>2, <2>3
<1>6. ASSUME Open \/ MaintainExpired \/ MaintainDirty \/ MaintainCursor \/ MaintainSnapshots PROVE OnceInv'
  <2>1. UNCHANGED <<calls, pipe, receipts, applied>>
    BY <1>6 DEF Open, MaintainExpired, MaintainDirty, MaintainCursor, MaintainSnapshots, storeVars
  <2>2. \/ worker' = Resting
        \/ \E st \in {"indexing", "more", "copying", "indexed"} : worker' = [worker EXCEPT !.state = st]
        \/ \E st \in {"more", "copying"} : worker' = [worker EXCEPT !.state = st, !.left = Batch - Cardinality(First(dirty, Batch))]
    BY <1>6 DEF Open, MaintainExpired, MaintainDirty, MaintainCursor, MaintainSnapshots
  <2>3. CASE worker' = Resting
    <3> DEFINE st == "waiting"
    <3>1. st \notin {"committed", "replayed", "derived"}
      OBVIOUS
    <3> HIDE DEF st
    <3> QED BY <1>1, <2>1, <2>3, <3>1, WorkerGoes
  <2>4. CASE \E st \in {"indexing", "more", "copying", "indexed"} : worker' = [worker EXCEPT !.state = st]
    BY <1>1, <2>1, <2>4, WorkerGoes
  <2>5. CASE \E st \in {"more", "copying"} : worker' = [worker EXCEPT !.state = st, !.left = Batch - Cardinality(First(dirty, Batch))]
    <3>1. worker = [state |-> worker.state, call |-> worker.call, answer |-> worker.answer, left |-> worker.left]
      BY <1>1 DEF OnceInv, RecordsAreRecords
    <3>2. PICK st \in {"more", "copying"}, n \in {Batch - Cardinality(First(dirty, Batch))} :
             worker' = [state |-> st, call |-> worker.call, answer |-> worker.answer, left |-> n]
      BY <2>5, <3>1
    <3>3. /\ worker' = [state |-> worker'.state, call |-> worker'.call, answer |-> worker'.answer, left |-> worker'.left]
          /\ ~InHand'
      BY <3>2 DEF InHand
    <3> QED BY <1>1, <2>1, <3>3, WorkerBecomes
  <2> QED BY <2>2, <2>3, <2>4, <2>5
<1>7. ASSUME NEW outcome, Derive(outcome) PROVE OnceInv'
  <2>1. /\ UNCHANGED <<calls, pipe, receipts, applied>> /\ InHand
        /\ worker' = [worker EXCEPT !.state = "derived"]
    BY <1>7 DEF Derive, InHand
  <2> QED BY <1>1, <2>1, WorkerGoes
<1>8. ASSUME UNCHANGED <<calls, pipe, receipts, applied, worker>> PROVE OnceInv'
  BY <1>1, <1>8 DEF OnceInv, RecordsAreRecords, CallSound, Queued, Held, InHand, ActedOnce, Waits, Done
<1>9. ASSUME NEW i \in Ids, Expire(i) PROVE OnceInv'
  BY <1>8, <1>9 DEF Expire
<1>10. CASE UNCHANGED memoryVars
  BY <1>8, <1>10 DEF memoryVars
<1>11. CASE MemoryNext
  BY <1>1, <1>2, <1>3, <1>4, <1>5, <1>6, <1>7, <1>9, <1>11, TimeOutKeeps, DeathKeeps, MutateOnce, ReplyKeeps
  DEF MemoryNext, WorkerStep
<1> QED BY <1>1, <1>10, <1>11

\* A memory operation changes the store at most once, however often it is asked for again after
\* a timeout or the death of the worker, and a caller that hears of success has its change.
THEOREM OperationsActOnce == MemorySpec => []OperationActsOnce
<1>1. OnceInv => OperationActsOnce
  BY DEF OnceInv, OperationActsOnce, ActedOnce, CallSound
<1> QED BY <1>1, OnceInitially, OnceStep, PTL DEF MemorySpec
=============================================================================
