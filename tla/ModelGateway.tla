--------------------------- MODULE ModelGateway ---------------------------
(***************************************************************************)
(* The model gateway, between the model requests of one run and the        *)
(* provider that the platform pays.  createModelGateway is instantiated in *)
(* every API process, and two may serve at once during a deployment: they  *)
(* share the table of requests, while admission and the budget for request *)
(* bodies belong to a process.  An Exchange is one HTTP request: the       *)
(* handler first, then the pump that drains the provider's answer.         *)
(***************************************************************************)
EXTENDS Naturals, FiniteSets

CONSTANTS
  Exchange,        \* HTTP requests that may be open at once
  RequestId,       \* x-companions-model-request-id
  Gateway,         \* API processes
  MaxConcurrent,   \* requests admitted by a process
  BodyBudget,      \* bodies a process may hold
  MaxOutages       \* bound: lost transactions, dead processes

ASSUME GatewayAssumption == IsFiniteSet(Exchange)

VARIABLES
  granted,         \* the token is valid, the run dispatched and not over, its secrets unchanged
  exchange,        \* exchange[x]: where the handler or the pump stands
  admitted,        \* admitted[g]: the process's count of open requests
  bodyBytes,       \* bodyBytes[g]: its bodyBudget.used
  entry,           \* entry[i]: status in model_gateway_requests
  verified,        \* requests whose usage the gateway read itself
  forwarded,       \* forwarded[i]: how often the provider was asked
  outages

gatewayVars == <<granted, exchange, admitted, bodyBytes, entry, verified, forwarded, outages>>

Nowhere == "nowhere"
Opened(g, i, step, claimed, body) ==
  [step |-> step, at |-> g, id |-> i, claimed |-> claimed, body |-> body]
Closed == Opened(Nowhere, Nowhere, "closed", FALSE, FALSE)
Steps == {"allow", "read", "claim", "confirm", "send", "upstream", "pump", "fail"}
IsOpen(x) == exchange[x].step # "closed"

GatewayTypeOK ==
  /\ granted \in BOOLEAN
  /\ exchange \in [Exchange -> [step : {"closed"} \cup Steps, at : {Nowhere} \cup Gateway,
                               id : {Nowhere} \cup RequestId, claimed : BOOLEAN, body : BOOLEAN]]
  /\ admitted \in [Gateway -> 0..MaxConcurrent]
  /\ bodyBytes \in [Gateway -> 0..BodyBudget]
  /\ entry \in [RequestId -> {"none", "forwarding", "succeeded", "failed", "interrupted"}]
  /\ verified \subseteq RequestId
  /\ forwarded \in [RequestId -> Nat]
  /\ outages \in 0..MaxOutages

GatewayInit ==
  /\ granted = TRUE
  /\ exchange = [x \in Exchange |-> Closed]
  /\ admitted = [g \in Gateway |-> 0] /\ bodyBytes = [g \in Gateway |-> 0]
  /\ entry = [i \in RequestId |-> "none"] /\ verified = {}
  /\ forwarded = [i \in RequestId |-> 0]
  /\ outages = 0

Outage == outages < MaxOutages /\ outages' = outages + 1
Stands(x, step) == exchange[x].step = step
Moves(x, step) == exchange' = [exchange EXCEPT ![x].step = step]
-----------------------------------------------------------------------------
(***************************************************************************)
(* handle.                                                                 *)
(***************************************************************************)
\* A process that is full answers 503 and keeps nothing.
Admit(x, g, i) ==
  /\ Stands(x, "closed")
  /\ admitted[g] < MaxConcurrent
  /\ admitted' = [admitted EXCEPT ![g] = @ + 1]
  /\ exchange' = [exchange EXCEPT ![x] = Opened(g, i, "allow", FALSE, FALSE)]
  /\ UNCHANGED <<granted, bodyBytes, entry, verified, forwarded, outages>>

Allowed(x) ==
  /\ Stands(x, "allow")
  /\ Moves(x, IF granted THEN "read" ELSE "fail")
  /\ UNCHANGED <<granted, admitted, bodyBytes, entry, verified, forwarded, outages>>

\* boundedBody reserves while it reads; target refuses what the run may not ask.
ReadBody(x, fits) ==
  LET g == exchange[x].at IN
  /\ Stands(x, "read")
  /\ IF bodyBytes[g] < BodyBudget
     THEN /\ bodyBytes' = [bodyBytes EXCEPT ![g] = @ + 1]
          /\ exchange' = [exchange EXCEPT ![x].step = IF fits THEN "claim" ELSE "fail",
                                          ![x].body = TRUE]
     ELSE Moves(x, "fail") /\ UNCHANGED bodyBytes
  /\ UNCHANGED <<granted, admitted, entry, verified, forwarded, outages>>

\* Mutant: an interrupted request may be asked for again.
ClaimableAfterInterruption(i) ==
  /\ granted /\ entry[i] \in {"none", "interrupted"}
  /\ \A j \in RequestId : entry[j] # "forwarding"
\* model_gateway_one_active_request and the primary key.
Claimable(i) == granted /\ entry[i] = "none" /\ \A j \in RequestId : entry[j] # "forwarding"

Claim(x) ==
  /\ Stands(x, "claim")
  /\ IF Claimable(exchange[x].id)
     THEN /\ entry' = [entry EXCEPT ![exchange[x].id] = "forwarding"]
          /\ exchange' = [exchange EXCEPT ![x].step = "confirm", ![x].claimed = TRUE]
     ELSE Moves(x, "fail") /\ UNCHANGED entry
  /\ UNCHANGED <<granted, admitted, bodyBytes, verified, forwarded, outages>>

Confirm(x) ==
  /\ Stands(x, "confirm")
  /\ Moves(x, IF granted THEN "send" ELSE "fail")
  /\ UNCHANGED <<granted, admitted, bodyBytes, entry, verified, forwarded, outages>>

\* The request is on its way; a failed connection may or may not have reached the provider.
Send(x, arrives) ==
  /\ Stands(x, "send")
  /\ forwarded' = [forwarded EXCEPT ![exchange[x].id] = @ + (IF arrives THEN 1 ELSE 0)]
  /\ Moves(x, "upstream")
  /\ UNCHANGED <<granted, admitted, bodyBytes, entry, verified, outages>>
-----------------------------------------------------------------------------
(***************************************************************************)
(* Whatever ends an exchange.                                              *)
(***************************************************************************)
\* settle: only a row that is still 'forwarding', and only if the transaction commits.
Settles(i, status, known) ==
  /\ entry' = [entry EXCEPT ![i] = IF @ = "forwarding" THEN status ELSE @]
  /\ verified' = IF entry[i] = "forwarding" /\ known THEN verified \cup {i} ELSE verified
  /\ UNCHANGED outages
SettleIsLost == Outage /\ UNCHANGED <<entry, verified>>

GiveBackBody(x) ==
  bodyBytes' = [bodyBytes EXCEPT ![exchange[x].at] = @ - (IF exchange[x].body THEN 1 ELSE 0)]
GiveBackSlot(x) == admitted' = [admitted EXCEPT ![exchange[x].at] = @ - 1]

\* The provider refuses, or the connection fails: the handler settles and returns what it holds.
NoAnswer(x, status) ==
  /\ Stands(x, "upstream")
  /\ status = "failed" => forwarded[exchange[x].id] > 0
  /\ Settles(exchange[x].id, status, FALSE) \/ SettleIsLost
  /\ GiveBackBody(x) /\ GiveBackSlot(x)
  /\ exchange' = [exchange EXCEPT ![x] = Closed]
  /\ UNCHANGED <<granted, forwarded>>

\* The catch and finally of the handler, for everything it refuses itself.
Fail(x) ==
  /\ Stands(x, "fail")
  /\ IF exchange[x].claimed
     THEN Settles(exchange[x].id, "interrupted", FALSE) \/ SettleIsLost
     ELSE UNCHANGED <<entry, verified, outages>>
  /\ GiveBackBody(x) /\ GiveBackSlot(x)
  /\ exchange' = [exchange EXCEPT ![x] = Closed]
  /\ UNCHANGED <<granted, forwarded>>

\* Mutant: the handler's finally gives back the slot that the pump gives back again.
HandOverAndRelease(x) ==
  /\ Stands(x, "upstream") /\ forwarded[exchange[x].id] > 0
  /\ GiveBackBody(x) /\ GiveBackSlot(x)
  /\ exchange' = [exchange EXCEPT ![x].step = "pump", ![x].body = FALSE, ![x].claimed = FALSE]
  /\ UNCHANGED <<granted, entry, verified, forwarded, outages>>

\* The handler answers the caller, and the slot is the pump's.
HandOver(x) ==
  /\ Stands(x, "upstream") /\ forwarded[exchange[x].id] > 0
  /\ GiveBackBody(x)
  /\ exchange' = [exchange EXCEPT ![x].step = "pump", ![x].body = FALSE, ![x].claimed = FALSE]
  /\ UNCHANGED <<granted, admitted, entry, verified, forwarded, outages>>

\* Observation.finish: usage is final only where the provider said that it was.
Outcome(result) ==
  IF result = "complete" THEN "succeeded" ELSE IF result = "refused" THEN "failed" ELSE "interrupted"

\* A caller that went away changes nothing: the pump drains to the end.
PumpEnds(x, result) ==
  /\ Stands(x, "pump")
  /\ Settles(exchange[x].id, Outcome(result), result # "cut") \/ SettleIsLost
  /\ GiveBackSlot(x)
  /\ exchange' = [exchange EXCEPT ![x] = Closed]
  /\ UNCHANGED <<granted, bodyBytes, forwarded>>

\* The run ends or is cancelled, its token expires, or its Companion's secrets are replaced.
GrantEnds ==
  /\ granted /\ granted' = FALSE
  /\ UNCHANGED <<exchange, admitted, bodyBytes, entry, verified, forwarded, outages>>

GatewayDies(g) ==
  /\ \E x \in Exchange : IsOpen(x) /\ exchange[x].at = g
  /\ Outage
  /\ exchange' = [x \in Exchange |->
       IF IsOpen(x) /\ exchange[x].at = g THEN Closed ELSE exchange[x]]
  /\ admitted' = [admitted EXCEPT ![g] = 0] /\ bodyBytes' = [bodyBytes EXCEPT ![g] = 0]
  /\ UNCHANGED <<granted, entry, verified, forwarded>>

GatewayNext ==
  \/ \E x \in Exchange, g \in Gateway, i \in RequestId : Admit(x, g, i)
  \/ \E x \in Exchange : Allowed(x) \/ Claim(x) \/ Confirm(x) \/ Fail(x) \/ HandOver(x)
  \/ \E x \in Exchange, b \in BOOLEAN : ReadBody(x, b) \/ Send(x, b)
  \/ \E x \in Exchange, s \in {"failed", "interrupted"} : NoAnswer(x, s)
  \/ \E x \in Exchange, r \in {"complete", "refused", "cut"} : PumpEnds(x, r)
  \/ \E g \in Gateway : GatewayDies(g)
  \/ GrantEnds

GatewaySpec == GatewayInit /\ [][GatewayNext]_gatewayVars
-----------------------------------------------------------------------------
(***************************************************************************)
(* A request id reaches the provider at most once, whatever its callers,   *)
(* the processes and the network do; one request of the run is open at the *)
(* provider at a time; and usage is recorded only of requests sent.        *)
(***************************************************************************)
AtProvider == {x \in Exchange : exchange[x].step \in {"upstream", "pump"}}
ProviderSeesItOnce ==
  /\ \A i \in RequestId : forwarded[i] <= 1
  /\ Cardinality(AtProvider) <= 1
  /\ \A i \in verified : forwarded[i] = 1

(***************************************************************************)
(* A process counts the requests it has open, in their handlers and in     *)
(* their pumps, and the bodies it holds: neither leaks on any way out, and *)
(* none is given back twice.                                               *)
(***************************************************************************)
OpenAt(g) == {x \in Exchange : IsOpen(x) /\ exchange[x].at = g}
SlotsAreReturned ==
  \A g \in Gateway :
    /\ admitted[g] = Cardinality(OpenAt(g))
    /\ bodyBytes[g] = Cardinality({x \in OpenAt(g) : exchange[x].body})
===============================================================================
