---------------------------- MODULE MemoryStore ----------------------------
(***************************************************************************)
(* The durable memory of one Companion.  Both lanes of the agent call one  *)
(* lazy worker process over a pipe; the worker owns the SQLite store.  A   *)
(* mutation commits the row, its receipt and a mark that the search index  *)
(* is behind, then brings the index and the exported snapshots up to date  *)
(* in further transactions.  The caller waits two seconds: after that, or  *)
(* when the worker dies, the outcome is unknown and the agent asks again   *)
(* with the same operation and payload.                                    *)
(***************************************************************************)
EXTENDS Naturals, Sequences, FiniteSets

CONSTANTS
  Operation,    \* operationId of a mutation; also the content it saves
  Call,         \* calls the agent may have open at once
  Ids,          \* rows, numbered: their order is the order of the rebuild
  Kinds,        \* kinds of row: preference (prompt), procedure (reusable), context (temporary)
  Template,     \* reusable rows a template brought to this Companion
  Batch,        \* rows of one maintenance batch
  MaxPending,   \* requests the worker may be behind by
  MaxVersion,   \* bound: versions of a row
  MaxRequests,  \* bound: mutations asked for
  MaxFaults     \* bound: worker deaths, failed index writes and expiries

ASSUME MemoryValues ==
  /\ IsFiniteSet(Ids) /\ Ids \subseteq Nat \ {0} /\ Template \subseteq Ids
  /\ Batch \in Nat \ {0} /\ MaxVersion \in Nat

VARIABLES
  memories,     \* memories: the rows
  used,         \* ids ever given out
  receipts,     \* memory_mutations, by operation
  fts,          \* memory_fts: the indexed content of each id
  dirty,        \* memory_index_dirty
  cursor,       \* memory_meta fts_cursor: NoCursor when no rebuild is open
  imported,     \* memory_meta template_imported
  startup,      \* memory/startup.json: what a session's first prompt includes
  template,     \* workspace/template-memory.json
  calls,        \* the service's requests: their payload and what became of them
  pipe,         \* the worker's standard input
  worker,       \* the worker process: what it is doing for which call
  maintenance,  \* a maintenance run is due
  applied,      \* how often each operation changed a row
  requests, faults

memoryVars == <<memories, used, receipts, fts, dirty, cursor, imported, startup, template,
                calls, pipe, worker, maintenance, applied, requests, faults>>
storeVars == <<memories, used, receipts, fts, dirty, cursor, imported>>
files == <<startup, template>>

NoCursor == 0
NoId == 0                                      \* ids start at 1
NoRow == [version |-> 0, content |-> "none", kind |-> "none", expired |-> FALSE]
Row(version, content, kind) == [version |-> version, content |-> content, kind |-> kind, expired |-> FALSE]
Rows == {i \in Ids : memories[i].version # 0}
Payload ==
  {[op |-> "save", id |-> NoId, expected |-> 0, kind |-> k] : k \in Kinds}
  \cup [op : {"save"}, id : used, expected : 1..(MaxVersion - 1), kind : Kinds]
  \cup [op : {"delete"}, id : used, expected : 1..MaxVersion, kind : Kinds]

Answer(status, id) == [status |-> status, id |-> id]
Unknown == Answer("unknown", NoId)
NoPayload == [op |-> "none", id |-> NoId, expected |-> 0, kind |-> "none"]
NoReceipt == [payload |-> NoPayload, answer |-> Answer("none", NoId)]
Quiet == [state |-> "idle", operation |-> "none", payload |-> NoPayload, answer |-> Answer("none", NoId)]
Resting == [state |-> "waiting", call |-> "none", answer |-> Answer("none", NoId), left |-> 0]
Asked(operation, payload) == [state |-> "pending", operation |-> operation, payload |-> payload, answer |-> Answer("none", NoId)]
Answered(call, state, answer) == [state |-> state, operation |-> call.operation, payload |-> call.payload, answer |-> answer]
Has(state, k, answer) == [state |-> state, call |-> k, answer |-> answer, left |-> 0]

MemoryInit ==
  /\ memories = [i \in Ids |-> NoRow] /\ used = {} /\ receipts = [o \in Operation |-> NoReceipt]
  /\ fts = [i \in Ids |-> "none"] /\ dirty = {} /\ cursor = NoCursor /\ imported = FALSE
  /\ startup = {} /\ template = Template
  /\ calls = [k \in Call |-> Quiet] /\ pipe = <<>>
  /\ worker = [Resting EXCEPT !.state = "down"]
  /\ maintenance = FALSE
  /\ applied = [o \in Operation |-> 0] /\ requests = 0 /\ faults = 0

Fault == faults < MaxFaults /\ faults' = faults + 1
-----------------------------------------------------------------------------
(***************************************************************************)
(* The search index.  A rebuild starts empty, with the cursor before the   *)
(* first id, and copies the rows from the cursor on.                       *)
(***************************************************************************)
Rebuilding == cursor # NoCursor
NoIndex == [i \in Ids |-> "none"]
Start == 1                                 \* the empty cursor; id i is behind it at i + 1
IndexDirty == Rebuilding \/ dirty # {}

Indexed(index, ids) ==
  [i \in Ids |-> IF i \in ids THEN IF i \in Rows THEN memories[i].content ELSE "none" ELSE index[i]]

\* ensureIndex compares only the numbers of rows.
EnsureIndex(ids) ==
  IF ~Rebuilding /\ Cardinality({i \in Ids : fts[i] # "none"}) # Cardinality(ids)
  THEN fts' = NoIndex /\ cursor' = Start
  ELSE UNCHANGED <<fts, cursor>>

\* The n lowest elements of a set of ids, and the cursor after a batch that may hold n of them.
First(ids, n) == {i \in ids : Cardinality({j \in ids : j < i}) < n}
After(batch, n) == IF Cardinality(batch) = n THEN 1 + CHOOSE i \in batch : \A j \in batch : j <= i ELSE NoCursor

WriteSnapshots ==
  /\ startup' = {i \in Rows : memories[i].kind = "preference" /\ ~memories[i].expired}
  /\ template' = {i \in Rows : memories[i].kind = "procedure" /\ ~memories[i].expired}
-----------------------------------------------------------------------------
(***************************************************************************)
(* MemoryService.                                                          *)
(***************************************************************************)
Outstanding == {k \in Call : calls[k].state \in {"pending", "abandoned"}}

\* A caller asks for a mutation, or asks again after an unknown outcome with the same
\* operation; the worker is started on demand.
AskFor(k, operation, payload) ==
  /\ calls[k].state \in {"idle", "answered"}
  /\ Cardinality(Outstanding) < MaxPending
  /\ worker.state # "cooling"
  /\ calls' = [calls EXCEPT ![k] = Asked(operation, payload)]
  /\ pipe' = Append(pipe, k)
  /\ worker' = IF worker.state = "down" THEN [worker EXCEPT !.state = "starting"] ELSE worker
  /\ UNCHANGED <<storeVars, files, maintenance, applied, faults>>

RequestMutation(k, operation, payload) ==
  /\ requests < MaxRequests /\ requests' = requests + 1
  /\ AskFor(k, operation, payload)

RetryMutation(k, j) ==
  /\ calls[k].answer = Unknown
  /\ AskFor(j, calls[k].operation, calls[k].payload)
  /\ UNCHANGED requests

\* The timer or an abort answers the caller; the worker still has the request.
CallTimesOut(k) ==
  /\ calls[k].state = "pending"
  /\ calls' = [calls EXCEPT ![k] = Answered(calls[k], "abandoned", Unknown)]
  /\ Fault
  /\ UNCHANGED <<storeVars, files, pipe, worker, maintenance, applied, requests>>

\* The process dies at any point, the requests it had not answered with it.
WorkerDies ==
  /\ worker.state \notin {"down", "cooling"} /\ Fault
  /\ worker' = [Resting EXCEPT !.state = "cooling"]
  /\ pipe' = <<>>
  /\ calls' = [k \in Call |-> IF k \in Outstanding THEN Answered(calls[k], "answered", Unknown) ELSE calls[k]]
  /\ UNCHANGED <<storeVars, files, maintenance, applied, requests>>

\* retryAfter: a second after its end the worker may be started again.
Cooled ==
  /\ worker.state = "cooling"
  /\ worker' = [worker EXCEPT !.state = "down"]
  /\ UNCHANGED <<storeVars, files, calls, pipe, maintenance, applied, requests, faults>>

\* afterResponse schedules maintenance after a reply of the agent, and starts the worker.
AfterResponse ==
  /\ ~maintenance /\ worker.state # "cooling"
  /\ maintenance' = TRUE
  /\ worker' = IF worker.state = "down" THEN [worker EXCEPT !.state = "starting"] ELSE worker
  /\ UNCHANGED <<storeVars, files, calls, pipe, applied, requests, faults>>
-----------------------------------------------------------------------------
(***************************************************************************)
(* MemoryStore.  Opening it repairs the index, and imports a template once *)
(* if the store has never held a row.                                      *)
(***************************************************************************)
Open ==
  /\ worker.state = "starting"
  /\ worker' = Resting
  /\ imported' = TRUE
  /\ IF imported \/ Rows # {}
     THEN /\ EnsureIndex(Rows)
          /\ UNCHANGED <<memories, used, files>>
     ELSE /\ memories' = [i \in Ids |-> IF i \in template THEN Row(1, "imported", "procedure") ELSE NoRow]
          /\ used' = used \cup template
          /\ fts' = [i \in Ids |-> IF i \in First(template, Batch) THEN "imported" ELSE "none"]
          /\ cursor' = After(First(template, Batch), Batch)
          /\ startup' = {} /\ template' = template
  /\ UNCHANGED <<receipts, dirty, calls, pipe, maintenance, applied, requests, faults>>

\* A context row is only reached by a call that names the mission that wrote it: a context
\* save, or a deletion of a temporary row.  All calls here are of one mission.
Reaches(payload, row) == row.kind = "context" => payload.kind = "context"
Current(payload) ==
  payload.id \in Rows /\ memories[payload.id].version = payload.expected /\ Reaches(payload, memories[payload.id])

\* Mutant: only a successful mutation leaves a receipt that is looked up again.
ReceiptedConflict(operation) == receipts[operation].answer.status = "conflict"
Receipted(operation) == receipts[operation].answer.status # "none"

\* A receipt answers a repeated request, or refuses another payload under its operation.
Replay(k) ==
  /\ worker' = Has("replayed", k,
       IF receipts[calls[k].operation].payload = calls[k].payload
       THEN receipts[calls[k].operation].answer ELSE Answer("conflict", NoId))
  /\ UNCHANGED <<memories, used, receipts, dirty, applied>>

\* Mutant: the row is committed without the mark that the index is behind.
BehindLater(i) == {}
Behind(i) == {i}

\* One transaction: the row, the mark that its index entry is behind, and the receipt.
ChangeRow(k, i, row) ==
  LET o == calls[k].operation
      answer == Answer("ok", i)
  IN  /\ memories' = [memories EXCEPT ![i] = row]
      /\ used' = used \cup {i}
      /\ dirty' = dirty \cup Behind(i)
      /\ receipts' = [receipts EXCEPT ![o] = [payload |-> calls[k].payload, answer |-> answer]]
      /\ applied' = [applied EXCEPT ![o] = @ + 1]
      /\ worker' = Has("committed", k, answer)

Refuse(k) ==
  /\ receipts' = [receipts EXCEPT ![calls[k].operation] =
                    [payload |-> calls[k].payload, answer |-> Answer("conflict", NoId)]]
  /\ worker' = Has("replayed", k, Answer("conflict", NoId))
  /\ UNCHANGED <<memories, used, dirty, applied>>

Heads(k) == worker.state = "waiting" /\ pipe # <<>> /\ Head(pipe) = k
Mutate(k) ==
  /\ Heads(k)
  /\ pipe' = Tail(pipe)
  /\ LET o == calls[k].operation
         wanted == calls[k].payload
     IN  \/ Receipted(o) /\ Replay(k)
         \/ ~Receipted(o) /\ wanted.id = NoId /\ \E i \in Ids \ used : ChangeRow(k, i, Row(1, o, wanted.kind))
         \/ ~Receipted(o) /\ wanted.id # NoId /\ ~Current(wanted) /\ Refuse(k)
         \/ ~Receipted(o) /\ wanted.op = "save" /\ Current(wanted) /\ ChangeRow(k, wanted.id, Row(wanted.expected + 1, o, wanted.kind))
         \/ ~Receipted(o) /\ wanted.op = "delete" /\ Current(wanted) /\ ChangeRow(k, wanted.id, NoRow)
  /\ UNCHANGED <<fts, cursor, imported, files, calls, maintenance, requests, faults>>

\* refreshDerivatives: its own transaction; when it fails the index is rebuilt, and when
\* that fails too the rebuild is left to maintenance.
Derive(outcome) ==
  /\ \/ worker.state = "committed"
     \/ worker.state = "replayed" /\ worker.answer.status = "ok"
  /\ LET i == worker.answer.id
     IN  \/ /\ outcome = "done"
            /\ fts' = Indexed(fts, {i}) /\ dirty' = dirty \ {i}
            /\ UNCHANGED <<cursor, faults>>
         \/ /\ outcome = "rebuild" /\ Fault
            /\ fts' = NoIndex /\ cursor' = Start /\ UNCHANGED dirty
         \/ /\ outcome = "mark" /\ Fault
            /\ cursor' = IF Rebuilding THEN cursor ELSE Start
            /\ UNCHANGED <<fts, dirty>>
  /\ worker' = [worker EXCEPT !.state = "derived"]
  /\ UNCHANGED <<memories, used, receipts, imported, files, calls, pipe, maintenance, applied, requests>>

Reply ==
  /\ \/ worker.state = "derived"
     \/ worker.state = "replayed" /\ worker.answer.status # "ok"
  /\ IF worker.state = "derived" THEN WriteSnapshots ELSE UNCHANGED files
  /\ LET call == calls[worker.call] IN
     calls' = [calls EXCEPT ![worker.call] =
       Answered(call, "answered", IF call.state = "pending" THEN worker.answer ELSE call.answer)]
  /\ worker' = Resting
  /\ UNCHANGED <<storeVars, pipe, maintenance, applied, requests, faults>>
-----------------------------------------------------------------------------
(***************************************************************************)
(* maintain: expired rows, a batch of marked ids, a batch of the rebuild,  *)
(* each in a transaction of its own, then the snapshots.                   *)
(***************************************************************************)
Expire(i) ==
  /\ i \in Rows /\ ~memories[i].expired /\ Fault
  /\ memories[i].kind = "context"
  /\ memories' = [memories EXCEPT ![i].expired = TRUE]
  /\ UNCHANGED <<used, receipts, fts, dirty, cursor, imported, files, calls, pipe, worker, maintenance, applied, requests>>

MaintainExpired ==
  /\ worker.state = "waiting" /\ maintenance
  /\ LET kept == {i \in Rows : ~memories[i].expired}
     IN  /\ memories' = [i \in Ids |-> IF i \in kept THEN memories[i] ELSE NoRow]
         /\ EnsureIndex(kept)
  /\ worker' = [worker EXCEPT !.state = "indexing"]
  /\ UNCHANGED <<used, receipts, dirty, imported, files, calls, pipe, maintenance, applied, requests, faults>>

MaintainDirty ==
  /\ worker.state = "indexing"
  /\ LET batch == First(dirty, Batch)
     IN  /\ fts' = Indexed(fts, batch)
         /\ dirty' = dirty \ batch
         /\ worker' = [worker EXCEPT !.state = IF Cardinality(batch) = Batch THEN "more" ELSE "copying",
                                     !.left = Batch - Cardinality(batch)]
  /\ UNCHANGED <<memories, used, receipts, cursor, imported, files, calls, pipe, maintenance, applied, requests, faults>>

Copied(batch) == Indexed(fts, batch)

\* The rows after the cursor, as many as the marked ones have left of the batch.
MaintainCursor ==
  /\ worker.state = "copying"
  /\ LET batch == First({i \in Rows : i >= cursor}, worker.left)
         full == Cardinality(batch) = worker.left
     IN  IF Rebuilding
         THEN /\ fts' = Copied(batch)
              /\ cursor' = After(batch, worker.left)
              /\ worker' = [worker EXCEPT !.state = IF full THEN "more" ELSE "indexed"]
         ELSE UNCHANGED <<fts, cursor>> /\ worker' = [worker EXCEPT !.state = "indexed"]
  /\ UNCHANGED <<memories, used, receipts, dirty, imported, files, calls, pipe, maintenance, applied, requests, faults>>

\* A full batch asks for another run.
MaintainSnapshots ==
  /\ worker.state \in {"more", "indexed"}
  /\ WriteSnapshots
  /\ maintenance' = (worker.state = "more")
  /\ worker' = Resting
  /\ UNCHANGED <<storeVars, calls, pipe, applied, requests, faults>>

WorkerStep ==
  \/ Open \/ (\E k \in Call : Mutate(k)) \/ Derive("done") \/ Reply
  \/ MaintainExpired \/ MaintainDirty \/ MaintainCursor \/ MaintainSnapshots
-----------------------------------------------------------------------------
MemoryNext ==
  \/ \E k \in Call, o \in Operation : \E p \in Payload : RequestMutation(k, o, p)
  \/ \E k, j \in Call : RetryMutation(k, j)
  \/ \E k \in Call : CallTimesOut(k)
  \/ WorkerDies \/ Cooled \/ AfterResponse
  \/ \E i \in Ids : Expire(i)
  \/ WorkerStep
  \/ \E outcome \in {"rebuild", "mark"} : Derive(outcome)

MemorySpec == MemoryInit /\ [][MemoryNext]_memoryVars
-----------------------------------------------------------------------------
MemoryTypeOK ==
  /\ \A i \in Ids : memories[i].version \in 0..MaxVersion
  /\ used \subseteq Ids /\ dirty \subseteq Ids /\ cursor \in 0..(Cardinality(Ids) + 1)
  /\ startup \subseteq used /\ template \subseteq Ids
  /\ \A k \in Call : calls[k].state \in {"idle", "pending", "abandoned", "answered"}

\* An operation changes the store at most once, however often a caller asks again after a
\* timeout or a dead worker, and what it is told in the end is what happened.
OperationActsOnce ==
  \A o \in Operation :
    /\ applied[o] <= 1
    /\ \A k \in Call : calls[k].operation = o /\ calls[k].answer.status = "ok" => applied[o] = 1

\* Whenever a search may trust the index, the index holds every row with its current
\* content, after any crash between a mutation, its index entry and a rebuild's batches.
TrustedIndexIsComplete ==
  IndexDirty \/ \A i \in Rows : fts[i] = memories[i].content
=============================================================================
