---------------------------- MODULE EventsService ----------------------------
(***************************************************************************)
(* The event log of one Session: the rows and outbox records of            *)
(* PostgreSQL, the process that appends to them through the FIFO of        *)
(* PersistenceService, and the in-process Subject behind the SSE stream.   *)
(* An event is created by `create` (memory first, published once its write *)
(* has committed) or written by a store inside a transaction of its own    *)
(* and handed over by `acceptCommitted`.  A process may die between any    *)
(* two steps; the next one reads the rows and claims what the outbox still *)
(* holds.                                                                  *)
(*                                                                         *)
(* The file backend is the case in which a write commits in the step that  *)
(* queues it.                                                              *)
(***************************************************************************)
EXTENDS Naturals, Sequences, SequencesExt, FiniteSets, FiniteSetsExt

CONSTANTS
    Events,         \* event ids
    NoEvent,        \* no event: the argument of a write that has none
    ClaimLimit,     \* records one claim takes (100 in the code)
    MaxBoots,       \* processes that run one after another
    MaxFailures     \* writes PostgreSQL refuses

ASSUME EventsAssumption ==
    /\ IsFiniteSet(Events) /\ NoEvent \notin Events
    /\ {ClaimLimit, MaxBoots, MaxFailures} \subseteq Nat

VARIABLES
    log,        \* collaboration_events in session_seq order
    outbox,     \* status of each event_outbox record
    deleted,    \* sessions.deleted_at is set
    up,         \* a process is running
    known,      \* it has the Session in memory
    memory,     \* eventsBySession of the process
    writes,     \* pendingPostgresWrites, a FIFO of [op, event]
    settled,    \* "no", or what the write at the head has come to
    claimed,    \* claimed records recoverPendingOutbox has yet to handle
    subscribed, \* an SSE response listens to the Subject
    frames,     \* events sent on it and not yet received
    origin,     \* how an event came to be, "none" before it has
    published,  \* events some process gave to its Subject
    boots, failures

stored   == <<log, outbox, deleted>>
process  == <<up, known, memory, writes, settled, claimed>>
stream   == <<subscribed, frames>>
ledger   == <<origin, published, boots, failures>>
serverVars == <<stored, process, stream, ledger>>

Statuses == {"none", "pending", "publishing", "published", "discarded"}
Ops == {"append", "transaction", "mark", "discard", "claim"}

ServerTypeOK ==
    /\ log \in Seq(Events) /\ memory \in Seq(Events)
    /\ claimed \in Seq(Events) /\ frames \in Seq(Events)
    /\ outbox \in [Events -> Statuses]
    /\ writes \in Seq([op : Ops, event : Events \cup {NoEvent}])
    /\ settled \in {"no", "ok", "failed"}
    /\ deleted \in BOOLEAN /\ up \in BOOLEAN /\ known \in BOOLEAN /\ subscribed \in BOOLEAN
    /\ origin \in [Events -> {"none", "create", "transaction"}] /\ published \subseteq Events
    /\ boots \in 0 .. MaxBoots /\ failures \in 0 .. MaxFailures
    /\ IsInjective(log) /\ IsInjective(memory)

ServerInit ==
    /\ log = <<>> /\ outbox = [e \in Events |-> "none"] /\ deleted = FALSE
    /\ up = FALSE /\ known = FALSE /\ memory = <<>> /\ writes = <<>> /\ settled = "no"
    /\ claimed = <<>> /\ subscribed = FALSE /\ frames = <<>>
    /\ origin = [e \in Events |-> "none"] /\ published = {} /\ boots = 0 /\ failures = 0

Write(op, e) == [op |-> op, event |-> e]

\* The constructor: a Session that is not deleted and its rows are loaded,
\* and the microtask queues the only claim this process will make.
Boot ==
    /\ ~up /\ boots < MaxBoots
    /\ up' = TRUE /\ boots' = boots + 1
    /\ known' = ~deleted
    /\ memory' = IF deleted THEN <<>> ELSE log
    /\ writes' = <<Write("claim", NoEvent)>>
    /\ UNCHANGED <<stored, settled, claimed, stream, origin, published, failures>>

\* The process dies; what it had queued and not written is gone.  Frames that
\* have left it may still arrive.
Crash ==
    /\ up
    /\ up' = FALSE /\ known' = FALSE /\ memory' = <<>> /\ writes' = <<>> /\ settled' = "no"
    /\ claimed' = <<>> /\ subscribed' = FALSE
    /\ UNCHANGED <<stored, frames, ledger>>

Create(e) ==
    /\ known /\ origin[e] = "none"
    /\ origin' = [origin EXCEPT ![e] = "create"]
    /\ memory' = Append(memory, e)
    /\ writes' = Append(writes, Write("append", e))
    /\ UNCHANGED <<stored, up, known, settled, claimed, stream, published, boots, failures>>

Transaction(e) ==
    /\ known /\ origin[e] = "none"
    /\ origin' = [origin EXCEPT ![e] = "transaction"]
    /\ writes' = Append(writes, Write("transaction", e))
    /\ UNCHANGED <<stored, up, known, memory, settled, claimed, stream, published, boots, failures>>

\* A write of the Sessions collection: the row of a Session that is missing from
\* it (creation was undone, or another write read the collection before it) is
\* soft-deleted, and the next write of a process that has the Session brings it back.
WriteSessions ==
    /\ up
    /\ \/ ~deleted /\ deleted' = TRUE
       \/ known /\ deleted /\ deleted' = FALSE
    /\ UNCHANGED <<log, outbox, process, stream, ledger>>

-----------------------------------------------------------------------------
(* What the write at the head of the FIFO does to the database. *)

\* The row and its 'pending' record are one transaction.
Inserts(e) ==
    /\ log' = IF Contains(log, e) THEN log ELSE Append(log, e)
    /\ outbox' = [outbox EXCEPT ![e] = IF @ = "none" THEN "pending" ELSE @]
    /\ UNCHANGED claimed

Marks(e, status) ==
    /\ outbox' = [outbox EXCEPT ![e] = IF @ = "published" THEN @ ELSE status]
    /\ UNCHANGED <<log, claimed>>

\* session_seq of a stored event
Place(e) == CHOOSE n \in DOMAIN log : log[n] = e

\* The n oldest of these events, in the order of the log.
Oldest(due, n) ==
    {rows \in [1..n -> due] :
        \A i \in 1..n : /\ \A j \in 1..i - 1 : Place(rows[j]) < Place(rows[i])
                       /\ \A e \in due \ Range(rows) : Place(rows[i]) < Place(e)}

\* Every pending record and those whose lease, of 30 s, has expired: oldest
\* first, up to the limit.
Claims ==
    \E expired \in SUBSET {e \in Events : outbox[e] = "publishing"} :
        LET due == {e \in Range(log) : outbox[e] = "pending" \/ e \in expired}
        IN  \E rows \in Oldest(due, Min({Cardinality(due), ClaimLimit})) :
              /\ outbox' = [e \in Events |-> IF Contains(rows, e) THEN "publishing" ELSE outbox[e]]
              /\ claimed' = rows
              /\ UNCHANGED log

\* One operation of the FIFO is answered: it has committed, or it has not.
\* appendEvent refuses a deleted Session; a store's transaction does not.
Commit ==
    /\ up /\ writes # <<>> /\ settled = "no"
    /\ LET w == Head(writes) IN
          \/ /\ settled' = "ok" /\ UNCHANGED failures
             /\ \/ w.op = "append" /\ ~deleted /\ Inserts(w.event)
                \/ w.op = "transaction" /\ Inserts(w.event)
                \/ w.op = "mark" /\ Marks(w.event, "published")
                \/ w.op = "discard" /\ Marks(w.event, "discarded")
                \/ w.op = "claim" /\ Claims
          \/ /\ settled' = "failed"
             /\ \/ w.op = "append" /\ deleted /\ UNCHANGED failures
                \/ failures < MaxFailures /\ failures' = failures + 1
             /\ UNCHANGED <<log, outbox, claimed>>
    /\ UNCHANGED <<deleted, up, known, memory, writes, stream, origin, published, boots>>

\* publishCommitted: the Subject's listeners get it now, the record is marked
\* by a write behind those already queued in `rest`.
Publish(e, rest) ==
    /\ published' = published \cup {e}
    /\ frames' = IF subscribed THEN Append(frames, e) ELSE frames
    /\ writes' = Append(rest, Write("mark", e))

\* Mutant: the answer of the write is not looked at.
Continue_AnyAnswer ==
    /\ up /\ settled # "no" /\ settled' = "no"
    /\ LET w == Head(writes) IN
          \/ w.op = "append" /\ Publish(w.event, Tail(writes))
          \/ w.op # "append" /\ writes' = Tail(writes) /\ UNCHANGED <<published, frames>>
    /\ UNCHANGED <<stored, up, known, memory, claimed, subscribed, origin, boots, failures>>

\* The continuation of the write at the head: `create` publishes,
\* `acceptCommitted` appends and publishes unless the id is known.
Continue ==
    /\ up /\ settled # "no" /\ settled' = "no"
    /\ LET w == Head(writes) IN
          \/ /\ settled = "ok" /\ w.op = "append"
             /\ Publish(w.event, Tail(writes)) /\ UNCHANGED memory
          \/ /\ settled = "ok" /\ w.op = "transaction" /\ ~Contains(memory, w.event)
             /\ memory' = Append(memory, w.event) /\ Publish(w.event, Tail(writes))
          \/ /\ \/ settled = "failed" \/ w.op \in {"mark", "discard", "claim"}
                \/ w.op = "transaction" /\ Contains(memory, w.event)
             /\ writes' = Tail(writes) /\ UNCHANGED <<memory, published, frames>>
    /\ UNCHANGED <<stored, up, known, claimed, subscribed, origin, boots, failures>>

\* Mutant: a record this process cannot publish is marked all the same.
Recover_MarksAll ==
    /\ up /\ claimed # <<>> /\ claimed' = Tail(claimed)
    /\ LET e == Head(claimed) IN
          \/ Contains(memory, e) /\ Publish(e, writes)
          \/ /\ ~Contains(memory, e) /\ writes' = Append(writes, Write("mark", e))
             /\ UNCHANGED <<published, frames>>
    /\ UNCHANGED <<stored, up, known, memory, settled, subscribed, origin, boots, failures>>

\* recoverPendingOutbox, one claimed record: published if this process can see
\* the event, else discarded, and the loop waits for that write.
Recover ==
    /\ up /\ claimed # <<>>
    /\ \A n \in DOMAIN writes : writes[n].op \notin {"claim", "discard"}
    /\ claimed' = Tail(claimed)
    /\ LET e == Head(claimed) IN
          \/ Contains(memory, e) /\ Publish(e, writes)
          \/ /\ ~Contains(memory, e) /\ writes' = Append(writes, Write("discard", e))
             /\ UNCHANGED <<published, frames>>
    /\ UNCHANGED <<stored, up, known, memory, settled, subscribed, origin, boots, failures>>

\* list(afterEventId): what follows the cursor, everything for an unknown one.
List(cursor) ==
    IF Contains(memory, cursor)
    THEN SubSeq(memory, 1 + CHOOSE n \in DOMAIN memory : memory[n] = cursor, Len(memory))
    ELSE memory

-----------------------------------------------------------------------------
(* An event reaches the stream only once it is a row: a listener never sees *)
(* one that a crash or a refused write takes back (`create` publishes in    *)
(* the continuation of appendEvent, recovery what it claimed).              *)
SentIsStored == published \subseteq Range(log) /\ Range(frames) \subseteq Range(log)

(* A record marked 'published' is of an event some process really gave to   *)
(* its Subject: until then a crash leaves it for the next boot to claim.    *)
MarkedIsPublished == \A e \in Events : outbox[e] = "published" => e \in published

=============================================================================
