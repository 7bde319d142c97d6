----------------------------- MODULE EventStore -----------------------------
(***************************************************************************)
(* One browser tab on the event log: the connection coordinator of the web *)
(* event store, composed with EventsService.  A stream is opened first and *)
(* its frames are buffered while an HTTP request fetches what follows the  *)
(* cursor, the last event the store has committed; the page and then the   *)
(* buffer are merged by id.  A stream that errs or stays silent is closed  *)
(* and opened again by a timer.                                            *)
(***************************************************************************)
EXTENDS EventsService

CONSTANTS
    MaxDrops,       \* streams and requests the network breaks
    MaxCommands     \* reconciliations and receipts the workspace hands in

ASSUME StoreAssumption == {MaxDrops, MaxCommands} \subseteq Nat

VARIABLES
    conn,       \* the stream: "idle", "opening", "opened", "connected", "retrying"
    shown,      \* serverEventsBySessionId
    incomplete, \* incompleteHistory
    recovering, \* frames go to the buffer
    buffer,     \* bufferedEvents
    backfill,   \* the request of reconcileServerEvents
    drops, commands

clientVars == <<conn, shown, incomplete, recovering, buffer, backfill, drops, commands>>
vars == <<serverVars, clientVars>>

HasStream == conn \in {"opening", "opened", "connected"}

\* `cursor` is NoEvent for a request of the whole log; `open` says that the
\* handler of onopen awaits the answer.
NoBackfill == [stage |-> "none", cursor |-> NoEvent, page |-> <<>>, open |-> FALSE]

TypeOK ==
    /\ ServerTypeOK
    /\ conn \in {"idle", "opening", "opened", "connected", "retrying"}
    /\ shown \in Seq(Events) /\ buffer \in Seq(Events)
    /\ incomplete \in BOOLEAN /\ recovering \in BOOLEAN
    /\ backfill \in [stage : {"none", "sent", "answered"}, cursor : Events \cup {NoEvent},
                    page : Seq(Events), open : BOOLEAN]
    /\ drops \in 0 .. MaxDrops /\ commands \in 0 .. MaxCommands
    /\ IsInjective(shown)
    /\ subscribed => up /\ HasStream

Init ==
    /\ ServerInit
    /\ conn = "idle" /\ shown = <<>> /\ incomplete = FALSE
    /\ recovering = FALSE /\ buffer = <<>> /\ backfill = NoBackfill
    /\ drops = 0 /\ commands = 0

-----------------------------------------------------------------------------
\* Mutant: appended without a look at the ids.
Merged_Appended(events) == {shown \o events}

\* commitServerEvents: merged by id, new ones behind in the order in which they
\* come, which makes it one sequence; the cursor is the last.
Merged(events) ==
    LET all      == Range(shown) \cup Range(events)
        First(e) == CHOOSE n \in DOMAIN events : events[n] = e /\ \A m \in 1..n - 1 : events[m] # e
    IN  {merged \in [1..Cardinality(all) -> all] :
            /\ IsInjective(merged)
            /\ \A n \in DOMAIN shown : merged[n] = shown[n]
            /\ \A n \in DOMAIN merged : \A m \in Len(shown) + 1..n - 1 : First(merged[m]) < First(merged[n])}

Cursor == IF incomplete \/ shown = <<>> THEN NoEvent ELSE Last(shown)

\* reconcileServerEvents: a request under way is shared, else a new one starts.
Reconcile(open) ==
    \/ /\ backfill.stage # "none"
       /\ backfill' = [backfill EXCEPT !.open = @ \/ open]
       /\ UNCHANGED <<recovering, buffer>>
    \/ /\ backfill.stage = "none"
       /\ backfill' = [stage |-> "sent", cursor |-> Cursor, page |-> <<>>, open |-> open]
       /\ recovering' = TRUE /\ buffer' = <<>>

\* The stream is gone with all that was buffered for it.
Closed(next) ==
    /\ conn' = next
    /\ subscribed' = FALSE /\ frames' = <<>>
    /\ recovering' = FALSE /\ buffer' = <<>> /\ backfill' = NoBackfill

-----------------------------------------------------------------------------
\* connectSse of an idle store: openSseAttempt.
Connect ==
    /\ conn = "idle"
    /\ conn' = "opening" /\ recovering' = TRUE /\ buffer' = <<>>
    /\ UNCHANGED <<serverVars, shown, incomplete, backfill, drops, commands>>

\* The retry timer opens another attempt and aborts a request under way, whose
\* `finally` then ends the recovery this attempt has just declared.
Retry ==
    /\ conn = "retrying"
    /\ conn' = "opening" /\ buffer' = <<>> /\ backfill' = NoBackfill
    /\ recovering' = (backfill.stage = "none")
    /\ UNCHANGED <<serverVars, shown, incomplete, drops, commands>>

\* The server takes the SSE request of a Session it has events of and subscribes it.
Subscribe ==
    /\ conn = "opening" /\ ~subscribed /\ up /\ memory # <<>>
    /\ subscribed' = TRUE
    /\ UNCHANGED <<stored, process, frames, ledger, clientVars>>

\* onopen reconciles.
OnOpen ==
    /\ conn = "opening" /\ subscribed
    /\ conn' = "opened" /\ Reconcile(TRUE)
    /\ UNCHANGED <<serverVars, shown, incomplete, drops, commands>>

\* Mutant: a frame that comes during a recovery is left to the page.
Receive_Unbuffered ==
    /\ conn \in {"opened", "connected"} /\ frames # <<>>
    /\ frames' = Tail(frames)
    /\ shown' \in IF recovering THEN {shown} ELSE Merged(<<Head(frames)>>)
    /\ UNCHANGED <<stored, process, subscribed, ledger, conn, incomplete, recovering, buffer, backfill,
                   drops, commands>>

\* A frame: into the buffer during a recovery, else committed.
Receive ==
    /\ conn \in {"opened", "connected"} /\ frames # <<>>
    /\ frames' = Tail(frames)
    /\ \/ recovering /\ buffer' = Append(buffer, Head(frames)) /\ UNCHANGED shown
       \/ ~recovering /\ shown' \in Merged(<<Head(frames)>>) /\ UNCHANGED buffer
    /\ UNCHANGED <<stored, process, subscribed, ledger, conn, incomplete, recovering, backfill,
                   drops, commands>>

\* GET events?afterEventId on the server.
Answer ==
    /\ up /\ backfill.stage = "sent"
    /\ backfill' = [backfill EXCEPT !.stage = "answered", !.page = List(backfill.cursor)]
    /\ UNCHANGED <<serverVars, conn, shown, incomplete, recovering, buffer, drops, commands>>

\* The page arrives: the page, then the buffer, in one commit.
Backfilled ==
    /\ backfill.stage = "answered"
    /\ shown' \in Merged(backfill.page \o buffer)
    /\ incomplete' = (incomplete /\ backfill.cursor # NoEvent)
    /\ conn' = IF backfill.open THEN "connected" ELSE conn
    /\ buffer' = <<>> /\ recovering' = FALSE /\ backfill' = NoBackfill
    /\ UNCHANGED <<serverVars, drops, commands>>

\* The request fails.  For onopen that fails the attempt; a caller of the
\* workspace gets the error, the stream stays and the recovery is over.
BackfillFails ==
    /\ backfill.stage # "none" /\ drops < MaxDrops /\ drops' = drops + 1
    /\ \/ backfill.open /\ Closed("retrying")
       \/ /\ ~backfill.open
          /\ recovering' = FALSE /\ backfill' = NoBackfill
          /\ UNCHANGED <<conn, subscribed, frames, buffer>>
    /\ UNCHANGED <<stored, process, ledger, shown, incomplete, commands>>

\* failAttempt: an error of the stream, or 45 s without a frame.
Drop ==
    /\ HasStream /\ drops < MaxDrops /\ drops' = drops + 1
    /\ Closed("retrying")
    /\ UNCHANGED <<stored, process, ledger, shown, incomplete, commands>>

\* disconnectSse, on leaving the Session; its cache may then be evicted, and
\* the cursor with it.
Leave ==
    /\ conn # "idle" /\ Closed("idle")
    /\ \/ UNCHANGED <<shown, incomplete>>
       \/ shown' = <<>> /\ incomplete' = FALSE
    /\ UNCHANGED <<stored, process, ledger, drops, commands>>

\* ensureConnectedAndReconcile, on entering a Session and after every command.
EnsureConnectedAndReconcile ==
    /\ commands < MaxCommands /\ commands' = commands + 1
    /\ Reconcile(FALSE)
    /\ conn' = IF conn = "idle" THEN "opening" ELSE conn
    /\ UNCHANGED <<serverVars, shown, incomplete, drops>>

\* appendEvent of the user message the server has answered with; the
\* reconciliation that follows it is EnsureConnectedAndReconcile.
Receipt ==
    /\ commands < MaxCommands /\ commands' = commands + 1
    /\ \E e \in Range(memory) : up /\ origin[e] = "create" /\ shown' \in Merged(<<e>>)
    /\ incomplete' = (incomplete \/ shown = <<>>)
    /\ UNCHANGED <<serverVars, conn, recovering, buffer, backfill, drops>>

ClientStep ==
    \/ Connect \/ Retry \/ Subscribe \/ OnOpen \/ Receive \/ Answer \/ Backfilled
    \/ BackfillFails \/ Drop \/ Leave \/ EnsureConnectedAndReconcile \/ Receipt

Next ==
    \/ Boot /\ UNCHANGED clientVars
    \/ Crash /\ UNCHANGED clientVars
    \/ WriteSessions /\ UNCHANGED clientVars
    \/ Commit /\ UNCHANGED clientVars
    \/ Continue /\ UNCHANGED clientVars
    \/ Recover /\ UNCHANGED clientVars
    \/ \E e \in Events : (Create(e) \/ Transaction(e)) /\ UNCHANGED clientVars
    \/ ClientStep

Spec == Init /\ [][Next]_vars

-----------------------------------------------------------------------------
\* The events a connected tab still has to be given: on their way, or about to
\* be published by the continuation of the write that stored them.
OnTheirWay ==
    Range(frames) \cup Range(buffer)
        \cup (IF settled = "ok" THEN {Head(writes).event} ELSE {})

Missed == { e \in Range(log) \cap Range(memory) : ~Contains(shown, e) /\ e \notin OnTheirWay }

Live == conn = "connected" /\ subscribed /\ backfill = NoBackfill

(* Reconnecting loses nothing: whatever drops, retries, crashes, restarts   *)
(* and refused writes there have been, a connected tab has every stored     *)
(* event or is about to get it.  It holds for the coordinator on its own:   *)
(* no event came from a store's transaction and the workspace has neither   *)
(* reconciled nor appended a receipt.                                       *)
ReconnectIsComplete ==
    (\A e \in Events : origin[e] # "transaction") /\ commands = 0
        => (Live => Missed = {})
=============================================================================
