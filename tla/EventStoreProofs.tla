-------------------------- MODULE EventStoreProofs --------------------------
(***************************************************************************)
(* Proofs about EventStore for any set of events and any bounds.  The      *)
(* server's part says which events the rows, the memory, the FIFO and the  *)
(* stream may hold; the client's part, on which ReconnectIsComplete rests, *)
(* says that what a tab has is closed under the order of the log.          *)
(***************************************************************************)
EXTENDS EventStore, FiniteSetTheorems, TLAPS

-----------------------------------------------------------------------------
(* The server's invariant. *)

\* What lives in a process dies with it, and a Session it has not loaded has no memory.
ProcessInv ==
    /\ ~up => ~known /\ writes = <<>> /\ settled = "no" /\ claimed = <<>> /\ ~subscribed
    /\ ~known => memory = <<>> /\ ~subscribed
    /\ up /\ ~known => deleted
    /\ settled # "no" => writes # <<>>
    /\ \A w \in Range(writes) : w.op # "claim" => w.event \in Events
    /\ \A w \in Range(writes) : w.op \in {"append", "transaction"} => known

\* Nothing holds an event that has not come to be; a transaction's is not `create`d.
BirthInv ==
    /\ \A e \in Events : origin[e] = "none" =>
          /\ e \notin Range(log) /\ e \notin Range(memory)
          /\ \A w \in Range(writes) : w.event # e
    /\ \A w \in Range(writes) : w.op = "transaction" => origin[w.event] = "transaction"

\* What was claimed or has committed is a row; what is marked was published.
StoredInv ==
    /\ Range(claimed) \subseteq Range(log)
    /\ settled = "ok" /\ writes[1].op \in {"append", "transaction"} => writes[1].event \in Range(log)
    /\ \A w \in Range(writes) : w.op = "mark" => w.event \in published
    /\ SentIsStored
    /\ MarkedIsPublished

AllWrites == [op : Ops, event : Events \cup {NoEvent}]

ServerInv == ServerTypeOK /\ ProcessInv /\ BirthInv /\ StoredInv

-----------------------------------------------------------------------------
(* The client's invariant. *)

\* The coordinator is on its own.
Alone == (\A e \in Events : origin[e] # "transaction") /\ commands = 0

\* The process died, or was started, with the row deleted: no other gets the Session.
Gone == deleted /\ ~known

Page == IF backfill.stage = "answered" THEN Range(backfill.page) ELSE {}

\* What the tab has once the page has been merged.
Have == Range(shown) \cup Page

\* The phases of an attempt.
PhaseInv ==
    /\ ~incomplete
    /\ conn = "opened" <=> backfill.stage # "none"
    /\ conn = "opened" => backfill.open
    /\ recovering <=> conn \in {"opening", "opened"}
    /\ conn # "opened" => buffer = <<>>
    /\ conn \in {"idle", "retrying"} => frames = <<>>
    /\ backfill.stage # "none" /\ backfill.cursor # NoEvent => backfill.cursor \in Range(shown)
    /\ backfill.stage = "none" => backfill = NoBackfill

\* A tab has no event that has not come to be.
Born == {e \in Events : origin[e] # "none"}
HeldInv == Range(shown) \cup Range(buffer) \cup Range(backfill.page) \subseteq Born

\* Events that are rows or may become rows.
Appended == {writes[n].event : n \in {m \in DOMAIN writes : writes[m].op = "append"}}
Possible == Range(log) \cup Appended

\* e comes before x in this sequence, if both are in it.
Ahead(s, e, x) == \A p, q \in DOMAIN s : s[p] = e /\ s[q] = x => p < q

\* The memory holds the rows and then what waits to become a row, in one order.
OrderInv == known =>
    /\ Possible \subseteq Range(memory)
    /\ \A m, n \in DOMAIN log : m < n => Ahead(memory, log[m], log[n])
    /\ \A m, n \in DOMAIN writes :
          m < n /\ writes[m].op = "append" /\ writes[n].op = "append"
              => Ahead(memory, writes[m].event, writes[n].event)
    /\ \A n \in DOMAIN writes : writes[n].op = "append" /\ writes[n].event \notin Range(log)
              => \A e \in Range(log) : Ahead(memory, e, writes[n].event)

\* The order of the log as the next answer will show it.
Story == IF known THEN memory ELSE log
Prior(e, x) == \E p, q \in DOMAIN Story : p < q /\ Story[p] = e /\ Story[q] = x

\* All that comes before an event is in S.
Earlier == [x \in Events |-> {e \in Possible : Prior(e, x)}]
Covered(x, S) == Earlier[x] \subseteq S

\* The request has been answered: the stream adds to what the tab has.
Following == backfill.stage = "answered" \/ conn = "connected"

\* The write at the head has stored an event and will publish it.
Stored == settled = "ok" /\ writes[1].op = "append"

FollowHave == \A x \in Have : Covered(x, Have)
FollowBuffer == \A n \in DOMAIN buffer : Covered(buffer[n], Have \cup {buffer[m] : m \in 1..n - 1})
FollowFrames == \A n \in DOMAIN frames :
    Covered(frames[n], Have \cup Range(buffer) \cup {frames[m] : m \in 1..n - 1})
FollowStored ==
    Stored => Covered(writes[1].event, Have \cup Range(buffer) \cup Range(frames))
FollowRows == \A e \in Range(log) :
    e \in Have \cup Range(buffer) \cup Range(frames) \/ (Stored /\ e = writes[1].event)
FollowClaims ==
    /\ Range(claimed) \subseteq Have
    /\ settled = "no" /\ writes # <<>> /\ writes[1].op = "claim" => Range(log) \subseteq Have

FollowInv == Following =>
    /\ FollowHave /\ FollowBuffer /\ FollowFrames
    /\ subscribed => FollowStored /\ FollowRows /\ FollowClaims

ClosedInv == \A x \in Range(shown) : Covered(x, Range(shown))

\* The claim is the first write of a process.
ClaimInv == \A n \in DOMAIN writes : writes[n].op = "claim" => n = 1

AloneInv ==
    /\ OrderInv
    /\ ~Gone => PhaseInv /\ ClosedInv /\ FollowInv

\* What holds whatever the workspace does, and what holds if it does nothing.
Holds == TypeOK /\ ServerInv /\ HeldInv /\ ClaimInv
IInv == Holds /\ (Alone => AloneInv)

-----------------------------------------------------------------------------
(* Sequences. *)

LEMMA ContainsIsRange ==
    ASSUME NEW S, NEW s \in Seq(S), NEW e
    PROVE  Contains(s, e) <=> e \in Range(s)
  BY DEF Contains, Range

LEMMA RangeIsTyped ==
    ASSUME NEW S, NEW s \in Seq(S)
    PROVE  Range(s) \subseteq S
  BY DEF Range

LEMMA AppendRange ==
    ASSUME NEW S, NEW s \in Seq(S), NEW e \in S
    PROVE  /\ Range(Append(s, e)) = Range(s) \cup {e}
           /\ IsInjective(s) /\ e \notin Range(s) => IsInjective(Append(s, e))
<1> DEFINE t == Append(s, e)
<1>1. /\ DOMAIN s = 1..Len(s) /\ DOMAIN t = 1..(Len(s) + 1) /\ Len(s) \in Nat
      /\ \A n \in DOMAIN s : t[n] = s[n]
      /\ t[Len(s) + 1] = e
  OBVIOUS
<1> HIDE DEF t
<1>2. /\ DOMAIN t = DOMAIN s \cup {Len(s) + 1}
      /\ Len(s) + 1 \notin DOMAIN s
  BY <1>1
<1>3. Range(t) = Range(s) \cup {e}
  BY <1>1, <1>2 DEF Range
<1>4. IsInjective(s) /\ e \notin Range(s) => IsInjective(t)
  BY <1>1, <1>2 DEF Range, IsInjective
<1>5. QED
  BY <1>3, <1>4 DEF t

LEMMA TailRange ==
    ASSUME NEW S, NEW s \in Seq(S), s # <<>>
    PROVE  /\ Tail(s) \in Seq(S) /\ Head(s) = s[1] /\ s[1] \in S /\ 1 \in DOMAIN s
           /\ Len(Tail(s)) = Len(s) - 1
           /\ \A n \in DOMAIN Tail(s) : n + 1 \in DOMAIN s /\ Tail(s)[n] = s[n + 1]
           /\ Range(s) = {s[1]} \cup Range(Tail(s))
<1>1. /\ Tail(s) \in Seq(S) /\ Head(s) = s[1] /\ s[1] \in S /\ 1 \in DOMAIN s
      /\ Len(Tail(s)) = Len(s) - 1
      /\ \A n \in DOMAIN Tail(s) : n + 1 \in DOMAIN s /\ Tail(s)[n] = s[n + 1]
  OBVIOUS
<1>2. ASSUME NEW n \in DOMAIN s, n # 1
      PROVE  n - 1 \in DOMAIN Tail(s) /\ Tail(s)[n - 1] = s[n]
  <2>0. DOMAIN s = 1..Len(s) /\ Len(s) \in Nat
    OBVIOUS
  <2>1. n \in 2..Len(s) /\ DOMAIN Tail(s) = 1..(Len(s) - 1) /\ Len(s) \in Nat
    BY <1>1, <1>2, <2>0
  <2>2. n - 1 \in DOMAIN Tail(s)
    BY <2>1
  <2>3. QED
    BY <2>1, <2>2, <1>1
<1> DEFINE t == Tail(s)
<1>3. Range(s) = {s[1]} \cup Range(t)
  <2> HIDE DEF t
  <2>1. /\ \A n \in DOMAIN t : n + 1 \in DOMAIN s /\ t[n] = s[n + 1]
        /\ \A n \in DOMAIN s : n # 1 => n - 1 \in DOMAIN t /\ t[n - 1] = s[n]
        /\ 1 \in DOMAIN s
    BY <1>1, <1>2 DEF t
  <2>2. QED
    BY <2>1 DEF Range
<1>4. QED
  BY <1>1, <1>3

\* What a list with one more at the end holds.
LEMMA AppendIndex ==
    ASSUME NEW S, NEW s \in Seq(S), NEW e \in S
    PROVE  /\ Append(s, e) \in Seq(S) /\ Len(Append(s, e)) = Len(s) + 1 /\ Len(s) \in Nat
           /\ DOMAIN s = 1..Len(s) /\ DOMAIN Append(s, e) = 1..(Len(s) + 1)
           /\ \A n \in DOMAIN s : n \in DOMAIN Append(s, e) /\ Append(s, e)[n] = s[n]
           /\ Append(s, e)[Len(s) + 1] = e
  OBVIOUS

LEMMA EmptyRange == Range(<<>>) = {}
  BY DEF Range

LEMMA EmptyIsInjective == IsInjective(<<>>)
  BY DEF IsInjective

LEMMA RangeIndex ==
    ASSUME NEW s, NEW n \in DOMAIN s
    PROVE  s[n] \in Range(s)
  BY DEF Range

-----------------------------------------------------------------------------
(* The server. *)

\* The initial state satisfies the invariant.
LEMMA ServerInitial ==
    ASSUME ServerInit
    PROVE  ServerInv /\ ClaimInv
<1> USE EventsAssumption
<1>1. <<>> \in Seq(Events) /\ <<>> \in Seq([op : Ops, event : Events \cup {NoEvent}])
        /\ IsInjective(<<>>)
  BY EmptyIsInjective
<1>2. ServerTypeOK
  <2> USE DEF ServerInit
  <2>1. log \in Seq(Events) /\ memory \in Seq(Events) /\ claimed \in Seq(Events) /\ frames \in Seq(Events)
    BY <1>1
  <2>2. outbox \in [Events -> Statuses] /\ origin \in [Events -> {"none", "create", "transaction"}]
    BY DEF Statuses
  <2>3. boots \in 0 .. MaxBoots /\ failures \in 0 .. MaxFailures /\ published \subseteq Events
    OBVIOUS
  <2>4. QED
    BY <1>1, <2>1, <2>2, <2>3 DEF ServerTypeOK
<1>3. QED
  BY <1>2, EmptyRange
  DEF ServerInit, ServerInv, ProcessInv, BirthInv, StoredInv, SentIsStored, MarkedIsPublished, ClaimInv

\* A write of the FIFO is of an event, unless it is the claim.
LEMMA WriteIsTyped ==
    ASSUME NEW op \in Ops, NEW e \in Events \cup {NoEvent}
    PROVE  /\ Write(op, e) \in [op : Ops, event : Events \cup {NoEvent}]
           /\ Write(op, e).op = op /\ Write(op, e).event = e
  BY DEF Write

\* A boot loads the rows and queues the claim.
LEMMA BootServer ==
    ASSUME ServerInv, Boot
    PROVE  ServerInv' /\ ClaimInv'
<1> USE EventsAssumption DEF ServerInv, Boot, stored, stream
<1>1. /\ writes' = <<Write("claim", NoEvent)>> /\ DOMAIN writes' = {1}
      /\ \A w \in Range(writes') : w.op = "claim" /\ w.event = NoEvent
  BY DEF Write, Range
<1>2. ServerTypeOK'
  <2>1. writes' \in Seq([op : Ops, event : Events \cup {NoEvent}])
    BY <1>1, WriteIsTyped DEF Ops
  <2>2. memory' \in Seq(Events) /\ IsInjective(memory')
    BY EmptyIsInjective DEF ServerTypeOK
  <2>3. boots' \in 0..MaxBoots
    BY DEF ServerTypeOK
  <2>4. QED
    BY <2>1, <2>2, <2>3 DEF ServerTypeOK
<1>3. ProcessInv'
  BY <1>1 DEF ProcessInv
<1>4. BirthInv'
  BY <1>1, EmptyRange, EventsAssumption DEF BirthInv
<1>5. StoredInv'
  BY <1>1 DEF StoredInv, SentIsStored, MarkedIsPublished, ProcessInv
<1>6. QED
  BY <1>1, <1>2, <1>3, <1>4, <1>5 DEF ClaimInv

\* A crash leaves the rows, and frames that had left.
LEMMA CrashServer ==
    ASSUME ServerInv, Crash
    PROVE  ServerInv' /\ ClaimInv'
<1> USE EventsAssumption DEF ServerInv, Crash, stored, ledger
<1>1. ServerTypeOK'
  <2>1. memory' \in Seq(Events) /\ writes' \in Seq([op : Ops, event : Events \cup {NoEvent}])
          /\ claimed' \in Seq(Events)
    OBVIOUS
  <2>2. IsInjective(memory')
    BY EmptyIsInjective
  <2>3. QED
    BY <2>1, <2>2 DEF ServerTypeOK
<1>2. ProcessInv' /\ ClaimInv'
  BY EmptyRange DEF ProcessInv, ClaimInv
<1>3. BirthInv'
  BY EmptyRange DEF BirthInv
<1>4. StoredInv'
  BY EmptyRange DEF StoredInv, SentIsStored, MarkedIsPublished
<1>5. QED
  BY <1>1, <1>2, <1>3, <1>4

\* A write of the Sessions touches only the mark of the row.
LEMMA WriteSessionsServer ==
    ASSUME ServerInv, ClaimInv, WriteSessions
    PROVE  ServerInv' /\ ClaimInv'
<1> USE DEF ServerInv, WriteSessions, process, stream, ledger
<1>1. ServerTypeOK'
  BY DEF ServerTypeOK
<1>2. ProcessInv' /\ ClaimInv' /\ BirthInv' /\ StoredInv'
  BY DEF ProcessInv, ClaimInv, BirthInv, StoredInv, SentIsStored, MarkedIsPublished
<1>3. QED
  BY <1>1, <1>2

\* The operation at the head of the FIFO is answered: what can have come of it.
AnswerEffect ==
    /\ UNCHANGED <<deleted, up, known, memory, writes, stream, origin, published, boots>>
    /\ up /\ writes # <<>> /\ settled = "no" /\ settled' \in {"ok", "failed"}
    /\ writes[1] \in Range(writes) /\ writes[1] = Head(writes)
    /\ failures' \in 0 .. MaxFailures /\ outbox' \in [Events -> Statuses]
    /\ \/ /\ settled' = "ok" /\ writes[1].op \in {"append", "transaction"}
          /\ log' = (IF writes[1].event \in Range(log) THEN log ELSE Append(log, writes[1].event))
          /\ UNCHANGED claimed
          /\ \A e \in Events : outbox'[e] = "published" => outbox[e] = "published"
       \/ /\ UNCHANGED <<log, claimed>>
          /\ settled' = "ok" => writes[1].op \in {"mark", "discard"}
          /\ \A e \in Events : outbox'[e] = "published"
                => outbox[e] = "published" \/ (writes[1].op = "mark" /\ writes[1].event = e)
       \/ /\ settled' = "ok" /\ writes[1].op = "claim" /\ UNCHANGED log
          /\ claimed' \in Seq(Events) /\ Range(claimed') \subseteq Range(log)
          /\ \A e \in Events : outbox'[e] = "published" => outbox[e] = "published"

LEMMA CommitEffect ==
    ASSUME ServerInv, Commit
    PROVE  AnswerEffect
<1> USE DEF ServerInv
<1> DEFINE w == Head(writes)
<1>1. /\ w = writes[1] /\ w \in Range(writes) /\ w \in [op : Ops, event : Events \cup {NoEvent}]
      /\ w.op # "claim" => w.event \in Events
  <2>1. writes # <<>> /\ writes \in Seq([op : Ops, event : Events \cup {NoEvent}])
    BY DEF Commit, ServerTypeOK
  <2>2. w = writes[1] /\ w \in [op : Ops, event : Events \cup {NoEvent}] /\ 1 \in DOMAIN writes
    BY <2>1, TailRange
  <2>3. w \in Range(writes)
    BY <2>2, RangeIndex
  <2>4. QED
    BY <2>2, <2>3 DEF ProcessInv
<1> HIDE DEF w
<1>2. /\ UNCHANGED <<deleted, up, known, memory, writes, stream, origin, published, boots>>
      /\ up /\ writes # <<>> /\ settled = "no" /\ settled' \in {"ok", "failed"}
  BY DEF Commit
<1>3. failures' \in 0 .. MaxFailures
  BY EventsAssumption DEF Commit, ServerTypeOK
<1>4. outbox \in [Events -> Statuses] /\ log \in Seq(Events)
  BY DEF ServerTypeOK
<1>5. CASE settled' = "failed"
  <2>1. UNCHANGED <<log, outbox, claimed>>
    BY <1>5 DEF Commit
  <2>2. QED
    BY <1>1, <1>2, <1>3, <1>4, <1>5, <2>1 DEF AnswerEffect
<1>6. CASE settled' = "ok" /\ w.op \in {"append", "transaction"} /\ Inserts(w.event)
  <2>1. Contains(log, w.event) <=> w.event \in Range(log)
    BY <1>4, ContainsIsRange
  <2>2. /\ outbox' \in [Events -> Statuses]
        /\ \A e \in Events : outbox'[e] = "published" => outbox[e] = "published"
    BY <1>1, <1>4, <1>6 DEF Inserts, Statuses
  <2>3. /\ log' = (IF w.event \in Range(log) THEN log ELSE Append(log, w.event))
        /\ UNCHANGED claimed
    BY <1>6, <2>1 DEF Inserts
  <2>4. QED
    BY <1>1, <1>2, <1>3, <1>6, <2>2, <2>3 DEF AnswerEffect
<1>7. ASSUME settled' = "ok", NEW status \in {"published", "discarded"}, Marks(w.event, status),
             w.op = (IF status = "published" THEN "mark" ELSE "discard")
      PROVE  AnswerEffect
  <2>1. w.event \in Events
    BY <1>1, <1>7
  <2>2. /\ UNCHANGED <<log, claimed>> /\ outbox' \in [Events -> Statuses]
        /\ \A e \in Events : outbox'[e] = "published"
              => outbox[e] = "published" \/ (w.op = "mark" /\ w.event = e)
    BY <1>4, <1>7, <2>1 DEF Marks, Statuses
  <2>3. QED
    BY <1>1, <1>2, <1>3, <1>7, <2>2 DEF AnswerEffect
<1>8. CASE settled' = "ok" /\ w.op = "claim" /\ Claims
  <2>1. PICK expired \in SUBSET {e \in Events : outbox[e] = "publishing"} :
           LET due == {e \in Range(log) : outbox[e] = "pending" \/ e \in expired}
           IN  \E rows \in Oldest(due, Min({Cardinality(due), ClaimLimit})) :
                 /\ outbox' = [e \in Events |-> IF Contains(rows, e) THEN "publishing" ELSE outbox[e]]
                 /\ claimed' = rows
                 /\ UNCHANGED log
    BY <1>8 DEF Claims
  <2> DEFINE due == {e \in Range(log) : outbox[e] = "pending" \/ e \in expired}
             k == Min({Cardinality(due), ClaimLimit})
  <2>2. PICK rows \in Oldest(due, k) :
           /\ outbox' = [e \in Events |-> IF Contains(rows, e) THEN "publishing" ELSE outbox[e]]
           /\ claimed' = rows
           /\ UNCHANGED log
    BY <2>1
  <2>3. due \subseteq Range(log) /\ Range(log) \subseteq Events /\ IsFiniteSet(due)
    BY <1>4, EventsAssumption, FS_Subset DEF Range
  <2>4. k \in Nat
    <3>1. Cardinality(due) \in Nat /\ ClaimLimit \in Nat
      BY <2>3, FS_CardinalityType, EventsAssumption
    <3>2. \E x \in {Cardinality(due), ClaimLimit} : \A y \in {Cardinality(due), ClaimLimit} : x =< y
      BY <3>1
    <3>3. k \in {Cardinality(due), ClaimLimit}
      BY <3>2 DEF Min
    <3>4. QED
      BY <3>1, <3>3
  <2>5. rows \in [1..k -> due]
    BY <2>2 DEF Oldest
  <2> HIDE DEF due, k
  <2>6. rows \in Seq(Events) /\ Range(rows) \subseteq Range(log)
    BY <2>3, <2>4, <2>5 DEF Range
  <2>7. /\ outbox' \in [Events -> Statuses]
        /\ \A e \in Events : outbox'[e] = "published" => outbox[e] = "published"
    BY <1>4, <2>2 DEF Statuses
  <2>8. QED
    BY <1>1, <1>2, <1>3, <1>8, <2>2, <2>6, <2>7 DEF AnswerEffect
<1>9. \/ settled' = "failed"
      \/ settled' = "ok" /\ w.op \in {"append", "transaction"} /\ Inserts(w.event)
      \/ settled' = "ok" /\ w.op = "mark" /\ Marks(w.event, "published")
      \/ settled' = "ok" /\ w.op = "discard" /\ Marks(w.event, "discarded")
      \/ settled' = "ok" /\ w.op = "claim" /\ Claims
  BY DEF Commit, w
<1>10. QED
  <2>1. CASE settled' = "ok" /\ w.op = "mark" /\ Marks(w.event, "published")
    BY <1>7, <2>1
  <2>2. CASE settled' = "ok" /\ w.op = "discard" /\ Marks(w.event, "discarded")
    BY <1>7, <2>2
  <2>3. QED
    BY <1>5, <1>6, <1>8, <1>9, <2>1, <2>2

\* An answer changes the rows as the operation says.
LEMMA CommitServer ==
    ASSUME ServerInv, ClaimInv, Commit
    PROVE  ServerInv' /\ ClaimInv'
<1>0. AnswerEffect
  BY CommitEffect
<1> USE DEF ServerInv, AnswerEffect, stream
<1> DEFINE x == writes[1].event
<1>1. /\ log \in Seq(Events) /\ IsInjective(log) /\ writes[1] \in Range(writes)
      /\ writes[1].op # "claim" => x \in Events /\ origin[x] # "none"
  BY <1>0 DEF ServerTypeOK, ProcessInv, BirthInv
<1>2. /\ log' \in Seq(Events) /\ IsInjective(log') /\ Range(log) \subseteq Range(log')
      /\ \A e \in Range(log') : e \in Range(log) \/ (e = x /\ origin[x] # "none")
      /\ settled' = "ok" /\ writes[1].op \in {"append", "transaction"} => x \in Range(log')
  <2>1. CASE log' = log
    BY <1>0, <1>1, <2>1
  <2>2. CASE log' = Append(log, x) /\ x \notin Range(log) /\ writes[1].op # "claim"
    <3>1. log' \in Seq(Events)
      BY <1>1, <2>2, AppendIndex
    <3>2. IsInjective(log') /\ Range(log') = Range(log) \cup {x}
      BY <1>1, <2>2, AppendRange
    <3>3. QED
      BY <1>1, <2>2, <3>1, <3>2
  <2>3. QED
    BY <1>0, <2>1, <2>2
<1> HIDE DEF x
<1>3. claimed' \in Seq(Events) /\ Range(claimed') \subseteq Range(log')
  BY <1>0, <1>2 DEF ServerTypeOK, StoredInv
<1>4. ServerTypeOK'
  BY <1>0, <1>2, <1>3 DEF ServerTypeOK
<1>5. ProcessInv' /\ ClaimInv'
  BY <1>0 DEF ProcessInv, ClaimInv
<1>6. BirthInv'
  BY <1>0, <1>1, <1>2 DEF BirthInv
<1>7. StoredInv'
  <2>1. \A w \in Range(writes') : w.op = "mark" => w.event \in published'
    BY <1>0 DEF StoredInv
  <2>2. SentIsStored'
    BY <1>0, <1>2 DEF StoredInv, SentIsStored
  <2>3. MarkedIsPublished'
    BY <1>0 DEF StoredInv, MarkedIsPublished
  <2>4. settled' = "ok" /\ writes'[1].op \in {"append", "transaction"} => writes'[1].event \in Range(log')
    BY <1>0, <1>2 DEF x
  <2>5. QED
    BY <1>3, <2>1, <2>2, <2>3, <2>4 DEF StoredInv
<1>8. QED
  BY <1>4, <1>5, <1>6, <1>7

\* publishCommitted hands a stored event to the listeners and queues its mark.
LEMMA PublishEffect ==
    ASSUME ServerInv, NEW e \in Range(log), NEW rest, rest = writes \/ (writes # <<>> /\ rest = Tail(writes)),
           Publish(e, rest)
    PROVE  /\ e \in Events /\ published' = published \cup {e}
           /\ frames' \in Seq(Events) /\ Range(frames') \subseteq Range(frames) \cup {e}
           /\ rest \in Seq(AllWrites)
           /\ writes' \in Seq(AllWrites)
           /\ writes' = Append(rest, Write("mark", e))
           /\ \A w \in Range(writes') : w \in Range(writes) \/ (w.op = "mark" /\ w.event = e)
<1> USE DEF ServerInv, Publish
<1>1. log \in Seq(Events) /\ frames \in Seq(Events)
        /\ writes \in Seq(AllWrites)
  BY DEF ServerTypeOK, AllWrites
<1>2. e \in Events
  BY <1>1, RangeIsTyped
<1>3. frames' \in Seq(Events) /\ Range(frames') \subseteq Range(frames) \cup {e}
  BY <1>1, <1>2, AppendRange, AppendIndex
<1>4. rest \in Seq(AllWrites) /\ Range(rest) \subseteq Range(writes)
  <2>1. CASE writes # <<>> /\ rest = Tail(writes)
    BY <1>1, <2>1, TailRange
  <2>2. QED
    BY <1>1, <2>1
<1> DEFINE m == Write("mark", e)
<1>5. m \in AllWrites /\ m.op = "mark" /\ m.event = e
  BY <1>2, WriteIsTyped DEF Ops, AllWrites
<1>6. writes' = Append(rest, m)
  OBVIOUS
<1> HIDE DEF m
<1>7. Range(Append(rest, m)) = Range(rest) \cup {m} /\ Append(rest, m) \in Seq(AllWrites)
  BY <1>4, <1>5, AppendRange, AppendIndex
<1>8. QED
  BY <1>2, <1>3, <1>4, <1>5, <1>6, <1>7 DEF m

\* What a step that leaves the rows and the outbox may do to the FIFO and the stream.
LEMMA ProcessStep ==
    ASSUME ServerInv, UNCHANGED <<stored, up, known, subscribed, origin, boots, failures>>, up,
           NEW e \in Events, origin[e] # "none",
           memory' = memory \/ (e \notin Range(memory) /\ known /\ memory' = Append(memory, e)),
           settled' = settled \/ settled' = "no",
           settled' # "no" => writes' # <<>> /\ writes'[1] = writes[1],
           writes' \in Seq(AllWrites),
           \A w \in Range(writes') : w \in Range(writes) \/ (w.event = e /\ w.op \in {"mark", "discard"}),
           \A w \in Range(writes') : w.op = "mark" => w.event \in published',
           claimed' = claimed \/ (claimed # <<>> /\ claimed' = Tail(claimed)),
           frames' \in Seq(Events), Range(frames') \subseteq Range(frames) \cup (published' \cap {e}),
           published' = published \/ (e \in Range(log) /\ published' = published \cup {e})
    PROVE  ServerInv'
<1> USE DEF ServerInv, stored
<1>1. claimed' \in Seq(Events) /\ Range(claimed') \subseteq Range(claimed)
  <2>1. claimed \in Seq(Events)
    BY DEF ServerTypeOK
  <2>2. CASE claimed # <<>> /\ claimed' = Tail(claimed)
    BY <2>1, <2>2, TailRange
  <2>3. QED
    BY <2>1, <2>2
<1>2. memory' \in Seq(Events) /\ IsInjective(memory') /\ Range(memory') \subseteq Range(memory) \cup {e}
  <2>1. memory \in Seq(Events) /\ IsInjective(memory)
    BY DEF ServerTypeOK
  <2>2. CASE e \notin Range(memory) /\ memory' = Append(memory, e)
    <3>1. memory' \in Seq(Events)
      BY <2>1, <2>2, AppendIndex
    <3>2. IsInjective(memory') /\ Range(memory') = Range(memory) \cup {e}
      BY <2>1, <2>2, AppendRange
    <3>3. QED
      BY <3>1, <3>2
  <2>3. QED
    BY <2>1, <2>2
<1>3. ServerTypeOK'
  BY <1>1, <1>2 DEF ServerTypeOK, AllWrites
<1>4. ProcessInv'
  <2>1. \A w \in Range(writes') : w.op # "claim" => w.event \in Events
    BY DEF ProcessInv
  <2>2. QED
    BY <2>1 DEF ProcessInv
<1>5. BirthInv'
  BY <1>2 DEF BirthInv
<1>6. StoredInv'
  <2>1. SentIsStored'
    BY DEF StoredInv, SentIsStored
  <2>2. MarkedIsPublished'
    BY DEF StoredInv, MarkedIsPublished
  <2>3. settled' = "ok" /\ writes'[1].op \in {"append", "transaction"} => writes'[1].event \in Range(log')
    BY DEF StoredInv
  <2>4. Range(claimed') \subseteq Range(log')
    BY <1>1 DEF StoredInv
  <2>5. QED
    BY <2>1, <2>2, <2>3, <2>4 DEF StoredInv
<1>7. QED
  BY <1>3, <1>4, <1>5, <1>6

\* The head leaves the FIFO; what was behind it moves up.
LEMMA TailClaim ==
    ASSUME ServerInv, ClaimInv, writes # <<>>, NEW m \in AllWrites, m.op # "claim",
           writes' = Tail(writes) \/ writes' = Append(Tail(writes), m) \/ writes' = Append(writes, m)
    PROVE  ClaimInv'
<1>1. writes \in Seq(AllWrites)
  BY DEF ServerInv, ServerTypeOK, AllWrites
<1>2. /\ Tail(writes) \in Seq(AllWrites)
      /\ \A n \in DOMAIN Tail(writes) : n + 1 \in DOMAIN writes /\ Tail(writes)[n] = writes[n + 1]
  BY <1>1, TailRange
<1>3. \A n \in DOMAIN Tail(writes) : n \in Nat /\ n >= 1
  BY <1>2
<1>4. \A n \in DOMAIN Tail(writes) : Tail(writes)[n].op # "claim"
  BY <1>2, <1>3 DEF ClaimInv
<1>5. CASE writes' = Append(Tail(writes), m)
  BY <1>2, <1>4, <1>5, AppendIndex DEF ClaimInv
<1>6. CASE writes' = Append(writes, m)
  BY <1>1, <1>6, AppendIndex DEF ClaimInv
<1>7. CASE writes' = Tail(writes)
  BY <1>4, <1>7 DEF ClaimInv
<1>8. QED
  BY <1>5, <1>6, <1>7

\* The continuation publishes what has been stored and takes the head off the FIFO.
LEMMA ContinueServer ==
    ASSUME ServerInv, ClaimInv, Continue
    PROVE  ServerInv' /\ ClaimInv'
<1> DEFINE w == Head(writes)
<1>1. /\ up /\ settled # "no" /\ settled' = "no" /\ writes # <<>>
      /\ UNCHANGED <<stored, up, known, claimed, subscribed, origin, boots, failures>>
  BY DEF Continue, ServerInv, ProcessInv
<1>2. writes \in Seq(AllWrites) /\ memory \in Seq(Events)
  BY DEF ServerInv, ServerTypeOK, AllWrites
<1>3. /\ w = writes[1] /\ w \in Range(writes) /\ Tail(writes) \in Seq(AllWrites)
      /\ Range(Tail(writes)) \subseteq Range(writes)
  BY <1>1, <1>2, TailRange
<1>4. \A e : Contains(memory, e) <=> e \in Range(memory)
  BY <1>2, ContainsIsRange
<1>5. CASE settled = "ok" /\ w.op \in {"append", "transaction"} /\ Publish(w.event, Tail(writes))
           /\ (memory' = memory \/ (w.event \notin Range(memory) /\ memory' = Append(memory, w.event)))
  <2> DEFINE e == w.event
  <2>1. e \in Range(log) /\ e \in Events /\ origin[e] # "none" /\ known
    BY <1>3, <1>5 DEF ServerInv, StoredInv, BirthInv, ProcessInv
  <2>2. /\ published' = published \cup {e}
        /\ frames' \in Seq(Events) /\ Range(frames') \subseteq Range(frames) \cup {e}
        /\ writes' \in Seq(AllWrites)
        /\ writes' = Append(Tail(writes), Write("mark", e))
        /\ \A v \in Range(writes') : v \in Range(writes) \/ (v.op = "mark" /\ v.event = e)
    BY <1>1, <1>5, <2>1, PublishEffect
  <2>3. Write("mark", e) \in AllWrites /\ Write("mark", e).op = "mark"
    BY <2>1, WriteIsTyped DEF Ops, AllWrites
  <2>4. ClaimInv'
    BY <1>1, <2>2, <2>3, TailClaim
  <2>5. \A v \in Range(writes') : v.op = "mark" => v.event \in published'
    BY <2>2 DEF ServerInv, StoredInv
  <2>6. memory' = memory \/ (e \notin Range(memory) /\ known /\ memory' = Append(memory, e))
    BY <1>5, <2>1
  <2> HIDE DEF e
  <2>7. ServerInv'
    BY <1>1, <2>1, <2>2, <2>5, <2>6, ProcessStep
  <2>8. QED
    BY <2>4, <2>7
<1>6. CASE writes' = Tail(writes) /\ UNCHANGED <<memory, published, frames>>
  <2>1. writes' \in Seq(AllWrites) /\ Range(writes') \subseteq Range(writes)
    BY <1>3, <1>6
  <2>2. ClaimInv'
    <3>2. \A n \in DOMAIN Tail(writes) : n + 1 \in DOMAIN writes /\ Tail(writes)[n] = writes[n + 1] /\ n >= 1
      BY <1>1, <1>2, TailRange
    <3>3. QED
      BY <1>3, <1>6, <3>2 DEF ClaimInv
  <2>3. ServerTypeOK'
    BY <1>1, <1>6, <2>1 DEF ServerInv, ServerTypeOK, stored, AllWrites
  <2>4. ProcessInv' /\ BirthInv' /\ StoredInv'
    BY <1>1, <1>6, <2>1
    DEF ServerInv, ProcessInv, BirthInv, StoredInv, SentIsStored, MarkedIsPublished, stored
  <2>5. QED
    BY <2>2, <2>3, <2>4 DEF ServerInv
<1>7. QED
  BY <1>4, <1>5, <1>6 DEF Continue

\* recoverPendingOutbox publishes a claimed row or has it discarded.
LEMMA RecoverServer ==
    ASSUME ServerInv, ClaimInv, Recover
    PROVE  ServerInv' /\ ClaimInv'
<1> DEFINE e == Head(claimed)
<1>1. /\ up /\ claimed # <<>> /\ claimed' = Tail(claimed)
      /\ UNCHANGED <<stored, up, known, memory, settled, subscribed, origin, boots, failures>>
  BY DEF Recover
<1>2. writes \in Seq(AllWrites) /\ claimed \in Seq(Events)
  BY DEF ServerInv, ServerTypeOK, AllWrites
<1>3. e \in Range(claimed) /\ e \in Events
  BY <1>1, <1>2, TailRange
<1>4. e \in Range(log) /\ origin[e] # "none"
  BY <1>3 DEF ServerInv, StoredInv, BirthInv
<1> DEFINE m == IF Contains(memory, e) THEN Write("mark", e) ELSE Write("discard", e)
<1>5. m \in AllWrites /\ m.op \in {"mark", "discard"} /\ m.event = e
  BY <1>3, WriteIsTyped DEF Ops, AllWrites
<1>6. /\ writes' = Append(writes, m)
      /\ m.op = "mark" => e \in published'
      /\ frames' \in Seq(Events) /\ Range(frames') \subseteq Range(frames) \cup (published' \cap {e})
      /\ published' = published \/ published' = published \cup {e}
  <2>1. CASE Contains(memory, e) /\ Publish(e, writes)
    BY <1>4, <2>1, PublishEffect
  <2>2. CASE ~Contains(memory, e) /\ writes' = Append(writes, Write("discard", e))
             /\ UNCHANGED <<published, frames>>
    BY <2>2, WriteIsTyped, <1>3 DEF Ops, ServerInv, ServerTypeOK
  <2>3. QED
    BY <2>1, <2>2 DEF Recover
<1> HIDE DEF e, m
<1>7. /\ writes' \in Seq(AllWrites) /\ Range(writes') = Range(writes) \cup {m}
      /\ writes # <<>> => writes'[1] = writes[1]
      /\ writes' # <<>>
  <2>1. writes' \in Seq(AllWrites) /\ Range(writes') = Range(writes) \cup {m}
    BY <1>2, <1>5, <1>6, AppendIndex, AppendRange
  <2>2. (writes # <<>> => writes'[1] = writes[1]) /\ writes' # <<>>
    BY <1>2, <1>5, <1>6
  <2>3. QED
    BY <2>1, <2>2
<1>8. ServerInv'
  <2>1. \A v \in Range(writes') : v \in Range(writes) \/ (v.event = e /\ v.op \in {"mark", "discard"})
    BY <1>5, <1>7
  <2>2. \A v \in Range(writes') : v.op = "mark" => v.event \in published'
    BY <1>5, <1>6, <1>7 DEF ServerInv, StoredInv
  <2>3. settled # "no" => writes # <<>>
    BY DEF ServerInv, ProcessInv
  <2>4. QED
    BY <1>1, <1>3, <1>4, <1>6, <1>7, <2>1, <2>2, <2>3, ProcessStep
<1>9. ClaimInv'
  <2>1. \A n \in DOMAIN writes' : (n \in DOMAIN writes /\ writes'[n] = writes[n]) \/ writes'[n] = m
    BY <1>2, <1>5, <1>6, AppendIndex
  <2>2. QED
    BY <1>5, <2>1 DEF ClaimInv
<1>10. QED
  BY <1>8, <1>9

\* An event comes to be: it is queued, and in memory if it was `create`d.
LEMMA BirthServer ==
    ASSUME ServerInv, ClaimInv, NEW e \in Events, Create(e) \/ Transaction(e)
    PROVE  ServerInv' /\ ClaimInv'
<1> DEFINE kind == IF Create(e) THEN "create" ELSE "transaction"
           m == IF Create(e) THEN Write("append", e) ELSE Write("transaction", e)
<1>1. /\ known /\ origin[e] = "none"
      /\ UNCHANGED <<stored, up, known, settled, claimed, stream, published, boots, failures>>
      /\ origin' = [origin EXCEPT ![e] = kind]
      /\ writes' = Append(writes, m)
      /\ memory' = memory \/ memory' = Append(memory, e)
  BY DEF Create, Transaction
<1>2. /\ m \in AllWrites /\ m.event = e /\ m.op \in {"append", "transaction"}
      /\ m.op = "transaction" => kind = "transaction"
      /\ kind \in {"create", "transaction"}
  BY WriteIsTyped DEF Ops, AllWrites
<1> HIDE DEF m, kind
<1>3. /\ writes \in Seq(AllWrites) /\ memory \in Seq(Events) /\ IsInjective(memory)
      /\ origin \in [Events -> {"none", "create", "transaction"}]
      /\ e \notin Range(memory) /\ e \notin Range(log)
  BY <1>1 DEF ServerInv, ServerTypeOK, AllWrites, BirthInv
<1>4. /\ writes' \in Seq(AllWrites) /\ Range(writes') = Range(writes) \cup {m}
      /\ \A n \in DOMAIN writes' : (n \in DOMAIN writes /\ writes'[n] = writes[n]) \/ writes'[n] = m
  BY <1>1, <1>2, <1>3, AppendRange, AppendIndex
<1>5. /\ memory' \in Seq(Events) /\ IsInjective(memory') /\ Range(memory') \subseteq Range(memory) \cup {e}
  <2>1. CASE memory' = Append(memory, e)
    <3>1. memory' \in Seq(Events)
      BY <1>3, <2>1, AppendIndex
    <3>2. IsInjective(memory') /\ Range(memory') = Range(memory) \cup {e}
      BY <1>3, <2>1, AppendRange
    <3>3. QED
      BY <3>1, <3>2
  <2>2. QED
    BY <1>1, <1>3, <2>1
<1>6. writes # <<>> => writes' # <<>> /\ writes'[1] = writes[1]
  BY <1>1, <1>2, <1>3
<1>7. /\ origin' \in [Events -> {"none", "create", "transaction"}] /\ origin'[e] = kind
      /\ \A d \in Events : d # e => origin'[d] = origin[d]
  BY <1>1, <1>2, <1>3
<1>8. ServerTypeOK'
  BY <1>1, <1>4, <1>5, <1>7 DEF ServerInv, ServerTypeOK, AllWrites, stored, stream
<1>9. ProcessInv'
  <2>1. \A w \in Range(writes') : /\ w.op # "claim" => w.event \in Events
                                  /\ w.op \in {"append", "transaction"} => known'
    BY <1>1, <1>2, <1>4 DEF ServerInv, ProcessInv
  <2>2. up' /\ known' /\ UNCHANGED settled /\ (settled' # "no" => writes' # <<>>)
    BY <1>1, <1>6 DEF ServerInv, ProcessInv
  <2>3. QED
    BY <2>1, <2>2 DEF ProcessInv
<1>10. BirthInv'
  <2>1. \A d \in Events : origin'[d] = "none" =>
           d # e /\ origin[d] = "none" /\ d \notin Range(log') /\ d \notin Range(memory')
                 /\ \A w \in Range(writes') : w.event # d
    BY <1>1, <1>2, <1>4, <1>5, <1>7 DEF ServerInv, BirthInv, stored
  <2>2. ASSUME NEW w \in Range(writes'), w.op = "transaction"
        PROVE  origin'[w.event] = "transaction"
    <3>1. CASE w = m
      BY <1>2, <1>7, <2>2, <3>1
    <3>2. CASE w \in Range(writes)
      <4>1. w.event # e /\ origin[w.event] = "transaction" /\ w.event \in Events
        BY <1>1, <2>2, <3>2 DEF ServerInv, BirthInv, ProcessInv
      <4>2. QED
        BY <1>7, <4>1
    <3>3. QED
      BY <1>4, <3>1, <3>2
  <2>3. QED
    BY <2>1, <2>2 DEF BirthInv
<1>11. StoredInv'
  <2>1. \A w \in Range(writes') : w.op = "mark" => w.event \in published'
    BY <1>1, <1>2, <1>4 DEF ServerInv, StoredInv
  <2>2. SentIsStored' /\ MarkedIsPublished' /\ Range(claimed') \subseteq Range(log')
    BY <1>1 DEF ServerInv, StoredInv, SentIsStored, MarkedIsPublished, stored, stream
  <2>3. settled' = "ok" /\ writes'[1].op \in {"append", "transaction"} => writes'[1].event \in Range(log')
    BY <1>1, <1>6 DEF ServerInv, ProcessInv, StoredInv, stored
  <2>4. QED
    BY <2>1, <2>2, <2>3 DEF StoredInv
<1>12. ClaimInv'
  BY <1>2, <1>4 DEF ClaimInv
<1>13. QED
  BY <1>8, <1>9, <1>10, <1>11, <1>12 DEF ServerInv

-----------------------------------------------------------------------------
(* What a tab holds. *)

\* commitServerEvents keeps what was shown and adds the new events once each.
LEMMA MergedHolds ==
    ASSUME shown \in Seq(Events), NEW events \in Seq(Events), NEW merged \in Merged(events)
    PROVE  /\ merged \in Seq(Events) /\ IsInjective(merged)
           /\ Range(merged) = Range(shown) \cup Range(events)
<1> DEFINE all == Range(shown) \cup Range(events)
           k == Cardinality(all)
<1>1. all \subseteq Events
  BY RangeIsTyped
<1>2. IsFiniteSet(all) /\ k \in Nat
  BY <1>1, FS_Subset, FS_CardinalityType, EventsAssumption
<1>3. merged \in [1..k -> all] /\ IsInjective(merged)
  BY DEF Merged
<1> HIDE DEF all, k
<1>4. merged \in Seq(Events)
  BY <1>1, <1>2, <1>3
<1>5. ASSUME NEW e \in all, e \notin Range(merged)
      PROVE  FALSE
  <2>1. IsFiniteSet(all \ {e}) /\ Cardinality(all \ {e}) = k - 1
    BY <1>2, <1>5, FS_RemoveElement DEF k
  <2>2. IsFiniteSet(1..k) /\ Cardinality(1..k) = k
    BY <1>2, FS_Interval
  <2>3. merged \in [1..k -> all \ {e}]
    BY <1>3, <1>5 DEF Range
  <2>4. Cardinality(all \ {e}) < Cardinality(1..k)
    BY <1>2, <2>1, <2>2
  <2>5. \E x, y \in 1..k : x # y /\ merged[x] = merged[y]
    BY <2>1, <2>2, <2>3, <2>4, FS_PigeonHole
  <2>6. QED
    BY <1>3, <2>5 DEF IsInjective
<1>6. Range(merged) \subseteq all
  BY <1>3 DEF Range
<1>7. QED
  BY <1>3, <1>4, <1>5, <1>6 DEF all

\* A step of the tab: what has to be seen of each of its variables.
LEMMA ClientHolds ==
    ASSUME Holds, UNCHANGED <<stored, process, ledger>>,
           conn' \in {"idle", "opening", "opened", "connected", "retrying"},
           shown' \in Seq(Events), IsInjective(shown'), Range(shown') \subseteq Born,
           buffer' \in Seq(Events), Range(buffer') \subseteq Born,
           incomplete' \in BOOLEAN, recovering' \in BOOLEAN,
           backfill' \in [stage : {"none", "sent", "answered"}, cursor : Events \cup {NoEvent},
                          page : Seq(Events), open : BOOLEAN],
           Range(backfill'.page) \subseteq Born,
           drops' \in 0 .. MaxDrops, commands' \in 0 .. MaxCommands,
           frames' \in Seq(Events), Range(frames') \subseteq Range(frames),
           subscribed' \in BOOLEAN,
           subscribed' => (subscribed \/ memory # <<>>) /\ conn' \in {"opening", "opened", "connected"}
    PROVE  Holds'
<1> USE DEF Holds, stored, process, ledger
<1>1. subscribed' => up /\ known
  BY DEF ServerInv, ProcessInv, TypeOK
<1>2. ServerTypeOK'
  BY DEF TypeOK, ServerTypeOK
<1>3. ProcessInv' /\ BirthInv' /\ ClaimInv'
  BY <1>1 DEF ServerInv, ProcessInv, BirthInv, ClaimInv
<1>4. StoredInv'
  BY DEF ServerInv, StoredInv, SentIsStored, MarkedIsPublished
<1>5. HeldInv'
  BY DEF HeldInv, Born
<1>6. TypeOK'
  BY <1>1, <1>2 DEF TypeOK, HasStream
<1>7. QED
  BY <1>2, <1>3, <1>4, <1>5, <1>6 DEF ServerInv

\* The server's steps leave the tab alone; what has come to be stays so.
LEMMA ServerHolds ==
    ASSUME Holds, ServerInv', ClaimInv', UNCHANGED clientVars, subscribed' => subscribed /\ up',
           \A e \in Events : origin[e] # "none" => origin'[e] # "none"
    PROVE  Holds'
<1>1. TypeOK'
  BY DEF Holds, TypeOK, ServerInv, clientVars, HasStream
<1>2. HeldInv'
  BY DEF Holds, HeldInv, Born, clientVars
<1>3. QED
  BY <1>1, <1>2 DEF Holds

\* The page holds what the memory holds.
LEMMA ListHolds ==
    ASSUME memory \in Seq(Events), NEW cursor
    PROVE  List(cursor) \in Seq(Events) /\ Range(List(cursor)) \subseteq Range(memory)
<1>1. CASE Contains(memory, cursor)
  <2> DEFINE c == CHOOSE n \in DOMAIN memory : memory[n] = cursor
  <2>1. c \in DOMAIN memory
    BY <1>1 DEF Contains
  <2> HIDE DEF c
  <2>2. List(cursor) = SubSeq(memory, 1 + c, Len(memory))
    BY <1>1 DEF List, c
  <2>3. /\ c \in 1..Len(memory) /\ Len(memory) \in Nat
        /\ 1 + c \in 1..Len(memory) + 1
    BY <2>1
  <2>4. SubSeq(memory, 1 + c, Len(memory)) \in Seq(Events)
    BY <2>3
  <2>5. \A n \in DOMAIN SubSeq(memory, 1 + c, Len(memory)) :
           c + n \in DOMAIN memory /\ SubSeq(memory, 1 + c, Len(memory))[n] = memory[c + n]
    BY <2>3
  <2>6. QED
    BY <2>2, <2>4, <2>5 DEF Range
<1>2. CASE ~Contains(memory, cursor)
  BY <1>2 DEF List
<1>3. QED
  BY <1>1, <1>2

\* A request begins with the last event shown, or with none.
LEMMA CursorIsTyped ==
    ASSUME shown \in Seq(Events)
    PROVE  /\ Cursor \in Events \cup {NoEvent}
           /\ Cursor = NoEvent \/ Cursor \in Range(shown)
<1>1. CASE shown # <<>>
  <2>1. Len(shown) \in DOMAIN shown /\ shown[Len(shown)] \in Events
    BY <1>1
  <2>2. QED
    BY <2>1, RangeIndex DEF Cursor, Last
<1>2. QED
  BY <1>1 DEF Cursor

\* What a new record of a request is.
LEMMA BackfillIsTyped ==
    ASSUME NEW stage \in {"none", "sent", "answered"}, NEW cursor \in Events \cup {NoEvent},
           NEW page \in Seq(Events), NEW open \in BOOLEAN,
           NEW b, b = [stage |-> stage, cursor |-> cursor, page |-> page, open |-> open]
    PROVE  /\ b \in [stage : {"none", "sent", "answered"}, cursor : Events \cup {NoEvent},
                     page : Seq(Events), open : BOOLEAN]
           /\ b.stage = stage /\ b.cursor = cursor /\ b.page = page /\ b.open = open
  OBVIOUS

Backfills == [stage : {"none", "sent", "answered"}, cursor : Events \cup {NoEvent},
              page : Seq(Events), open : BOOLEAN]

LEMMA NoBackfillIsTyped ==
    /\ NoBackfill \in Backfills /\ NoBackfill.stage = "none" /\ NoBackfill.cursor = NoEvent
    /\ NoBackfill.page = <<>> /\ ~NoBackfill.open /\ Range(NoBackfill.page) = {}
<1>1. <<>> \in Seq(Events) /\ Range(<<>>) = {}
  BY EmptyRange
<1>2. QED
  BY <1>1, BackfillIsTyped DEF NoBackfill, Backfills

\* What a reconciliation leaves: a shared request, or a new one and an empty buffer.
LEMMA ReconcileHolds ==
    ASSUME Holds, NEW open \in BOOLEAN, Reconcile(open)
    PROVE  /\ backfill' \in Backfills /\ Range(backfill'.page) \subseteq Born
           /\ buffer' \in Seq(Events) /\ Range(buffer') \subseteq Born
           /\ recovering' \in BOOLEAN
<1>1. backfill \in Backfills /\ shown \in Seq(Events) /\ buffer \in Seq(Events) /\ recovering \in BOOLEAN
        /\ Range(buffer) \subseteq Born /\ Range(backfill.page) \subseteq Born
  BY DEF Holds, TypeOK, HeldInv, Backfills
<1>2. CASE backfill.stage = "none"
  <2>1. Cursor \in Events \cup {NoEvent}
    BY <1>1, CursorIsTyped
  <2>2. /\ backfill' = [stage |-> "sent", cursor |-> Cursor, page |-> <<>>, open |-> open]
        /\ recovering' = TRUE /\ buffer' = <<>>
    BY <1>2 DEF Reconcile
  <2>3. <<>> \in Seq(Events)
    OBVIOUS
  <2>4. backfill' \in Backfills /\ backfill'.page = <<>>
    BY <2>1, <2>2, <2>3, BackfillIsTyped DEF Backfills
  <2>5. QED
    BY <2>2, <2>3, <2>4, EmptyRange
<1>3. CASE backfill.stage # "none"
  <2>1. /\ backfill' = [backfill EXCEPT !.open = @ \/ open]
        /\ UNCHANGED <<recovering, buffer>>
    BY <1>3 DEF Reconcile
  <2>2. backfill.open \/ open \in BOOLEAN
    BY <1>1 DEF Backfills
  <2>3. backfill' \in Backfills /\ backfill'.page = backfill.page
    BY <1>1, <2>1, <2>2 DEF Backfills
  <2>4. QED
    BY <1>1, <2>1, <2>3
<1>4. QED
  BY <1>2, <1>3

\* Events merged into what is shown.
LEMMA MergeHolds ==
    ASSUME Holds, NEW events \in Seq(Events), Range(events) \subseteq Born, shown' \in Merged(events)
    PROVE  shown' \in Seq(Events) /\ IsInjective(shown') /\ Range(shown') \subseteq Born
<1>1. shown \in Seq(Events) /\ Range(shown) \subseteq Born
  BY DEF Holds, TypeOK, HeldInv
<1>2. QED
  BY <1>1, MergedHolds

LEMMA ConcatHolds ==
    ASSUME NEW S, NEW s \in Seq(S), NEW t \in Seq(S)
    PROVE  /\ s \o t \in Seq(S) /\ Range(s \o t) = Range(s) \cup Range(t)
<1> DEFINE u == s \o t
<1>1. /\ u \in Seq(S) /\ Len(u) = Len(s) + Len(t) /\ Len(s) \in Nat /\ Len(t) \in Nat
      /\ DOMAIN s = 1..Len(s) /\ DOMAIN t = 1..Len(t) /\ DOMAIN u = 1..Len(s) + Len(t)
      /\ \A n \in DOMAIN u : u[n] = IF n <= Len(s) THEN s[n] ELSE t[n - Len(s)]
  OBVIOUS
<1> HIDE DEF u
<1>2. \A n \in DOMAIN s : n \in DOMAIN u /\ u[n] = s[n]
  BY <1>1
<1>3. \A n \in DOMAIN t : Len(s) + n \in DOMAIN u /\ u[Len(s) + n] = t[n]
  BY <1>1
<1>4. \A n \in DOMAIN u : u[n] \in Range(s) \cup Range(t)
  BY <1>1 DEF Range
<1>5. Range(u) = Range(s) \cup Range(t)
  BY <1>2, <1>3, <1>4 DEF Range
<1>6. QED
  BY <1>1, <1>5 DEF u

\* Closing a stream throws away what was buffered for it.
LEMMA ClosedHolds ==
    ASSUME Holds, NEW next \in {"idle", "retrying"}, Closed(next),
           UNCHANGED <<stored, process, ledger>>,
           shown' = shown \/ shown' = <<>>, incomplete' \in BOOLEAN,
           drops' \in 0 .. MaxDrops, commands' \in 0 .. MaxCommands
    PROVE  Holds'
<1>1. /\ shown \in Seq(Events) /\ IsInjective(shown) /\ Range(shown) \subseteq Born
  BY DEF Holds, TypeOK, HeldInv
<1>2. /\ shown' \in Seq(Events) /\ IsInjective(shown') /\ Range(shown') \subseteq Born
  <2>1. CASE shown' = shown
    BY <1>1, <2>1
  <2>2. CASE shown' = <<>>
    <3>1. <<>> \in Seq(Events) /\ IsInjective(<<>>) /\ Range(<<>>) \subseteq Born
      BY EmptyRange, EmptyIsInjective
    <3>2. QED
      BY <2>2, <3>1
  <2>3. QED
    BY <2>1, <2>2
<1>3. /\ conn' = next /\ subscribed' = FALSE /\ frames' = <<>> /\ recovering' = FALSE
      /\ buffer' = <<>> /\ backfill' = NoBackfill
  BY DEF Closed
<1>4. <<>> \in Seq(Events) /\ Range(<<>>) = {}
  BY EmptyRange
<1>5. QED
  BY <1>2, <1>3, <1>4, NoBackfillIsTyped, ClientHolds DEF Backfills

\* Every step of the tab keeps the types, and holds nothing the server never had.
LEMMA ClientKeeps ==
    ASSUME Holds, ClientStep
    PROVE  Holds'
<1> USE StoreAssumption
<1>1. /\ conn \in {"idle", "opening", "opened", "connected", "retrying"}
      /\ shown \in Seq(Events) /\ IsInjective(shown) /\ Range(shown) \subseteq Born
      /\ buffer \in Seq(Events) /\ Range(buffer) \subseteq Born
      /\ incomplete \in BOOLEAN /\ recovering \in BOOLEAN
      /\ backfill \in Backfills /\ Range(backfill.page) \subseteq Born
      /\ drops \in 0 .. MaxDrops /\ commands \in 0 .. MaxCommands
      /\ frames \in Seq(Events) /\ subscribed \in BOOLEAN
      /\ subscribed => conn \in {"opening", "opened", "connected"}
  BY DEF Holds, TypeOK, HeldInv, Backfills, ServerTypeOK, HasStream
<1>2. <<>> \in Seq(Events) /\ Range(<<>>) = {} /\ Range(<<>>) \subseteq Born
  BY EmptyRange
<1>3. Range(frames) \subseteq Born /\ Range(memory) \subseteq Born /\ memory \in Seq(Events)
  BY RangeIsTyped DEF Holds, ServerInv, BirthInv, StoredInv, SentIsStored, Born, ServerTypeOK
<1>4. CASE Connect
  BY <1>1, <1>2, <1>4, ClientHolds DEF Connect, serverVars, stream, Backfills
<1>5. CASE Retry
  <2>1. recovering' \in BOOLEAN
    BY <1>5 DEF Retry
  <2>2. QED
    BY <1>1, <1>2, <1>5, <2>1, NoBackfillIsTyped, ClientHolds DEF Retry, serverVars, stream, Backfills
<1>6. CASE Subscribe
  BY <1>1, <1>6, ClientHolds DEF Subscribe, clientVars, Backfills
<1>7. CASE OnOpen
  <2>1. Reconcile(TRUE)
    BY <1>7 DEF OnOpen
  <2>2. /\ backfill' \in Backfills /\ Range(backfill'.page) \subseteq Born
        /\ buffer' \in Seq(Events) /\ Range(buffer') \subseteq Born
        /\ recovering' \in BOOLEAN
    BY <2>1, ReconcileHolds
  <2>3. QED
    BY <1>1, <1>7, <2>2, ClientHolds DEF OnOpen, serverVars, stream, Backfills
<1>8. CASE Receive
  <2> DEFINE e == Head(frames)
  <2>1. /\ frames # <<>> /\ frames' = Tail(frames) /\ conn \in {"opened", "connected"}
        /\ UNCHANGED <<stored, process, subscribed, ledger, conn, incomplete, recovering, backfill,
                       drops, commands>>
    BY <1>8 DEF Receive
  <2>2. /\ e \in Events /\ e \in Range(frames) /\ frames' \in Seq(Events)
        /\ Range(frames') \subseteq Range(frames)
    BY <1>1, <2>1, TailRange
  <2>3. <<e>> \in Seq(Events) /\ Range(<<e>>) \subseteq Born
    BY <1>3, <2>2 DEF Range
  <2>4. CASE recovering /\ buffer' = Append(buffer, e) /\ UNCHANGED shown
    <3>1. buffer' \in Seq(Events)
      BY <1>1, <2>2, <2>4, AppendIndex
    <3>2. Range(buffer') = Range(buffer) \cup {e}
      BY <1>1, <2>2, <2>4, AppendRange
    <3>3. Range(buffer') \subseteq Born
      BY <1>1, <1>3, <2>2, <3>2
    <3>4. QED
      BY <1>1, <2>1, <2>2, <2>4, <3>1, <3>3, ClientHolds DEF Backfills
  <2>5. CASE ~recovering /\ shown' \in Merged(<<e>>) /\ UNCHANGED buffer
    <3>1. shown' \in Seq(Events) /\ IsInjective(shown') /\ Range(shown') \subseteq Born
      BY <2>3, <2>5, MergeHolds
    <3>2. QED
      BY <1>1, <2>1, <2>2, <2>5, <3>1, ClientHolds DEF Backfills
  <2>6. QED
    BY <1>8, <2>4, <2>5 DEF Receive
<1>9. CASE Answer
  <2> DEFINE page == List(backfill.cursor)
  <2>1. page \in Seq(Events) /\ Range(page) \subseteq Born
    BY <1>3, ListHolds
  <2>2. backfill' = [backfill EXCEPT !.stage = "answered", !.page = page]
    BY <1>9 DEF Answer
  <2> HIDE DEF page
  <2>3. backfill' \in Backfills /\ backfill'.page = page
    BY <1>1, <2>1, <2>2 DEF Backfills
  <2>4. QED
    BY <1>1, <1>9, <2>1, <2>3, ClientHolds DEF Answer, serverVars, stream, Backfills
<1>10. CASE Backfilled
  <2> DEFINE new == backfill.page \o buffer
  <2>1. backfill.page \in Seq(Events)
    BY <1>1 DEF Backfills
  <2>2. new \in Seq(Events) /\ Range(new) \subseteq Born
    BY <1>1, <2>1, ConcatHolds
  <2>3. shown' \in Merged(new)
    BY <1>10 DEF Backfilled
  <2> HIDE DEF new
  <2>4. shown' \in Seq(Events) /\ IsInjective(shown') /\ Range(shown') \subseteq Born
    BY <2>2, <2>3, MergeHolds
  <2>5. /\ incomplete' \in BOOLEAN
        /\ conn' \in {"connected", conn} /\ buffer' = <<>> /\ recovering' = FALSE /\ backfill' = NoBackfill
        /\ UNCHANGED <<serverVars, drops, commands>>
    BY <1>1, <1>10 DEF Backfilled
  <2>6. QED
    BY <1>1, <1>2, <2>4, <2>5, NoBackfillIsTyped, ClientHolds DEF serverVars, stream, Backfills
<1>11. CASE BackfillFails
  <2>1. /\ drops' \in 0 .. MaxDrops
        /\ UNCHANGED <<stored, process, ledger, shown, incomplete, commands>>
    BY <1>1, <1>11 DEF BackfillFails
  <2>2. CASE Closed("retrying")
    BY <1>1, <2>1, <2>2, ClosedHolds
  <2>3. CASE recovering' = FALSE /\ backfill' = NoBackfill /\ UNCHANGED <<conn, subscribed, frames, buffer>>
    BY <1>1, <1>2, <2>1, <2>3, NoBackfillIsTyped, ClientHolds DEF Backfills
  <2>4. QED
    BY <1>11, <2>2, <2>3 DEF BackfillFails
<1>12. CASE Drop
  <2>1. /\ drops' \in 0 .. MaxDrops /\ Closed("retrying")
        /\ UNCHANGED <<stored, process, ledger, shown, incomplete, commands>>
    BY <1>1, <1>12 DEF Drop
  <2>2. QED
    BY <1>1, <2>1, ClosedHolds
<1>13. CASE Leave
  <2>1. /\ Closed("idle") /\ (shown' = shown \/ shown' = <<>>)
    BY <1>13 DEF Leave
  <2>2. incomplete' \in BOOLEAN /\ UNCHANGED <<stored, process, ledger, drops, commands>>
    BY <1>1, <1>13 DEF Leave
  <2>3. Closed("idle")
    BY <1>13 DEF Leave
  <2>4. QED
    BY <1>1, <2>1, <2>2, <2>3, ClosedHolds
<1>14. CASE EnsureConnectedAndReconcile
  <2>1. Reconcile(FALSE)
    BY <1>14 DEF EnsureConnectedAndReconcile
  <2>2. /\ backfill' \in Backfills /\ Range(backfill'.page) \subseteq Born
        /\ buffer' \in Seq(Events) /\ Range(buffer') \subseteq Born
        /\ recovering' \in BOOLEAN
    BY <2>1, ReconcileHolds
  <2>3. /\ commands' \in 0 .. MaxCommands /\ conn' = IF conn = "idle" THEN "opening" ELSE conn
        /\ UNCHANGED <<serverVars, shown, incomplete, drops>>
    BY <1>1, <1>14 DEF EnsureConnectedAndReconcile
  <2>4. conn' \in {"idle", "opening", "opened", "connected", "retrying"}
           /\ (conn \in {"opening", "opened", "connected"} => conn' \in {"opening", "opened", "connected"})
    BY <1>1, <2>3
  <2>5. QED
    BY <1>1, <2>2, <2>3, <2>4, ClientHolds DEF serverVars, stream, Backfills
<1>15. CASE Receipt
  <2>1. PICK e \in Range(memory) : shown' \in Merged(<<e>>)
    BY <1>15 DEF Receipt
  <2>2. <<e>> \in Seq(Events) /\ Range(<<e>>) \subseteq Born
    <3>1. e \in Events /\ e \in Born
      BY <1>3, RangeIsTyped
    <3>2. QED
      BY <3>1 DEF Range
  <2>3. shown' \in Seq(Events) /\ IsInjective(shown') /\ Range(shown') \subseteq Born
    BY <2>1, <2>2, MergeHolds
  <2>4. incomplete' \in BOOLEAN /\ commands' \in 0 .. MaxCommands
           /\ UNCHANGED <<serverVars, conn, recovering, buffer, backfill, drops>>
    BY <1>1, <1>15 DEF Receipt
  <2>5. QED
    BY <1>1, <2>3, <2>4, ClientHolds DEF serverVars, stream, Backfills
<1>16. QED
  BY <1>4, <1>5, <1>6, <1>7, <1>8, <1>9, <1>10, <1>11, <1>12, <1>13, <1>14, <1>15 DEF ClientStep

\* Every step of the system keeps them.
LEMMA NextHolds ==
    ASSUME Holds, [Next]_vars
    PROVE  Holds'
<1> USE DEF Holds
<1>1. CASE Boot /\ UNCHANGED clientVars
  <2>1. ServerInv' /\ ClaimInv'
    BY <1>1, BootServer
  <2>2. subscribed' = subscribed /\ up' /\ origin' = origin
    BY <1>1 DEF Boot, stream
  <2>3. QED
    BY <1>1, <2>1, <2>2, ServerHolds
<1>2. CASE Crash /\ UNCHANGED clientVars
  <2>1. ServerInv' /\ ClaimInv'
    BY <1>2, CrashServer
  <2>2. subscribed' = FALSE /\ origin' = origin
    BY <1>2 DEF Crash, ledger
  <2>3. QED
    BY <1>2, <2>1, <2>2, ServerHolds
<1>3. CASE WriteSessions /\ UNCHANGED clientVars
  <2>1. ServerInv' /\ ClaimInv'
    BY <1>3, WriteSessionsServer
  <2>2. subscribed' = subscribed /\ up' /\ origin' = origin
    BY <1>3 DEF WriteSessions, process, stream, ledger
  <2>3. QED
    BY <1>3, <2>1, <2>2, ServerHolds
<1>4. CASE Commit /\ UNCHANGED clientVars
  <2>1. ServerInv' /\ ClaimInv'
    BY <1>4, CommitServer
  <2>2. subscribed' = subscribed /\ up' /\ origin' = origin
    BY <1>4 DEF Commit, stream
  <2>3. QED
    BY <1>4, <2>1, <2>2, ServerHolds
<1>5. CASE Continue /\ UNCHANGED clientVars
  <2>1. ServerInv' /\ ClaimInv'
    BY <1>5, ContinueServer
  <2>2. subscribed' = subscribed /\ up' /\ origin' = origin
    BY <1>5 DEF Continue
  <2>3. QED
    BY <1>5, <2>1, <2>2, ServerHolds
<1>6. CASE Recover /\ UNCHANGED clientVars
  <2>1. ServerInv' /\ ClaimInv'
    BY <1>6, RecoverServer
  <2>2. subscribed' = subscribed /\ up' /\ origin' = origin
    BY <1>6 DEF Recover
  <2>3. QED
    BY <1>6, <2>1, <2>2, ServerHolds
<1>7. ASSUME NEW e \in Events, Create(e) \/ Transaction(e), UNCHANGED clientVars
      PROVE  Holds'
  <2>1. ServerInv' /\ ClaimInv'
    BY <1>7, BirthServer
  <2>2. subscribed' = subscribed /\ up'
    BY <1>7 DEF Create, Transaction, stream, ServerInv, ProcessInv
  <2>3. \A d \in Events : origin[d] # "none" => origin'[d] # "none"
    BY <1>7 DEF Create, Transaction, ServerInv, ServerTypeOK
  <2>4. QED
    BY <1>7, <2>1, <2>2, <2>3, ServerHolds
<1>8. CASE ClientStep
  BY <1>8, ClientKeeps
<1>9. CASE UNCHANGED vars
  BY <1>9 DEF vars, serverVars, stored, process, stream, ledger, clientVars, TypeOK, ServerInv,
     ServerTypeOK, ProcessInv, BirthInv, StoredInv, SentIsStored, MarkedIsPublished, HeldInv, Born,
     ClaimInv, HasStream
<1>10. QED
  BY <1>1, <1>2, <1>3, <1>4, <1>5, <1>6, <1>7, <1>8, <1>9 DEF Next

\* The initial state has nothing anywhere.
LEMMA InitHolds ==
    ASSUME Init
    PROVE  Holds
<1>1. ServerInv /\ ClaimInv
  BY ServerInitial DEF Init
<1>2. <<>> \in Seq(Events) /\ IsInjective(<<>>) /\ Range(<<>>) = {}
  BY EmptyRange, EmptyIsInjective
<1>3. TypeOK
  <2>1. shown \in Seq(Events) /\ buffer \in Seq(Events) /\ IsInjective(shown)
    BY <1>2 DEF Init
  <2>2. backfill \in Backfills
    BY NoBackfillIsTyped DEF Init
  <2>3. drops \in 0 .. MaxDrops /\ commands \in 0 .. MaxCommands
    BY StoreAssumption DEF Init
  <2>4. ServerTypeOK /\ ~subscribed
    BY <1>1 DEF Init, ServerInit, ServerInv
  <2>5. QED
    BY <2>1, <2>2, <2>3, <2>4 DEF Init, TypeOK, Backfills
<1>4. HeldInv
  BY <1>2, NoBackfillIsTyped DEF Init, HeldInv
<1>5. QED
  BY <1>1, <1>3, <1>4 DEF Holds

-----------------------------------------------------------------------------
(* The order of the memory. *)

\* On its own means on its own from the start.
LEMMA AloneBefore ==
    ASSUME Holds, [Next]_vars, Alone'
    PROVE  Alone
<1>1. commands' = 0 => commands = 0
  <2>1. commands \in Nat
    BY StoreAssumption DEF Holds, TypeOK
  <2>2. commands' = commands \/ commands' = commands + 1
    BY DEF Next, vars, clientVars, ClientStep, Connect, Retry, Subscribe, OnOpen, Receive, Answer, Backfilled,
       BackfillFails, Drop, Leave, EnsureConnectedAndReconcile, Receipt
  <2>3. QED
    BY <2>1, <2>2
<1>2. \A e \in Events : origin[e] = "transaction" => origin'[e] = "transaction"
  <2>1. origin \in [Events -> {"none", "create", "transaction"}]
    BY DEF Holds, TypeOK, ServerTypeOK
  <2>2. origin' = origin \/ \E e \in Events : Create(e) \/ Transaction(e)
    BY DEF Next, vars, serverVars, ledger, ClientStep, Connect, Retry, Subscribe, OnOpen, Receive, Answer, Backfilled,
       BackfillFails, Drop, Leave, EnsureConnectedAndReconcile, Receipt, Boot, Crash, WriteSessions, Commit,
       Continue, Recover
  <2>3. QED
    BY <2>1, <2>2 DEF Create, Transaction
<1>3. QED
  BY <1>1, <1>2 DEF Alone

\* Then no write is of a transaction.
LEMMA AloneAppends ==
    ASSUME Holds, Alone, NEW w \in Range(writes)
    PROVE  w.op # "transaction"
  BY DEF Holds, ServerInv, ProcessInv, BirthInv, Alone

\* Writes that leave the FIFO, or come to it and store nothing, leave the order.
LEMMA FifoKeepsOrder ==
    ASSUME OrderInv, UNCHANGED <<log, memory, known>>, NEW k \in {0, 1},
           \A n \in DOMAIN writes' : n \in Nat,
           \A n \in DOMAIN writes' : writes'[n].op = "append"
               => n + k \in DOMAIN writes /\ writes'[n] = writes[n + k]
    PROVE  OrderInv' /\ Appended' \subseteq Appended /\ Possible' \subseteq Possible
<1>1. Appended' \subseteq Appended
  BY DEF Appended
<1>2. Possible' \subseteq Possible
  BY <1>1 DEF Possible
<1>3. ASSUME known'
      PROVE  /\ Possible' \subseteq Range(memory')
             /\ \A m, n \in DOMAIN log' : m < n => Ahead(memory', log'[m], log'[n])
             /\ \A m, n \in DOMAIN writes' :
                   m < n /\ writes'[m].op = "append" /\ writes'[n].op = "append"
                      => Ahead(memory', writes'[m].event, writes'[n].event)
             /\ \A n \in DOMAIN writes' : writes'[n].op = "append" /\ writes'[n].event \notin Range(log')
                   => \A e \in Range(log') : Ahead(memory', e, writes'[n].event)
  <2>1. known
    BY <1>3
  <2>2. Possible' \subseteq Range(memory')
    BY <1>2, <2>1 DEF OrderInv
  <2>3. \A m, n \in DOMAIN log' : m < n => Ahead(memory', log'[m], log'[n])
    BY <2>1 DEF OrderInv
  <2>4. ASSUME NEW m \in DOMAIN writes', NEW n \in DOMAIN writes', m < n,
               writes'[m].op = "append", writes'[n].op = "append"
        PROVE  Ahead(memory', writes'[m].event, writes'[n].event)
    <3>1. /\ m + k \in DOMAIN writes /\ writes'[m] = writes[m + k]
          /\ n + k \in DOMAIN writes /\ writes'[n] = writes[n + k] /\ m + k < n + k
      BY <2>4
    <3>2. QED
      BY <2>1, <2>4, <3>1 DEF OrderInv
  <2>5. ASSUME NEW n \in DOMAIN writes', writes'[n].op = "append", writes'[n].event \notin Range(log'),
               NEW e \in Range(log')
        PROVE  Ahead(memory', e, writes'[n].event)
    <3>1. n + k \in DOMAIN writes /\ writes'[n] = writes[n + k]
      BY <2>5
    <3>2. QED
      BY <2>1, <2>5, <3>1 DEF OrderInv
  <2>6. QED
    BY <2>2, <2>3, <2>4, <2>5
<1>4. OrderInv'
  BY <1>3 DEF OrderInv
<1>5. QED
  BY <1>1, <1>2, <1>4

\* A step after which what comes before an event that is known of came before it already.
Steady ==
    /\ Gone => Gone'
    /\ ~Gone' => \A x \in Born, e \in Possible' : Prior(e, x)' => e \in Possible /\ Prior(e, x)

\* A boot reads the rows into the memory.
LEMMA BootOrder ==
    ASSUME Holds, Boot
    PROVE  OrderInv' /\ Steady
<1> USE DEF Holds
<1>1. /\ ~up /\ ~known /\ writes = <<>> /\ known' = ~deleted /\ log' = log /\ deleted' = deleted
      /\ log \in Seq(Events) /\ IsInjective(log)
      /\ writes' = <<Write("claim", NoEvent)>>
  BY DEF Boot, stored, ServerInv, ProcessInv, ServerTypeOK
<1>2. DOMAIN writes' = {1} /\ writes'[1].op = "claim"
  BY <1>1 DEF Write
<1>3. Appended' = {} /\ Possible' = Range(log)
  BY <1>1, <1>2 DEF Appended, Possible
<1>4. CASE deleted
  BY <1>1, <1>4 DEF Gone, OrderInv, Steady
<1>5. CASE ~deleted
  <2>1. memory' = log /\ known'
    BY <1>1, <1>5 DEF Boot
  <2>2. Range(log) \subseteq Range(memory')
    BY <2>1
  <2>3. \A m, n \in DOMAIN log : m < n => Ahead(memory', log[m], log[n])
    BY <1>1, <2>1 DEF Ahead, IsInjective
  <2>4. OrderInv'
    BY <1>1, <1>2, <1>3, <2>1, <2>2, <2>3 DEF OrderInv
  <2>5. Story' = Story
    BY <1>1, <2>1 DEF Story
  <2>6. Possible' \subseteq Possible
    BY <1>3 DEF Possible
  <2>7. QED
    BY <1>1, <1>5, <2>4, <2>5, <2>6 DEF Steady, Prior, Gone
<1>6. QED
  BY <1>4, <1>5

\* A crash leaves the order of the rows, which is the memory's.
LEMMA CrashOrder ==
    ASSUME Holds, OrderInv, Crash
    PROVE  OrderInv' /\ Steady
<1>1. ~known' /\ writes' = <<>> /\ log' = log /\ deleted' = deleted /\ up
  BY DEF Crash, stored
<1>2. OrderInv'
  BY <1>1 DEF OrderInv
<1>3. Possible' = Range(log) /\ Story' = log
  BY <1>1 DEF Possible, Appended, Story
<1>4. ASSUME ~Gone', NEW x \in Born, NEW e \in Possible', Prior(e, x)'
      PROVE  e \in Possible /\ Prior(e, x)
  <2>1. known
    BY <1>1, <1>4 DEF Gone, Holds, ServerInv, ProcessInv
  <2>2. PICK p, q \in DOMAIN log : p < q /\ log[p] = e /\ log[q] = x
    BY <1>3, <1>4 DEF Prior
  <2>3. e \in Range(log) /\ x \in Range(log) /\ Ahead(memory, e, x)
    BY <2>1, <2>2 DEF OrderInv, Range
  <2>4. PICK r, s \in DOMAIN memory : memory[r] = e /\ memory[s] = x
    BY <2>1, <2>3 DEF OrderInv, Possible, Range
  <2>5. r < s
    BY <2>3, <2>4 DEF Ahead
  <2>6. QED
    BY <2>1, <2>3, <2>4, <2>5 DEF Possible, Prior, Story
<1>5. Gone => Gone'
  BY <1>1 DEF Gone
<1>6. QED
  BY <1>2, <1>4, <1>5 DEF Steady

\* A write of the Sessions leaves the order.
LEMMA WriteSessionsOrder ==
    ASSUME Holds, OrderInv, WriteSessions
    PROVE  OrderInv' /\ Steady
<1>1. UNCHANGED <<log, memory, known, writes>> /\ (deleted => deleted' \/ known)
  BY DEF WriteSessions, process
<1>2. Possible' = Possible /\ Story' = Story
  BY <1>1 DEF Possible, Appended, Story
<1>3. OrderInv'
  BY <1>1, <1>2 DEF OrderInv, Ahead
<1>4. Gone => Gone'
  BY <1>1 DEF Gone
<1>5. \A x, e : Prior(e, x)' <=> Prior(e, x)
  BY <1>2 DEF Prior
<1>6. QED
  BY <1>2, <1>3, <1>4, <1>5 DEF Steady

\* The steps of the FIFO that store nothing.
LEMMA FifoSteady ==
    ASSUME OrderInv, UNCHANGED <<log, memory, known, deleted>>, NEW k \in {0, 1},
           \A n \in DOMAIN writes' : n \in Nat,
           \A n \in DOMAIN writes' : writes'[n].op = "append"
               => n + k \in DOMAIN writes /\ writes'[n] = writes[n + k]
    PROVE  OrderInv' /\ Steady
<1>1. OrderInv' /\ Possible' \subseteq Possible
  BY FifoKeepsOrder
<1>2. Story' = Story
  BY DEF Story
<1>3. \A x, e : Prior(e, x)' <=> Prior(e, x)
  BY <1>2 DEF Prior
<1>4. QED
  BY <1>1, <1>3 DEF Steady, Gone

\* The continuation of the head: what has been stored is published, the rest is dropped.
LEMMA ContinueAlone ==
    ASSUME Holds, Alone, Continue
    PROVE  /\ UNCHANGED <<stored, up, known, memory, claimed, subscribed, origin>>
           /\ writes # <<>> /\ settled' = "no"
           /\ IF Stored /\ subscribed THEN frames' = Append(frames, writes[1].event) ELSE frames' = frames
           /\ \A n \in DOMAIN writes' : n \in Nat /\ writes'[n].op # "claim"
           /\ \A n \in DOMAIN writes' : writes'[n].op = "append"
                 => n + 1 \in DOMAIN writes /\ writes'[n] = writes[n + 1]
<1> DEFINE w == Head(writes)
<1>1. /\ writes # <<>> /\ writes \in Seq(AllWrites) /\ settled' = "no" /\ settled # "no"
      /\ UNCHANGED <<stored, up, known, claimed, subscribed, origin>>
  BY DEF Holds, ServerInv, ProcessInv, ServerTypeOK, AllWrites, Continue
<1>2. /\ w = writes[1] /\ w \in Range(writes) /\ w \in AllWrites /\ Tail(writes) \in Seq(AllWrites)
      /\ \A n \in DOMAIN Tail(writes) :
            n + 1 \in DOMAIN writes /\ Tail(writes)[n] = writes[n + 1] /\ n \in Nat /\ n + 1 # 1
  BY <1>1, TailRange
<1>3. w.op # "transaction"
  BY <1>2, AloneAppends
<1>4. \A n \in DOMAIN Tail(writes) : Tail(writes)[n].op # "claim"
  BY <1>2 DEF Holds, ClaimInv
<1>5. CASE settled = "ok" /\ w.op = "append" /\ Publish(w.event, Tail(writes)) /\ UNCHANGED memory
  <2> DEFINE m == Write("mark", w.event)
  <2>1. writes' = Append(Tail(writes), m)
    BY <1>5 DEF Publish
  <2>2. m \in AllWrites /\ m.op = "mark"
    BY <1>2, WriteIsTyped DEF AllWrites, Ops
  <2> HIDE DEF m
  <2>3. \A n \in DOMAIN writes' : n \in Nat /\ ((n \in DOMAIN Tail(writes) /\ writes'[n] = Tail(writes)[n]) \/ writes'[n] = m)
    BY <1>2, <2>1, <2>2, AppendIndex
  <2>4. IF Stored /\ subscribed THEN frames' = Append(frames, writes[1].event) ELSE frames' = frames
    BY <1>2, <1>5 DEF Publish, Stored
  <2>5. QED
    BY <1>1, <1>2, <1>4, <1>5, <2>2, <2>3, <2>4
<1>6. CASE ~(settled = "ok" /\ w.op = "append") /\ writes' = Tail(writes) /\ UNCHANGED <<memory, published, frames>>
  BY <1>1, <1>2, <1>4, <1>6 DEF Stored
<1>7. QED
  BY <1>1, <1>3, <1>5, <1>6 DEF Continue

LEMMA ContinueOrder ==
    ASSUME Holds, Alone, OrderInv, Continue
    PROVE  OrderInv' /\ Steady
<1>1. /\ UNCHANGED <<log, memory, known, deleted>>
      /\ \A n \in DOMAIN writes' : n \in Nat
      /\ \A n \in DOMAIN writes' : writes'[n].op = "append"
            => n + 1 \in DOMAIN writes /\ writes'[n] = writes[n + 1]
  BY ContinueAlone DEF stored
<1>2. 1 \in {0, 1}
  OBVIOUS
<1>3. QED
  BY <1>1, <1>2, FifoSteady

\* A claimed row goes to the listeners, or is discarded.
LEMMA RecoverAlone ==
    ASSUME Holds, Recover
    PROVE  /\ UNCHANGED <<stored, up, known, memory, settled, subscribed, origin>>
           /\ Range(claimed') \subseteq Range(claimed)
           /\ frames' = frames \/ (subscribed /\ \E e \in Range(claimed) : frames' = Append(frames, e))
           /\ writes # <<>> => writes' # <<>> /\ writes'[1] = writes[1]
           /\ writes = <<>> => writes'[1].op # "claim"
           /\ \A n \in DOMAIN writes' : n \in Nat
           /\ \A n \in DOMAIN writes' : writes'[n].op = "append"
                 => n \in DOMAIN writes /\ writes'[n] = writes[n]
<1> DEFINE e == Head(claimed)
           m == IF Contains(memory, e) THEN Write("mark", e) ELSE Write("discard", e)
<1>1. /\ claimed # <<>> /\ claimed' = Tail(claimed)
      /\ UNCHANGED <<stored, up, known, memory, settled, subscribed, origin>>
      /\ claimed \in Seq(Events) /\ writes \in Seq(AllWrites)
  BY DEF Recover, Holds, ServerInv, ServerTypeOK, AllWrites
<1>2. e \in Range(claimed) /\ e \in Events /\ Range(claimed') \subseteq Range(claimed)
  BY <1>1, TailRange
<1>3. m \in AllWrites /\ m.op \in {"mark", "discard"}
  BY <1>2, WriteIsTyped DEF AllWrites, Ops
<1>4. writes' = Append(writes, m) /\ (frames' = frames \/ (subscribed /\ frames' = Append(frames, e)))
  BY DEF Recover, Publish
<1> HIDE DEF m, e
<1>5. /\ \A n \in DOMAIN writes' : n \in Nat /\ ((n \in DOMAIN writes /\ writes'[n] = writes[n]) \/ writes'[n] = m)
      /\ writes # <<>> => writes' # <<>> /\ writes'[1] = writes[1]
      /\ writes = <<>> => writes'[1] = m
  <2>1. \A n \in DOMAIN writes' : n \in Nat /\ ((n \in DOMAIN writes /\ writes'[n] = writes[n]) \/ writes'[n] = m)
    BY <1>1, <1>3, <1>4, AppendIndex
  <2>2. writes # <<>> => writes' # <<>> /\ writes'[1] = writes[1]
    BY <1>1, <1>3, <1>4
  <2>3. writes = <<>> => writes'[1] = m
    BY <1>1, <1>3, <1>4
  <2>4. QED
    BY <2>1, <2>2, <2>3
<1>6. \A n \in DOMAIN writes' : writes'[n].op = "append" => n \in DOMAIN writes /\ writes'[n] = writes[n]
  BY <1>3, <1>5
<1>7. writes = <<>> => writes'[1].op # "claim"
  BY <1>3, <1>5
<1>8. QED
  BY <1>1, <1>2, <1>4, <1>5, <1>6, <1>7

LEMMA RecoverOrder ==
    ASSUME Holds, OrderInv, Recover
    PROVE  OrderInv' /\ Steady
<1>1. /\ UNCHANGED <<log, memory, known, deleted>>
      /\ \A n \in DOMAIN writes' : n \in Nat
      /\ \A n \in DOMAIN writes' : writes'[n].op = "append"
            => n \in DOMAIN writes /\ writes'[n] = writes[n]
  BY RecoverAlone DEF stored
<1>2. \A n \in DOMAIN writes' : writes'[n].op = "append"
         => n + 0 \in DOMAIN writes /\ writes'[n] = writes[n + 0]
  BY <1>1
<1>3. 0 \in {0, 1}
  OBVIOUS
<1>4. QED
  BY <1>1, <1>2, <1>3, FifoSteady

\* A write that stores its event puts it behind the rows, where the memory has it.
LEMMA CommitOrder ==
    ASSUME Holds, Alone, OrderInv, Commit
    PROVE  OrderInv' /\ Steady
<1> DEFINE x == writes[1].event
<1>0. AnswerEffect
  BY CommitEffect DEF Holds
<1>1. /\ UNCHANGED <<deleted, known, memory, writes>> /\ writes # <<>> /\ writes[1] \in Range(writes)
      /\ writes \in Seq(AllWrites) /\ log \in Seq(Events)
      /\ \A n \in DOMAIN writes : n \in Nat /\ n >= 1
      /\ 1 \in DOMAIN writes
  <2>1. writes \in Seq(AllWrites) /\ log \in Seq(Events)
    BY DEF Holds, ServerInv, ServerTypeOK, AllWrites
  <2>2. UNCHANGED <<deleted, known, memory, writes>> /\ writes # <<>> /\ writes[1] \in Range(writes)
    BY <1>0 DEF AnswerEffect
  <2>3. QED
    BY <2>1, <2>2
<1>2. writes[1].op # "transaction"
  BY <1>1, AloneAppends
<1>3. log' = log \/ (log' = Append(log, x) /\ x \notin Range(log) /\ writes[1].op = "append")
  BY <1>0, <1>2 DEF AnswerEffect
<1> HIDE DEF x
<1>4. CASE log' = log
  <2>1. /\ UNCHANGED <<log, memory, known, deleted>> /\ 0 \in {0, 1}
        /\ \A n \in DOMAIN writes' : n \in Nat
        /\ \A n \in DOMAIN writes' : writes'[n].op = "append"
              => n + 0 \in DOMAIN writes /\ writes'[n] = writes[n + 0]
    BY <1>1, <1>4
  <2>2. QED
    BY <2>1, FifoSteady
<1>5. CASE log' = Append(log, x) /\ x \notin Range(log) /\ writes[1].op = "append"
  <2>1. known /\ x \in Events
    BY <1>1, <1>5 DEF Holds, ServerInv, ProcessInv, x
  <2>2. /\ Range(log') = Range(log) \cup {x}
        /\ \A n \in DOMAIN log' : n \in Nat /\ n <= Len(log) + 1
        /\ \A n \in DOMAIN log' : (n \in DOMAIN log /\ log'[n] = log[n]) \/ (n = Len(log) + 1 /\ log'[n] = x)
        /\ Len(log) \in Nat /\ \A n \in DOMAIN log : n <= Len(log)
    <3>1. Range(log') = Range(log) \cup {x}
      BY <1>1, <1>5, <2>1, AppendRange
    <3>2. QED
      BY <1>1, <1>5, <2>1, <3>1, AppendIndex
  <2>3. x \in Appended /\ Appended' = Appended
    BY <1>1, <1>5 DEF Appended, x
  <2>4. Possible' \subseteq Possible
    BY <2>2, <2>3 DEF Possible
  <2>5. \A e \in Range(log) : Ahead(memory, e, x)
    BY <1>1, <1>5, <2>1 DEF OrderInv, x
  <2>6. ASSUME NEW m \in DOMAIN log', NEW n \in DOMAIN log', m < n
        PROVE  Ahead(memory', log'[m], log'[n])
    <3>1. m \in DOMAIN log /\ log'[m] = log[m] /\ log[m] \in Range(log)
      BY <2>2, <2>6, RangeIndex
    <3>2. CASE n \in DOMAIN log /\ log'[n] = log[n]
      BY <1>1, <2>1, <2>6, <3>1, <3>2 DEF OrderInv
    <3>3. CASE log'[n] = x
      BY <1>1, <2>5, <3>1, <3>3
    <3>4. QED
      BY <2>2, <3>2, <3>3
  <2>7. ASSUME NEW n \in DOMAIN writes', writes'[n].op = "append", writes'[n].event \notin Range(log'),
               NEW e \in Range(log')
        PROVE  Ahead(memory', e, writes'[n].event)
    <3>1. n \in DOMAIN writes /\ writes[n].op = "append" /\ writes[n].event \notin Range(log)
            /\ writes[n].event # x /\ writes'[n] = writes[n]
      BY <1>1, <2>2, <2>7
    <3>2. CASE e \in Range(log)
      BY <1>1, <2>1, <3>1, <3>2 DEF OrderInv
    <3>3. CASE e = x
      <4>1. 1 < n
        BY <1>1, <3>1 DEF x
      <4>2. QED
        BY <1>1, <1>5, <2>1, <3>1, <3>3, <4>1 DEF OrderInv, x
    <3>4. QED
      BY <2>2, <2>7, <3>2, <3>3
  <2>8. OrderInv'
    <3>1. Possible' \subseteq Range(memory')
      BY <1>1, <2>1, <2>4 DEF OrderInv
    <3>2. \A m, n \in DOMAIN writes' :
             m < n /\ writes'[m].op = "append" /\ writes'[n].op = "append"
                => Ahead(memory', writes'[m].event, writes'[n].event)
      BY <1>1, <2>1 DEF OrderInv
    <3>3. QED
      BY <2>6, <2>7, <3>1, <3>2 DEF OrderInv
  <2>9. Story' = Story
    BY <1>1, <2>1 DEF Story
  <2>10. \A y, e : Prior(e, y)' <=> Prior(e, y)
    BY <2>9 DEF Prior
  <2>11. QED
    BY <1>1, <2>4, <2>8, <2>10 DEF Steady, Gone
<1>6. QED
  BY <1>3, <1>4, <1>5

\* What is created comes behind everything else.
LEMMA CreateOrder ==
    ASSUME Holds, OrderInv, NEW z \in Events, Create(z)
    PROVE  OrderInv' /\ Steady
<1> DEFINE w == Write("append", z)
<1>1. /\ known /\ known' /\ memory' = Append(memory, z) /\ writes' = Append(writes, w)
      /\ UNCHANGED <<log, deleted>> /\ origin[z] = "none"
  BY DEF Create, stored
<1>2. /\ memory \in Seq(Events) /\ writes \in Seq(AllWrites)
      /\ z \notin Range(memory) /\ z \notin Range(log) /\ z \notin Born
      /\ \A v \in Range(writes) : v.event # z
  BY <1>1 DEF Holds, ServerInv, ServerTypeOK, AllWrites, BirthInv, Born
<1>3. w \in AllWrites /\ w.op = "append" /\ w.event = z
  BY WriteIsTyped DEF Ops, AllWrites
<1> HIDE DEF w
<1>4. /\ Range(memory') = Range(memory) \cup {z}
      /\ Range(writes') = Range(writes) \cup {w}
  BY <1>1, <1>2, <1>3, AppendRange
<1>5. /\ Len(memory) \in Nat /\ \A n \in DOMAIN memory : n \in Nat /\ n <= Len(memory)
      /\ \A n \in DOMAIN memory : n \in DOMAIN memory' /\ memory'[n] = memory[n]
      /\ \A n \in DOMAIN memory' :
            (n \in DOMAIN memory /\ memory'[n] = memory[n]) \/ (n = Len(memory) + 1 /\ memory'[n] = z)
  BY <1>1, <1>2, AppendIndex
<1>6. /\ Len(writes) \in Nat /\ \A n \in DOMAIN writes : n \in Nat /\ n <= Len(writes)
      /\ \A n \in DOMAIN writes' :
            (n \in DOMAIN writes /\ writes'[n] = writes[n]) \/ (n = Len(writes) + 1 /\ writes'[n] = w)
  BY <1>1, <1>2, <1>3, AppendIndex
<1>7. ASSUME NEW a, NEW b, a # z, b # z, Ahead(memory, a, b)
      PROVE  Ahead(memory', a, b)
  BY <1>5, <1>7 DEF Ahead
<1>8. ASSUME NEW a, a # z
      PROVE  Ahead(memory', a, z)
  <2>1. \A n \in DOMAIN memory : memory[n] # z
    BY <1>2, RangeIndex
  <2>2. ASSUME NEW p \in DOMAIN memory', NEW q \in DOMAIN memory', memory'[p] = a, memory'[q] = z
        PROVE  p < q
    <3>1. p \in DOMAIN memory /\ q = Len(memory) + 1
      BY <1>5, <1>8, <2>1, <2>2
    <3>2. QED
      BY <1>5, <3>1
  <2>3. QED
    BY <2>2 DEF Ahead
<1>9. Appended' \subseteq Appended \cup {z} /\ Possible' \subseteq Possible \cup {z}
  <2>1. Appended' \subseteq Appended \cup {z}
    BY <1>3, <1>6 DEF Appended
  <2>2. QED
    BY <1>1, <2>1 DEF Possible
<1>10. OrderInv'
  <2>1. Possible' \subseteq Range(memory')
    BY <1>1, <1>4, <1>9 DEF OrderInv
  <2>2. ASSUME NEW m \in DOMAIN log', NEW n \in DOMAIN log', m < n
        PROVE  Ahead(memory', log'[m], log'[n])
    <3>1. m \in DOMAIN log /\ n \in DOMAIN log /\ log[m] # z /\ log[n] # z
      BY <1>1, <1>2, <2>2, RangeIndex
    <3>2. Ahead(memory, log[m], log[n])
      BY <1>1, <2>2, <3>1 DEF OrderInv
    <3>3. QED
      BY <1>1, <1>7, <3>1, <3>2
  <2>3. ASSUME NEW m \in DOMAIN writes', NEW n \in DOMAIN writes', m < n,
               writes'[m].op = "append", writes'[n].op = "append"
        PROVE  Ahead(memory', writes'[m].event, writes'[n].event)
    <3>1. m \in DOMAIN writes /\ writes'[m] = writes[m] /\ writes[m].event # z
      BY <1>2, <1>6, <2>3, RangeIndex
    <3>2. CASE writes'[n] = w
      BY <1>3, <1>8, <3>1, <3>2
    <3>3. CASE n \in DOMAIN writes /\ writes'[n] = writes[n]
      <4>1. Ahead(memory, writes[m].event, writes[n].event) /\ writes[n].event # z
        BY <1>1, <1>2, <2>3, <3>1, <3>3, RangeIndex DEF OrderInv
      <4>2. QED
        BY <1>7, <3>1, <3>3, <4>1
    <3>4. QED
      BY <1>6, <3>2, <3>3
  <2>4. ASSUME NEW n \in DOMAIN writes', writes'[n].op = "append", writes'[n].event \notin Range(log'),
               NEW e \in Range(log')
        PROVE  Ahead(memory', e, writes'[n].event)
    <3>1. e \in Range(log) /\ e # z
      BY <1>1, <1>2, <2>4
    <3>2. CASE writes'[n] = w
      BY <1>3, <1>8, <3>1, <3>2
    <3>3. CASE n \in DOMAIN writes /\ writes'[n] = writes[n]
      <4>1. Ahead(memory, e, writes[n].event) /\ writes[n].event # z
        BY <1>1, <1>2, <2>4, <3>1, <3>3, RangeIndex DEF OrderInv
      <4>2. QED
        BY <1>7, <3>1, <3>3, <4>1
    <3>4. QED
      BY <1>6, <3>2, <3>3
  <2>5. QED
    BY <2>1, <2>2, <2>3, <2>4 DEF OrderInv
<1>11. ASSUME NEW x \in Born, NEW e \in Possible', Prior(e, x)'
       PROVE  e \in Possible /\ Prior(e, x)
  <2>1. x # z
    BY <1>2
  <2>2. PICK p, q \in DOMAIN memory' : p < q /\ memory'[p] = e /\ memory'[q] = x
    BY <1>1, <1>11 DEF Prior, Story
  <2>3. q \in DOMAIN memory /\ memory[q] = x /\ p < q
    BY <1>5, <2>1, <2>2
  <2>4. p \in DOMAIN memory /\ memory[p] = e
    BY <1>5, <2>2, <2>3
  <2>5. e # z
    BY <1>2, <2>4, RangeIndex
  <2>6. QED
    BY <1>1, <1>9, <2>3, <2>4, <2>5 DEF Prior, Story
<1>12. ~Gone /\ ~Gone'
  BY <1>1 DEF Gone
<1>13. QED
  BY <1>10, <1>11, <1>12 DEF Steady

-----------------------------------------------------------------------------
(* What the tab has is closed under that order. *)

LEMMA SteadyEarlier ==
    ASSUME Steady, ~Gone'
    PROVE  \A x \in Born : Earlier'[x] \subseteq Earlier[x]
  BY DEF Steady, Earlier, Born

\* A step of the server: it may add a frame that the tab is ready for.
LEMMA FollowServer ==
    ASSUME Holds, Holds', PhaseInv, Steady, ~Gone', ClosedInv, FollowInv, UNCHANGED clientVars,
           \/ frames' = frames
           \/ /\ subscribed
              /\ \E z \in Range(log) :
                    /\ frames' = Append(frames, z)
                    /\ Following => Covered(z, Have \cup Range(buffer) \cup Range(frames))
    PROVE  /\ PhaseInv' /\ ClosedInv' /\ Following' = Following /\ Have' = Have
           /\ Following => FollowHave' /\ FollowBuffer' /\ FollowFrames'
<1>1. /\ \A x \in Born : Earlier'[x] \subseteq Earlier[x]
      /\ UNCHANGED <<conn, shown, incomplete, recovering, buffer, backfill>>
      /\ Range(shown) \subseteq Born /\ Range(buffer) \subseteq Born /\ Range(backfill.page) \subseteq Born
      /\ shown \in Seq(Events) /\ buffer \in Seq(Events) /\ frames \in Seq(Events)
  BY SteadyEarlier DEF clientVars, Holds, HeldInv, TypeOK, ServerTypeOK
<1>2. Range(log) \subseteq Born /\ Range(frames) \subseteq Born
  BY RangeIsTyped DEF Holds, ServerInv, BirthInv, StoredInv, SentIsStored, Born, ServerTypeOK
<1>3. PhaseInv'
  <2>1. frames' = frames \/ conn \in {"opening", "opened", "connected"}
    BY DEF Holds, TypeOK, HasStream
  <2>2. QED
    BY <1>1, <2>1 DEF PhaseInv, NoBackfill
<1>4. Following' = Following /\ Page' = Page /\ Have' = Have
  BY <1>1 DEF Following, Have, Page
<1>5. ClosedInv'
  BY <1>1 DEF ClosedInv, Covered
<1>6. Have \subseteq Born
  BY <1>1 DEF Have, Page
<1>7. ASSUME Following
      PROVE  FollowHave' /\ FollowBuffer' /\ FollowFrames'
  <2>1. FollowHave'
    BY <1>1, <1>4, <1>6, <1>7 DEF FollowInv, FollowHave, Covered
  <2>2. ASSUME NEW n \in DOMAIN buffer
        PROVE  Earlier'[buffer[n]] \subseteq Have \cup {buffer[m] : m \in 1..n - 1}
    <3>1. buffer[n] \in Born
      BY <1>1, RangeIndex
    <3>2. QED
      BY <1>1, <1>7, <3>1 DEF FollowInv, FollowBuffer, Covered
  <2>3. FollowBuffer'
    BY <1>1, <1>4, <2>2 DEF FollowBuffer, Covered
  <2>4. ASSUME NEW n \in DOMAIN frames
        PROVE  Earlier'[frames[n]] \subseteq Have \cup Range(buffer) \cup {frames[m] : m \in 1..n - 1}
    <3>1. frames[n] \in Born
      BY <1>2, RangeIndex
    <3>2. QED
      BY <1>1, <1>7, <3>1 DEF FollowInv, FollowFrames, Covered
  <2>5. frames' = frames => FollowFrames'
    BY <1>1, <1>4, <2>4 DEF FollowFrames, Covered
  <2>6. ASSUME NEW z \in Range(log), frames' = Append(frames, z),
               Covered(z, Have \cup Range(buffer) \cup Range(frames))
        PROVE  FollowFrames'
    <3>1. /\ Len(frames) \in Nat /\ z \in Born /\ z \in Events
          /\ \A n \in DOMAIN frames : n \in Nat /\ n <= Len(frames) /\ frames'[n] = frames[n]
          /\ DOMAIN frames = 1..Len(frames)
          /\ \A n \in DOMAIN frames' :
                (n \in DOMAIN frames /\ frames'[n] = frames[n]) \/ (n = Len(frames) + 1 /\ frames'[n] = z)
      <4>1. z \in Born /\ z \in Events
        BY <1>2 DEF Born
      <4>2. QED
        BY <1>1, <2>6, <4>1, AppendIndex
    <3>2. ASSUME NEW n \in DOMAIN frames'
          PROVE  Earlier'[frames'[n]] \subseteq Have \cup Range(buffer) \cup {frames'[m] : m \in 1..n - 1}
      <4>1. CASE n \in DOMAIN frames /\ frames'[n] = frames[n]
        <5>1. \A m \in 1..n - 1 : m \in DOMAIN frames /\ frames'[m] = frames[m]
          BY <3>1, <4>1
        <5>2. {frames'[m] : m \in 1..n - 1} = {frames[m] : m \in 1..n - 1}
          BY <5>1
        <5>3. QED
          BY <2>4, <4>1, <5>2
      <4>2. CASE n = Len(frames) + 1 /\ frames'[n] = z
        <5>1. \A m \in DOMAIN frames : m \in 1..n - 1 /\ frames'[m] = frames[m]
          BY <3>1, <4>2
        <5>2. Range(frames) \subseteq {frames'[m] : m \in 1..n - 1}
          BY <5>1 DEF Range
        <5>3. Earlier'[z] \subseteq Have \cup Range(buffer) \cup Range(frames)
          BY <1>1, <2>6, <3>1 DEF Covered
        <5>4. QED
          BY <4>2, <5>2, <5>3
      <4>3. QED
        BY <3>1, <4>1, <4>2
    <3>3. QED
      BY <1>1, <1>4, <3>2 DEF FollowFrames, Covered
  <2>7. frames' # frames => FollowFrames'
    <3> SUFFICES ASSUME frames' # frames
                 PROVE  FollowFrames'
      OBVIOUS
    <3>1. PICK z \in Range(log) :
             /\ frames' = Append(frames, z)
             /\ Following => Covered(z, Have \cup Range(buffer) \cup Range(frames))
      OBVIOUS
    <3>2. QED
      BY <1>7, <2>6, <3>1
  <2>8. QED
    BY <2>1, <2>3, <2>5, <2>7
<1>8. QED
  BY <1>3, <1>4, <1>5, <1>7

\* A boot and a crash leave no listener.
LEMMA UnheardFollow ==
    ASSUME Holds, Holds', PhaseInv, Steady, ~Gone', ClosedInv, FollowInv, UNCHANGED clientVars,
           frames' = frames, ~subscribed'
    PROVE  PhaseInv' /\ ClosedInv' /\ FollowInv'
  BY FollowServer DEF FollowInv

\* A write of the Sessions, and an event that comes to be, change nothing on the way to the tab.
LEMMA QuietFollow ==
    ASSUME Holds, Holds', PhaseInv, Steady, ~Gone', ClosedInv, FollowInv, UNCHANGED clientVars,
           UNCHANGED <<log, claimed, settled, stream>>,
           writes # <<>> => writes' # <<>> /\ writes'[1] = writes[1],
           writes = <<>> /\ writes' # <<>> => writes'[1].op # "claim"
    PROVE  PhaseInv' /\ ClosedInv' /\ FollowInv'
<1>1. /\ PhaseInv' /\ ClosedInv' /\ Following' = Following /\ Have' = Have
      /\ Following => FollowHave' /\ FollowBuffer' /\ FollowFrames'
  BY FollowServer DEF stream
<1>2. ASSUME Following, subscribed
      PROVE  FollowStored' /\ FollowRows' /\ FollowClaims'
  <2>1. /\ FollowStored /\ FollowRows /\ FollowClaims
        /\ UNCHANGED <<log, claimed, settled, frames, buffer>>
        /\ settled # "no" => writes # <<>>
    BY <1>2 DEF FollowInv, stream, clientVars, Holds, ServerInv, ProcessInv
  <2>2. (Stored' <=> Stored) /\ (Stored => writes'[1] = writes[1])
    BY <2>1 DEF Stored
  <2>3. FollowStored'
    <3>1. ASSUME Stored
          PROVE  writes[1].event \in Born
      BY <3>1, RangeIsTyped DEF Stored, Holds, ServerInv, StoredInv, BirthInv, Born, ServerTypeOK
    <3>2. \A x \in Born : Earlier'[x] \subseteq Earlier[x]
      BY SteadyEarlier
    <3>3. QED
      BY <1>1, <2>1, <2>2, <3>1, <3>2 DEF FollowStored, Covered
  <2>4. FollowRows'
    BY <1>1, <2>1, <2>2 DEF FollowRows
  <2>5. FollowClaims'
    BY <1>1, <2>1 DEF FollowClaims
  <2>6. QED
    BY <2>3, <2>4, <2>5
<1>3. subscribed' = subscribed
  BY DEF stream
<1>4. QED
  BY <1>1, <1>2, <1>3 DEF FollowInv

\* A row is stored for a tab that has, or is sent, all rows before it.
LEMMA CommitFollow ==
    ASSUME Holds, Holds', Alone, OrderInv, PhaseInv, Steady, ~Gone', ClosedInv, FollowInv,
           UNCHANGED clientVars, Commit
    PROVE  PhaseInv' /\ ClosedInv' /\ FollowInv'
<1> DEFINE x == writes[1].event
<1>0. AnswerEffect
  BY CommitEffect DEF Holds
<1>1. /\ UNCHANGED <<deleted, known, memory, writes, subscribed, frames>> /\ writes # <<>>
      /\ settled = "no" /\ settled' \in {"ok", "failed"}
      /\ writes[1] \in Range(writes) /\ 1 \in DOMAIN writes /\ 1 \in Nat
      /\ \A n \in DOMAIN writes : n \in Nat /\ n >= 1
      /\ memory \in Seq(Events) /\ IsInjective(memory)
      /\ \A n \in DOMAIN memory : n \in Nat
  <2>1. writes \in Seq(AllWrites) /\ memory \in Seq(Events) /\ IsInjective(memory)
    BY DEF Holds, ServerInv, ServerTypeOK, AllWrites
  <2>2. /\ UNCHANGED <<deleted, known, memory, writes, subscribed, frames>> /\ writes # <<>>
        /\ settled = "no" /\ settled' \in {"ok", "failed"} /\ writes[1] \in Range(writes)
    BY <1>0 DEF AnswerEffect, stream
  <2>3. QED
    BY <2>1, <2>2
<1>2. writes[1].op # "transaction"
  BY <1>1, AloneAppends
<1>3. /\ PhaseInv' /\ ClosedInv' /\ Following' = Following /\ Have' = Have
      /\ Following => FollowHave' /\ FollowBuffer' /\ FollowFrames'
      /\ buffer' = buffer
  BY <1>1, FollowServer DEF clientVars
<1>4. ASSUME Following, subscribed
      PROVE  FollowStored' /\ FollowRows' /\ FollowClaims'
  <2>1. FollowRows /\ FollowClaims /\ ~Stored
    BY <1>1, <1>4 DEF FollowInv, Stored
  <2>2. \A e \in Range(log) : e \in Have \cup Range(buffer) \cup Range(frames)
    BY <2>1 DEF FollowRows
  <2>3. FollowStored'
    <3>1. SUFFICES ASSUME Stored', NEW e \in Earlier'[x]
                   PROVE  e \in Have \cup Range(buffer) \cup Range(frames)
      BY <1>1, <1>3 DEF FollowStored, Covered
    <3>2. writes[1].op = "append"
      BY <1>1, <3>1 DEF Stored
    <3>3. x \in Range(log') /\ x \in Born /\ x \in Events /\ known
      <4>1. x \in Range(log')
        BY <1>1, <3>1, <3>2 DEF Holds, ServerInv, StoredInv, Stored
      <4>2. x \in Events /\ x \in Born /\ known
        BY <1>1, <3>2 DEF Holds, ServerInv, ProcessInv, BirthInv, Born
      <4>3. QED
        BY <4>1, <4>2
    <3>4. e \in Possible /\ Prior(e, x)
      <4>1. e \in Earlier[x]
        BY <3>1, <3>3, SteadyEarlier
      <4>2. QED
        BY <3>3, <4>1 DEF Earlier
    <3>5. PICK p, q \in DOMAIN memory : p < q /\ memory[p] = e /\ memory[q] = x
      BY <3>3, <3>4 DEF Prior, Story
    <3>6. e \notin Appended
      <4>1. SUFFICES ASSUME NEW n \in DOMAIN writes, writes[n].op = "append", writes[n].event = e
                     PROVE  FALSE
        BY DEF Appended
      <4>2. n # 1
        BY <1>1, <3>5, <4>1 DEF IsInjective
      <4>3. 1 < n
        BY <1>1, <4>2
      <4>4. Ahead(memory, x, e)
        BY <1>1, <3>2, <3>3, <4>1, <4>3 DEF OrderInv
      <4>5. q < p
        BY <3>5, <4>4 DEF Ahead
      <4>6. QED
        BY <1>1, <3>5, <4>5
    <3>7. e \in Range(log)
      BY <3>4, <3>6 DEF Possible
    <3>8. QED
      BY <2>2, <3>7
  <2>4. FollowRows'
    <3>1. ASSUME NEW e \in Range(log'), e \notin Range(log)
          PROVE  Stored' /\ e = writes'[1].event
      <4>1. /\ settled' = "ok" /\ writes[1].op = "append" /\ x \notin Range(log) /\ log' = Append(log, x)
        BY <1>0, <1>2, <3>1 DEF AnswerEffect
      <4>2. x \in Events /\ log \in Seq(Events)
        BY <1>1, <4>1 DEF Holds, ServerInv, ProcessInv, ServerTypeOK
      <4>3. Range(log') = Range(log) \cup {x}
        BY <4>1, <4>2, AppendRange
      <4>4. QED
        BY <1>1, <3>1, <4>1, <4>3 DEF Stored
    <3>2. QED
      BY <1>1, <1>3, <2>2, <3>1 DEF FollowRows
  <2>5. FollowClaims'
    BY <1>0, <1>1, <1>3, <2>1 DEF AnswerEffect, FollowClaims
  <2>6. QED
    BY <2>3, <2>4, <2>5
<1>5. QED
  BY <1>1, <1>3, <1>4 DEF FollowInv

\* What has been stored is sent: the tab is ready for it.
LEMMA ContinueFollow ==
    ASSUME Holds, Holds', Alone, PhaseInv, Steady, ~Gone', ClosedInv, FollowInv,
           UNCHANGED clientVars, Continue
    PROVE  PhaseInv' /\ ClosedInv' /\ FollowInv'
<1> DEFINE x == writes[1].event
<1>1. /\ UNCHANGED <<log, claimed, subscribed>> /\ settled' = "no"
      /\ IF Stored /\ subscribed THEN frames' = Append(frames, x) ELSE frames' = frames
      /\ \A n \in DOMAIN writes' : writes'[n].op # "claim"
  BY ContinueAlone DEF stored
<1>2. Stored => x \in Range(log) /\ x \in Events
  BY RangeIsTyped DEF Stored, Holds, ServerInv, StoredInv, ServerTypeOK
<1>3. frames \in Seq(Events) /\ writes' \in Seq(AllWrites)
  BY DEF Holds, ServerInv, ServerTypeOK, AllWrites
<1>4. /\ PhaseInv' /\ ClosedInv' /\ Following' = Following /\ Have' = Have /\ buffer' = buffer
      /\ Following => FollowHave' /\ FollowBuffer' /\ FollowFrames'
  <2>1. CASE Stored /\ subscribed
    <3>1. frames' = Append(frames, x) /\ x \in Range(log)
      BY <1>1, <1>2, <2>1
    <3>2. Following => Covered(x, Have \cup Range(buffer) \cup Range(frames))
      BY <2>1 DEF FollowInv, FollowStored
    <3>3. QED
      BY <2>1, <3>1, <3>2, FollowServer DEF clientVars
  <2>2. CASE ~(Stored /\ subscribed)
    BY <1>1, <2>2, FollowServer DEF clientVars
  <2>3. QED
    BY <2>1, <2>2
<1>5. ASSUME Following, subscribed
      PROVE  FollowStored' /\ FollowRows' /\ FollowClaims'
  <2>1. FollowRows /\ FollowClaims
    BY <1>5 DEF FollowInv
  <2>2. FollowStored'
    BY <1>1 DEF FollowStored, Stored
  <2>3. \A e \in Range(log) : e \in Have \cup Range(buffer) \cup Range(frames')
    <3>1. CASE Stored
      <4>1. Range(frames') = Range(frames) \cup {x}
        <5>1. frames' = Append(frames, x) /\ x \in Events
          BY <1>1, <1>2, <1>5, <3>1
        <5> HIDE DEF x
        <5>2. QED
          BY <1>3, <5>1, AppendRange
      <4>2. QED
        BY <2>1, <4>1 DEF FollowRows
    <3>2. CASE ~Stored
      BY <1>1, <2>1, <3>2 DEF FollowRows
    <3>3. QED
      BY <3>1, <3>2
  <2>4. FollowRows'
    BY <1>1, <1>4, <2>3 DEF FollowRows
  <2>5. FollowClaims'
    <3>1. writes' # <<>> => 1 \in DOMAIN writes'
      BY <1>3
    <3>2. QED
      BY <1>1, <1>4, <2>1, <3>1 DEF FollowClaims
  <2>6. QED
    BY <2>2, <2>4, <2>5
<1>6. QED
  BY <1>1, <1>4, <1>5 DEF FollowInv

\* A claimed row was there when the tab's request was answered.
LEMMA RecoverFollow ==
    ASSUME Holds, Holds', PhaseInv, Steady, ~Gone', ClosedInv, FollowInv,
           UNCHANGED clientVars, Recover
    PROVE  PhaseInv' /\ ClosedInv' /\ FollowInv'
<1>1. /\ UNCHANGED <<log, settled, subscribed>> /\ Range(claimed') \subseteq Range(claimed)
      /\ frames' = frames \/ (subscribed /\ \E e \in Range(claimed) : frames' = Append(frames, e))
      /\ writes # <<>> => writes' # <<>> /\ writes'[1] = writes[1]
      /\ writes = <<>> => writes'[1].op # "claim"
  BY RecoverAlone DEF stored
<1>2. /\ Range(claimed) \subseteq Range(log) /\ Range(log) \subseteq Events /\ frames \in Seq(Events)
      /\ settled # "no" => writes # <<>>
  BY RangeIsTyped DEF Holds, ServerInv, StoredInv, ProcessInv, ServerTypeOK
<1>3. Range(frames) \subseteq Range(frames')
  <2>1. ASSUME NEW e \in Range(claimed), frames' = Append(frames, e)
        PROVE  Range(frames) \subseteq Range(frames')
    BY <1>2, <2>1, AppendRange
  <2>2. QED
    BY <1>1, <2>1
<1>4. /\ PhaseInv' /\ ClosedInv' /\ Following' = Following /\ Have' = Have /\ buffer' = buffer
      /\ Following => FollowHave' /\ FollowBuffer' /\ FollowFrames'
  <2>1. CASE frames' = frames
    BY <2>1, FollowServer DEF clientVars
  <2>2. ASSUME subscribed, NEW e \in Range(claimed), frames' = Append(frames, e)
        PROVE  /\ PhaseInv' /\ ClosedInv' /\ Following' = Following /\ Have' = Have /\ buffer' = buffer
               /\ Following => FollowHave' /\ FollowBuffer' /\ FollowFrames'
    <3>1. Following => Covered(e, Have \cup Range(buffer) \cup Range(frames))
      BY <2>2 DEF FollowInv, FollowClaims, FollowHave, Covered
    <3>2. e \in Range(log)
      BY <1>2, <2>2
    <3>3. QED
      BY <2>2, <3>1, <3>2, FollowServer DEF clientVars
  <2>3. QED
    BY <1>1, <2>1, <2>2
<1>5. ASSUME Following, subscribed
      PROVE  FollowStored' /\ FollowRows' /\ FollowClaims'
  <2>1. FollowStored /\ FollowRows /\ FollowClaims
    BY <1>5 DEF FollowInv
  <2>2. (Stored' <=> Stored) /\ (Stored => writes'[1] = writes[1] /\ writes[1].event \in Born)
    <3>1. Stored => writes[1].event \in Born
      BY RangeIsTyped DEF Stored, Holds, ServerInv, StoredInv, BirthInv, Born, ServerTypeOK
    <3>2. QED
      BY <1>1, <1>2, <3>1 DEF Stored
  <2>3. FollowStored'
    <3>1. \A x \in Born : Earlier'[x] \subseteq Earlier[x]
      BY SteadyEarlier
    <3>2. QED
      BY <1>3, <1>4, <2>1, <2>2, <3>1 DEF FollowStored, Covered
  <2>4. FollowRows'
    BY <1>1, <1>3, <1>4, <2>1, <2>2 DEF FollowRows
  <2>5. FollowClaims'
    BY <1>1, <1>4, <2>1 DEF FollowClaims
  <2>6. QED
    BY <2>3, <2>4, <2>5
<1>6. QED
  BY <1>1, <1>4, <1>5 DEF FollowInv

\* The steps of the tab leave the order alone.
LEMMA ClientOrder ==
    ASSUME OrderInv, UNCHANGED <<stored, process>>
    PROVE  OrderInv' /\ Gone' = Gone /\ Earlier' = Earlier /\ Possible' = Possible /\ Stored' = Stored
<1>1. UNCHANGED <<log, deleted, known, memory, writes, settled>>
  BY DEF stored, process
<1>2. Possible' = Possible /\ Appended' = Appended /\ Story' = Story
  BY <1>1 DEF Possible, Appended, Story
<1>3. OrderInv'
  BY <1>1, <1>2 DEF OrderInv, Ahead
<1>4. Earlier' = Earlier
  BY <1>2 DEF Earlier, Prior
<1>5. QED
  BY <1>1, <1>2, <1>3, <1>4 DEF Gone, Stored

\* A frame goes to the buffer, or is shown by a tab that has all that comes before it.
LEMMA ReceiveFollow ==
    ASSUME Holds, Alone, OrderInv, PhaseInv, ClosedInv, FollowInv, Receive
    PROVE  PhaseInv' /\ ClosedInv' /\ FollowInv'
<1> DEFINE z == frames[1]
<1>1. /\ frames # <<>> /\ frames' = Tail(frames) /\ conn \in {"opened", "connected"} /\ Head(frames) = z
      /\ UNCHANGED <<stored, process, subscribed, conn, incomplete, recovering, backfill>>
      /\ frames \in Seq(Events) /\ buffer \in Seq(Events) /\ shown \in Seq(Events)
  BY DEF Receive, Holds, TypeOK, ServerTypeOK
<1>2. /\ Tail(frames) \in Seq(Events) /\ z \in Events /\ 1 \in DOMAIN frames
      /\ \A n \in DOMAIN frames' : n \in Nat /\ n >= 1 /\ n + 1 \in DOMAIN frames /\ frames'[n] = frames[n + 1]
      /\ Range(frames) = {z} \cup Range(frames')
  BY <1>1, TailRange
<1> HIDE DEF z
<1>3. /\ Earlier' = Earlier /\ Stored' = Stored /\ Following' = Following /\ Page' = Page
      /\ UNCHANGED <<log, claimed, settled, writes>>
  BY <1>1, ClientOrder DEF Following, Page, stored, process
<1>4. ASSUME NEW n \in DOMAIN frames'
      PROVE  {frames[m] : m \in 1..(n + 1) - 1} \subseteq {z} \cup {frames'[m] : m \in 1..n - 1}
  <2>1. ASSUME NEW m \in 1..(n + 1) - 1, m # 1
        PROVE  m - 1 \in 1..n - 1 /\ frames'[m - 1] = frames[m]
    <3>1. m - 1 \in 1..n - 1 /\ m - 1 \in DOMAIN frames'
      BY <1>1, <1>2, <2>1
    <3>2. frames'[m - 1] = frames[(m - 1) + 1] /\ (m - 1) + 1 = m
      BY <1>2, <2>1, <3>1
    <3>3. QED
      BY <3>1, <3>2
  <2>2. QED
    BY <2>1 DEF z
<1>5. CASE recovering /\ buffer' = Append(buffer, z) /\ UNCHANGED shown
  <2>1. PhaseInv'
    BY <1>1, <1>5 DEF PhaseInv, NoBackfill
  <2>2. ClosedInv' /\ Have' = Have
    BY <1>3, <1>5 DEF ClosedInv, Covered, Have
  <2>3. /\ Range(buffer') = Range(buffer) \cup {z} /\ Len(buffer) \in Nat
        /\ \A n \in DOMAIN buffer : n \in Nat /\ n <= Len(buffer) /\ buffer'[n] = buffer[n]
        /\ DOMAIN buffer = 1..Len(buffer)
        /\ \A n \in DOMAIN buffer' :
              (n \in DOMAIN buffer /\ buffer'[n] = buffer[n]) \/ (n = Len(buffer) + 1 /\ buffer'[n] = z)
    <3>1. Range(buffer') = Range(buffer) \cup {z}
      BY <1>1, <1>2, <1>5, AppendRange
    <3>2. QED
      BY <1>1, <1>2, <1>5, <3>1, AppendIndex
  <2>4. ASSUME Following
        PROVE  FollowHave' /\ FollowBuffer' /\ FollowFrames'
    <3>1. FollowHave /\ FollowBuffer /\ FollowFrames
      BY <2>4 DEF FollowInv
    <3>2. FollowHave'
      BY <1>3, <2>2, <3>1 DEF FollowHave, Covered
    <3>3. Earlier[z] \subseteq Have \cup Range(buffer)
      <4>1. Earlier[frames[1]] \subseteq Have \cup Range(buffer) \cup {frames[m] : m \in 1..1 - 1}
        BY <1>2, <3>1 DEF FollowFrames, Covered
      <4>2. {frames[m] : m \in 1..1 - 1} = {}
        OBVIOUS
      <4>3. QED
        BY <4>1, <4>2 DEF z
    <3>4. ASSUME NEW n \in DOMAIN buffer'
          PROVE  Earlier[buffer'[n]] \subseteq Have \cup {buffer'[m] : m \in 1..n - 1}
      <4>1. CASE n \in DOMAIN buffer /\ buffer'[n] = buffer[n]
        <5>1. \A m \in 1..n - 1 : m \in DOMAIN buffer /\ buffer'[m] = buffer[m]
          BY <2>3, <4>1
        <5>2. {buffer'[m] : m \in 1..n - 1} = {buffer[m] : m \in 1..n - 1}
          BY <5>1
        <5>3. QED
          BY <3>1, <4>1, <5>2 DEF FollowBuffer, Covered
      <4>2. CASE n = Len(buffer) + 1 /\ buffer'[n] = z
        <5>1. \A m \in DOMAIN buffer : m \in 1..n - 1 /\ buffer'[m] = buffer[m]
          BY <2>3, <4>2
        <5>2. Range(buffer) \subseteq {buffer'[m] : m \in 1..n - 1}
          BY <5>1 DEF Range
        <5>3. QED
          BY <3>3, <4>2, <5>2
      <4>3. QED
        BY <2>3, <4>1, <4>2
    <3>5. FollowBuffer'
      BY <1>3, <2>2, <3>4 DEF FollowBuffer, Covered
    <3>6. ASSUME NEW n \in DOMAIN frames'
          PROVE  Earlier[frames'[n]] \subseteq Have \cup Range(buffer') \cup {frames'[m] : m \in 1..n - 1}
      <4>1. Earlier[frames[n + 1]] \subseteq Have \cup Range(buffer) \cup {frames[m] : m \in 1..(n + 1) - 1}
        BY <1>2, <3>1 DEF FollowFrames, Covered
      <4>2. QED
        BY <1>2, <1>4, <2>3, <4>1
    <3>7. FollowFrames'
      BY <1>3, <2>2, <3>6 DEF FollowFrames, Covered
    <3>8. QED
      BY <3>2, <3>5, <3>7
  <2>5. Have \cup Range(buffer) \cup Range(frames) = Have' \cup Range(buffer') \cup Range(frames')
    BY <1>2, <2>2, <2>3
  <2>6. ASSUME Following, subscribed
        PROVE  FollowStored' /\ FollowRows' /\ FollowClaims'
    <3>1. FollowStored /\ FollowRows /\ FollowClaims
      BY <2>6 DEF FollowInv
    <3>2. FollowStored'
      BY <1>3, <2>5, <3>1 DEF FollowStored, Covered
    <3>3. FollowRows'
      BY <1>3, <2>5, <3>1 DEF FollowRows
    <3>4. FollowClaims'
      BY <1>3, <2>2, <3>1 DEF FollowClaims
    <3>5. QED
      BY <3>2, <3>3, <3>4
  <2>7. QED
    BY <1>1, <1>3, <2>1, <2>2, <2>4, <2>6 DEF FollowInv
<1>6. CASE ~recovering /\ shown' \in Merged(<<z>>) /\ UNCHANGED buffer
  <2>1. conn = "connected" /\ buffer = <<>> /\ backfill.stage = "none" /\ Page = {} /\ Following
    BY <1>1, <1>6 DEF PhaseInv, Page, Following
  <2>2. Have = Range(shown) /\ Have' = Range(shown') /\ Range(shown') = Range(shown) \cup {z}
    <3>1. Have = Range(shown) /\ Have' = Range(shown')
      BY <1>3, <2>1 DEF Have
    <3>2. <<z>> \in Seq(Events) /\ Range(<<z>>) = {z}
      BY <1>2 DEF Range
    <3>3. Range(shown') = Range(shown) \cup {z}
      BY <1>1, <1>6, <3>2, MergedHolds
    <3>4. QED
      BY <3>1, <3>3
  <2>3. FollowHave /\ FollowFrames /\ buffer' = buffer /\ Range(buffer) = {}
    BY <1>6, <2>1, EmptyRange DEF FollowInv
  <2>4. PhaseInv'
    BY <1>1, <1>6, <2>1 DEF PhaseInv, NoBackfill
  <2>5. Earlier[z] \subseteq Have
    <3>1. Earlier[frames[1]] \subseteq Have \cup Range(buffer) \cup {frames[m] : m \in 1..1 - 1}
      BY <1>2, <2>3 DEF FollowFrames, Covered
    <3>2. {frames[m] : m \in 1..1 - 1} = {}
      OBVIOUS
    <3>3. QED
      BY <2>3, <3>1, <3>2 DEF z
  <2>6. \A x \in Have' : Earlier'[x] \subseteq Have'
    BY <1>3, <2>2, <2>3, <2>5 DEF FollowHave, Covered
  <2>7. FollowHave' /\ ClosedInv'
    BY <2>2, <2>6 DEF FollowHave, ClosedInv, Covered
  <2>8. FollowBuffer'
    BY <2>1, <2>3 DEF FollowBuffer
  <2>9. ASSUME NEW n \in DOMAIN frames'
        PROVE  Earlier[frames'[n]] \subseteq Have' \cup Range(buffer') \cup {frames'[m] : m \in 1..n - 1}
    <3>1. Earlier[frames[n + 1]] \subseteq Have \cup Range(buffer) \cup {frames[m] : m \in 1..(n + 1) - 1}
      BY <1>2, <2>3 DEF FollowFrames, Covered
    <3>2. QED
      BY <1>2, <1>4, <2>2, <2>3, <3>1
  <2>10. FollowFrames'
    BY <1>3, <2>9 DEF FollowFrames, Covered
  <2>11. Have \cup Range(buffer) \cup Range(frames) = Have' \cup Range(buffer') \cup Range(frames')
    BY <1>2, <2>2, <2>3
  <2>12. ASSUME subscribed
         PROVE  FollowStored' /\ FollowRows' /\ FollowClaims'
    <3>1. FollowStored /\ FollowRows /\ FollowClaims
      BY <2>1, <2>12 DEF FollowInv
    <3>2. FollowStored'
      BY <1>3, <2>11, <3>1 DEF FollowStored, Covered
    <3>3. FollowRows'
      BY <1>3, <2>11, <3>1 DEF FollowRows
    <3>4. FollowClaims'
      BY <1>3, <2>2, <3>1 DEF FollowClaims
    <3>5. QED
      BY <3>2, <3>3, <3>4
  <2>13. QED
    BY <1>1, <2>4, <2>7, <2>8, <2>10, <2>12 DEF FollowInv
<1>7. QED
  BY <1>1, <1>5, <1>6 DEF Receive

\* The page and what is shown are all that can be a row: the cursor is a place
\* before which nothing is missing.
LEMMA AnswerFollow ==
    ASSUME Holds, OrderInv, PhaseInv, ClosedInv, ~Gone, Answer
    PROVE  PhaseInv' /\ ClosedInv' /\ FollowInv'
<1> DEFINE cursor == backfill.cursor
           page == List(cursor)
<1>1. /\ up /\ backfill.stage = "sent" /\ backfill' = [backfill EXCEPT !.stage = "answered", !.page = page]
      /\ UNCHANGED <<serverVars, conn, shown, incomplete, recovering, buffer>>
      /\ memory \in Seq(Events) /\ shown \in Seq(Events) /\ backfill \in Backfills
  BY DEF Answer, Holds, TypeOK, ServerTypeOK, Backfills
<1>2. known
  BY <1>1 DEF Holds, ServerInv, ProcessInv, Gone
<1>3. Possible \subseteq Range(memory) /\ Possible \subseteq Events
  BY <1>1, <1>2, RangeIsTyped DEF OrderInv
<1>4. Possible \subseteq Range(shown) \cup Range(page)
  <2>1. CASE Contains(memory, cursor)
    <3> DEFINE c == CHOOSE n \in DOMAIN memory : memory[n] = cursor
    <3>1. c \in DOMAIN memory /\ memory[c] = cursor
      BY <2>1 DEF Contains
    <3>2. page = SubSeq(memory, 1 + c, Len(memory))
      BY <2>1 DEF List
    <3> HIDE DEF c
    <3>3. /\ c \in 1..Len(memory) /\ Len(memory) \in Nat /\ DOMAIN memory = 1..Len(memory)
          /\ DOMAIN page = 1..(Len(memory) - c)
          /\ \A n \in DOMAIN page : page[n] = memory[c + n]
      BY <1>1, <3>1, <3>2
    <3>4. cursor \in Range(shown) /\ cursor \in Events
      BY <1>1, <3>1, EventsAssumption DEF PhaseInv
    <3>5. ASSUME NEW e \in Possible
          PROVE  e \in Range(shown) \cup Range(page)
      <4>1. PICK p \in DOMAIN memory : memory[p] = e
        BY <1>3 DEF Range
      <4>2. CASE p < c
        <5>1. Prior(e, cursor)
          BY <1>2, <3>1, <4>1, <4>2 DEF Prior, Story
        <5>2. e \in Earlier[cursor]
          BY <3>4, <5>1 DEF Earlier
        <5>3. QED
          BY <3>4, <5>2 DEF ClosedInv, Covered
      <4>3. CASE p = c
        BY <3>1, <3>4, <4>1, <4>3
      <4>4. CASE p > c
        <5>1. p - c \in DOMAIN page /\ page[p - c] = memory[c + (p - c)] /\ c + (p - c) = p
          <6>1. p - c \in DOMAIN page /\ c + (p - c) = p
            BY <3>3, <4>1, <4>4
          <6>2. QED
            BY <3>3, <6>1
        <5>2. QED
          BY <4>1, <5>1, RangeIndex
      <4>5. QED
        BY <3>3, <4>1, <4>2, <4>3, <4>4
    <3>6. QED
      BY <3>5
  <2>2. CASE ~Contains(memory, cursor)
    BY <1>3, <2>2 DEF List
  <2>3. QED
    BY <2>1, <2>2
<1> HIDE DEF page
<1>5. backfill'.stage = "answered" /\ backfill'.page = page /\ backfill'.cursor = cursor /\ backfill'.open = backfill.open
  BY <1>1 DEF Backfills
<1>6. Have' = Range(shown) \cup Range(page)
  BY <1>1, <1>5 DEF Have, Page
<1>7. /\ OrderInv' /\ Earlier' = Earlier /\ Possible' = Possible /\ Stored' = Stored
      /\ UNCHANGED <<log, claimed, settled, writes, frames, buffer, subscribed, conn, recovering, incomplete, shown>>
  BY <1>1, ClientOrder DEF serverVars, stored, process, stream
<1>8. \A x \in Events : Earlier'[x] \subseteq Have'
  BY <1>4, <1>6, <1>7 DEF Earlier
<1>9. PhaseInv'
  BY <1>1, <1>5, <1>7 DEF PhaseInv, NoBackfill
<1>10. ClosedInv'
  BY <1>7 DEF ClosedInv, Covered
<1>11. /\ Range(shown) \subseteq Events /\ Range(page) \subseteq Events /\ Range(buffer) \subseteq Events
       /\ Range(frames) \subseteq Events
  <2>1. page \in Seq(Events)
    BY <1>1, ListHolds DEF page
  <2>2. buffer \in Seq(Events) /\ frames \in Seq(Events)
    BY DEF Holds, TypeOK, ServerTypeOK
  <2>3. QED
    BY <1>1, <2>1, <2>2, RangeIsTyped
<1>12. FollowHave'
  BY <1>6, <1>8, <1>11 DEF FollowHave, Covered
<1>13. FollowBuffer'
  BY <1>7, <1>8, <1>11, RangeIndex DEF FollowBuffer, Covered
<1>14. FollowFrames'
  <2>1. \A n \in DOMAIN frames : frames[n] \in Events
    BY <1>11, RangeIndex
  <2>2. QED
    BY <1>7, <1>8, <2>1 DEF FollowFrames, Covered
<1>15. FollowStored'
  <2>1. Stored => writes[1].event \in Events
    BY RangeIsTyped DEF Stored, Holds, ServerInv, StoredInv, ServerTypeOK
  <2>2. QED
    BY <1>7, <1>8, <2>1 DEF FollowStored, Covered
<1>16. FollowRows' /\ FollowClaims'
  <2>1. Range(log) \subseteq Have' /\ Range(claimed) \subseteq Have'
    BY <1>4, <1>6 DEF Possible, Holds, ServerInv, StoredInv
  <2>2. QED
    BY <1>7, <2>1 DEF FollowRows, FollowClaims
<1>17. QED
  BY <1>9, <1>10, <1>12, <1>13, <1>14, <1>15, <1>16 DEF FollowInv

\* The page and the buffer are shown together.
LEMMA BackfilledFollow ==
    ASSUME Holds, OrderInv, PhaseInv, ClosedInv, FollowInv, Backfilled
    PROVE  PhaseInv' /\ ClosedInv' /\ FollowInv'
<1>1. /\ backfill.stage = "answered" /\ conn = "opened" /\ backfill.open /\ Following
      /\ shown \in Seq(Events) /\ buffer \in Seq(Events) /\ backfill.page \in Seq(Events)
      /\ Page = Range(backfill.page)
  <2>1. backfill \in Backfills /\ shown \in Seq(Events) /\ buffer \in Seq(Events)
    BY DEF Holds, TypeOK, Backfills
  <2>2. backfill.stage = "answered"
    BY DEF Backfilled
  <2>3. QED
    BY <2>1, <2>2 DEF PhaseInv, Following, Page, Backfills
<1>2. /\ conn' = "connected" /\ buffer' = <<>> /\ recovering' = FALSE /\ backfill' = NoBackfill
      /\ incomplete' = FALSE /\ shown' \in Merged(backfill.page \o buffer)
      /\ UNCHANGED <<log, deleted, known, memory, writes, settled, claimed, frames, subscribed, stored, process>>
  BY <1>1 DEF Backfilled, PhaseInv, serverVars, stored, process, stream
<1>3. Range(shown') = Have \cup Range(buffer)
  <2>1. backfill.page \o buffer \in Seq(Events)
          /\ Range(backfill.page \o buffer) = Range(backfill.page) \cup Range(buffer)
    BY <1>1, ConcatHolds
  <2>2. Range(shown') = Range(shown) \cup Range(backfill.page \o buffer)
    BY <1>1, <1>2, <2>1, MergedHolds
  <2>3. QED
    BY <1>1, <2>1, <2>2 DEF Have
<1>4. Have' = Range(shown') /\ Range(buffer') = {} /\ Following'
  BY <1>2, EmptyRange, NoBackfillIsTyped DEF Have, Page, Following
<1>5. Earlier' = Earlier /\ Stored' = Stored
  BY <1>2, ClientOrder
<1>6. FollowHave /\ FollowBuffer /\ FollowFrames
  BY <1>1 DEF FollowInv
<1>7. \A x \in Range(shown') : Earlier[x] \subseteq Range(shown')
  <2>1. ASSUME NEW n \in DOMAIN buffer
        PROVE  Earlier[buffer[n]] \subseteq Range(shown')
    <3>1. Earlier[buffer[n]] \subseteq Have \cup {buffer[m] : m \in 1..n - 1}
      BY <1>6 DEF FollowBuffer, Covered
    <3>2. n \in 1..Len(buffer) /\ Len(buffer) \in Nat /\ DOMAIN buffer = 1..Len(buffer)
      BY <1>1
    <3>3. \A m \in 1..n - 1 : m \in DOMAIN buffer
      BY <3>2
    <3>4. {buffer[m] : m \in 1..n - 1} \subseteq Range(buffer)
      BY <3>3 DEF Range
    <3>5. QED
      BY <1>3, <3>1, <3>4
  <2>2. \A x \in Have : Earlier[x] \subseteq Range(shown')
    BY <1>3, <1>6 DEF FollowHave, Covered
  <2>3. \A x \in Range(buffer) : Earlier[x] \subseteq Range(shown')
    BY <2>1 DEF Range
  <2>4. QED
    BY <1>3, <2>2, <2>3
<1>8. PhaseInv'
  BY <1>2, NoBackfillIsTyped DEF PhaseInv
<1>9. ClosedInv' /\ FollowHave'
  BY <1>4, <1>5, <1>7 DEF ClosedInv, FollowHave, Covered
<1>10. FollowBuffer'
  BY <1>2 DEF FollowBuffer
<1>11. FollowFrames'
  <2>1. ASSUME NEW n \in DOMAIN frames
        PROVE  Earlier[frames[n]] \subseteq Have' \cup {frames[m] : m \in 1..n - 1}
    BY <1>3, <1>4, <1>6 DEF FollowFrames, Covered
  <2>2. QED
    BY <1>2, <1>4, <1>5, <2>1 DEF FollowFrames, Covered
<1>12. ASSUME subscribed
       PROVE  FollowStored' /\ FollowRows' /\ FollowClaims'
  <2>1. FollowStored /\ FollowRows /\ FollowClaims
    BY <1>1, <1>12 DEF FollowInv
  <2>2. FollowStored'
    BY <1>2, <1>3, <1>4, <1>5, <2>1 DEF FollowStored, Covered
  <2>3. FollowRows'
    BY <1>2, <1>3, <1>4, <1>5, <2>1 DEF FollowRows
  <2>4. FollowClaims'
    BY <1>2, <1>3, <1>4, <2>1 DEF FollowClaims
  <2>5. QED
    BY <2>2, <2>3, <2>4
<1>13. QED
  BY <1>2, <1>8, <1>9, <1>10, <1>11, <1>12 DEF FollowInv

\* An attempt that has not been answered owes the tab nothing yet.
LEMMA UnansweredFollow ==
    ASSUME OrderInv, ClosedInv, UNCHANGED <<stored, process>>, shown' = shown \/ shown' = <<>>,
           backfill'.stage # "answered", conn' # "connected"
    PROVE  ClosedInv' /\ FollowInv'
<1>1. Earlier' = Earlier
  BY ClientOrder
<1>2. CASE shown' = shown
  BY <1>1, <1>2 DEF ClosedInv, Covered, FollowInv, Following
<1>3. CASE shown' = <<>>
  BY <1>3, EmptyRange DEF ClosedInv, FollowInv, Following
<1>4. QED
  BY <1>2, <1>3

\* A stream that is closed.
LEMMA ClosedFollow ==
    ASSUME OrderInv, ClosedInv, PhaseInv, UNCHANGED <<stored, process>>, shown' = shown \/ shown' = <<>>,
           incomplete' = FALSE, NEW next \in {"idle", "retrying"}, Closed(next)
    PROVE  PhaseInv' /\ ClosedInv' /\ FollowInv'
<1>1. /\ conn' = next /\ backfill' = NoBackfill /\ recovering' = FALSE /\ buffer' = <<>> /\ frames' = <<>>
  BY DEF Closed
<1>2. PhaseInv'
  BY <1>1, NoBackfillIsTyped DEF PhaseInv
<1>3. ClosedInv' /\ FollowInv'
  BY <1>1, NoBackfillIsTyped, UnansweredFollow
<1>4. QED
  BY <1>2, <1>3

\* The steps of the tab.
LEMMA ClientFollow ==
    ASSUME Holds, Alone, Alone', OrderInv, PhaseInv, ClosedInv, FollowInv, ~Gone, ClientStep
    PROVE  PhaseInv' /\ ClosedInv' /\ FollowInv'
<1>1. commands' = 0 /\ commands = 0
  BY DEF Alone
<1>2. CASE Connect
  <2>1. /\ conn' = "opening" /\ recovering' = TRUE /\ buffer' = <<>> /\ conn = "idle"
        /\ UNCHANGED <<stored, process, stream, shown, incomplete, backfill>>
    BY <1>2 DEF Connect, serverVars
  <2>2. PhaseInv'
    BY <2>1 DEF PhaseInv, NoBackfill, stream
  <2>3. ClosedInv' /\ FollowInv'
    BY <2>1, UnansweredFollow DEF PhaseInv
  <2>4. QED
    BY <2>2, <2>3
<1>3. CASE Retry
  <2>1. /\ conn' = "opening" /\ buffer' = <<>> /\ backfill' = NoBackfill /\ conn = "retrying"
        /\ recovering' = TRUE
        /\ UNCHANGED <<stored, process, stream, shown, incomplete>>
    BY <1>3 DEF Retry, serverVars, PhaseInv
  <2>2. PhaseInv'
    BY <2>1, NoBackfillIsTyped DEF PhaseInv, stream
  <2>3. ClosedInv' /\ FollowInv'
    BY <2>1, NoBackfillIsTyped, UnansweredFollow
  <2>4. QED
    BY <2>2, <2>3
<1>4. CASE Subscribe
  <2>1. /\ conn = "opening" /\ UNCHANGED <<conn, recovering, buffer, frames, stored, process, shown, incomplete, backfill>>
    BY <1>4 DEF Subscribe, clientVars
  <2>2. PhaseInv'
    BY <2>1 DEF PhaseInv, NoBackfill
  <2>3. ClosedInv' /\ FollowInv'
    BY <2>1, UnansweredFollow DEF PhaseInv
  <2>4. QED
    BY <2>2, <2>3
<1>5. CASE OnOpen
  <2>1. /\ conn = "opening" /\ conn' = "opened" /\ Reconcile(TRUE)
        /\ UNCHANGED <<stored, process, stream, shown, incomplete>>
    BY <1>5 DEF OnOpen, serverVars
  <2>2. backfill.stage = "none"
    BY <2>1 DEF PhaseInv
  <2>3. /\ backfill' = [stage |-> "sent", cursor |-> Cursor, page |-> <<>>, open |-> TRUE]
        /\ recovering' = TRUE /\ buffer' = <<>>
    BY <2>1, <2>2 DEF Reconcile
  <2>4. Cursor = NoEvent \/ Cursor \in Range(shown)
    BY CursorIsTyped DEF Holds, TypeOK
  <2>5. backfill'.stage = "sent" /\ backfill'.cursor = Cursor /\ backfill'.open
    BY <2>3
  <2>6. PhaseInv'
    BY <2>1, <2>3, <2>4, <2>5 DEF PhaseInv, stream
  <2>7. ClosedInv' /\ FollowInv'
    BY <2>1, <2>5, UnansweredFollow
  <2>8. QED
    BY <2>6, <2>7
<1>6. CASE Receive
  BY <1>6, ReceiveFollow
<1>7. CASE Answer
  BY <1>7, AnswerFollow
<1>8. CASE Backfilled
  BY <1>8, BackfilledFollow
<1>9. CASE BackfillFails
  <2>1. backfill.open
    BY <1>9 DEF BackfillFails, PhaseInv
  <2>2. Closed("retrying") /\ incomplete' = FALSE /\ UNCHANGED <<stored, process, shown>>
    BY <1>9, <2>1 DEF BackfillFails, PhaseInv
  <2>3. QED
    BY <2>2, ClosedFollow
<1>10. CASE Drop
  <2>1. Closed("retrying") /\ incomplete' = FALSE /\ UNCHANGED <<stored, process, shown>>
    BY <1>10 DEF Drop, PhaseInv
  <2>2. QED
    BY <2>1, ClosedFollow
<1>11. CASE Leave
  <2>1. Closed("idle") /\ incomplete' = FALSE /\ UNCHANGED <<stored, process>>
    BY <1>11 DEF Leave, PhaseInv
  <2>2. shown' = shown \/ shown' = <<>>
    BY <1>11 DEF Leave
  <2>3. QED
    BY <2>1, <2>2, ClosedFollow
<1>12. CASE EnsureConnectedAndReconcile \/ Receipt
  BY <1>1, <1>12 DEF EnsureConnectedAndReconcile, Receipt
<1>13. QED
  BY <1>2, <1>3, <1>4, <1>5, <1>6, <1>7, <1>8, <1>9, <1>10, <1>11, <1>12 DEF ClientStep

-----------------------------------------------------------------------------
(* All of it, step by step. *)

\* The initial state satisfies the invariant.
LEMMA InitInv ==
    ASSUME Init
    PROVE  IInv
<1>1. Holds
  BY InitHolds
<1>2. OrderInv
  BY DEF Init, ServerInit, OrderInv
<1>3. PhaseInv /\ ClosedInv /\ FollowInv
  BY NoBackfillIsTyped, EmptyRange
  DEF Init, ServerInit, PhaseInv, ClosedInv, FollowInv, Following
<1>4. QED
  BY <1>1, <1>2, <1>3 DEF IInv, AloneInv

\* The server's steps keep the order, and add nothing before what is known of.
LEMMA ServerOrder ==
    ASSUME Holds, Alone, OrderInv,
           \/ Boot \/ Crash \/ WriteSessions \/ Commit \/ Continue \/ Recover
           \/ \E e \in Events : Create(e)
    PROVE  OrderInv' /\ Steady
  BY BootOrder, CrashOrder, WriteSessionsOrder, CommitOrder, ContinueOrder, RecoverOrder, CreateOrder

\* Every step keeps the invariant.
LEMMA NextInv ==
    ASSUME IInv, [Next]_vars
    PROVE  IInv'
<1>1. Holds /\ Holds'
  BY NextHolds DEF IInv
<1> SUFFICES ASSUME Alone'
             PROVE  AloneInv'
  BY <1>1 DEF IInv
<1>2. Alone /\ OrderInv /\ (~Gone => PhaseInv /\ ClosedInv /\ FollowInv)
  BY <1>1, AloneBefore DEF IInv, AloneInv
<1>3. CASE ClientStep
  <2>1. UNCHANGED <<stored, process>>
    BY <1>3 DEF ClientStep, Connect, Retry, Subscribe, OnOpen, Receive, Answer, Backfilled, BackfillFails,
       Drop, Leave, EnsureConnectedAndReconcile, Receipt, serverVars
  <2>2. OrderInv' /\ Gone' = Gone
    BY <1>2, <2>1, ClientOrder
  <2>3. QED
    BY <1>1, <1>2, <1>3, <2>2, ClientFollow DEF AloneInv
<1>4. CASE UNCHANGED vars
  <2>1. UNCHANGED <<stored, process, clientVars, stream>>
    BY <1>4 DEF vars, serverVars
  <2>2. OrderInv' /\ Gone' = Gone /\ Earlier' = Earlier /\ Stored' = Stored
    BY <1>2, <2>1, ClientOrder
  <2>3. UNCHANGED <<conn, shown, incomplete, recovering, buffer, backfill, frames, subscribed, writes, log,
                    claimed, settled>>
    BY <2>1 DEF clientVars, stream, process, stored
  <2>4. Have' = Have /\ Following' = Following
    BY <2>3 DEF Have, Page, Following
  <2>5. ASSUME ~Gone
        PROVE  PhaseInv' /\ ClosedInv' /\ FollowInv'
    <3>1. PhaseInv'
      BY <1>2, <2>3, <2>5 DEF PhaseInv, NoBackfill
    <3>2. ClosedInv'
      BY <1>2, <2>2, <2>3, <2>5 DEF ClosedInv, Covered
    <3>3. FollowInv'
      BY <1>2, <2>2, <2>3, <2>4, <2>5
      DEF FollowInv, FollowHave, FollowBuffer, FollowFrames, FollowStored, FollowRows, FollowClaims, Covered
    <3>4. QED
      BY <3>1, <3>2, <3>3
  <2>6. QED
    BY <2>2, <2>5 DEF AloneInv
<1>5. ASSUME UNCHANGED clientVars,
             \/ Boot \/ Crash \/ WriteSessions \/ Commit \/ Continue \/ Recover
             \/ \E e \in Events : Create(e)
      PROVE  AloneInv'
  <2>1. OrderInv' /\ Steady
    BY <1>1, <1>2, <1>5, ServerOrder
  <2> SUFFICES ASSUME ~Gone'
               PROVE  PhaseInv' /\ ClosedInv' /\ FollowInv'
    BY <2>1 DEF AloneInv
  <2>2. PhaseInv /\ ClosedInv /\ FollowInv
    BY <1>2, <2>1 DEF Steady
  <2>3. CASE Boot
    <3>1. frames' = frames /\ ~subscribed'
      BY <1>1, <2>3 DEF Boot, stream, Holds, ServerInv, ProcessInv
    <3>2. QED
      BY <1>1, <1>5, <2>1, <2>2, <3>1, UnheardFollow
  <2>4. CASE Crash
    <3>1. frames' = frames /\ ~subscribed'
      BY <2>4 DEF Crash
    <3>2. QED
      BY <1>1, <1>5, <2>1, <2>2, <3>1, UnheardFollow
  <2>5. CASE WriteSessions
    <3>1. UNCHANGED <<log, claimed, settled, stream, writes>>
      BY <2>5 DEF WriteSessions, process
    <3>2. QED
      BY <1>1, <1>5, <2>1, <2>2, <3>1, QuietFollow
  <2>6. CASE Commit
    BY <1>1, <1>2, <1>5, <2>1, <2>2, <2>6, CommitFollow
  <2>7. CASE Continue
    BY <1>1, <1>2, <1>5, <2>1, <2>2, <2>7, ContinueFollow
  <2>8. CASE Recover
    BY <1>1, <1>5, <2>1, <2>2, <2>8, RecoverFollow
  <2>9. ASSUME NEW e \in Events, Create(e)
        PROVE  PhaseInv' /\ ClosedInv' /\ FollowInv'
    <3> DEFINE w == Write("append", e)
    <3>1. UNCHANGED <<log, claimed, settled, stream>> /\ writes' = Append(writes, w)
      BY <2>9 DEF Create, stored
    <3>2. writes \in Seq(AllWrites) /\ w \in AllWrites /\ w.op = "append"
      BY <1>1, WriteIsTyped DEF Holds, ServerInv, ServerTypeOK, AllWrites, Ops
    <3> HIDE DEF w
    <3>3. writes # <<>> => writes' # <<>> /\ writes'[1] = writes[1]
      BY <3>1, <3>2
    <3>4. writes = <<>> => writes'[1].op # "claim"
      BY <3>1, <3>2
    <3>5. QED
      BY <1>1, <1>5, <2>1, <2>2, <3>1, <3>3, <3>4, QuietFollow
  <2>10. QED
    BY <1>5, <2>3, <2>4, <2>5, <2>6, <2>7, <2>8, <2>9
<1>6. ASSUME NEW e \in Events, Transaction(e)
      PROVE  FALSE
  <2>1. origin \in [Events -> {"none", "create", "transaction"}]
    BY <1>1 DEF Holds, TypeOK, ServerTypeOK
  <2>2. origin'[e] = "transaction"
    BY <1>6, <2>1 DEF Transaction
  <2>3. QED
    BY <2>2 DEF Alone
<1>7. QED
  BY <1>3, <1>4, <1>5, <1>6 DEF Next

(* The invariant holds in every reachable state.                            *)
THEOREM Invariance == Spec => []IInv
<1>1. Init => IInv
  BY InitInv
<1>2. IInv /\ [Next]_vars => IInv'
  BY NextInv
<1>3. QED
  BY <1>1, <1>2, PTL DEF Spec

(* TypeOK for every set of events and all bounds: no list of the server or  *)
(* the tab ever holds an event twice.                                       *)
THEOREM TypeCorrect == Spec => []TypeOK
<1>1. IInv => TypeOK
  BY DEF IInv, Holds
<1>2. QED
  BY <1>1, Invariance, PTL

(* SentIsStored: no listener ever sees an event that is not a row, in any   *)
(* order of writes, refusals, crashes and boots.                            *)
THEOREM OnlyStoredIsSent == Spec => []SentIsStored
<1>1. IInv => SentIsStored
  BY DEF IInv, Holds, ServerInv, StoredInv
<1>2. QED
  BY <1>1, Invariance, PTL

(* MarkedIsPublished: an outbox record is marked only when the event was    *)
(* published, by the process that marks it or by one before it.             *)
THEOREM OnlyPublishedIsMarked == Spec => []MarkedIsPublished
<1>1. IInv => MarkedIsPublished
  BY DEF IInv, Holds, ServerInv, StoredInv
<1>2. QED
  BY <1>1, Invariance, PTL

(* ReconnectIsComplete: whatever drops, crashes, refused writes and boots   *)
(* there have been, a tab whose coordinator is on its own has every stored  *)
(* event of a live stream, or is about to get it.                           *)
THEOREM ReconnectLosesNothing == Spec => []ReconnectIsComplete
<1>1. ASSUME IInv, Alone, Live
      PROVE  Missed = {}
  <2>1. Holds /\ AloneInv /\ conn = "connected" /\ subscribed /\ backfill = NoBackfill
    BY <1>1 DEF IInv, Live
  <2>2. ~Gone
    BY <2>1 DEF Holds, ServerInv, ProcessInv, Gone
  <2>3. PhaseInv /\ FollowRows /\ Have = Range(shown)
    BY <2>1, <2>2, NoBackfillIsTyped DEF AloneInv, FollowInv, Following, Have, Page
  <2>4. /\ shown \in Seq(Events) /\ \A e : Contains(shown, e) <=> e \in Range(shown)
        /\ Stored => Head(writes) = writes[1]
    <3>1. shown \in Seq(Events) /\ writes \in Seq(AllWrites) /\ (settled # "no" => writes # <<>>)
      BY <2>1 DEF Holds, TypeOK, ServerInv, ServerTypeOK, ProcessInv, AllWrites
    <3>2. Stored => Head(writes) = writes[1]
      BY <3>1 DEF Stored
    <3>3. QED
      BY <3>1, <3>2, ContainsIsRange
  <2>5. QED
    BY <2>3, <2>4 DEF FollowRows, Missed, OnTheirWay, Stored
<1>2. IInv => ReconnectIsComplete
  BY <1>1 DEF ReconnectIsComplete, Alone
<1>3. QED
  BY <1>2, Invariance, PTL
=============================================================================
