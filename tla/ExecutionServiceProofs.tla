------------------------ MODULE ExecutionServiceProofs ------------------------
(***************************************************************************)
(* Proofs about ExecutionService for any sets of runs and calls and any    *)
(* bounds.  The invariants of the table of runs are kept by the operators  *)
(* start, cancel, release and settle are made of (first section); every    *)
(* action then is a composition of them.                                   *)
(***************************************************************************)
EXTENDS ExecutionService, TLAPS

-----------------------------------------------------------------------------
(* The inductive invariant. *)

\* Starts wait only in process, and no cancel reaches one that does.
DeferredWait(x) ==
    /\ mode \in BullMq => x.deferred = <<>>
    /\ \A i \in DOMAIN x.deferred :
          x.runs[x.deferred[i]].at = "deferred" /\ ~x.runs[x.deferred[i]].aborted

\* Only the queue holds jobs, and one it holds has a try left.
QueuedHaveTries(x) ==
    \A r \in Runs : x.runs[r].at = "queued" => mode \in BullMq /\ x.runs[r].tries < MaxTries

\* OnePipeline of a table.
OneEntry(x) ==
    mode \notin BullMq => \A r \in Runs : x.runs[r].at \in Phases <=> r = x.slot

\* What is under way was admitted by this lifecycle.
Admitted(x) ==
    \A r \in Runs : x.runs[r].at \in Phases \cup {"deferred", "queued"}
                       => x.runs[r].generation \in 1..lifecycle.generation

TableInv(x) ==
    x \in Tables /\ DeferredWait(x) /\ QueuedHaveTries(x) /\ OneEntry(x) /\ Admitted(x)

\* The Session works, was not left adrift and its work not handed over.
Working ==
    session.status \in {"EXECUTING", "REWORKING"} /\ ~session.adrift /\ ~session.handedOver

\* The state in which ActiveIsDriven promises a pipeline.
Active ==
    /\ mode \notin BullMq
    /\ Working
    /\ lifecycle.generation = 1
    /\ ~shuttingDown

\* A Session that shows it is active has a run in its slot, and if that one was
\* aborted, the start that replaces it is chained.
Driven(x) ==
    /\ x.slot # NoRun
    /\ x.runs[x.slot].aborted => x.deferred # <<>>

IInv ==
    /\ TypeOK
    /\ TableInv(Table)
    /\ lifecycle.open => ~lifecycle.deleted
    /\ Working => lifecycle.open
    /\ Active => Driven(Table)

-----------------------------------------------------------------------------
(* The operators of the table. *)

LEMMA IdleType == ASSUME NEW place \in Places PROVE Idle(place) \in Run
BY ExecutionAssumption DEF Idle, Run

(***************************************************************************)
(* The record of a run that starts.                                        *)
(***************************************************************************)
LEMMA FreshType ==
    ASSUME TypeOK, NEW place \in Places
    PROVE  LET i == [ Idle(place) EXCEPT !.generation = lifecycle.generation ]
           IN  /\ i \in Run /\ i.at = place /\ ~i.aborted /\ i.tries = 0
               /\ i.generation \in 1..lifecycle.generation
<1>. DEFINE i == [ Idle(place) EXCEPT !.generation = lifecycle.generation ]
<1>1. lifecycle.generation \in 1..MaxGeneration
  BY DEF TypeOK, Lifecycle
<1>2. lifecycle.generation \in 0..MaxGeneration /\ 0 \in 0..MaxTries
  BY <1>1, ExecutionAssumption
<1>3. i \in Run
  BY <1>2 DEF Idle, Run
<1>4. i.at = place /\ i.tries = 0 /\ i.generation = lifecycle.generation
  BY DEF Idle
<1>5. ~i.aborted
  BY DEF Idle
<1>. HIDE DEF i
<1>6. /\ i \in Run /\ i.at = place /\ ~i.aborted /\ i.tries = 0
      /\ i.generation \in 1..lifecycle.generation
  BY <1>1, <1>3, <1>4, <1>5, ExecutionAssumption
<1>. QED BY <1>6 DEF i

(***************************************************************************)
(* The fields of a table of which one run is replaced.                     *)
(***************************************************************************)
LEMMA PutFields ==
    ASSUME NEW x \in Tables, NEW r \in Runs, NEW i \in Run
    PROVE  LET y == [x EXCEPT !.runs[r] = i]
           IN  /\ y \in Tables
               /\ y.runs = [x.runs EXCEPT ![r] = i] /\ y.runs[r] = i
               /\ \A s \in Runs : s # r => y.runs[s] = x.runs[s]
               /\ y.slot = x.slot /\ y.deferred = x.deferred
BY DEF Tables

(***************************************************************************)
(* start keeps the invariants of the table, whichever run it is given, and *)
(* leaves a pipeline, or an aborted one with a start chained behind it.    *)
(***************************************************************************)
LEMMA StartKeeps ==
    ASSUME TypeOK, NEW x, TableInv(x), NEW r \in Runs, x.runs[r].at = "unused"
    PROVE  /\ TableInv(Start(x, r))
           /\ mode \notin BullMq /\ ~shuttingDown => Driven(Start(x, r))
<1>. DEFINE new(place) == [ Idle(place) EXCEPT !.generation = lifecycle.generation ]
            At(place) == [x EXCEPT !.runs[r] = new(place)]
            dropped == [x EXCEPT !.runs[r] = Idle("ended")]
<1>1. x \in Tables
  BY ExecutionAssumption DEF TableInv, TypeOK
<1>0. /\ x.deferred \in Seq(Runs)
      /\ \A n \in DOMAIN x.deferred : x.deferred[n] \in Runs /\ x.deferred[n] # r
  BY <1>1 DEF TableInv, Tables, DeferredWait
<1>2. r # x.slot \/ mode \in BullMq
  BY DEF TableInv, OneEntry, Phases
<1>3. Idle("ended") \in Run /\ Idle("ended").at = "ended"
  BY IdleType DEF Places, Idle
<1>4. TableInv(dropped)
  <2>. DEFINE y == dropped
  <2>. HIDE DEF y
  <2>1. /\ y \in Tables /\ y.runs[r] = Idle("ended")
        /\ \A s \in Runs : s # r => y.runs[s] = x.runs[s]
        /\ y.slot = x.slot /\ y.deferred = x.deferred
    BY <1>1, <1>3, PutFields DEF y
  <2>2. DeferredWait(y) /\ QueuedHaveTries(y) /\ OneEntry(y) /\ Admitted(y)
    BY <1>1, <1>2, <1>3, <2>1
    DEF TableInv, Tables, DeferredWait, QueuedHaveTries, OneEntry, Admitted, Phases
  <2>. QED BY <2>1, <2>2 DEF TableInv, y
<1>5. ASSUME NEW place \in Places
      PROVE  /\ At(place) \in Tables
             /\ At(place).runs[r] \in Run /\ At(place).runs[r].at = place
             /\ ~At(place).runs[r].aborted /\ At(place).runs[r].tries = 0
             /\ At(place).runs[r].generation \in 1..lifecycle.generation
             /\ \A s \in Runs : s # r => At(place).runs[s] = x.runs[s]
             /\ At(place).slot = x.slot /\ At(place).deferred = x.deferred
  <2>. DEFINE i == new(place)
  <2>1. /\ i \in Run /\ i.at = place /\ ~i.aborted /\ i.tries = 0
        /\ i.generation \in 1..lifecycle.generation
    BY FreshType
  <2>. HIDE DEF i
  <2>. DEFINE y == [x EXCEPT !.runs[r] = i]
  <2>2. At(place) = y
    BY DEF i
  <2>3. /\ y \in Tables /\ y.runs[r] = i
        /\ \A s \in Runs : s # r => y.runs[s] = x.runs[s]
        /\ y.slot = x.slot /\ y.deferred = x.deferred
    BY <1>1, <2>1, PutFields
  <2>. HIDE DEF y, At
  <2>. QED BY <2>1, <2>2, <2>3
<1>6. CASE shuttingDown
  BY <1>4, <1>6 DEF Start
<1>7. CASE ~shuttingDown /\ mode \in BullMq
  <2>. DEFINE y == At("queued")
  <2>1. Start(x, r) = y
    BY <1>7 DEF Start
  <2>2. /\ y \in Tables /\ y.runs[r].at = "queued" /\ y.runs[r].tries = 0
        /\ y.runs[r].generation \in 1..lifecycle.generation
        /\ \A s \in Runs : s # r => y.runs[s] = x.runs[s]
        /\ y.slot = x.slot /\ y.deferred = x.deferred
    BY <1>5 DEF Places
  <2>. HIDE DEF y, At
  <2>3. DeferredWait(y) /\ QueuedHaveTries(y) /\ OneEntry(y) /\ Admitted(y)
    BY <1>1, <1>7, <2>2, ExecutionAssumption
    DEF TableInv, Tables, DeferredWait, QueuedHaveTries, OneEntry, Admitted
  <2>. QED BY <1>7, <2>1, <2>2, <2>3 DEF TableInv
<1>8. CASE ~shuttingDown /\ mode \notin BullMq /\ x.slot = NoRun
  <2>. DEFINE y == [At("tasks") EXCEPT !.slot = r]
  <2>1. Start(x, r) = y
    BY <1>8 DEF Start
  <2>2. /\ y \in Tables /\ y.runs[r].at = "tasks" /\ ~y.runs[r].aborted
        /\ y.runs[r].generation \in 1..lifecycle.generation
        /\ \A s \in Runs : s # r => y.runs[s] = x.runs[s]
        /\ y.slot = r /\ y.deferred = x.deferred
    <3>. DEFINE z == At("tasks")
    <3>1. /\ z \in Tables /\ z.runs[r].at = "tasks" /\ ~z.runs[r].aborted
          /\ z.runs[r].generation \in 1..lifecycle.generation
          /\ \A s \in Runs : s # r => z.runs[s] = x.runs[s]
          /\ z.deferred = x.deferred
      BY <1>5 DEF Places, Phases
    <3>. HIDE DEF z
    <3>2. y = [z EXCEPT !.slot = r]
      BY DEF z
    <3>3. y \in Tables /\ y.runs = z.runs /\ y.slot = r /\ y.deferred = z.deferred
      BY <3>1, <3>2 DEF Tables
    <3>. QED BY <3>1, <3>3
  <2>. HIDE DEF y, At
  <2>3. DeferredWait(y)
    BY <1>0, <2>2 DEF TableInv, DeferredWait
  <2>5. QueuedHaveTries(y) /\ Admitted(y)
    BY <2>2 DEF TableInv, QueuedHaveTries, Admitted, Phases
  <2>6. OneEntry(y)
    BY <1>1, <1>8, <2>2, ExecutionAssumption DEF TableInv, OneEntry, Phases
  <2>4. Driven(y)
    BY <2>2, ExecutionAssumption DEF Driven
  <2>. QED BY <2>1, <2>2, <2>3, <2>4, <2>5, <2>6 DEF TableInv
<1>9. CASE ~shuttingDown /\ mode \notin BullMq /\ x.slot # NoRun /\ Chained(x)
  <2>. DEFINE y == [At("deferred") EXCEPT !.deferred = Append(@, r)]
  <2>1. Start(x, r) = y
    BY <1>9 DEF Start
  <2>2. /\ y \in Tables /\ y.runs[r].at = "deferred" /\ ~y.runs[r].aborted
        /\ y.runs[r].generation \in 1..lifecycle.generation
        /\ \A s \in Runs : s # r => y.runs[s] = x.runs[s]
        /\ y.slot = x.slot /\ y.deferred = Append(x.deferred, r)
    <3>. DEFINE z == At("deferred")
    <3>1. /\ z \in Tables /\ z.runs[r].at = "deferred" /\ ~z.runs[r].aborted
          /\ z.runs[r].generation \in 1..lifecycle.generation
          /\ \A s \in Runs : s # r => z.runs[s] = x.runs[s]
          /\ z.slot = x.slot /\ z.deferred = x.deferred
      BY <1>5 DEF Places
    <3>. HIDE DEF z
    <3>2. y = [z EXCEPT !.deferred = Append(@, r)]
      BY DEF z
    <3>3. Append(z.deferred, r) \in Seq(Runs)
      BY <1>0, <3>1
    <3>4. /\ y \in Tables /\ y.runs = z.runs /\ y.slot = z.slot
          /\ y.deferred = Append(z.deferred, r)
      BY <3>1, <3>2, <3>3 DEF Tables
    <3>. QED BY <3>1, <3>4
  <2>. HIDE DEF y, At
  <2>3. /\ DOMAIN y.deferred = 1..Len(x.deferred) + 1 /\ Len(x.deferred) \in Nat
        /\ y.deferred[Len(x.deferred) + 1] = r
        /\ \A n \in 1..Len(x.deferred) : y.deferred[n] = x.deferred[n] /\ n \in DOMAIN x.deferred
    BY <1>0, <2>2
  <2>4. DeferredWait(y) /\ y.deferred # <<>>
    <3>1. ASSUME NEW n \in DOMAIN y.deferred
          PROVE  y.runs[y.deferred[n]].at = "deferred" /\ ~y.runs[y.deferred[n]].aborted
      <4>1. CASE n = Len(x.deferred) + 1
        BY <2>2, <2>3, <4>1
      <4>2. CASE n \in 1..Len(x.deferred)
        BY <1>0, <2>2, <2>3, <4>2 DEF TableInv, DeferredWait
      <4>. QED BY <2>3, <4>1, <4>2
    <3>2. y.deferred # <<>>
      BY <2>3
    <3>. QED BY <1>9, <3>1, <3>2 DEF DeferredWait
  <2>5. QueuedHaveTries(y) /\ Admitted(y)
    BY <2>2 DEF TableInv, QueuedHaveTries, Admitted
  <2>6. OneEntry(y)
    BY <1>2, <2>2 DEF TableInv, OneEntry, Phases
  <2>. QED BY <1>9, <2>1, <2>2, <2>4, <2>5, <2>6 DEF TableInv, Driven
<1>10. CASE ~shuttingDown /\ mode \notin BullMq /\ x.slot # NoRun /\ ~Chained(x)
  <2>1. Start(x, r) = dropped
    BY <1>10 DEF Start
  <2>2. x.slot # r
    BY <1>1, <1>2, <1>10
  <2>3. dropped.slot = x.slot /\ dropped.runs[x.slot] = x.runs[x.slot]
    BY <1>1, <1>3, <1>10, <2>2, PutFields DEF Tables
  <2>. QED BY <1>4, <1>10, <2>1, <2>3 DEF Driven, Chained
<1>. QED BY <1>6, <1>7, <1>8, <1>9, <1>10

(***************************************************************************)
(* cancel keeps the invariants of the table.                               *)
(***************************************************************************)
LEMMA CancelKeeps ==
    ASSUME TypeOK, NEW x, TableInv(x)
    PROVE  /\ TableInv(Cancel(x))
           /\ Cancel(x).slot = x.slot /\ Cancel(x).deferred = x.deferred
           /\ \A r \in Runs : Cancel(x).runs[r].at = x.runs[r].at
<1>1. CASE x.slot = NoRun
  BY <1>1 DEF Cancel
<1>2. CASE x.slot # NoRun
  <2>. DEFINE i == [x.runs[x.slot] EXCEPT !.aborted = TRUE]
              y == [x EXCEPT !.runs[x.slot] = i]
  <2>1. x \in Tables /\ x.slot \in Runs /\ x.runs[x.slot] \in Run
    BY <1>2 DEF TableInv, Tables
  <2>2. /\ i \in Run /\ i.at = x.runs[x.slot].at
        /\ i.tries = x.runs[x.slot].tries /\ i.generation = x.runs[x.slot].generation
    BY <2>1 DEF Run
  <2>3. Cancel(x) = y
    BY <1>2, <2>1 DEF Cancel, Tables
  <2>. HIDE DEF i
  <2>4. /\ y \in Tables /\ y.runs[x.slot] = i
        /\ \A s \in Runs : s # x.slot => y.runs[s] = x.runs[s]
        /\ y.slot = x.slot /\ y.deferred = x.deferred
    BY <2>1, <2>2, PutFields
  <2>. HIDE DEF y
  <2>5. \A s \in Runs : /\ y.runs[s].at = x.runs[s].at /\ y.runs[s].tries = x.runs[s].tries
                         /\ y.runs[s].generation = x.runs[s].generation
    BY <2>2, <2>4
  <2>6. QueuedHaveTries(y) /\ OneEntry(y) /\ Admitted(y)
    BY <2>1, <2>4, <2>5 DEF TableInv, QueuedHaveTries, OneEntry, Admitted
  <2>7. DeferredWait(y)
    <3>1. CASE mode \in BullMq
      BY <2>4, <3>1 DEF TableInv, DeferredWait
    <3>2. CASE mode \notin BullMq
      <4>1. x.runs[x.slot].at \in Phases
        BY <2>1, <3>2 DEF TableInv, OneEntry
      <4>2. \A n \in DOMAIN x.deferred : x.deferred[n] \in Runs
        BY <2>1 DEF Tables
      <4>3. \A n \in DOMAIN x.deferred : x.deferred[n] # x.slot
        BY <4>1 DEF TableInv, DeferredWait, Phases
      <4>4. \A n \in DOMAIN x.deferred : y.runs[x.deferred[n]] = x.runs[x.deferred[n]]
        BY <2>4, <4>2, <4>3
      <4>. QED BY <2>4, <3>2, <4>4 DEF TableInv, DeferredWait
    <3>. QED BY <3>1, <3>2
  <2>. QED BY <2>3, <2>4, <2>5, <2>6, <2>7 DEF TableInv
<1>. QED BY <1>1, <1>2

(***************************************************************************)
(* start touches no other run, and takes a slot that is free.              *)
(***************************************************************************)
LEMMA StartFields ==
    ASSUME TypeOK, NEW x, TableInv(x), NEW r \in Runs
    PROVE  /\ \A s \in Runs : s # r => Start(x, r).runs[s] = x.runs[s]
           /\ mode \notin BullMq /\ ~shuttingDown /\ x.slot = NoRun
                 => Start(x, r).slot = r /\ ~Start(x, r).runs[r].aborted
<1>. DEFINE new(place) == [ Idle(place) EXCEPT !.generation = lifecycle.generation ]
<1>1. \A i \in Run : /\ \A s \in Runs : s # r => [x EXCEPT !.runs[r] = i].runs[s] = x.runs[s]
                      /\ [x EXCEPT !.runs[r] = i].runs[r] = i
                      /\ [x EXCEPT !.runs[r] = i] \in Tables
  BY PutFields DEF TableInv
<1>2. Idle("ended") \in Run
  BY IdleType DEF Places
<1>3. \A place \in Places : new(place) \in Run /\ ~new(place).aborted
  BY FreshType
<1>4. \A y \in Tables : /\ [y EXCEPT !.slot = r].runs = y.runs /\ [y EXCEPT !.slot = r].slot = r
                         /\ [y EXCEPT !.deferred = Append(@, r)].runs = y.runs
  BY DEF Tables
<1>. HIDE DEF new
<1>5. "tasks" \in Places /\ "queued" \in Places /\ "deferred" \in Places
  BY DEF Places, Phases
<1>6. Start(x, r) \in { [x EXCEPT !.runs[r] = Idle("ended")], [x EXCEPT !.runs[r] = new("queued")],
                        [[x EXCEPT !.runs[r] = new("tasks")] EXCEPT !.slot = r],
                        [[x EXCEPT !.runs[r] = new("deferred")] EXCEPT !.deferred = Append(@, r)] }
  BY DEF Start, new
<1>7. mode \notin BullMq /\ ~shuttingDown /\ x.slot = NoRun
         => Start(x, r) = [[x EXCEPT !.runs[r] = new("tasks")] EXCEPT !.slot = r]
  BY DEF Start, new
<1>8. ASSUME NEW s \in Runs, s # r PROVE Start(x, r).runs[s] = x.runs[s]
  <2>1. CASE Start(x, r) = [x EXCEPT !.runs[r] = Idle("ended")]
    BY <1>1, <1>2, <1>8, <2>1
  <2>2. CASE Start(x, r) = [x EXCEPT !.runs[r] = new("queued")]
    BY <1>1, <1>3, <1>5, <1>8, <2>2
  <2>3. CASE Start(x, r) = [[x EXCEPT !.runs[r] = new("tasks")] EXCEPT !.slot = r]
    <3>. DEFINE y == [x EXCEPT !.runs[r] = new("tasks")]
    <3>1. y \in Tables /\ y.runs[s] = x.runs[s]
      BY <1>1, <1>3, <1>5, <1>8
    <3>. HIDE DEF y
    <3>2. Start(x, r) = [y EXCEPT !.slot = r]
      BY <2>3 DEF y
    <3>. QED BY <1>4, <3>1, <3>2
  <2>4. CASE Start(x, r) = [[x EXCEPT !.runs[r] = new("deferred")] EXCEPT !.deferred = Append(@, r)]
    <3>. DEFINE y == [x EXCEPT !.runs[r] = new("deferred")]
    <3>1. y \in Tables /\ y.runs[s] = x.runs[s]
      BY <1>1, <1>3, <1>5, <1>8
    <3>. HIDE DEF y
    <3>2. Start(x, r) = [y EXCEPT !.deferred = Append(@, r)]
      BY <2>4 DEF y
    <3>. QED BY <1>4, <3>1, <3>2
  <2>. QED BY <1>6, <2>1, <2>2, <2>3, <2>4
<1>9. ASSUME mode \notin BullMq, ~shuttingDown, x.slot = NoRun
      PROVE  Start(x, r).slot = r /\ ~Start(x, r).runs[r].aborted
  <2>. DEFINE y == [x EXCEPT !.runs[r] = new("tasks")]
  <2>3. new("tasks") \in Run /\ ~new("tasks").aborted
    BY <1>3, <1>5
  <2>1. y \in Tables /\ y.runs[r] = new("tasks")
    BY <2>3, PutFields DEF TableInv
  <2>2. Start(x, r) = [y EXCEPT !.slot = r]
    BY <1>7, <1>9
  <2>. HIDE DEF y
  <2>. QED BY <1>4, <2>1, <2>2, <2>3
<1>. QED BY <1>8, <1>9

(***************************************************************************)
(* A run that ends keeps the invariants and, in process, frees the slot.   *)
(***************************************************************************)
LEMMA ReleaseKeeps ==
    ASSUME NEW x, TableInv(x), NEW r \in Runs, x.runs[r].at # "deferred"
    PROVE  /\ TableInv(Release(x, r))
           /\ Release(x, r).deferred = x.deferred
           /\ \A s \in Runs : s # r => Release(x, r).runs[s] = x.runs[s]
           /\ mode \notin BullMq /\ x.runs[r].at \in Phases => Release(x, r).slot = NoRun
<1>1. Idle("ended") \in Run
  BY IdleType DEF Places
<1>2. Release(x, r) \in Tables
  BY <1>1 DEF TableInv, Tables, Release
<1>3. DeferredWait(Release(x, r)) /\ QueuedHaveTries(Release(x, r)) /\ Admitted(Release(x, r))
  BY DEF TableInv, Tables, Release, DeferredWait, QueuedHaveTries, Admitted, Idle, Phases
<1>4. OneEntry(Release(x, r))
  BY ExecutionAssumption DEF TableInv, Tables, Release, OneEntry, Idle, Phases
<1>. QED
  BY <1>2, <1>3, <1>4 DEF TableInv, Tables, Release, OneEntry

(***************************************************************************)
(* The settling of the slot's promise keeps the invariants of the table:   *)
(* the first of the chained starts takes a free slot, the others end.      *)
(***************************************************************************)
LEMMA SettleKeeps ==
    ASSUME TypeOK, NEW x, TableInv(x)
    PROVE  /\ TableInv(Settle(x))
           /\ \A r \in Runs : x.runs[r].at # "deferred" => Settle(x).runs[r] = x.runs[r]
           /\ mode \notin BullMq /\ x.slot # NoRun =>
                 Settle(x).slot = x.slot /\ Settle(x).runs[x.slot] = x.runs[x.slot]
           /\ (mode \notin BullMq /\ ~shuttingDown /\ x.deferred # <<>>) => Settle(x).slot # NoRun
           /\ x.slot = NoRun /\ Settle(x).slot # NoRun => ~Settle(x).runs[Settle(x).slot].aborted
<1>. DEFINE gone == Range(x.deferred)
            drop == [r \in Runs |-> IF r \in gone THEN Idle("ended") ELSE x.runs[r]]
            next == Head(x.deferred)
<1>1. x \in Tables /\ x.deferred \in Seq(Runs) /\ x.runs \in [Runs -> Run] /\ x.slot \in Runs \cup {NoRun}
  BY DEF TableInv, Tables
<1>2. gone \subseteq Runs /\ \A r \in gone : x.runs[r].at = "deferred" /\ ~x.runs[r].aborted
  BY <1>1 DEF TableInv, DeferredWait, Range
<1>3. Idle("ended") \in Run /\ Idle("ended").at = "ended"
  BY IdleType DEF Places, Idle
<1>4. drop \in [Runs -> Run]
  BY <1>1, <1>3
<1>a. /\ \A r \in Runs : r \in gone => drop[r].at = "ended"
      /\ \A r \in Runs : r \notin gone => drop[r] = x.runs[r]
  BY <1>3
<1>b. x.slot # NoRun /\ mode \notin BullMq => x.slot \in Runs /\ x.runs[x.slot].at \in Phases
  BY <1>1 DEF TableInv, OneEntry
<1>5. CASE gone = {}
  <2>1. Settle(x) = x
    BY <1>5 DEF Settle
  <2>2. x.deferred = <<>>
    <3>1. x.deferred # <<>> => x.deferred[1] \in gone
      BY <1>1 DEF Range
    <3>. QED BY <1>5, <3>1
  <2>. QED BY <2>1, <2>2
<1>6. CASE gone # {} /\ Refused(x)
  <2>. DEFINE y == [ runs |-> drop, slot |-> x.slot, deferred |-> <<>> ]
  <2>1. Settle(x) = y
    BY <1>6 DEF Settle
  <2>2. y \in Tables
    BY <1>1, <1>4 DEF Tables
  <2>3. y.runs = drop /\ y.slot = x.slot /\ y.deferred = <<>>
    OBVIOUS
  <2>. HIDE DEF y, drop
  <2>4. DeferredWait(y)
    BY <2>3 DEF DeferredWait
  <2>5. QueuedHaveTries(y) /\ Admitted(y)
    BY <1>a, <2>3 DEF TableInv, QueuedHaveTries, Admitted, Phases
  <2>6. OneEntry(y)
    BY <1>2, <1>a, <1>b, <2>3 DEF TableInv, OneEntry, Phases
  <2>7. \A r \in Runs : x.runs[r].at # "deferred" => y.runs[r] = x.runs[r]
    BY <1>2, <1>a, <2>3
  <2>8. ~shuttingDown => x.slot # NoRun
    BY <1>6 DEF Refused
  <2>9. TableInv(y)
    BY <2>2, <2>4, <2>5, <2>6 DEF TableInv
  <2>. QED
    BY <1>b, <2>1, <2>3, <2>7, <2>8, <2>9 DEF Phases
<1>7. CASE gone # {} /\ ~Refused(x)
  <2>. DEFINE i == [x.runs[next] EXCEPT !.at = "tasks"]
              y == [ runs |-> [drop EXCEPT ![next] = i], slot |-> next, deferred |-> <<>> ]
  <2>1. Settle(x) = y
    BY <1>7 DEF Settle
  <2>2. x.deferred # <<>>
    BY <1>7 DEF Range
  <2>3. next \in gone /\ next \in Runs
    BY <1>1, <1>2, <2>2 DEF Range
  <2>4. i \in Run /\ i.at = "tasks" /\ i.generation = x.runs[next].generation
    BY <1>1, <2>3 DEF Run, Places, Phases
  <2>14. ~i.aborted
    BY <1>1, <1>2, <2>3 DEF Run
  <2>5. x.slot = NoRun
    BY <1>7 DEF Refused
  <2>6. x.runs[next].generation \in 1..lifecycle.generation
    BY <1>2, <2>3 DEF TableInv, Admitted
  <2>. HIDE DEF i, drop, next, gone
  <2>7. y \in Tables
    BY <1>4, <2>3, <2>4 DEF Tables
  <2>8. /\ y.slot = next /\ y.deferred = <<>> /\ y.runs[next] = i
        /\ \A r \in Runs : r # next => y.runs[r] = drop[r]
    BY <1>4, <2>3
  <2>. HIDE DEF y
  <2>9. DeferredWait(y)
    BY <2>8 DEF DeferredWait
  <2>10. QueuedHaveTries(y) /\ Admitted(y)
    BY <1>a, <2>4, <2>6, <2>8 DEF TableInv, QueuedHaveTries, Admitted, Phases
  <2>11. OneEntry(y)
    BY <1>a, <2>3, <2>4, <2>5, <2>8, ExecutionAssumption DEF TableInv, OneEntry, Phases
  <2>12. \A r \in Runs : x.runs[r].at # "deferred" => y.runs[r] = x.runs[r]
    BY <1>2, <1>a, <2>3, <2>8
  <2>13. next # NoRun
    BY <2>3, ExecutionAssumption
  <2>. QED
    BY <2>1, <2>5, <2>7, <2>8, <2>9, <2>10, <2>11, <2>12, <2>13, <2>14 DEF TableInv
<1>. QED BY <1>5, <1>6, <1>7

-----------------------------------------------------------------------------
(* The actions. *)

LEMMA TableType ==
    ASSUME NEW x, x \in Tables, SetTable(x)
    PROVE  Table' = x
BY DEF Tables, SetTable, Table

(***************************************************************************)
(* The table of the next state is one the operators make, for the same     *)
(* mode and a lifecycle that never goes back.                              *)
(***************************************************************************)
LEMMA TableInvNext ==
    ASSUME TypeOK, NEW x, TableInv(x), Table' = x, mode' = mode,
           lifecycle'.generation \in Nat, lifecycle'.generation >= lifecycle.generation
    PROVE  TableInv(Table)'
<1>1. 1..lifecycle.generation \subseteq 1..lifecycle'.generation
  BY ExecutionAssumption DEF TypeOK, Lifecycle
<1>2. /\ x \in Tables /\ DeferredWait(x) /\ QueuedHaveTries(x)' /\ OneEntry(x)'
  BY DEF TableInv, QueuedHaveTries, OneEntry
<1>3. \A r \in Runs : x.runs[r].at \in Phases \cup {"deferred", "queued"}
                       => x.runs[r].generation \in 1..lifecycle'.generation
  BY <1>1 DEF TableInv, Admitted
<1>. QED BY <1>2, <1>3 DEF TableInv, DeferredWait, QueuedHaveTries, OneEntry, Admitted

(***************************************************************************)
(* What is left to show of an action that leaves the table x.              *)
(***************************************************************************)
LEMMA Conclude ==
    ASSUME IInv, NEW x, TableInv(x), SetTable(x), mode' = mode,
           session' \in Session, lifecycle' \in Lifecycle, calls' \in [Calls -> Call],
           writing' \in SUBSET Runs, shuttingDown' \in BOOLEAN,
           lifecycle'.generation >= lifecycle.generation,
           lifecycle'.open => ~lifecycle'.deleted,
           Working' => lifecycle'.open,
           Active' => Driven(x)
    PROVE  IInv'
<1>1. Table' = x
  BY TableType DEF TableInv
<1>2. lifecycle'.generation \in Nat
  BY ExecutionAssumption DEF Lifecycle
<1>3. TableInv(Table)'
  BY <1>1, <1>2, TableInvNext DEF IInv
<1>4. TypeOK'
  BY <1>3 DEF TypeOK, IInv, TableInv
<1>5. Active' => Driven(Table)'
  BY <1>1 DEF Driven
<1>. QED BY <1>3, <1>4, <1>5 DEF IInv

\* What a pipeline may report.
Outcomes == {"cancelled", "failed", "ask_user", "rework", "delivered", "runtime_switch",
             "workspace_conflict"}

\* What applyOutcome leaves, for the run of generation g and the table x it was
\* released from: a table y that keeps the invariants, the runs under way as
\* they were, and the status of a Session the run is not of.
Outcome(x, g, y) ==
    /\ TableInv(y) /\ SetTable(y) /\ session' \in Session
    /\ Working' => Working \/ IsActive(g)
    /\ Active' => Driven(y)
    /\ \A s \in Runs : x.runs[s].at \in Phases \cup {"ended"} => y.runs[s] = x.runs[s]
    /\ ~IsActive(g) => session'.status = session.status

(***************************************************************************)
(* The statuses an accepted outcome may set are statuses, and the one that *)
(* counts a rework leaves a round to count.                                *)
(***************************************************************************)
LEMMA SetStatusType ==
    ASSUME TypeOK, NEW outcome \in Outcomes, outcome \notin {"cancelled", "runtime_switch"},
           NEW status \in StatusesFor(outcome), SetStatus(status)
    PROVE  session' \in Session /\ session'.status = status
<1>1. session \in Session /\ session.reworks \in 0..MaxReworks
  BY DEF TypeOK, Session
<1>2. status \in Statuses /\ (status = "REWORKING" => session.reworks < MaxReworks)
  <2>1. CASE outcome = "rework"
    <3>1. status = IF session.reworks < MaxReworks THEN "REWORKING" ELSE "WAIT_USER_DECISION"
      BY <2>1 DEF StatusesFor
    <3>. QED BY <3>1 DEF Statuses
  <2>2. CASE outcome # "rework"
    <3>1. status \in {"COMPLETED", "WAIT_USER_DECISION", "FAILED", "APPLYING_CHANGES",
                      "EXECUTING", "WAIT_WORKSPACE_CONFLICT_RESOLUTION"}
      BY <2>2 DEF StatusesFor, Outcomes
    <3>. QED BY <3>1 DEF Statuses
  <2>. QED BY <2>1, <2>2
<1>. DEFINE k == IF status = "REWORKING" THEN session.reworks + 1 ELSE session.reworks
<1>3. k \in 0..MaxReworks
  BY <1>1, <1>2, ExecutionAssumption
<1>4. session' = [session EXCEPT !.status = status, !.reworks = k]
  BY DEF SetStatus
<1>. HIDE DEF k
<1>. QED BY <1>1, <1>2, <1>3, <1>4 DEF Session

(***************************************************************************)
(* applyOutcome, called with a table from which the run has been released: *)
(* it keeps the invariants, and a Session that is still active afterwards  *)
(* has a pipeline: the next run it started, or the start that was chained  *)
(* behind the run it aborted.                                              *)
(***************************************************************************)
LEMMA ApplyOutcomeKeeps ==
    ASSUME IInv, NEW x, TableInv(x), NEW g, NEW outcome \in Outcomes,
           mode \notin BullMq => x.slot = NoRun,
           \A n \in Unused : x.runs[n].at = "unused",
           Active => g = 1 /\ (outcome = "cancelled" => x.deferred # <<>>),
           ApplyOutcome(x, g, outcome), UNCHANGED <<mode, lifecycle, shuttingDown>>
    PROVE  \E y : Outcome(x, g, y)
<1>0. TypeOK /\ session \in Session
  BY ExecutionAssumption DEF IInv, TypeOK
<1>a. /\ TableInv(Settle(x))
      /\ \A s \in Runs : x.runs[s].at \in Phases \cup {"ended"} => Settle(x).runs[s] = x.runs[s]
  BY <1>0, SettleKeeps DEF Phases
<1>1. CASE ~Accepts(g, outcome) /\ ~HandsOver(g, outcome) /\ SetTable(Settle(x)) /\ UNCHANGED session
  <2>1. SetTable(Settle(x)) /\ session' = session
    BY <1>1
  <2>2. ASSUME Active' PROVE Driven(Settle(x))
    <3>1. Active
      BY <2>1, <2>2 DEF Active, Working
    <3>2. IsActive(g)
      BY <3>1 DEF Active, Working, IsActive, IInv
    <3>3. outcome = "cancelled"
      BY <1>1, <3>1, <3>2 DEF Accepts, Active, Working
    <3>4. x.deferred # <<>> /\ mode \notin BullMq /\ ~shuttingDown /\ x.slot = NoRun
      BY <3>1, <3>3 DEF Active
    <3>5. Settle(x).slot # NoRun /\ ~Settle(x).runs[Settle(x).slot].aborted
      BY <1>0, <3>4, SettleKeeps
    <3>. QED BY <3>5 DEF Driven
  <2>3. Working' => Working
    BY <2>1 DEF Working
  <2>. QED BY <1>0, <1>a, <2>1, <2>2, <2>3 DEF Outcome
<1>2. CASE /\ SetTable(Settle(x))
           /\ session' \in { [session EXCEPT !.handedOver = TRUE], [session EXCEPT !.adrift = TRUE] }
  <2>1. session' \in Session /\ session'.status = session.status /\ ~Working'
    BY <1>0, <1>2 DEF Session, Working
  <2>2. ~Active'
    BY <2>1 DEF Active
  <2>. QED BY <1>2, <1>a, <2>1, <2>2 DEF Outcome
<1>3. ASSUME Accepts(g, outcome), outcome # "runtime_switch", NEW status \in StatusesFor(outcome),
             SetStatus(status),
             IF StartsNext(status) THEN \E n \in Unused : SetTable(Settle(Start(x, n)))
                                   ELSE SetTable(Settle(x))
      PROVE  \E y : Outcome(x, g, y)
  <2>1. IsActive(g) /\ outcome # "cancelled"
    BY <1>3 DEF Accepts
  <2>2. session' \in Session /\ session'.status = status
    BY <1>0, <1>3, <2>1, SetStatusType
  <2>3. CASE StartsNext(status)
    <3>1. PICK n \in Unused : SetTable(Settle(Start(x, n)))
      BY <1>3, <2>3
    <3>. DEFINE z == Start(x, n)
    <3>2. n \in Runs /\ x.runs[n].at = "unused"
      BY <1>0 DEF Unused, Runs, TypeOK
    <3>3. TableInv(z)
      BY <1>0, <3>2, StartKeeps
    <3>4. TableInv(Settle(z))
      BY <1>0, <3>3, SettleKeeps
    <3>5. \A s \in Runs : x.runs[s].at \in Phases \cup {"ended"} => Settle(z).runs[s] = x.runs[s]
      <4>1. \A s \in Runs : s # n => z.runs[s] = x.runs[s]
        BY <1>0, <3>2, StartFields
      <4>2. \A s \in Runs : z.runs[s].at # "deferred" => Settle(z).runs[s] = z.runs[s]
        BY <1>0, <3>3, SettleKeeps
      <4>. QED BY <3>2, <4>1, <4>2 DEF Phases
    <3>6. ASSUME Active' PROVE Driven(Settle(z))
      <4>1. mode \notin BullMq /\ ~shuttingDown /\ x.slot = NoRun
        BY <3>6 DEF Active
      <4>2. z.slot = n /\ ~z.runs[n].aborted /\ n # NoRun
        BY <1>0, <3>2, <4>1, StartFields, ExecutionAssumption
      <4>3. Settle(z).slot = n /\ Settle(z).runs[n] = z.runs[n]
        BY <1>0, <3>3, <4>1, <4>2, SettleKeeps
      <4>. QED BY <4>2, <4>3 DEF Driven
    <3>. HIDE DEF z
    <3>7. SetTable(Settle(z))
      BY <3>1 DEF z
    <3>. QED BY <2>1, <2>2, <3>4, <3>5, <3>6, <3>7 DEF Outcome
  <2>4. CASE ~StartsNext(status)
    <3>1. SetTable(Settle(x))
      BY <1>3, <2>4
    <3>2. ~Active'
      BY <2>2, <2>4 DEF Active, Working, StartsNext
    <3>. QED BY <1>a, <2>1, <2>2, <3>1, <3>2 DEF Outcome
  <2>. QED BY <2>3, <2>4
<1>. QED BY <1>1, <1>2, <1>3 DEF ApplyOutcome

\* What StaleIsSilent says of a step.
Silent ==
    \A r \in Runs : (r \in Live /\ runs'[r].at = "ended" /\ runs[r].generation # lifecycle.generation)
                       => session'.status = session.status

(***************************************************************************)
(* A run goes on to its next phase.                                        *)
(***************************************************************************)
LEMMA AdvanceStep ==
    ASSUME IInv, NEW r \in Runs, Advance(r) PROVE IInv' /\ Silent
<1>. DEFINE next == CASE runs[r].at = "tasks"      -> "review"
                      [] runs[r].at = "review"     -> "reviewed"
                      [] runs[r].at = "reviewed"   -> IF session.final THEN "delivered" ELSE "delivery"
                      [] runs[r].at = "delivery"   -> "finalising"
                      [] runs[r].at = "finalising" -> "delivered"
            i == [runs[r] EXCEPT !.at = next]
            x == [Table EXCEPT !.runs[r] = i]
<1>1. Table \in Tables /\ TableInv(Table) /\ runs \in [Runs -> Run] /\ session \in Session
  BY DEF IInv, TypeOK, Table, Tables
<1>2. runs[r].at \in {"tasks", "review", "reviewed", "delivery", "finalising"}
  BY DEF Advance, Phases
<1>3. next \in Phases
  BY <1>2 DEF Phases
<1>4. runs' = [runs EXCEPT ![r].at = next] /\ session' = [session EXCEPT !.final = @ \/ next = "delivered"]
  BY DEF Advance
<1>. HIDE DEF next
<1>5. /\ i \in Run /\ i.at = next /\ i.aborted = runs[r].aborted
      /\ i.generation = runs[r].generation
  BY <1>1, <1>3 DEF Run, Places
<1>6. runs' = [runs EXCEPT ![r] = i]
  BY <1>4, <1>1
<1>. HIDE DEF i
<1>7. /\ x \in Tables /\ x.runs = [runs EXCEPT ![r] = i] /\ x.runs[r] = i
      /\ \A s \in Runs : s # r => x.runs[s] = runs[s]
      /\ x.slot = slot /\ x.deferred = deferred
  BY <1>1, <1>5, PutFields DEF Table
<1>. HIDE DEF x
<1>8. SetTable(x)
  BY <1>6, <1>7 DEF SetTable, Advance
<1>9. TableInv(x)
  <2>1. runs[r].at \in Phases
    BY <1>2 DEF Phases
  <2>2. DeferredWait(x)
    <3>1. \A n \in DOMAIN deferred : deferred[n] \in Runs
      BY <1>1 DEF Tables, Table
    <3>2. \A n \in DOMAIN deferred : deferred[n] # r
      BY <1>1, <2>1 DEF TableInv, DeferredWait, Table, Phases
    <3>. QED BY <1>1, <1>7, <3>1, <3>2 DEF TableInv, DeferredWait, Table
  <2>3. QueuedHaveTries(x) /\ Admitted(x)
    BY <1>1, <1>3, <1>5, <1>7, <2>1 DEF TableInv, QueuedHaveTries, Admitted, Table, Phases
  <2>4. OneEntry(x)
    BY <1>1, <1>3, <1>5, <1>7, <2>1 DEF TableInv, OneEntry, Table
  <2>. QED BY <1>7, <2>2, <2>3, <2>4 DEF TableInv
<1>10. /\ session' \in Session /\ session'.status = session.status
       /\ session'.adrift = session.adrift /\ session'.handedOver = session.handedOver
  BY <1>1, <1>4 DEF Session
<1>11. Active' => Driven(x)
  <2>1. Active' => Driven(Table)
    BY <1>10 DEF Active, Working, Advance, IInv
  <2>. QED BY <1>5, <1>7, <2>1 DEF Driven, Table
<1>12. Working' => lifecycle'.open
  BY <1>10 DEF Advance, Working, IInv
<1>13. /\ mode' = mode /\ lifecycle' \in Lifecycle /\ calls' \in [Calls -> Call]
       /\ writing' \in SUBSET Runs /\ shuttingDown' \in BOOLEAN
       /\ lifecycle'.generation >= lifecycle.generation
       /\ lifecycle'.open => ~lifecycle'.deleted
  BY ExecutionAssumption DEF Advance, IInv, TypeOK, Lifecycle
<1>14. IInv'
  BY <1>8, <1>9, <1>10, <1>11, <1>12, <1>13, Conclude
<1>. QED BY <1>10, <1>14 DEF Silent

(***************************************************************************)
(* What a run reports is an outcome, and "cancelled" only of an aborted one. *)
(***************************************************************************)
LEMMA ReportsType ==
    ASSUME TypeOK, NEW r \in Live, NEW outcome \in Reports(r)
    PROVE  outcome \in Outcomes /\ (outcome = "cancelled" => runs[r].aborted)
BY DEF Reports, Live, Phases, Outcomes

LEMMA AnsweredType ==
    ASSUME TypeOK, NEW r PROVE Answered(r) \in [Calls -> Call]
BY DEF TypeOK, Answered, IdleCall, Call

(***************************************************************************)
(* A run that is under way ends and its outcome is applied.                *)
(***************************************************************************)
LEMMA OutcomeStep ==
    ASSUME IInv, NEW r \in Live, NEW outcome \in Reports(r),
           ApplyOutcome(Release(Table, r), runs[r].generation, outcome),
           calls' \in [Calls -> Call], writing' \in SUBSET Runs,
           UNCHANGED <<mode, lifecycle, shuttingDown>>
    PROVE  IInv' /\ Silent
<1>. DEFINE x == Release(Table, r)
            g == runs[r].generation
<1>1. /\ TypeOK /\ TableInv(Table) /\ r \in Runs /\ runs[r].at \in Phases
      /\ Table.runs = runs /\ Table.slot = slot /\ Table.deferred = deferred
  BY DEF IInv, Live, Table
<1>2. /\ TableInv(x) /\ x.deferred = deferred
      /\ \A s \in Runs : s # r => x.runs[s] = runs[s]
      /\ mode \notin BullMq => x.slot = NoRun
  BY <1>1, ReleaseKeeps DEF Phases
<1>3. outcome \in Outcomes /\ (outcome = "cancelled" => runs[r].aborted)
  BY <1>1, ReportsType
<1>4. \A n \in Unused : x.runs[n].at = "unused"
  BY <1>1, <1>2 DEF Unused, Phases, Runs, TypeOK
<1>5. Active => g = 1 /\ (outcome = "cancelled" => x.deferred # <<>>)
  <2>1. ASSUME Active PROVE g = 1 /\ (outcome = "cancelled" => deferred # <<>>)
    <3>1. g \in 1..1
      BY <1>1, <2>1 DEF TableInv, Admitted, Active
    <3>2. slot = r
      BY <1>1, <2>1 DEF TableInv, OneEntry, Active
    <3>3. Driven(Table)
      BY <2>1 DEF IInv
    <3>. QED BY <1>1, <1>3, <3>1, <3>2, <3>3 DEF Driven
  <2>. QED BY <1>2, <2>1
<1>. HIDE DEF x, g
<1>6. PICK y : Outcome(x, g, y)
  <2>1. ApplyOutcome(x, g, outcome)
    BY DEF x, g
  <2>. QED BY <1>2, <1>3, <1>4, <1>5, <2>1, ApplyOutcomeKeeps
<1>7. IInv'
  <2>1. Working' => lifecycle'.open
    BY <1>6 DEF IsActive, IInv, Outcome
  <2>2. /\ lifecycle' \in Lifecycle /\ shuttingDown' \in BOOLEAN /\ mode' = mode
        /\ lifecycle'.generation >= lifecycle.generation
        /\ lifecycle'.open => ~lifecycle'.deleted
    BY <1>1, ExecutionAssumption DEF IInv, TypeOK, Lifecycle
  <2>. QED BY <1>6, <2>1, <2>2, Conclude DEF Outcome
<1>8. Silent
  <2>. SUFFICES ASSUME NEW s \in Runs, s \in Live, runs'[s].at = "ended",
                       runs[s].generation # lifecycle.generation
                PROVE  session'.status = session.status
    BY DEF Silent
  <2>1. CASE s = r
    BY <1>6, <2>1 DEF IsActive, Outcome, g
  <2>2. CASE s # r
    <3>1. x.runs[s] = runs[s] /\ runs[s].at \in Phases
      BY <1>2, <2>2 DEF Live
    <3>2. runs'[s] = runs[s]
      BY <1>6, <3>1 DEF SetTable, Outcome
    <3>. QED BY <3>1, <3>2 DEF Phases
  <2>. QED BY <2>1, <2>2
<1>. QED BY <1>7, <1>8

LEMMA FinishStep ==
    ASSUME IInv, NEW r \in Runs, Finish(r) \/ JobReturns(r) PROVE IInv' /\ Silent
<1>1. r \in Live /\ calls' = Answered(r) /\ UNCHANGED <<mode, lifecycle, shuttingDown>>
  BY DEF Finish, JobReturns
<1>2. PICK outcome \in Reports(r) : ApplyOutcome(Release(Table, r), runs[r].generation, outcome)
  BY DEF Finish, JobReturns
<1>3. calls' \in [Calls -> Call]
  BY <1>1, AnsweredType DEF IInv
<1>4. writing' \in SUBSET Runs
  BY DEF Finish, JobReturns, IInv, TypeOK
<1>. QED BY <1>1, <1>2, <1>3, <1>4, OutcomeStep

(***************************************************************************)
(* The queue refuses a job, and the Session fails.                         *)
(***************************************************************************)
LEMMA EnqueueFailsStep ==
    ASSUME IInv, NEW r \in Runs, EnqueueFails(r) PROVE IInv' /\ Silent
<1>. DEFINE x == Release(Table, r)
            g == runs[r].generation
<1>1. /\ TypeOK /\ TableInv(Table) /\ runs[r].at = "queued" /\ mode \in BullMq
      /\ Table.runs = runs
  BY DEF IInv, EnqueueFails, TableInv, QueuedHaveTries, Table
<1>2. TableInv(x) /\ \A s \in Runs : s # r => x.runs[s] = runs[s]
  BY <1>1, ReleaseKeeps
<1>3. \A n \in Unused : x.runs[n].at = "unused"
  BY <1>1, <1>2 DEF Unused, Runs, TypeOK
<1>4. ~Active
  BY <1>1 DEF Active
<1>5. ApplyOutcome(x, g, "failed") /\ UNCHANGED <<mode, writing, lifecycle, calls, shuttingDown>>
  BY DEF EnqueueFails
<1>. HIDE DEF x, g
<1>6. PICK y : Outcome(x, g, y)
  <2>1. "failed" \in Outcomes
    BY DEF Outcomes
  <2>. QED BY <1>1, <1>2, <1>3, <1>4, <1>5, <2>1, ApplyOutcomeKeeps
<1>7. Working' => lifecycle'.open
  BY <1>5, <1>6 DEF IsActive, IInv, Outcome
<1>8. /\ lifecycle' \in Lifecycle /\ shuttingDown' \in BOOLEAN /\ mode' = mode
      /\ calls' \in [Calls -> Call] /\ writing' \in SUBSET Runs
      /\ lifecycle'.generation >= lifecycle.generation
      /\ lifecycle'.open => ~lifecycle'.deleted
  BY <1>1, <1>5, ExecutionAssumption DEF IInv, TypeOK, Lifecycle
<1>9. IInv'
  BY <1>6, <1>7, <1>8, Conclude DEF Outcome
<1>10. \A s \in Live : runs'[s] = runs[s]
  BY <1>1, <1>2, <1>6 DEF Live, SetTable, Phases, Outcome
<1>11. Silent
  BY <1>10 DEF Silent, Live, Phases
<1>. QED BY <1>9, <1>11

(***************************************************************************)
(* The worker takes a job: it skips it or starts its pipeline.             *)
(***************************************************************************)
LEMMA ProcessJobStep ==
    ASSUME IInv, NEW r \in Runs, ProcessJob(r) PROVE IInv' /\ Silent
<1>1. /\ TypeOK /\ TableInv(Table) /\ runs[r].at = "queued" /\ mode \in BullMq
      /\ Table.runs = runs /\ Table.slot = slot /\ Table.deferred = deferred
      /\ Table \in Tables /\ runs \in [Runs -> Run] /\ deferred = <<>> /\ runs[r].tries < MaxTries
  BY DEF IInv, ProcessJob, TableInv, Tables, QueuedHaveTries, DeferredWait, Table
<1>2. /\ UNCHANGED <<mode, deferred, session, writing, lifecycle, calls, shuttingDown>>
      /\ \/ runs' = [runs EXCEPT ![r] = Idle("ended")] /\ slot' = slot
         \/ runs' = [runs EXCEPT ![r].at = "tasks", ![r].tries = @ + 1] /\ slot' = r
  BY DEF ProcessJob
<1>. DEFINE e == Idle("ended")
            i == [runs[r] EXCEPT !.at = "tasks", !.tries = @ + 1]
<1>3. e \in Run /\ e.at = "ended"
  BY IdleType DEF Places, Idle
<1>4. i \in Run /\ i.at = "tasks" /\ i.generation = runs[r].generation
  <2>1. runs[r] \in Run
    BY <1>1
  <2>2. runs[r].tries + 1 \in 0..MaxTries /\ "tasks" \in Places
    BY <1>1, <2>1, ExecutionAssumption DEF Run, Places, Phases
  <2>. QED BY <2>1, <2>2 DEF Run
<1>5. \/ runs' = [runs EXCEPT ![r] = e] /\ slot' = slot
      \/ runs' = [runs EXCEPT ![r] = i] /\ slot' = r
  BY <1>1, <1>2
<1>. HIDE DEF e, i
<1>6. /\ runs' \in [Runs -> Run] /\ slot' \in Runs \cup {NoRun} /\ deferred' = <<>>
      /\ runs'[r].at \in {"ended", "tasks"}
      /\ runs'[r].at = "tasks" => runs'[r].generation = runs[r].generation
      /\ \A s \in Runs : s # r => runs'[s] = runs[s]
  BY <1>1, <1>2, <1>3, <1>4, <1>5 DEF Tables
<1>. DEFINE x == [ runs |-> runs', slot |-> slot', deferred |-> deferred' ]
<1>7. x \in Tables /\ x.runs = runs' /\ x.slot = slot' /\ x.deferred = deferred'
  BY <1>6 DEF Tables
<1>. HIDE DEF x
<1>8. DeferredWait(x) /\ OneEntry(x)
  BY <1>1, <1>6, <1>7 DEF DeferredWait, OneEntry
<1>9. QueuedHaveTries(x) /\ Admitted(x)
  <2>1. QueuedHaveTries(Table) /\ Admitted(Table)
    BY <1>1 DEF TableInv
  <2>2. QueuedHaveTries(x)
    BY <1>1, <1>6, <1>7, <2>1 DEF QueuedHaveTries
  <2>3. Admitted(x)
    BY <1>1, <1>6, <1>7, <2>1 DEF Admitted, Phases
  <2>. QED BY <2>2, <2>3
<1>10. TableInv(x) /\ SetTable(x)
  BY <1>7, <1>8, <1>9 DEF TableInv, SetTable
<1>11. ~Active' /\ (Working' => Working)
  BY <1>1, <1>2 DEF Active, Working
<1>12. /\ session' \in Session /\ lifecycle' \in Lifecycle /\ shuttingDown' \in BOOLEAN
       /\ calls' \in [Calls -> Call] /\ writing' \in SUBSET Runs /\ mode' = mode
       /\ lifecycle'.generation >= lifecycle.generation
       /\ lifecycle'.open => ~lifecycle'.deleted
       /\ Working' => lifecycle'.open
  BY <1>1, <1>2, <1>11, ExecutionAssumption DEF IInv, TypeOK, Lifecycle
<1>13. IInv'
  BY <1>10, <1>11, <1>12, Conclude
<1>14. Silent
  BY <1>2 DEF Silent
<1>. QED BY <1>13, <1>14

(***************************************************************************)
(* A job's pipeline throws: the job is queued again or given up.           *)
(***************************************************************************)
LEMMA JobThrowsStep ==
    ASSUME IInv, NEW r \in Runs, JobThrows(r) PROVE IInv' /\ Silent
<1>. DEFINE x == Release(Table, r)
            i == [ runs[r] EXCEPT !.at = "queued", !.aborted = FALSE ]
            y == IF TriesLeft(r) THEN [x EXCEPT !.runs[r] = i] ELSE x
<1>1. /\ TypeOK /\ TableInv(Table) /\ runs[r].at \in Phases /\ mode \in BullMq
      /\ Table.runs = runs /\ Table.deferred = deferred
      /\ Table \in Tables /\ runs \in [Runs -> Run] /\ deferred = <<>>
  BY DEF IInv, JobThrows, TableInv, Tables, DeferredWait, Table, Live
<1>2. /\ SetTable(y) /\ calls' = Answered(r)
      /\ UNCHANGED <<mode, session, lifecycle, shuttingDown>>
  BY DEF JobThrows
<1>3. TableInv(x) /\ x \in Tables /\ x.deferred = <<>>
  BY <1>1, ReleaseKeeps DEF Phases, TableInv
<1>4. /\ i \in Run /\ i.at = "queued" /\ i.generation = runs[r].generation
      /\ i.tries = runs[r].tries
  BY <1>1 DEF Run, Places
<1>5. runs[r].generation \in 1..lifecycle.generation
  BY <1>1 DEF TableInv, Admitted
<1>. HIDE DEF x, i
<1>6. TableInv(y)
  <2>1. CASE TriesLeft(r)
    <3>. DEFINE z == [x EXCEPT !.runs[r] = i]
    <3>1. /\ z \in Tables /\ z.runs[r] = i /\ z.deferred = x.deferred
          /\ \A s \in Runs : s # r => z.runs[s] = x.runs[s]
      BY <1>3, <1>4, PutFields
    <3>. HIDE DEF z
    <3>2. DeferredWait(z) /\ OneEntry(z)
      BY <1>1, <1>3, <3>1 DEF DeferredWait, OneEntry
    <3>3. QueuedHaveTries(z) /\ Admitted(z)
      BY <1>1, <1>3, <1>4, <1>5, <2>1, <3>1 DEF TableInv, QueuedHaveTries, Admitted, TriesLeft
    <3>4. y = z
      BY <2>1 DEF z
    <3>. QED BY <3>1, <3>2, <3>3, <3>4 DEF TableInv
  <2>. QED BY <1>3, <2>1
<1>. HIDE DEF y
<1>7. ~Active' /\ (Working' => Working)
  BY <1>1, <1>2 DEF Active, Working
<1>8. calls' \in [Calls -> Call]
  BY <1>1, <1>2, AnsweredType
<1>9. /\ session' \in Session /\ lifecycle' \in Lifecycle /\ shuttingDown' \in BOOLEAN
      /\ mode' = mode /\ lifecycle'.generation >= lifecycle.generation
      /\ lifecycle'.open => ~lifecycle'.deleted
      /\ Working' => lifecycle'.open
  BY <1>1, <1>2, <1>7, ExecutionAssumption DEF IInv, TypeOK, Lifecycle
<1>12. writing' \in SUBSET Runs
  BY <1>1 DEF JobThrows, TypeOK
<1>10. IInv'
  BY <1>2, <1>6, <1>7, <1>8, <1>9, <1>12, Conclude
<1>11. Silent
  BY <1>2 DEF Silent
<1>. QED BY <1>10, <1>11

(***************************************************************************)
(* A step that ends no run that is under way is silent.                    *)
(***************************************************************************)
LEMMA SilentStep ==
    ASSUME \A s \in Live : runs'[s].at # "ended" PROVE Silent
BY DEF Silent

(***************************************************************************)
(* A resume with open admission, alone or after its reopen: the Session it *)
(* sets working has the run it started or one that is not aborted.         *)
(***************************************************************************)
LEMMA ResumeGoStep ==
    ASSUME IInv, ResumeGo, UNCHANGED <<mode, writing, shuttingDown>>,
           calls' \in [Calls -> Call], lifecycle' \in Lifecycle,
           lifecycle'.generation = lifecycle.generation,
           lifecycle'.open, ~lifecycle'.deleted
    PROVE  IInv' /\ Silent
<1>. DEFINE retried  == session.status \in {"FAILED", "INTERRUPTED"}
            paused   == session.status = "PAUSED"
            restored == paused /\ session.previous \in {"WAIT_USER_DECISION", "FAILED", "COMPLETED",
                                                        "WAIT_WORKSPACE_CONFLICT_RESOLUTION"}
            next     == IF session.final /\ ~retried THEN "COMPLETED"
                        ELSE IF restored THEN session.previous ELSE "EXECUTING"
            prev     == IF paused THEN "EXECUTING" ELSE session.previous
<1>1. /\ TypeOK /\ TableInv(Table) /\ session \in Session /\ Table.runs = runs
      /\ shuttingDown \in BOOLEAN
  BY DEF IInv, TypeOK, Table
<1>. DEFINE goes == /\ session' = [session EXCEPT !.status = next, !.previous = prev, !.adrift = FALSE]
                    /\ IF next = "EXECUTING" THEN \E r \in Unused : SetTable(Start(Table, r))
                                             ELSE SetTable(Table)
            left == session' = [session EXCEPT !.handedOver = TRUE] /\ SetTable(Table)
<1>2. goes \/ left
  BY DEF ResumeGo
<1>3. /\ next \in {"COMPLETED", "WAIT_USER_DECISION", "FAILED", "EXECUTING",
                    "WAIT_WORKSPACE_CONFLICT_RESOLUTION"}
      /\ prev \in Statuses
  BY <1>1 DEF Session, Statuses
<1>. HIDE DEF next, prev
<1>4. ASSUME goes PROVE session' \in Session /\ session'.status = next
  BY <1>1, <1>3, <1>4 DEF Session, Statuses
<1>8. ASSUME left PROVE session' \in Session /\ SetTable(Table) /\ ~Working' /\ ~Active'
  BY <1>1, <1>8 DEF Session, Working, Active
<1>5. /\ mode' = mode /\ shuttingDown' \in BOOLEAN /\ writing' \in SUBSET Runs
      /\ lifecycle'.generation >= lifecycle.generation
      /\ lifecycle'.open => ~lifecycle'.deleted
      /\ Working' => lifecycle'.open
  BY <1>1, ExecutionAssumption DEF Lifecycle, TypeOK
<1>6. CASE goes /\ next = "EXECUTING"
  <2>1. PICK r \in Unused : SetTable(Start(Table, r))
    BY <1>6
  <2>. DEFINE x == Start(Table, r)
  <2>2. r \in Runs /\ runs[r].at = "unused"
    BY <1>1 DEF Unused, Runs, TypeOK
  <2>3. TableInv(x) /\ (mode \notin BullMq /\ ~shuttingDown => Driven(x))
    BY <1>1, <2>2, StartKeeps
  <2>4. \A s \in Runs : s # r => x.runs[s] = runs[s]
    BY <1>1, <2>2, StartFields
  <2>5. SetTable(x)
    BY <2>1
  <2>. HIDE DEF x
  <2>6. Active' => Driven(x)
    BY <2>3 DEF Active
  <2>7. IInv'
    BY <1>4, <1>5, <1>6, <2>3, <2>5, <2>6, Conclude
  <2>8. Silent
    BY <2>2, <2>4, <2>5, SilentStep DEF Live, SetTable, Phases
  <2>. QED BY <2>7, <2>8
<1>7. CASE left \/ (goes /\ next # "EXECUTING")
  <2>1. session' \in Session /\ SetTable(Table) /\ ~Active'
    BY <1>3, <1>4, <1>7, <1>8 DEF Active, Working
  <2>2. IInv'
    BY <1>1, <1>5, <2>1, Conclude
  <2>3. Silent
    BY <1>1, <2>1, SilentStep DEF Live, SetTable, Phases
  <2>. QED BY <2>2, <2>3
<1>. QED BY <1>2, <1>6, <1>7

(***************************************************************************)
(* The steps that neither start nor end a run: what they cancel keeps its  *)
(* place, and none of them leaves the Session working where it did not.    *)
(***************************************************************************)
LEMMA CancelStep ==
    ASSUME IInv, SetTable(Table) \/ SetTable(Cancel(Table)), mode' = mode,
           session' \in Session, lifecycle' \in Lifecycle, calls' \in [Calls -> Call],
           writing' \in SUBSET Runs, shuttingDown' \in BOOLEAN,
           lifecycle'.generation >= lifecycle.generation,
           lifecycle'.open => ~lifecycle'.deleted,
           Working' => lifecycle'.open,
           Active' => SetTable(Table) /\ Active
    PROVE  IInv' /\ Silent
<1>1. /\ TypeOK /\ TableInv(Table) /\ Table.runs = runs
      /\ TableInv(Cancel(Table))
      /\ \A r \in Runs : Cancel(Table).runs[r].at = runs[r].at
  BY CancelKeeps DEF IInv, Table
<1>2. \A r \in Runs : runs'[r].at = runs[r].at
  BY <1>1 DEF SetTable
<1>3. Silent
  BY <1>2, SilentStep DEF Live, Phases
<1>4. CASE SetTable(Table) /\ (Active' => Active)
  <2>1. Active' => Driven(Table)
    BY <1>4 DEF IInv
  <2>. QED BY <1>1, <1>3, <1>4, <2>1, Conclude
<1>5. CASE SetTable(Cancel(Table)) /\ ~Active'
  BY <1>1, <1>3, <1>5, Conclude
<1>. QED BY <1>4, <1>5

(***************************************************************************)
(* What a step leaves alone keeps its type.                                *)
(***************************************************************************)
LEMMA SameTypes ==
    ASSUME IInv
    PROVE  /\ session \in Session /\ lifecycle \in Lifecycle /\ calls \in [Calls -> Call]
           /\ writing \in SUBSET Runs
           /\ shuttingDown \in BOOLEAN /\ lifecycle.generation \in 1..MaxGeneration
           /\ lifecycle.generation \in Nat /\ lifecycle.generation >= lifecycle.generation
           /\ Table = [ runs |-> runs, slot |-> slot, deferred |-> deferred ]
BY ExecutionAssumption DEF IInv, TypeOK, Lifecycle, Table

LEMMA CallType ==
    ASSUME NEW a \in {"idle", "reopening", "closing", "waiting", "resolving"}, NEW b \in BOOLEAN
    PROVE  /\ IdleCall \in Call /\ [ IdleCall EXCEPT !.at = a ] \in Call
           /\ [ IdleCall EXCEPT !.at = a, !.already = b ] \in Call
           /\ \A call \in Call : [ call EXCEPT !.at = a ] \in Call
BY DEF IdleCall, Call

LEMMA ResumeStep ==
    ASSUME IInv, NEW c \in Calls, Resume(c) \/ ResumeReopened(c) PROVE IInv' /\ Silent
<1>1. calls' \in [Calls -> Call]
  <2>1. \A call \in Call : [ call EXCEPT !.at = "reopening" ] \in Call
    BY CallType
  <2>2. IdleCall \in Call
    BY CallType
  <2>. QED BY <2>1, <2>2, SameTypes DEF Resume, ResumeReopened
<1>. DEFINE goes == /\ ResumeGo /\ ~lifecycle.deleted
                    /\ \/ lifecycle.open /\ lifecycle' = lifecycle
                       \/ lifecycle' = [lifecycle EXCEPT !.open = TRUE]
<1>2. CASE goes
  <2>1. /\ lifecycle' \in Lifecycle /\ lifecycle'.generation = lifecycle.generation
        /\ lifecycle'.open /\ ~lifecycle'.deleted
    BY <1>2, SameTypes DEF Lifecycle
  <2>2. UNCHANGED <<mode, writing, shuttingDown>>
    BY DEF Resume, ResumeReopened
  <2>. QED BY <1>1, <1>2, <2>1, <2>2, ResumeGoStep
<1>3. CASE ~goes
  <2>1. /\ UNCHANGED <<mode, runs, slot, deferred, session, writing, shuttingDown>>
        /\ lifecycle' = lifecycle \/ (~lifecycle.deleted /\ lifecycle' = [lifecycle EXCEPT !.open = TRUE])
    BY <1>3 DEF Resume, ResumeReopened
  <2>2. /\ lifecycle' \in Lifecycle /\ lifecycle'.generation = lifecycle.generation
        /\ (lifecycle.open => lifecycle'.open) /\ (lifecycle'.open => ~lifecycle'.deleted)
    BY <2>1, SameTypes DEF Lifecycle, IInv
  <2>3. SetTable(Table) /\ (Working' => Working) /\ (Active' => Active)
    BY <2>1, <2>2, SameTypes DEF SetTable, Working, Active
  <2>4. Working' => lifecycle'.open
    BY <2>2, <2>3 DEF IInv
  <2>5. lifecycle'.generation >= lifecycle.generation
    BY <2>2, SameTypes
  <2>6. /\ session' \in Session /\ writing' \in SUBSET Runs
        /\ shuttingDown' \in BOOLEAN /\ mode' = mode
    BY <2>1, SameTypes
  <2>. QED BY <1>1, <2>2, <2>3, <2>4, <2>5, <2>6, CancelStep
<1>. QED BY <1>2, <1>3

\* The first part of a pause or a resolution, and a pause that gives up.
LEMMA PauseStep ==
    ASSUME IInv, NEW c \in Calls, Pause(c) \/ PauseTimesOut(c) \/ Resolve(c)
    PROVE  IInv' /\ Silent
<1>1. UNCHANGED <<mode, runs, slot, deferred, session, writing, lifecycle, shuttingDown>>
  BY DEF Pause, PauseTimesOut, Resolve
<1>2. calls' \in [Calls -> Call]
  <2>1. IdleCall \in Call
        /\ [ IdleCall EXCEPT !.at = "closing", !.already = session.status = "PAUSED" ] \in Call
    BY CallType
  <2>2. \A call \in Call : [ call EXCEPT !.at = "resolving" ] \in Call
    BY CallType
  <2>. QED BY <2>1, <2>2, SameTypes DEF Pause, PauseTimesOut, Resolve
<1>3. SetTable(Table) /\ (Working' => Working) /\ (Active' => Active)
  BY <1>1, SameTypes DEF SetTable, Working, Active
<1>4. /\ mode' = mode /\ session' \in Session /\ lifecycle' \in Lifecycle
      /\ writing' \in SUBSET Runs
      /\ shuttingDown' \in BOOLEAN /\ lifecycle'.generation >= lifecycle.generation
      /\ lifecycle'.open => ~lifecycle'.deleted
      /\ Working' => lifecycle'.open
  BY <1>1, <1>3, SameTypes DEF IInv
<1>. QED BY <1>2, <1>3, <1>4, CancelStep

\* Also when it found the Session paused: then it leaves the Session adrift.
LEMMA PauseClosesStep ==
    ASSUME IInv, NEW c \in Calls, PauseCloses(c) PROVE IInv' /\ Silent
<1>1. /\ mode' = mode /\ shuttingDown' = shuttingDown /\ writing' = writing
      /\ SetTable(Cancel(Table))
      /\ lifecycle' = [lifecycle EXCEPT !.open = FALSE]
  BY DEF PauseCloses
<1>2. /\ lifecycle' \in Lifecycle /\ lifecycle'.generation = lifecycle.generation
      /\ ~lifecycle'.open
  BY <1>1, SameTypes DEF Lifecycle
<1>3. calls' \in [Calls -> Call]
  BY SameTypes DEF PauseCloses, IdleCall, Call
<1>4. session' \in Session /\ ~Working'
  <2>1. CASE calls[c].already
    <3>. DEFINE o == session.adrift \/ session.status \in {"EXECUTING", "REWORKING"}
    <3>1. session' = [session EXCEPT !.adrift = o]
      BY <2>1 DEF PauseCloses
    <3>2. o \in BOOLEAN
      BY SameTypes DEF Session
    <3>. HIDE DEF o
    <3>3. session' \in Session /\ session'.status = session.status /\ session'.adrift = o
      BY <3>1, <3>2, SameTypes DEF Session
    <3>. QED BY <3>3 DEF Working, o
  <2>2. CASE ~calls[c].already
    BY <2>2, SameTypes DEF PauseCloses, Session, Statuses, Working
  <2>. QED BY <2>1, <2>2
<1>5. /\ lifecycle'.generation >= lifecycle.generation /\ writing' \in SUBSET Runs
      /\ shuttingDown' \in BOOLEAN /\ ~Active'
  BY <1>1, <1>2, <1>4, SameTypes DEF Active
<1>. QED BY <1>1, <1>2, <1>3, <1>4, <1>5, CancelStep

LEMMA ControlStep ==
    ASSUME IInv, NEW status \in {"WAIT_USER_DECISION", "CANCELLED"}, Control(status)
    PROVE  IInv' /\ Silent
<1>1. /\ session' = [session EXCEPT !.status = status] /\ SetTable(Cancel(Table))
      /\ UNCHANGED <<mode, writing, lifecycle, calls, shuttingDown>>
  BY DEF Control
<1>2. session' \in Session /\ ~Working' /\ ~Active'
  BY <1>1, SameTypes DEF Session, Statuses, Working, Active
<1>3. /\ lifecycle' \in Lifecycle /\ calls' \in [Calls -> Call] /\ mode' = mode
      /\ writing' \in SUBSET Runs
      /\ shuttingDown' \in BOOLEAN /\ lifecycle'.generation >= lifecycle.generation
      /\ lifecycle'.open => ~lifecycle'.deleted
  BY <1>1, SameTypes DEF IInv
<1>. QED BY <1>1, <1>2, <1>3, CancelStep

LEMMA InterruptStep ==
    ASSUME IInv, Interrupt PROVE IInv' /\ Silent
<1>1. /\ session' = [session EXCEPT !.status = "INTERRUPTED"] /\ SetTable(Cancel(Table))
      /\ UNCHANGED <<mode, writing, lifecycle, calls, shuttingDown>>
  BY DEF Interrupt
<1>2. session' \in Session /\ ~Working' /\ ~Active'
  BY <1>1, SameTypes DEF Session, Statuses, Working, Active
<1>3. /\ lifecycle' \in Lifecycle /\ calls' \in [Calls -> Call] /\ mode' = mode
      /\ writing' \in SUBSET Runs
      /\ shuttingDown' \in BOOLEAN /\ lifecycle'.generation >= lifecycle.generation
      /\ lifecycle'.open => ~lifecycle'.deleted
  BY <1>1, SameTypes DEF IInv
<1>. QED BY <1>1, <1>2, <1>3, CancelStep

LEMMA DeleteStep ==
    ASSUME IInv, Delete PROVE IInv' /\ Silent
<1>1. /\ session' = [session EXCEPT !.status = "PAUSED"] /\ SetTable(Cancel(Table))
      /\ UNCHANGED <<mode, writing, calls, shuttingDown>>
  BY DEF Delete
<1>2. session' \in Session /\ ~Working' /\ ~Active'
  BY <1>1, SameTypes DEF Session, Statuses, Working, Active
<1>3. /\ lifecycle' \in Lifecycle /\ lifecycle'.generation >= lifecycle.generation
      /\ ~lifecycle'.open
  <2>. DEFINE g == lifecycle.generation + 1
  <2>1. g \in 1..MaxGeneration /\ g >= lifecycle.generation
    BY SameTypes, ExecutionAssumption DEF Delete
  <2>. HIDE DEF g
  <2>2. lifecycle' = [ open |-> FALSE, deleted |-> TRUE, generation |-> g ]
    BY DEF Delete, g
  <2>. QED BY <2>1, <2>2 DEF Lifecycle
<1>4. /\ calls' \in [Calls -> Call] /\ writing' \in SUBSET Runs
      /\ mode' = mode /\ shuttingDown' \in BOOLEAN
  BY <1>1, SameTypes
<1>. QED BY <1>1, <1>2, <1>3, <1>4, CancelStep

\* What is restored is closed, and paused.
LEMMA RestoreStep ==
    ASSUME IInv, Restore PROVE IInv' /\ Silent
<1>1. UNCHANGED <<mode, runs, slot, deferred, writing, calls, shuttingDown>>
  BY DEF Restore
<1>5. PICK k \in {0, session.conflict} : session' = [session EXCEPT !.status = "PAUSED", !.conflict = k]
  BY DEF Restore
<1>6. session' \in Session /\ session'.status = "PAUSED"
  <2>1. session \in Session /\ k \in 0..MaxGeneration
    BY SameTypes, ExecutionAssumption DEF Session
  <2>. QED BY <1>5, <2>1 DEF Session, Statuses
<1>2. /\ lifecycle' \in Lifecycle /\ lifecycle'.generation >= lifecycle.generation
      /\ ~lifecycle'.open
  <2>. DEFINE g == lifecycle.generation + 1
  <2>1. g \in 1..MaxGeneration /\ g >= lifecycle.generation
    BY SameTypes, ExecutionAssumption DEF Restore
  <2>. HIDE DEF g
  <2>2. lifecycle' = [ open |-> FALSE, deleted |-> FALSE, generation |-> g ]
    BY DEF Restore, g
  <2>. QED BY <2>1, <2>2 DEF Lifecycle
<1>3. ~Working' /\ ~Active'
  BY <1>6 DEF Working, Active
<1>4. /\ calls' \in [Calls -> Call] /\ mode' = mode /\ writing' \in SUBSET Runs
      /\ shuttingDown' \in BOOLEAN /\ SetTable(Table)
  BY <1>1, SameTypes DEF SetTable
<1>. QED BY <1>2, <1>3, <1>4, <1>6, CancelStep

LEMMA ShutdownStep ==
    ASSUME IInv, Shutdown PROVE IInv' /\ Silent
<1>1. /\ SetTable(Cancel(Table)) /\ shuttingDown' = TRUE
      /\ UNCHANGED <<mode, session, writing, lifecycle, calls>>
  BY DEF Shutdown
<1>2. ~Active' /\ (Working' => Working)
  BY <1>1 DEF Active, Working
<1>3. /\ session' \in Session /\ lifecycle' \in Lifecycle /\ calls' \in [Calls -> Call] /\ mode' = mode
      /\ writing' \in SUBSET Runs
      /\ lifecycle'.generation >= lifecycle.generation
      /\ lifecycle'.open => ~lifecycle'.deleted
      /\ Working' => lifecycle'.open
  BY <1>1, <1>2, SameTypes DEF IInv
<1>. QED BY <1>1, <1>2, <1>3, CancelStep

(***************************************************************************)
(* The run of an EXECUTING Session is superseded: its replacement waits    *)
(* behind it.                                                              *)
(***************************************************************************)
LEMMA RestartStep ==
    ASSUME IInv, Restart PROVE IInv' /\ Silent
<1>1. /\ TypeOK /\ TableInv(Table) /\ Table.runs = runs
      /\ UNCHANGED <<mode, session, writing, lifecycle, calls, shuttingDown>>
  BY DEF IInv, Restart, Table
<1>2. PICK r \in Unused : SetTable(Start(Cancel(Table), r))
  BY DEF Restart
<1>. DEFINE z == Cancel(Table)
            x == Start(z, r)
<1>3. r \in Runs /\ runs[r].at = "unused"
  BY <1>1 DEF Unused, Runs, TypeOK
<1>4. TableInv(z) /\ \A s \in Runs : z.runs[s].at = runs[s].at
  BY <1>1, CancelKeeps
<1>. HIDE DEF z
<1>5. TableInv(x) /\ (mode \notin BullMq /\ ~shuttingDown => Driven(x))
  BY <1>1, <1>3, <1>4, StartKeeps
<1>6. \A s \in Runs : s # r => x.runs[s] = z.runs[s]
  BY <1>1, <1>3, <1>4, StartFields
<1>7. SetTable(x)
  BY <1>2 DEF z
<1>. HIDE DEF x
<1>8. Active' => Driven(x)
  BY <1>1, <1>5 DEF Active
<1>9. /\ session' \in Session /\ lifecycle' \in Lifecycle /\ calls' \in [Calls -> Call] /\ mode' = mode
      /\ writing' \in SUBSET Runs
      /\ shuttingDown' \in BOOLEAN /\ lifecycle'.generation >= lifecycle.generation
      /\ lifecycle'.open => ~lifecycle'.deleted
  BY <1>1, SameTypes DEF IInv
<1>10. Working' => lifecycle'.open
  BY <1>1 DEF IInv, Working
<1>11. IInv'
  BY <1>5, <1>7, <1>8, <1>9, <1>10, Conclude
<1>12. Silent
  BY <1>3, <1>4, <1>6, <1>7, SilentStep DEF Live, SetTable, Phases
<1>. QED BY <1>11, <1>12

(***************************************************************************)
(* A task hands its changes over: the Session no longer shows that it      *)
(* executes.                                                               *)
(***************************************************************************)
LEMMA ApplyChangesStep ==
    ASSUME IInv, NEW r \in Runs, ApplyChanges(r) PROVE IInv' /\ Silent
<1>1. /\ session' = [session EXCEPT !.status = "APPLYING_CHANGES"]
      /\ UNCHANGED <<mode, runs, slot, deferred, lifecycle, calls, shuttingDown>>
  BY DEF ApplyChanges
<1>2. session' \in Session /\ ~Working' /\ ~Active'
  BY <1>1, SameTypes DEF Session, Statuses, Working, Active
<1>3. writing' \in SUBSET Runs
  BY SameTypes DEF ApplyChanges
<1>4. /\ lifecycle' \in Lifecycle /\ calls' \in [Calls -> Call] /\ mode' = mode
      /\ shuttingDown' \in BOOLEAN /\ lifecycle'.generation >= lifecycle.generation
      /\ SetTable(Table)
      /\ lifecycle'.open => ~lifecycle'.deleted
  BY <1>1, SameTypes DEF IInv, SetTable
<1>. QED BY <1>2, <1>3, <1>4, CancelStep

(***************************************************************************)
(* A task that met a conflict: its run waits for the tasks beside it.      *)
(***************************************************************************)
LEMMA ConflictedKeeps ==
    ASSUME IInv, NEW r \in Runs, runs[r].at = "tasks"
    PROVE  TableInv([Table EXCEPT !.runs[r] = [runs[r] EXCEPT !.at = "conflicted"]])
<1>. DEFINE i == [runs[r] EXCEPT !.at = "conflicted"]
            x == [Table EXCEPT !.runs[r] = i]
<1>1. /\ Table \in Tables /\ TableInv(Table) /\ runs \in [Runs -> Run]
      /\ Table.runs = runs /\ Table.slot = slot /\ Table.deferred = deferred
  BY DEF IInv, TypeOK, Table, Tables
<1>2. i \in Run /\ i.at = "conflicted" /\ i.generation = runs[r].generation
  BY <1>1 DEF Run, Places, Phases
<1>. HIDE DEF i
<1>3. /\ x \in Tables /\ x.runs[r] = i /\ x.slot = slot /\ x.deferred = deferred
      /\ \A s \in Runs : s # r => x.runs[s] = runs[s]
  BY <1>1, <1>2, PutFields
<1>. HIDE DEF x
<1>4. DeferredWait(x)
  <2>1. \A n \in DOMAIN deferred : deferred[n] \in Runs
    BY <1>1 DEF Tables
  <2>2. \A n \in DOMAIN deferred : deferred[n] # r
    BY <1>1 DEF TableInv, DeferredWait
  <2>. QED BY <1>1, <1>3, <2>1, <2>2 DEF TableInv, DeferredWait
<1>5. QueuedHaveTries(x) /\ Admitted(x)
  BY <1>1, <1>2, <1>3 DEF TableInv, QueuedHaveTries, Admitted, Phases
<1>6. OneEntry(x)
  BY <1>1, <1>2, <1>3 DEF TableInv, OneEntry, Phases
<1>. QED BY <1>3, <1>4, <1>5, <1>6 DEF TableInv, x, i

(***************************************************************************)
(* A writeback ends: it sets EXECUTING with a pipeline to go on, or leaves *)
(* the Session adrift.                                                     *)
(***************************************************************************)
LEMMA ChangesAppliedStep ==
    ASSUME IInv, NEW r \in Runs, ChangesApplied(r) PROVE IInv' /\ Silent
<1>1. /\ UNCHANGED <<mode, slot, deferred, lifecycle, calls, shuttingDown>>
      /\ lifecycle' \in Lifecycle /\ calls' \in [Calls -> Call] /\ mode' = mode
      /\ writing' \in SUBSET Runs
      /\ shuttingDown' \in BOOLEAN /\ lifecycle'.generation >= lifecycle.generation
      /\ lifecycle'.open => ~lifecycle'.deleted
  BY SameTypes DEF ChangesApplied, IInv
<1>2. TypeOK /\ TableInv(Table) /\ session \in Session /\ Table.runs = runs
      /\ Table.slot = slot /\ Table.deferred = deferred
  BY DEF IInv, TypeOK, Table
<1>. DEFINE next == IF session.conflict # 0 THEN "WAIT_WORKSPACE_CONFLICT_RESOLUTION"
                    ELSE IF writing' # {} THEN "APPLYING_CHANGES" ELSE "EXECUTING"
            a == session.adrift \/ (next = "EXECUTING" /\ Idling)
            k == IF lifecycle.deleted THEN session.conflict ELSE lifecycle.generation
            x == [Table EXCEPT !.runs[r] = [runs[r] EXCEPT !.at = "conflicted"]]
            wait == "WAIT_WORKSPACE_CONFLICT_RESOLUTION"
<1>3. \/ session' = [session EXCEPT !.status = next, !.adrift = a] /\ runs' = runs
      \/ /\ session' = [session EXCEPT !.status = wait, !.conflict = k]
         /\ runs' = IF runs[r].at = "tasks" THEN [runs EXCEPT ![r].at = "conflicted"] ELSE runs
  BY DEF ChangesApplied
<1>4. /\ next \in Statuses /\ next # "REWORKING" /\ a \in BOOLEAN
      /\ k \in 0..MaxGeneration /\ wait \in Statuses
  BY <1>2, SameTypes, ExecutionAssumption DEF Session, Statuses
<1>5. CASE session' = [session EXCEPT !.status = next, !.adrift = a] /\ runs' = runs
  <2>. HIDE DEF next
  <2>1. session' \in Session /\ session'.status = next /\ session'.adrift = a
    BY <1>2, <1>4, <1>5 DEF Session
  <2>2. ASSUME Working' PROVE lifecycle.open /\ Driven(Table)
    <3>1. ~Idling
      BY <1>4, <2>1, <2>2 DEF Working
    <3>. QED BY <1>2, <3>1 DEF Idling, Driven
  <2>3. Working' => lifecycle'.open
    BY <1>1, <2>2
  <2>4. Active' => Driven(Table)
    BY <2>2 DEF Active
  <2>5. SetTable(Table)
    BY <1>1, <1>2, <1>5 DEF SetTable
  <2>6. IInv'
    BY <1>1, <1>2, <2>1, <2>3, <2>4, <2>5, Conclude
  <2>7. Silent
    BY <1>5, SilentStep DEF Live, Phases
  <2>. QED BY <2>6, <2>7
<1>6. CASE /\ session' = [session EXCEPT !.status = wait, !.conflict = k]
           /\ runs' = IF runs[r].at = "tasks" THEN [runs EXCEPT ![r].at = "conflicted"] ELSE runs
  <2>1. session' \in Session /\ ~Working' /\ ~Active'
    BY <1>2, <1>4, <1>6 DEF Session, Working, Active
  <2>2. CASE runs[r].at = "tasks"
    <3>1. TableInv(x)
      BY <2>2, ConflictedKeeps
    <3>2. SetTable(x)
      <4>1. runs \in [Runs -> Run] /\ Table \in Tables
        BY <1>2 DEF TypeOK, Tables
      <4>2. x.runs = [runs EXCEPT ![r] = [runs[r] EXCEPT !.at = "conflicted"]]
            /\ x.slot = slot /\ x.deferred = deferred
        BY <1>2, <4>1 DEF Tables
      <4>. QED BY <1>1, <1>6, <2>2, <4>1, <4>2 DEF SetTable
    <3>. HIDE DEF x
    <3>3. IInv'
      BY <1>1, <2>1, <3>1, <3>2, Conclude
    <3>4. \A s \in Live : runs'[s].at # "ended"
      BY <1>2, <1>6 DEF Live, Phases, TypeOK, Tables
    <3>. QED BY <3>3, <3>4, SilentStep
  <2>3. CASE runs[r].at # "tasks"
    <3>1. SetTable(Table)
      BY <1>1, <1>2, <1>6, <2>3 DEF SetTable
    <3>. QED BY <1>1, <2>1, <3>1, CancelStep
  <2>. QED BY <2>2, <2>3
<1>. QED BY <1>3, <1>5, <1>6

(***************************************************************************)
(* A conflict is resolved: what it sets EXECUTING it starts, or leaves     *)
(* adrift.                                                                 *)
(***************************************************************************)
LEMMA ResolvedStep ==
    ASSUME IInv, NEW c \in Calls, Resolved(c) PROVE IInv' /\ Silent
<1>1. /\ UNCHANGED <<mode, writing, lifecycle, shuttingDown>>
      /\ lifecycle' \in Lifecycle /\ mode' = mode /\ writing' \in SUBSET Runs
      /\ shuttingDown' \in BOOLEAN /\ lifecycle'.generation >= lifecycle.generation
      /\ lifecycle'.open => ~lifecycle'.deleted
  BY SameTypes DEF Resolved, IInv
<1>2. /\ TypeOK /\ TableInv(Table) /\ session \in Session /\ Table.runs = runs
  BY DEF IInv, TypeOK, Table
<1>3. calls' \in [Calls -> Call]
  BY SameTypes DEF Resolved, IdleCall, Call
<1>. DEFINE a == session.adrift \/ ~lifecycle.open
            other == /\ \E status \in {"WAIT_WORKSPACE_CONFLICT_RESOLUTION", "APPLYING_CHANGES"} :
                              session' = [session EXCEPT !.status = status]
                     /\ SetTable(Table)
            executes == session' = [session EXCEPT !.status = "EXECUTING", !.conflict = 0, !.adrift = a]
<1>4. \/ UNCHANGED session /\ SetTable(Table)
      \/ other
      \/ /\ executes
         /\ IF lifecycle.open THEN \E r \in Unused : SetTable(Start(Table, r)) ELSE SetTable(Table)
  BY DEF Resolved
<1>5. CASE UNCHANGED session /\ SetTable(Table)
  <2>1. session' \in Session /\ (Working' => Working) /\ (Active' => Active)
    BY <1>1, <1>2, <1>5 DEF Working, Active
  <2>2. Working' => lifecycle'.open
    BY <1>1, <2>1 DEF IInv
  <2>. QED BY <1>1, <1>3, <1>5, <2>1, <2>2, CancelStep
<1>6. CASE other
  <2>1. session' \in Session /\ ~Working' /\ ~Active' /\ SetTable(Table)
    BY <1>2, <1>6 DEF Session, Statuses, Working, Active
  <2>. QED BY <1>1, <1>3, <2>1, CancelStep
<1>7. ASSUME executes
      PROVE  session' \in Session /\ session'.adrift = a
  <2>1. a \in BOOLEAN /\ 0 \in 0..MaxGeneration /\ "EXECUTING" \in Statuses
    BY <1>2, SameTypes, ExecutionAssumption DEF Session, Lifecycle, Statuses
  <2>. HIDE DEF a
  <2>. QED BY <1>2, <1>7, <2>1 DEF Session
<1>8. CASE executes /\ ~lifecycle.open /\ SetTable(Table)
  <2>1. session' \in Session /\ ~Working' /\ ~Active'
    BY <1>7, <1>8 DEF Working, Active
  <2>. QED BY <1>1, <1>3, <1>8, <2>1, CancelStep
<1>9. ASSUME executes, lifecycle.open, NEW r \in Unused, SetTable(Start(Table, r))
      PROVE  IInv' /\ Silent
  <2>. DEFINE x == Start(Table, r)
  <2>1. r \in Runs /\ runs[r].at = "unused"
    BY <1>2 DEF Unused, Runs, TypeOK
  <2>2. TableInv(x) /\ (mode \notin BullMq /\ ~shuttingDown => Driven(x))
    BY <1>2, <2>1, StartKeeps
  <2>3. \A s \in Runs : s # r => x.runs[s] = runs[s]
    BY <1>2, <2>1, StartFields
  <2>4. SetTable(x)
    BY <1>9
  <2>. HIDE DEF x
  <2>5. Active' => Driven(x)
    BY <1>1, <2>2 DEF Active
  <2>6. session' \in Session /\ (Working' => lifecycle'.open)
    BY <1>1, <1>7, <1>9
  <2>7. IInv'
    BY <1>1, <1>3, <2>2, <2>4, <2>5, <2>6, Conclude
  <2>8. Silent
    BY <2>1, <2>3, <2>4, SilentStep DEF Live, SetTable, Phases
  <2>. QED BY <2>7, <2>8
<1>. QED BY <1>4, <1>5, <1>6, <1>8, <1>9

-----------------------------------------------------------------------------
(* The invariant and what follows from it. *)

LEMMA InitInv == Init => IInv
<1>. SUFFICES ASSUME Init PROVE IInv
  OBVIOUS
<1>1. Idle("unused") \in Run /\ Idle("unused").at = "unused"
  BY IdleType DEF Places, Idle
<1>2. Table \in Tables
  BY <1>1 DEF Init, Table, Tables
<1>3. session \in Session /\ lifecycle \in Lifecycle /\ calls \in [Calls -> Call]
  BY ExecutionAssumption DEF Init, Session, Statuses, Lifecycle, IdleCall, Call
<1>4. DeferredWait(Table) /\ QueuedHaveTries(Table) /\ OneEntry(Table) /\ Admitted(Table)
  BY <1>1, ExecutionAssumption
  DEF Init, Table, DeferredWait, QueuedHaveTries, OneEntry, Admitted, Phases
<1>5. ~lifecycle.deleted /\ ~Working
  BY DEF Init, Working
<1>. QED BY <1>2, <1>3, <1>4, <1>5 DEF IInv, TypeOK, TableInv, Active, Init

LEMMA NextInv == IInv /\ [Next]_vars => IInv' /\ Silent
<1>. SUFFICES ASSUME IInv, [Next]_vars PROVE IInv' /\ Silent
  OBVIOUS
<1>1. ASSUME NEW r \in Runs, Advance(r) PROVE IInv' /\ Silent
  BY <1>1, AdvanceStep
<1>2. ASSUME NEW r \in Runs, Finish(r) \/ JobReturns(r) PROVE IInv' /\ Silent
  BY <1>2, FinishStep
<1>3. ASSUME NEW r \in Runs, EnqueueFails(r) PROVE IInv' /\ Silent
  BY <1>3, EnqueueFailsStep
<1>4. ASSUME NEW r \in Runs, ProcessJob(r) PROVE IInv' /\ Silent
  BY <1>4, ProcessJobStep
<1>5. ASSUME NEW r \in Runs, JobThrows(r) PROVE IInv' /\ Silent
  BY <1>5, JobThrowsStep
<1>6. ASSUME NEW c \in Calls, Resume(c) \/ ResumeReopened(c) PROVE IInv' /\ Silent
  BY <1>6, ResumeStep
<1>7. ASSUME NEW c \in Calls, Pause(c) \/ PauseTimesOut(c) \/ Resolve(c) PROVE IInv' /\ Silent
  BY <1>7, PauseStep
<1>8. ASSUME NEW c \in Calls, PauseCloses(c) PROVE IInv' /\ Silent
  BY <1>8, PauseClosesStep
<1>9. ASSUME NEW status \in {"WAIT_USER_DECISION", "CANCELLED"}, Control(status) PROVE IInv' /\ Silent
  BY <1>9, ControlStep
<1>10. CASE Restart \/ Interrupt \/ Delete \/ Restore \/ Shutdown
  BY <1>10, RestartStep, InterruptStep, DeleteStep, RestoreStep, ShutdownStep
<1>11. CASE UNCHANGED vars
  <2>1. SetTable(Table) /\ (Working' => Working) /\ (Active' => Active)
    BY <1>11, SameTypes DEF vars, SetTable, Working, Active
  <2>2. /\ session' \in Session /\ lifecycle' \in Lifecycle /\ calls' \in [Calls -> Call] /\ mode' = mode
        /\ writing' \in SUBSET Runs
        /\ shuttingDown' \in BOOLEAN /\ lifecycle'.generation >= lifecycle.generation
        /\ lifecycle'.open => ~lifecycle'.deleted
        /\ Working' => lifecycle'.open
    BY <1>11, <2>1, SameTypes DEF vars, IInv
  <2>. QED BY <2>1, <2>2, CancelStep
<1>12. ASSUME NEW r \in Runs, ApplyChanges(r) \/ ChangesApplied(r) PROVE IInv' /\ Silent
  BY <1>12, ApplyChangesStep, ChangesAppliedStep
<1>13. ASSUME NEW c \in Calls, Resolved(c) PROVE IInv' /\ Silent
  BY <1>13, ResolvedStep
<1>14. CallsOf[mode] \subseteq Calls
  BY DEF IInv, TypeOK, Calls
<1>. QED
  BY <1>1, <1>2, <1>3, <1>4, <1>5, <1>6, <1>7, <1>8, <1>9, <1>10, <1>11, <1>12, <1>13, <1>14 DEF Next

THEOREM Invariance == Spec => []IInv
BY InitInv, NextInv, PTL DEF Spec

(***************************************************************************)
(* Types: no rework beyond REWORK_MAX_ROUNDS, no try of a job beyond       *)
(* QUEUE_ATTEMPTS.                                                         *)
(***************************************************************************)
THEOREM TypeCorrect == Spec => []TypeOK
<1>1. IInv => TypeOK
  BY DEF IInv
<1>. QED BY <1>1, Invariance, PTL

(***************************************************************************)
(* In process a Session has at most the pipeline its `running` entry       *)
(* names: start, cancel and the chained starts never disagree about it.    *)
(***************************************************************************)
THEOREM PipelineIsUnique == Spec => []OnePipeline
<1>1. IInv => OnePipeline
  <2>. SUFFICES ASSUME IInv, mode \notin BullMq PROVE Live = IF slot = NoRun THEN {} ELSE {slot}
    BY DEF OnePipeline
  <2>1. slot \in Runs \cup {NoRun} /\ \A r \in Runs : runs[r].at \in Phases <=> r = slot
    BY DEF IInv, TableInv, Tables, OneEntry, Table
  <2>. QED BY <2>1, ExecutionAssumption DEF Live
<1>. QED BY <1>1, Invariance, PTL

(***************************************************************************)
(* A Session shown EXECUTING or REWORKING is driven, however many controls *)
(* and conflict resolutions interleave with the starts, the cancels, the   *)
(* writebacks and the outcomes of its pipelines, unless it is adrift or    *)
(* its work was handed over.                                               *)
(***************************************************************************)
THEOREM WorkIsDriven == Spec => []ActiveIsDriven
<1>1. IInv => ActiveIsDriven
  <2>. SUFFICES ASSUME IInv, Active PROVE Live # {}
    BY DEF ActiveIsDriven, Active, Working
  <2>1. Driven(Table) /\ mode \notin BullMq /\ TableInv(Table)
    BY DEF IInv, Active
  <2>2. slot \in Runs /\ runs[slot].at \in Phases
    BY <2>1 DEF Driven, TableInv, Tables, OneEntry, Table
  <2>. QED BY <2>2 DEF Live
<1>. QED BY <1>1, Invariance, PTL

(***************************************************************************)
(* What applyOutcome makes of a run admitted before a delete: nothing.     *)
(***************************************************************************)
THEOREM StaleRunsAreSilent == Spec => StaleIsSilent
<1>1. IInv /\ [Next]_vars => [Silent]_vars
  BY NextInv
<1>. QED BY <1>1, Invariance, PTL DEF Spec, StaleIsSilent, Silent
=============================================================================
