-------------------------- MODULE WritebackProofs --------------------------
(***************************************************************************)
(* What WorkspaceWriteback keeps for every workspace, every set of Sessions *)
(* and every change set: the records of the writebacks, that a conflict     *)
(* leaves no trace, that a record in flight is driven, that a deleted       *)
(* Session writes nothing, the types of the files, and, where every line    *)
(* ends with a newline, that the edits of others are kept and that what is  *)
(* reported as applied is complete.                                         *)
(***************************************************************************)
EXTENDS WorkspaceWriteback, MergeProofs

Statuses == InFlight \cup Resolvable \cup {"none", "applied", "abandoned"}
Early == {"idle", "prepare", "merge", "validate", "snapshot"}
Late == {"check", "write", "rollback", "capture", "succeed", "fail"}

\* Changes that belong to the Session of r, in positions that can be compared.
ChangesOf(r, changes) ==
    /\ DOMAIN changes \subseteq Nat
    /\ \A i \in DOMAIN changes : "path" \in DOMAIN changes[i] /\ changes[i].path \in PathsOf(ChangeSets[r])

Shapes ==
    /\ DOMAIN files = Paths
    /\ DOMAIN record = Records
    /\ \A r \in Records : DOMAIN record[r] = {"status", "view"}
    /\ DOMAIN job = {"pc", "changes", "snapshots", "written", "conflicts", "touched", "late"}
    /\ DOMAIN spent = {"edits", "failures", "errors", "crashes", "pauses"}
    /\ \A what \in DOMAIN spent : spent[what] \in Nat
    /\ sessions \in [Records -> {"active", "paused", "deleting", "deleted", "restored"}]
    /\ \E Items : queue \in Seq(Items)

RecordInv ==
    \A r \in Records :
        /\ record[r].status \in Statuses
        /\ record[r].view # NoView => record[r].status # "none" /\ DOMAIN record[r].view \subseteq PathsOf(ChangeSets[r])
        /\ record[r].status = "conflicted" => record[r].view # NoView

QueueInv ==
    /\ \A i \in DOMAIN queue :
           /\ queue[i].rec \in Records
           /\ queue[i].mode \in {"plain", "force", "resolved"}
           /\ ChangesOf(queue[i].rec, queue[i].changes)
    /\ \A r \in Operations : sessions[r] \notin {"deleted", "restored"}

JobInv ==
    /\ job.pc \in Early \cup Late
    /\ queue = <<>> => job.pc = "idle"
    /\ job.pc \in Early => job.written = {} /\ job.conflicts = {} /\ DOMAIN job.snapshots = {}
    /\ job.pc = "idle" => job = NoJob
    /\ queue # <<>> => /\ ChangesOf(Current.rec, job.changes)
                       /\ job.conflicts \subseteq PathsOf(ChangeSets[Current.rec])
    /\ job.written \subseteq DOMAIN job.changes
    /\ DOMAIN job.snapshots \subseteq Paths
    /\ job.pc \in {"check", "write"} => ~(DOMAIN job.changes \subseteq job.written)
    /\ job.pc = "capture" => job.conflicts # {}

\* The paths of what the operation has written.
WrittenPaths == {job.changes[i].path : i \in job.written}
Untouched(p) == files[p] = job.snapshots[p]

TraceInv ==
    /\ job.pc \in {"check", "write"} => job.conflicts = {}
    /\ job.pc \in {"check", "write"} \/ (job.pc = "rollback" /\ job.conflicts # {}) =>
           \A p \in DOMAIN job.snapshots \ job.touched : p \in WrittenPaths \/ Untouched(p)
    /\ ConflictLeavesNoTrace

WritebackInv == Shapes /\ RecordInv /\ QueueInv /\ JobInv /\ TraceInv /\ InFlightIsDriven

-----------------------------------------------------------------------------
(* Positions, views and queues. *)

\* The change written next is one that is not written yet.
LEMMA NextPositionIn ==
    ASSUME NEW S, S \subseteq Nat, S # {}
    PROVE  Min(S) \in S
<1>1. \E m \in S : \A k \in S : m <= k
  BY Least
<1> QED BY <1>1 DEF Min

LEMMA ViewIsSome ==
    ASSUME NEW view, DOMAIN view # {}
    PROVE  view # NoView
BY DEF NoView

LEMMA AppendOperations ==
    ASSUME NEW Items, queue \in Seq(Items), NEW item, queue' = Append(queue, item)
    PROVE  /\ \E Bigger : queue' \in Seq(Bigger)
           /\ queue' # <<>>
           /\ \A i \in DOMAIN queue' : (i \in DOMAIN queue /\ queue'[i] = queue[i]) \/ queue'[i] = item
           /\ \A i \in DOMAIN queue : i \in DOMAIN queue' /\ queue'[i] = queue[i]
           /\ Operations' = Operations \cup {item.rec}
           /\ queue # <<>> => Head(queue') = Head(queue)
<1> DEFINE Bigger == Items \cup {item}
<1>1. queue \in Seq(Bigger) /\ item \in Bigger
  OBVIOUS
<1>2. queue' \in Seq(Bigger) /\ queue' # <<>>
  BY <1>1
<1>3. DOMAIN queue' = DOMAIN queue \cup {Len(queue) + 1} /\ queue'[Len(queue) + 1] = item
  BY <1>1
<1>4. \A i \in DOMAIN queue : queue'[i] = queue[i]
  BY <1>1
<1>5. Operations' = Operations \cup {item.rec}
  BY <1>3, <1>4 DEF Operations
<1>6. queue # <<>> => Head(queue') = Head(queue)
  BY <1>1, <1>4
<1> QED BY <1>2, <1>3, <1>4, <1>5, <1>6

LEMMA TailOperations ==
    ASSUME NEW Items, queue \in Seq(Items), queue # <<>>, queue' = Tail(queue)
    PROVE  /\ queue' \in Seq(Items)
           /\ Current.rec \in Operations
           /\ \A i \in DOMAIN queue' : i + 1 \in DOMAIN queue /\ queue'[i] = queue[i + 1]
           /\ Operations' \subseteq Operations
           /\ Operations \subseteq Operations' \cup {Current.rec}
<1>1. queue' \in Seq(Items) /\ 1 \in DOMAIN queue /\ Head(queue) = queue[1]
  OBVIOUS
<1>2. \A i \in DOMAIN queue' : i + 1 \in DOMAIN queue /\ queue'[i] = queue[i + 1]
  OBVIOUS
<1>3. \A i \in DOMAIN queue : i = 1 \/ (i - 1 \in DOMAIN queue' /\ queue'[i - 1] = queue[i])
  <2> TAKE i \in DOMAIN queue
  <2>1. CASE i # 1
    <3>1. i \in 2..Len(queue) /\ Len(queue') = Len(queue) - 1 /\ Len(queue) \in Nat
      BY <2>1
    <3>2. i - 1 \in DOMAIN queue'
      BY <3>1, <1>1
    <3> QED BY <3>1, <3>2
  <2> QED BY <2>1
<1>4. Operations \subseteq Operations' \cup {Current.rec}
  <2> SUFFICES ASSUME NEW i \in DOMAIN queue
               PROVE  queue[i].rec \in Operations' \cup {Current.rec}
    BY DEF Operations
  <2>1. CASE i = 1
    BY <2>1, <1>1 DEF Current
  <2>2. CASE i # 1
    <3>1. i - 1 \in DOMAIN queue' /\ queue'[i - 1] = queue[i]
      BY <2>2, <1>3
    <3> QED BY <3>1 DEF Operations
  <2> QED BY <2>1, <2>2
<1>5. Operations' \subseteq Operations
  BY <1>2 DEF Operations
<1>6. Current.rec \in Operations
  BY <1>1 DEF Operations, Current
<1> QED BY <1>1, <1>2, <1>4, <1>5, <1>6

LEMMA HeadOperation ==
    ASSUME NEW Items, queue \in Seq(Items), queue # <<>>
    PROVE  /\ Current.rec \in Operations
           /\ 1 \in DOMAIN queue
           /\ Current = queue[1]
BY DEF Operations, Current

-----------------------------------------------------------------------------
(* The changes an operation works with are changes of its Session. *)

LEMMA OwnChanges ==
    ASSUME NEW r \in Records
    PROVE  ChangesOf(r, ChangeSets[r]) /\ PathsOf(ChangeSets[r]) \subseteq Paths
<1>1. ChangeSets[r] \in Seq(WorkspaceChange)
  BY ChangeSetsAssumption
<1>2. \A i \in DOMAIN ChangeSets[r] : ChangeSets[r][i] \in WorkspaceChange /\ i \in Nat
  BY <1>1
<1> QED BY <1>2 DEF ChangesOf, PathsOf, WorkspaceChange

\* forceChangeSet names the files that the change set names.
LEMMA ForcedChanges ==
    ASSUME NEW r \in Records, NEW changes, ChangesOf(r, changes)
    PROVE  ChangesOf(r, Forced(changes))
BY DEF ChangesOf, Forced

\* So does the merge.
LEMMA MergedChangesOf ==
    ASSUME NEW r \in Records, NEW changes, ChangesOf(r, changes)
    PROVE  ChangesOf(r, MergedChanges(changes))
BY DEF ChangesOf, MergedChanges

\* And so does what a user resolved.
LEMMA ResolvedChangesOf ==
    ASSUME NEW r \in Records
    PROVE  ChangesOf(r, ResolvedChanges(r))
BY OwnChanges DEF ChangesOf, ResolvedChanges, PathsOf

LEMMA ConflictsOf ==
    ASSUME NEW r \in Records, NEW changes, ChangesOf(r, changes)
    PROVE  /\ MergeConflicts(changes) \subseteq PathsOf(ChangeSets[r])
           /\ {c.path : c \in {d \in Range(changes) : Conflicts(d)}} \subseteq PathsOf(ChangeSets[r])
BY DEF ChangesOf, MergeConflicts, Range

-----------------------------------------------------------------------------
(* What the parts of a step keep. *)

SpentStep == spent' = spent \/ \E what \in DOMAIN spent : spent' = [spent EXCEPT ![what] = @ + 1]

LEMMA SpentShape ==
    ASSUME Shapes, SpentStep
    PROVE  /\ DOMAIN spent' = DOMAIN spent
           /\ \A what \in DOMAIN spent' : spent'[what] \in Nat
           /\ spent'.failures = 0 => spent.failures = 0
BY DEF Shapes, SpentStep

LEMMA FaultIsSpent ==
    ASSUME Shapes, NEW what \in {"failures", "errors", "crashes", "pauses"}, Fault(what)
    PROVE  SpentStep /\ spent'[what] = spent[what] + 1
BY DEF Shapes, SpentStep, Fault, Spend

\* The records, the queue and the Sessions stay as they are.
LEMMA QuietStep ==
    ASSUME WritebackInv, UNCHANGED <<record, queue, sessions>>, SpentStep,
           DOMAIN files' = Paths, DOMAIN job' = DOMAIN job
    PROVE  Shapes' /\ RecordInv' /\ QueueInv' /\ InFlightIsDriven'
<1>1. Shapes'
  BY SpentShape DEF WritebackInv, Shapes
<1>2. RecordInv'
  BY DEF WritebackInv, RecordInv
<1>3. QueueInv'
  BY DEF WritebackInv, QueueInv, Operations
<1>4. InFlightIsDriven'
  BY SpentShape DEF WritebackInv, InFlightIsDriven, Operations
<1> QED BY <1>1, <1>2, <1>3, <1>4

\* The running operation and the workspace stay as they are.
LEMMA JobFrame ==
    ASSUME WritebackInv, UNCHANGED <<files, queue, job>>
    PROVE  JobInv' /\ TraceInv'
<1>1. JobInv'
  BY DEF WritebackInv, JobInv, Current
<1>2. TraceInv'
  BY DEF WritebackInv, TraceInv, WrittenPaths, Untouched, ConflictLeavesNoTrace
<1> QED BY <1>1, <1>2

LEMMA InvInit == Init => WritebackInv
<1> SUFFICES ASSUME Init PROVE WritebackInv
  OBVIOUS
<1> USE DEF Init
<1>1. Shapes
  <2>1. queue \in Seq({})
    OBVIOUS
  <2>2. DOMAIN files = Paths
    BY ChangeSetsAssumption
  <2> QED BY <2>1, <2>2 DEF Shapes, NoJob
<1>2. RecordInv
  BY DEF RecordInv, Statuses
<1>3. DOMAIN queue = {} /\ Operations = {}
  BY DEF Operations
<1>4. QueueInv
  BY <1>3 DEF QueueInv
<1>5. JobInv
  BY DEF JobInv, NoJob, Early
<1>6. TraceInv
  BY DEF TraceInv, NoJob, ConflictLeavesNoTrace
<1>7. InFlightIsDriven
  BY DEF InFlightIsDriven, InFlight
<1> QED BY <1>1, <1>2, <1>4, <1>5, <1>6, <1>7 DEF WritebackInv

-----------------------------------------------------------------------------
(* An operation is queued. *)

LEMMA SubmitStep ==
    ASSUME WritebackInv, NEW r \in Records, Admitted(r),
           NEW mode \in {"plain", "force", "resolved"}, NEW changes, ChangesOf(r, changes),
           SetStatus(r, "queued"), Submit(r, mode, changes), UNCHANGED <<files, job, sessions, spent>>
    PROVE  WritebackInv'
<1> DEFINE item == [ rec |-> r, mode |-> mode, changes |-> changes ]
<1>1. PICK Items : queue \in Seq(Items)
  BY DEF WritebackInv, Shapes
<1>2. /\ \E Bigger : queue' \in Seq(Bigger)
      /\ queue' # <<>>
      /\ \A i \in DOMAIN queue' : (i \in DOMAIN queue /\ queue'[i] = queue[i]) \/ queue'[i] = item
      /\ \A i \in DOMAIN queue : i \in DOMAIN queue' /\ queue'[i] = queue[i]
      /\ Operations' = Operations \cup {r}
      /\ queue # <<>> => Head(queue') = Head(queue)
  <2>1. queue' = Append(queue, item) /\ item.rec = r
    BY DEF Submit
  <2> HIDE DEF item
  <2> QED BY <1>1, <2>1, AppendOperations
<1>3. Shapes'
  BY <1>2 DEF WritebackInv, Shapes, SetStatus
<1>4. RecordInv'
  BY DEF WritebackInv, Shapes, RecordInv, SetStatus, Statuses, InFlight
<1>5. QueueInv'
  <2>1. \A i \in DOMAIN queue' : /\ queue'[i].rec \in Records
                                 /\ queue'[i].mode \in {"plain", "force", "resolved"}
                                 /\ ChangesOf(queue'[i].rec, queue'[i].changes)
    BY <1>2 DEF WritebackInv, QueueInv
  <2>2. \A s \in Operations' : sessions'[s] \notin {"deleted", "restored"}
    BY <1>2 DEF WritebackInv, QueueInv, Admitted
  <2> QED BY <2>1, <2>2 DEF QueueInv, ChangesOf
<1>6. JobInv'
  <2>1. /\ ChangesOf(Current.rec, job.changes)'
        /\ (job.conflicts \subseteq PathsOf(ChangeSets[Current.rec]))'
    <3>1. CASE queue = <<>>
      <4>1. job = NoJob
        BY <3>1 DEF WritebackInv, JobInv
      <4> QED BY <4>1 DEF NoJob, ChangesOf
    <3>2. CASE queue # <<>>
      BY <1>2, <3>2 DEF WritebackInv, JobInv, Current, ChangesOf
    <3> QED BY <3>1, <3>2
  <2> QED BY <1>2, <2>1 DEF WritebackInv, JobInv
<1>7. TraceInv'
  BY DEF WritebackInv, TraceInv, WrittenPaths, Untouched, ConflictLeavesNoTrace
<1>8. InFlightIsDriven'
  BY <1>2 DEF WritebackInv, Shapes, InFlightIsDriven, SetStatus
<1> QED BY <1>3, <1>4, <1>5, <1>6, <1>7, <1>8 DEF WritebackInv

-----------------------------------------------------------------------------
(* A Session changes, or a user decides about its record. *)

LEMMA SessionStep ==
    ASSUME WritebackInv, NEW r \in Records,
           NEW state \in {"active", "paused", "deleting", "deleted", "restored"},
           state \in {"deleted", "restored"} => r \notin Operations,
           SetSession(r, state), SpentStep, UNCHANGED <<files, record, queue, job>>
    PROVE  WritebackInv'
<1>1. Shapes'
  BY SpentShape DEF WritebackInv, Shapes, SetSession
<1>2. RecordInv'
  BY DEF WritebackInv, RecordInv
<1>3. QueueInv'
  BY DEF WritebackInv, QueueInv, Operations, SetSession, Shapes
<1>4. InFlightIsDriven'
  BY SpentShape DEF WritebackInv, InFlightIsDriven, Operations
<1> QED BY <1>1, <1>2, <1>3, <1>4, JobFrame DEF WritebackInv

\* The record of r changes and does not go into flight.
LEMMA RecordChange ==
    ASSUME WritebackInv, NEW r \in Records,
           DOMAIN record' = Records, \A s \in Records \ {r} : record'[s] = record[s],
           DOMAIN record'[r] = {"status", "view"},
           \/ record'[r].status = record[r].status
           \/ record'[r].status \in Statuses \ (InFlight \cup {"none", "conflicted"}),
           record'[r].view = NoView => record'[r].status # "conflicted",
           record'[r].view # NoView =>
               record'[r].status # "none" /\ DOMAIN record'[r].view \subseteq PathsOf(ChangeSets[r]),
           UNCHANGED <<queue, spent>>
    PROVE  /\ RecordInv' /\ InFlightIsDriven'
           /\ \A s \in Records : DOMAIN record'[s] = {"status", "view"}
<1>1. RecordInv'
  <2> SUFFICES ASSUME NEW s \in Records
               PROVE  /\ record'[s].status \in Statuses
                      /\ record'[s].view # NoView =>
                            record'[s].status # "none" /\ DOMAIN record'[s].view \subseteq PathsOf(ChangeSets[s])
                      /\ record'[s].status = "conflicted" => record'[s].view # NoView
    BY DEF RecordInv
  <2>1. CASE s = r
    BY <2>1 DEF WritebackInv, RecordInv
  <2>2. CASE s # r
    BY <2>2 DEF WritebackInv, RecordInv
  <2> QED BY <2>1, <2>2
<1>2. InFlightIsDriven'
  <2> SUFFICES ASSUME spent.failures = 0, NEW s \in Records, record'[s].status \in InFlight
               PROVE  s \in Operations
    BY DEF InFlightIsDriven, Operations
  <2>1. record'[s].status = record[s].status
    OBVIOUS
  <2> QED BY <2>1 DEF WritebackInv, InFlightIsDriven
<1>3. \A s \in Records : DOMAIN record'[s] = {"status", "view"}
  BY DEF WritebackInv, Shapes
<1> QED BY <1>1, <1>2, <1>3

LEMMA RecordStep ==
    ASSUME WritebackInv, RecordInv', InFlightIsDriven',
           DOMAIN record' = Records, \A s \in Records : DOMAIN record'[s] = {"status", "view"},
           UNCHANGED <<files, queue, job, sessions, spent>>
    PROVE  WritebackInv'
<1>1. Shapes'
  BY DEF WritebackInv, Shapes
<1>2. QueueInv'
  BY DEF WritebackInv, QueueInv, Operations
<1> QED BY <1>1, <1>2, JobFrame DEF WritebackInv

LEMMA SaveStep ==
    ASSUME WritebackInv, NEW r \in Records, NEW p \in Paths, NEW choice, saveConflictFile(r, p, choice)
    PROVE  WritebackInv'
<1> USE DEF saveConflictFile, WritebackInv
<1>1. DOMAIN record' = Records /\ \A s \in Records \ {r} : record'[s] = record[s]
  BY DEF Shapes
<1>2. DOMAIN record'[r] = {"status", "view"} /\ record'[r].status = record[r].status
  BY DEF Shapes
<1>3. DOMAIN record'[r].view = DOMAIN record[r].view /\ p \in DOMAIN record'[r].view
  BY DEF Shapes
<1>4. record'[r].view # NoView /\ record[r].view # NoView
  BY <1>3, ViewIsSome
<1>5. record'[r].status # "none" /\ DOMAIN record'[r].view \subseteq PathsOf(ChangeSets[r])
  BY <1>2, <1>3, <1>4 DEF RecordInv
<1>6. /\ RecordInv' /\ InFlightIsDriven'
      /\ \A s \in Records : DOMAIN record'[s] = {"status", "view"}
  BY <1>1, <1>2, <1>4, <1>5, RecordChange
<1> QED BY <1>1, <1>6, RecordStep

LEMMA AbandonStep ==
    ASSUME WritebackInv, NEW r \in Records, abandon(r)
    PROVE  WritebackInv'
<1> USE DEF abandon, SetRecord, Stored, WritebackInv
<1>1. /\ DOMAIN record' = Records /\ \A s \in Records \ {r} : record'[s] = record[s]
      /\ DOMAIN record'[r] = {"status", "view"}
      /\ record'[r].status \in {"abandoned", "failed"} /\ record'[r].view = NoView
  BY DEF Shapes
<1>2. record'[r].status \in Statuses \ (InFlight \cup {"none", "conflicted"})
  BY <1>1 DEF Statuses, InFlight, Resolvable
<1>3. /\ RecordInv' /\ InFlightIsDriven'
      /\ \A s \in Records : DOMAIN record'[s] = {"status", "view"}
  <2> HIDE DEF abandon, SetRecord, WritebackInv
  <2>1. UNCHANGED <<queue, spent>> /\ record'[r].status # "conflicted"
    BY <1>1 DEF abandon
  <2> QED BY <1>1, <1>2, <2>1, RecordChange
<1> QED BY <1>1, <1>3, RecordStep

LEMMA FinishDeleteStep ==
    ASSUME WritebackInv, NEW r \in Records, FinishDelete(r)
    PROVE  WritebackInv'
<1> USE DEF FinishDelete, WritebackInv
<1>1. /\ DOMAIN record' = Records /\ \A s \in Records \ {r} : record'[s] = record[s]
      /\ DOMAIN record'[r] = {"status", "view"}
  BY DEF Shapes
<1>2. record'[r].view = NoView
  BY DEF Shapes
<1>3. /\ record'[r].status # "conflicted"
      /\ \/ record'[r].status = record[r].status
         \/ record'[r].status = "abandoned"
  <2>1. CASE record[r].view = NoView
    BY <2>1 DEF RecordInv
  <2>2. CASE record[r].view # NoView
    BY <2>2 DEF Shapes, Resolvable
  <2> QED BY <2>1, <2>2
<1>4. /\ RecordInv' /\ InFlightIsDriven'
      /\ \A s \in Records : DOMAIN record'[s] = {"status", "view"}
  <2>1. "abandoned" \in Statuses \ (InFlight \cup {"none", "conflicted"})
    BY DEF Statuses, InFlight, Resolvable
  <2>2. UNCHANGED <<queue, spent>>
    OBVIOUS
  <2> HIDE DEF FinishDelete, WritebackInv
  <2> QED BY <1>1, <1>2, <1>3, <2>1, <2>2, RecordChange
<1>5. Shapes'
  BY <1>1, <1>4 DEF Shapes, SetSession
<1>6. QueueInv'
  BY DEF QueueInv, Operations, SetSession, Shapes
<1> QED BY <1>4, <1>5, <1>6, JobFrame

-----------------------------------------------------------------------------
(* The running operation: it leaves, fails or goes on. *)

\* The last update: the record is settled, or a failure of it is counted.
LEMMA SettleStep ==
    ASSUME WritebackInv, queue # <<>>, NEW status \in {"failed", "applied", "conflicted"}, NEW view,
           view # NoView => DOMAIN view \subseteq PathsOf(ChangeSets[Current.rec]),
           status = "conflicted" => view # NoView,
           Settle(status, view), UNCHANGED <<files, sessions>>
    PROVE  WritebackInv'
<1>1. PICK Items : queue \in Seq(Items)
  BY DEF WritebackInv, Shapes
<1>2. /\ queue' \in Seq(Items)
      /\ Current.rec \in Operations
      /\ \A i \in DOMAIN queue' : i + 1 \in DOMAIN queue /\ queue'[i] = queue[i + 1]
      /\ Operations' \subseteq Operations
      /\ Operations \subseteq Operations' \cup {Current.rec}
  BY <1>1, TailOperations DEF Settle, Leave
<1>3. Current.rec \in Records
  BY <1>1, HeadOperation DEF WritebackInv, QueueInv
<1>4. job' = NoJob
  BY DEF Settle, Leave
<1>5. SpentStep /\ (record' # record => SetRecord(Current.rec, status, view)
                                         /\ record'[Current.rec].status \in {status, "failed"}
                                         /\ record'[Current.rec].view = view)
  <2>1. CASE Fault("failures") /\ UNCHANGED record
    BY <2>1, FaultIsSpent DEF WritebackInv
  <2>2. CASE SetRecord(Current.rec, status, view) /\ UNCHANGED spent
    BY <2>2, <1>3 DEF WritebackInv, Shapes, SetRecord, Stored, SpentStep
  <2> QED BY <2>1, <2>2 DEF Settle
<1>6. /\ DOMAIN record' = Records
      /\ \A r \in Records : DOMAIN record'[r] = {"status", "view"}
      /\ \A r \in Records \ {Current.rec} : record'[r] = record[r]
  BY <1>5 DEF WritebackInv, Shapes, SetRecord
<1>7. Shapes'
  BY <1>2, <1>4, <1>5, <1>6, SpentShape DEF WritebackInv, Shapes, NoJob
<1>8. RecordInv'
  <2> SUFFICES ASSUME NEW r \in Records, record' # record
               PROVE  /\ record'[r].status \in Statuses
                      /\ record'[r].view # NoView =>
                            record'[r].status # "none" /\ DOMAIN record'[r].view \subseteq PathsOf(ChangeSets[r])
                      /\ record'[r].status = "conflicted" => record'[r].view # NoView
    BY DEF WritebackInv, RecordInv
  <2>1. CASE r = Current.rec
    BY <2>1, <1>5 DEF Statuses, Resolvable
  <2>2. CASE r # Current.rec
    BY <2>2, <1>6 DEF WritebackInv, RecordInv
  <2> QED BY <2>1, <2>2
<1>9. QueueInv'
  BY <1>2 DEF WritebackInv, QueueInv
<1>10. JobInv'
  BY <1>4 DEF JobInv, NoJob, Early, ChangesOf
<1>11. TraceInv'
  BY <1>4 DEF TraceInv, NoJob, ConflictLeavesNoTrace
<1>12. InFlightIsDriven'
  <2> SUFFICES ASSUME spent'.failures = 0, NEW r \in Records, record'[r].status \in InFlight
               PROVE  r \in Operations'
    BY DEF InFlightIsDriven
  <2>1. spent.failures = 0
    BY <1>5, SpentShape DEF WritebackInv
  <2>2. ~Fault("failures")
    BY <2>1, FaultIsSpent DEF WritebackInv, Shapes
  <2>3. SetRecord(Current.rec, status, view)
    BY <2>2 DEF Settle
  <2>4. record'[Current.rec].status \notin InFlight
    BY <2>3, <1>3 DEF WritebackInv, Shapes, SetRecord, Stored, InFlight
  <2>5. r # Current.rec /\ record'[r] = record[r]
    BY <2>4, <1>6
  <2> QED BY <2>1, <2>5, <1>2 DEF WritebackInv, InFlightIsDriven
<1> QED BY <1>7, <1>8, <1>9, <1>10, <1>11, <1>12 DEF WritebackInv

\* The record changes to a status in flight, or the operation fails.
LEMMA AdvanceStep ==
    ASSUME WritebackInv, queue # <<>>, NEW status \in InFlight, NEW next,
           Advance(status, next), UNCHANGED <<files, queue, sessions>>,
           DOMAIN next = DOMAIN job
    PROVE  /\ Shapes' /\ RecordInv' /\ QueueInv' /\ InFlightIsDriven'
           /\ job' = next \/ Goto("fail")
<1>1. SpentStep /\ (record' # record => SetStatus(Current.rec, status))
  <2>1. CASE Fault("failures")
    BY <2>1, FaultIsSpent DEF Advance, WritebackInv
  <2>2. CASE ~Fault("failures")
    BY <2>2 DEF Advance, SpentStep
  <2> QED BY <2>1, <2>2
<1>2. job' = next \/ Goto("fail")
  BY DEF Advance
<1>3. DOMAIN job' = DOMAIN job
  BY <1>2 DEF Goto
<1>4. PICK Items : queue \in Seq(Items)
  BY DEF WritebackInv, Shapes
<1>5. Current.rec \in Operations /\ Current.rec \in Records
  BY <1>4, HeadOperation DEF WritebackInv, QueueInv
<1>6. CASE record' = record
  BY <1>1, <1>2, <1>3, <1>6, QuietStep DEF WritebackInv, Shapes
<1>7. CASE record' # record
  <2>1. SetStatus(Current.rec, status)
    BY <1>1, <1>7
  <2>2. Shapes'
    BY <1>1, <1>3, <2>1, SpentShape DEF WritebackInv, Shapes, SetStatus
  <2>3. RecordInv'
    BY <2>1, <1>5 DEF WritebackInv, Shapes, RecordInv, SetStatus, Statuses, InFlight
  <2>4. QueueInv'
    BY DEF WritebackInv, QueueInv, Operations
  <2>5. InFlightIsDriven'
    <3>1. Operations' = Operations
      BY DEF Operations
    <3>2. spent'.failures = 0 => spent.failures = 0
      BY <1>1, SpentShape DEF WritebackInv
    <3> QED BY <2>1, <1>5, <3>1, <3>2 DEF WritebackInv, Shapes, InFlightIsDriven, SetStatus
  <2> QED BY <1>2, <2>2, <2>3, <2>4, <2>5
<1> QED BY <1>6, <1>7

LEMMA FailStep ==
    ASSUME WritebackInv, queue # <<>>, Goto("fail"), UNCHANGED queue
    PROVE  JobInv' /\ TraceInv'
<1>1. /\ job'.pc = "fail" /\ job'.changes = job.changes /\ job'.snapshots = job.snapshots
      /\ job'.written = job.written /\ job'.conflicts = job.conflicts
  BY DEF WritebackInv, Shapes, Goto
<1>2. JobInv'
  BY <1>1 DEF WritebackInv, JobInv, Early, Late, Current, ChangesOf
<1>3. TraceInv'
  BY <1>1 DEF TraceInv, ConflictLeavesNoTrace
<1> QED BY <1>2, <1>3

\* Before anything is written, the operation goes on with other changes.
LEMMA EarlyStep ==
    ASSUME WritebackInv, queue # <<>>, job.pc \in Early,
           NEW pc \in Early \ {"idle"}, NEW changes, ChangesOf(Current.rec, changes),
           job' = [job EXCEPT !.pc = pc, !.changes = changes], UNCHANGED queue
    PROVE  JobInv' /\ TraceInv'
<1>1. /\ job'.pc = pc /\ job'.changes = changes /\ job'.snapshots = job.snapshots
      /\ job'.written = job.written /\ job'.conflicts = job.conflicts
  BY DEF WritebackInv, Shapes
<1>2. JobInv'
  BY <1>1 DEF WritebackInv, JobInv, Early, Late, Current, ChangesOf
<1>3. TraceInv'
  BY <1>1 DEF TraceInv, ConflictLeavesNoTrace, Early
<1> QED BY <1>2, <1>3

-----------------------------------------------------------------------------
(* The steps of apply and applyServerLocalChangeSet. *)

LEMMA CurrentIn ==
    ASSUME WritebackInv, queue # <<>>
    PROVE  /\ Current.rec \in Records /\ Current.rec \in Operations
           /\ ChangesOf(Current.rec, Current.changes)
<1>1. PICK Items : queue \in Seq(Items)
  BY DEF WritebackInv, Shapes
<1> QED BY <1>1, HeadOperation DEF WritebackInv, QueueInv

LEMMA BeginStep == WritebackInv /\ Begin => WritebackInv'
<1> SUFFICES ASSUME WritebackInv, Begin PROVE WritebackInv'
  OBVIOUS
<1>1. queue # <<>> /\ job.pc = "idle" /\ UNCHANGED <<files, sessions>> /\ job = NoJob
  BY DEF Begin, At, WritebackInv, JobInv
<1>2. CASE Admitted(Current.rec)
  <2> DEFINE next == [job EXCEPT !.pc = "prepare"]
  <2>1. Advance("merging", next) /\ UNCHANGED queue
    BY <1>2 DEF Begin
  <2>2. DOMAIN next = DOMAIN job /\ "merging" \in InFlight
    BY DEF InFlight
  <2>3. next = [job EXCEPT !.pc = "prepare", !.changes = job.changes]
    BY DEF WritebackInv, Shapes
  <2>4. ChangesOf(Current.rec, job.changes) /\ job.pc \in Early /\ "prepare" \in Early \ {"idle"}
    BY <1>1 DEF WritebackInv, JobInv, Early
  <2> HIDE DEF next
  <2>5. /\ Shapes' /\ RecordInv' /\ QueueInv' /\ InFlightIsDriven'
        /\ job' = next \/ Goto("fail")
    BY <1>1, <2>1, <2>2, AdvanceStep
  <2>6. JobInv' /\ TraceInv'
    <3>1. CASE Goto("fail")
      BY <1>1, <2>1, <3>1, FailStep
    <3>2. CASE job' = next
      BY <1>1, <2>1, <2>3, <2>4, <3>2, EarlyStep
    <3> QED BY <2>5, <3>1, <3>2
  <2> QED BY <2>5, <2>6 DEF WritebackInv
<1>3. CASE ~Admitted(Current.rec)
  <2>1. Settle("failed", record[Current.rec].view)
    BY <1>3 DEF Begin
  <2>2. record[Current.rec].view # NoView => DOMAIN record[Current.rec].view \subseteq PathsOf(ChangeSets[Current.rec])
    BY <1>1, CurrentIn DEF WritebackInv, RecordInv
  <2> QED BY <1>1, <2>1, <2>2, SettleStep
<1> QED BY <1>2, <1>3

LEMMA PrepareStep == WritebackInv /\ Prepare => WritebackInv'
<1> SUFFICES ASSUME WritebackInv, Prepare PROVE WritebackInv'
  OBVIOUS
<1> DEFINE changes == IF Current.mode = "force" THEN Forced(Current.changes) ELSE Current.changes
           next == [job EXCEPT !.pc = "merge", !.changes = changes]
<1>1. queue # <<>> /\ job.pc = "prepare" /\ UNCHANGED <<files, queue, sessions>>
  BY DEF Prepare, At
<1>2. ChangesOf(Current.rec, changes)
  BY <1>1, CurrentIn, ForcedChanges
<1>3. Advance("applying", next)
  BY DEF Prepare
<1> HIDE DEF changes
<1>4. DOMAIN next = DOMAIN job /\ "applying" \in InFlight
  BY DEF InFlight
<1>5. /\ Shapes' /\ RecordInv' /\ QueueInv' /\ InFlightIsDriven'
      /\ job' = next \/ Goto("fail")
  <2> HIDE DEF next
  <2> QED BY <1>1, <1>3, <1>4, AdvanceStep
<1>6. JobInv' /\ TraceInv'
  <2>1. CASE Goto("fail")
    BY <1>1, <2>1, FailStep
  <2>2. CASE job' = next
    <3>1. job.pc \in Early /\ "merge" \in Early \ {"idle"}
      BY <1>1 DEF Early
    <3> QED BY <1>1, <1>2, <2>2, <3>1, EarlyStep
  <2> QED BY <1>5, <2>1, <2>2
<1> QED BY <1>5, <1>6 DEF WritebackInv

\* The batch is in conflict before anything is written.
LEMMA ConflictStep ==
    ASSUME WritebackInv, queue # <<>>, job.pc \in Early,
           NEW conflicts, conflicts # {}, conflicts \subseteq PathsOf(ChangeSets[Current.rec]),
           job' = [job EXCEPT !.pc = "capture", !.conflicts = conflicts], UNCHANGED queue
    PROVE  JobInv' /\ TraceInv'
<1>1. /\ job'.pc = "capture" /\ job'.changes = job.changes /\ job'.snapshots = job.snapshots
      /\ job'.written = job.written /\ job'.conflicts = conflicts
  BY DEF WritebackInv, Shapes
<1>2. JobInv'
  BY <1>1 DEF WritebackInv, JobInv, Early, Late, Current, ChangesOf
<1>3. DOMAIN job'.snapshots = {}
  BY <1>1 DEF WritebackInv, JobInv
<1>4. TraceInv'
  BY <1>1, <1>3 DEF TraceInv, ConflictLeavesNoTrace
<1> QED BY <1>2, <1>4

LEMMA MergeStep == WritebackInv /\ Merge => WritebackInv'
<1> SUFFICES ASSUME WritebackInv, Merge PROVE WritebackInv'
  OBVIOUS
<1> DEFINE conflicts == MergeConflicts(job.changes)
           merged == MergedChanges(job.changes)
<1>1. queue # <<>> /\ job.pc = "merge" /\ UNCHANGED <<files, record, queue, sessions, spent>> /\ job.pc \in Early
  BY DEF Merge, At, Early
<1>2. ChangesOf(Current.rec, job.changes) /\ Current.rec \in Records
  BY <1>1, CurrentIn DEF WritebackInv, JobInv
<1>3. conflicts \subseteq PathsOf(ChangeSets[Current.rec]) /\ ChangesOf(Current.rec, merged)
  BY <1>2, ConflictsOf, MergedChangesOf
<1>4. job' = IF conflicts # {} THEN [job EXCEPT !.pc = "capture", !.conflicts = conflicts]
                               ELSE [job EXCEPT !.pc = "validate", !.changes = merged]
  BY DEF Merge
<1> HIDE DEF conflicts, merged
<1>5. JobInv' /\ TraceInv'
  <2>1. CASE conflicts # {}
    BY <1>1, <1>3, <1>4, <2>1, ConflictStep
  <2>2. CASE conflicts = {}
    <3>1. "validate" \in Early \ {"idle"}
      BY DEF Early
    <3> QED BY <1>1, <1>3, <1>4, <2>2, <3>1, EarlyStep
  <2> QED BY <2>1, <2>2
<1>6. DOMAIN files' = Paths /\ DOMAIN job' = DOMAIN job /\ SpentStep
  BY <1>1, <1>4 DEF WritebackInv, Shapes, SpentStep
<1> QED BY <1>1, <1>5, <1>6, QuietStep DEF WritebackInv

LEMMA ValidateStep == WritebackInv /\ Validate => WritebackInv'
<1> SUFFICES ASSUME WritebackInv, Validate PROVE WritebackInv'
  OBVIOUS
<1> DEFINE conflicts == {c.path : c \in {d \in Range(job.changes) : Conflicts(d)}}
<1>1. queue # <<>> /\ job.pc = "validate" /\ UNCHANGED <<files, record, queue, sessions, spent>> /\ job.pc \in Early
  BY DEF Validate, At, Early
<1>2. ChangesOf(Current.rec, job.changes) /\ Current.rec \in Records
  BY <1>1, CurrentIn DEF WritebackInv, JobInv
<1>3. conflicts \subseteq PathsOf(ChangeSets[Current.rec])
  BY <1>2, ConflictsOf
<1>4. job' = IF conflicts # {} THEN [job EXCEPT !.pc = "capture", !.conflicts = conflicts]
                               ELSE [job EXCEPT !.pc = "snapshot"]
  BY DEF Validate
<1> HIDE DEF conflicts
<1>5. JobInv' /\ TraceInv'
  <2>1. CASE conflicts # {}
    BY <1>1, <1>3, <1>4, <2>1, ConflictStep
  <2>2. CASE conflicts = {}
    <3>1. "snapshot" \in Early \ {"idle"}
      BY DEF Early
    <3>2. job' = [job EXCEPT !.pc = "snapshot", !.changes = job.changes]
      BY <1>4, <2>2 DEF WritebackInv, Shapes
    <3> QED BY <1>1, <1>2, <3>1, <3>2, EarlyStep
  <2> QED BY <2>1, <2>2
<1>6. DOMAIN files' = Paths /\ DOMAIN job' = DOMAIN job /\ SpentStep
  BY <1>1, <1>4 DEF WritebackInv, Shapes, SpentStep
<1> QED BY <1>1, <1>5, <1>6, QuietStep DEF WritebackInv

\* From the snapshots on, the change that is written next is one of the operation.
LEMMA NextChangeIn ==
    ASSUME WritebackInv, queue # <<>>, job.pc \in {"check", "write"}
    PROVE  /\ NextPosition \in DOMAIN job.changes \ job.written
           /\ NextChange.path \in PathsOf(ChangeSets[Current.rec])
           /\ NextChange.path \in Paths
<1>1. /\ DOMAIN job.changes \subseteq Nat
      /\ DOMAIN job.changes \ job.written # {}
      /\ \A i \in DOMAIN job.changes : job.changes[i].path \in PathsOf(ChangeSets[Current.rec])
  BY DEF WritebackInv, JobInv, ChangesOf
<1>2. NextPosition \in DOMAIN job.changes \ job.written
  BY <1>1, NextPositionIn DEF NextPosition
<1>3. PathsOf(ChangeSets[Current.rec]) \subseteq Paths
  BY CurrentIn, OwnChanges
<1> QED BY <1>1, <1>2, <1>3 DEF NextChange

LEMMA SnapshotStep == WritebackInv /\ Snapshot => WritebackInv'
<1> SUFFICES ASSUME WritebackInv, Snapshot PROVE WritebackInv'
  OBVIOUS
<1> DEFINE taken == [p \in PathsOf(job.changes) |-> files[p]]
           pc == AfterWrites({})
<1>1. /\ queue # <<>> /\ job.pc = "snapshot" /\ UNCHANGED <<files, record, queue, sessions, spent>>
      /\ job' = [job EXCEPT !.pc = pc, !.snapshots = taken]
  BY DEF Snapshot, At
<1>2. /\ job'.pc = pc /\ job'.snapshots = taken /\ job'.changes = job.changes /\ job'.written = job.written
      /\ job'.conflicts = job.conflicts /\ job'.touched = job.touched /\ DOMAIN job' = DOMAIN job
  BY <1>1 DEF WritebackInv, Shapes
<1>3. job.written = {} /\ pc \in {"succeed", "check"} /\ (pc = "check" => ~(DOMAIN job.changes \subseteq {}))
  BY <1>1 DEF WritebackInv, JobInv, Early, AfterWrites
<1>4. \A p \in DOMAIN taken : taken[p] = files[p]
  OBVIOUS
<1>5. DOMAIN taken \subseteq Paths
  <2>1. ChangesOf(Current.rec, job.changes) /\ PathsOf(ChangeSets[Current.rec]) \subseteq Paths
    BY <1>1, CurrentIn, OwnChanges DEF WritebackInv, JobInv
  <2> QED BY <2>1 DEF ChangesOf, PathsOf
<1> HIDE DEF taken, pc
<1>6. JobInv'
  <2>1. /\ ChangesOf(Current.rec, job.changes)'
        /\ (job.conflicts \subseteq PathsOf(ChangeSets[Current.rec]))'
    BY <1>1, <1>2 DEF WritebackInv, JobInv, Current, ChangesOf
  <2> QED BY <1>1, <1>2, <1>3, <1>5, <2>1 DEF JobInv, Early, Late
<1>7. TraceInv'
  <2>1. job.conflicts = {}
    BY <1>1 DEF WritebackInv, JobInv, Early
  <2> QED BY <1>1, <1>2, <1>3, <1>4, <2>1 DEF TraceInv, Untouched, ConflictLeavesNoTrace
<1>8. SpentStep
  BY <1>1 DEF SpentStep
<1> QED BY <1>1, <1>2, <1>6, <1>7, <1>8, QuietStep DEF WritebackInv, Shapes

\* The late check of the next change: its conflict takes the batch back.
LEMMA CheckStep == WritebackInv /\ Check => WritebackInv'
<1> SUFFICES ASSUME WritebackInv, Check PROVE WritebackInv'
  OBVIOUS
<1>1. queue # <<>> /\ job.pc = "check" /\ UNCHANGED <<files, record, queue, sessions, spent>>
  BY DEF Check, At
<1>2. NextChange.path \in PathsOf(ChangeSets[Current.rec])
  BY <1>1, NextChangeIn
<1>3. /\ job'.changes = job.changes /\ job'.snapshots = job.snapshots /\ job'.written = job.written
      /\ job'.touched = job.touched /\ DOMAIN job' = DOMAIN job
      /\ \/ job'.pc = "write" /\ job'.conflicts = job.conflicts
         \/ job'.pc = "rollback" /\ job'.conflicts = {NextChange.path}
  BY DEF Check, WritebackInv, Shapes
<1>4. JobInv'
  BY <1>1, <1>2, <1>3 DEF WritebackInv, JobInv, Early, Late, Current, ChangesOf
<1>5. WrittenPaths' = WrittenPaths /\ \A p : Untouched(p)' <=> Untouched(p)
  BY <1>1, <1>3 DEF WrittenPaths, Untouched
<1>6. TraceInv'
  BY <1>1, <1>3, <1>5 DEF WritebackInv, TraceInv, ConflictLeavesNoTrace
<1>7. SpentStep
  BY <1>1 DEF SpentStep
<1> QED BY <1>1, <1>3, <1>4, <1>6, <1>7, QuietStep DEF WritebackInv, Shapes

LEMMA WriteStep == WritebackInv /\ Write => WritebackInv'
<1> SUFFICES ASSUME WritebackInv, Write PROVE WritebackInv'
  OBVIOUS
<1> DEFINE written == job.written \cup {NextPosition}
           pc == AfterWrites(written)
<1>1. /\ queue # <<>> /\ job.pc = "write" /\ UNCHANGED <<record, queue, sessions, spent>>
      /\ files' = [files EXCEPT ![NextChange.path] = Written(NextChange)]
      /\ job' = [job EXCEPT !.pc = pc, !.written = written, !.late = FALSE]
  BY DEF Write, At
<1>2. NextPosition \in DOMAIN job.changes \ job.written /\ NextChange.path \in Paths
  BY <1>1, NextChangeIn
<1>3. /\ job'.changes = job.changes /\ job'.snapshots = job.snapshots /\ job'.written = written
      /\ job'.touched = job.touched /\ job'.conflicts = job.conflicts /\ job'.pc = pc
      /\ DOMAIN job' = DOMAIN job
  BY <1>1 DEF WritebackInv, Shapes
<1>4. /\ pc \in {"succeed", "check"} /\ (pc = "check" => ~(DOMAIN job.changes \subseteq written))
      /\ written \subseteq DOMAIN job.changes
  BY <1>2 DEF WritebackInv, JobInv, AfterWrites
<1>5. WrittenPaths' = WrittenPaths \cup {NextChange.path}
  BY <1>3 DEF WrittenPaths, NextChange
<1>6. \A p \in Paths : p # NextChange.path => files'[p] = files[p]
  BY <1>1 DEF WritebackInv, Shapes
<1> HIDE DEF written, pc
<1>7. JobInv'
  BY <1>1, <1>3, <1>4 DEF WritebackInv, JobInv, Early, Late, Current, ChangesOf
<1>8. TraceInv'
  <2>1. job'.pc \in {"check", "write"} => job'.conflicts = {}
    BY <1>1, <1>3 DEF WritebackInv, TraceInv
  <2>2. ASSUME NEW p \in DOMAIN job'.snapshots \ job'.touched
        PROVE  p \in WrittenPaths' \/ Untouched(p)'
    <3>1. p \in WrittenPaths \/ Untouched(p)
      BY <1>1, <1>3, <2>2 DEF WritebackInv, TraceInv
    <3>2. p \in Paths
      BY <1>3, <2>2 DEF WritebackInv, JobInv
    <3> QED BY <1>3, <1>5, <1>6, <3>1, <3>2 DEF Untouched
  <2>3. job'.pc # "capture"
    BY <1>3, <1>4
  <2> QED BY <2>1, <2>2, <2>3 DEF TraceInv, ConflictLeavesNoTrace
<1>9. SpentStep /\ DOMAIN files' = Paths
  BY <1>1 DEF SpentStep, WritebackInv, Shapes
<1> QED BY <1>1, <1>3, <1>7, <1>8, <1>9, QuietStep DEF WritebackInv, Shapes

LEMMA WriteErrorStep == WritebackInv /\ WriteError => WritebackInv'
<1> SUFFICES ASSUME WritebackInv, WriteError PROVE WritebackInv'
  OBVIOUS
<1>1. /\ queue # <<>> /\ job.pc = "write" /\ UNCHANGED <<record, queue, sessions>>
      /\ Fault("errors") /\ Goto("rollback")
  BY DEF WriteError, At
<1>2. /\ job'.changes = job.changes /\ job'.snapshots = job.snapshots /\ job'.written = job.written
      /\ job'.conflicts = job.conflicts /\ job'.pc = "rollback" /\ DOMAIN job' = DOMAIN job
  BY <1>1 DEF WritebackInv, Shapes, Goto
<1>3. JobInv'
  BY <1>1, <1>2 DEF WritebackInv, JobInv, Early, Late, Current, ChangesOf
<1>4. job.conflicts = {}
  BY <1>1 DEF WritebackInv, TraceInv
<1>5. TraceInv'
  BY <1>2, <1>4 DEF TraceInv, ConflictLeavesNoTrace
<1>6. SpentStep /\ DOMAIN files' = Paths
  BY <1>1, FaultIsSpent DEF WriteError, WritebackInv, Shapes
<1> QED BY <1>1, <1>2, <1>3, <1>5, <1>6, QuietStep DEF WritebackInv, Shapes

\* What was written is back, and the rest was not touched: only then the
\* conflict is captured.
LEMMA RollbackStep == WritebackInv /\ rollbackAppliedPaths => WritebackInv'
<1> SUFFICES ASSUME WritebackInv, rollbackAppliedPaths PROVE WritebackInv'
  OBVIOUS
<1> DEFINE kept == {c \in Applied : files[c.path] = Written(c)}
           back == {c.path : c \in kept}
           clean == ~(kept # Applied \/ job.conflicts = {})
<1>1. /\ queue # <<>> /\ job.pc = "rollback" /\ UNCHANGED <<record, queue, sessions, spent>>
      /\ files' = [p \in Paths |-> IF p \in back THEN job.snapshots[p] ELSE files[p]]
      /\ Goto(IF clean THEN "capture" ELSE "fail")
  BY DEF rollbackAppliedPaths, At
<1>2. clean => WrittenPaths = back /\ job.conflicts # {}
  BY DEF WrittenPaths, Applied
<1> HIDE DEF kept, back, clean
<1>3. /\ job'.changes = job.changes /\ job'.snapshots = job.snapshots /\ job'.written = job.written
      /\ job'.conflicts = job.conflicts /\ job'.touched = job.touched /\ DOMAIN job' = DOMAIN job
      /\ job'.pc = IF clean THEN "capture" ELSE "fail"
  BY <1>1 DEF WritebackInv, Shapes, Goto
<1>4. JobInv'
  BY <1>1, <1>2, <1>3 DEF WritebackInv, JobInv, Early, Late, Current, ChangesOf
<1>5. ConflictLeavesNoTrace'
  <2> SUFFICES ASSUME clean, NEW p \in DOMAIN job.snapshots \ job.touched
               PROVE  files'[p] = job.snapshots[p]
    BY <1>3 DEF ConflictLeavesNoTrace
  <2>1. p \in Paths
    BY DEF WritebackInv, JobInv
  <2>2. p \in back \/ files[p] = job.snapshots[p]
    BY <1>1, <1>2 DEF WritebackInv, TraceInv, Untouched
  <2> QED BY <1>1, <2>1, <2>2
<1>6. TraceInv'
  BY <1>3, <1>5 DEF TraceInv
<1>7. SpentStep /\ DOMAIN files' = Paths
  BY <1>1 DEF SpentStep
<1> QED BY <1>1, <1>3, <1>4, <1>6, <1>7, QuietStep DEF WritebackInv, Shapes

\* The draft of a conflict holds the files that conflict: there is at least one.
LEMMA CaptureStep == WritebackInv /\ Capture => WritebackInv'
<1> SUFFICES ASSUME WritebackInv, Capture PROVE WritebackInv'
  OBVIOUS
<1> DEFINE view == [p \in job.conflicts |-> [ choice |-> "open", seen |-> files[p] ]]
<1>1. queue # <<>> /\ job.pc = "capture" /\ UNCHANGED <<files, sessions>> /\ Settle("conflicted", view)
  BY DEF Capture, At
<1>2. DOMAIN view \subseteq PathsOf(ChangeSets[Current.rec]) /\ DOMAIN view # {}
  BY <1>1 DEF WritebackInv, JobInv
<1> HIDE DEF view
<1>3. view # NoView
  BY <1>2, ViewIsSome
<1> QED BY <1>1, <1>2, <1>3, SettleStep

LEMMA SucceedStep == WritebackInv /\ Succeed => WritebackInv'
<1> SUFFICES ASSUME WritebackInv, Succeed PROVE WritebackInv'
  OBVIOUS
<1>1. queue # <<>> /\ UNCHANGED <<files, sessions>> /\ Settle("applied", NoView)
  BY DEF Succeed, At
<1> QED BY <1>1, SettleStep

LEMMA FailingStep == WritebackInv /\ Fail => WritebackInv'
<1> SUFFICES ASSUME WritebackInv, Fail PROVE WritebackInv'
  OBVIOUS
<1>1. queue # <<>> /\ UNCHANGED <<files, sessions>> /\ Settle("failed", record[Current.rec].view)
  BY DEF Fail, At
<1>2. record[Current.rec].view # NoView => DOMAIN record[Current.rec].view \subseteq PathsOf(ChangeSets[Current.rec])
  BY <1>1, CurrentIn DEF WritebackInv, RecordInv
<1> QED BY <1>1, <1>2, SettleStep

-----------------------------------------------------------------------------
(* The environment. *)

LEMMA OutsideEditStep == \A p \in Paths : WritebackInv /\ OutsideEdit(p) => WritebackInv'
<1> SUFFICES ASSUME NEW p \in Paths, WritebackInv, OutsideEdit(p) PROVE WritebackInv'
  OBVIOUS
<1>1. /\ UNCHANGED <<record, queue, sessions>> /\ Spend("edits")
      /\ \E file \in Edits(p) : files' = [files EXCEPT ![p] = file]
  BY DEF OutsideEdit
<1>2. DOMAIN files' = Paths /\ \A q \in Paths : q # p => files'[q] = files[q]
  BY <1>1 DEF WritebackInv, Shapes
<1>3. /\ job'.changes = job.changes /\ job'.snapshots = job.snapshots /\ job'.written = job.written
      /\ job'.conflicts = job.conflicts /\ job'.pc = job.pc /\ DOMAIN job' = DOMAIN job
      /\ job.pc = "idle" => job' = job
      /\ job.pc # "idle" => job'.touched = job.touched \cup {p}
  BY DEF OutsideEdit, WritebackInv, Shapes
<1>4. JobInv'
  BY <1>1, <1>3 DEF WritebackInv, JobInv, Current, ChangesOf
<1>5. ASSUME NEW q \in DOMAIN job'.snapshots \ job'.touched, job.pc # "idle"
      PROVE  files'[q] = files[q] /\ q \in DOMAIN job.snapshots \ job.touched
  <2>1. q # p /\ q \in DOMAIN job.snapshots \ job.touched /\ q \in Paths
    BY <1>3, <1>5 DEF WritebackInv, JobInv
  <2> QED BY <2>1, <1>2
<1>6. WrittenPaths' = WrittenPaths
  BY <1>3 DEF WrittenPaths
<1>7. TraceInv'
  BY <1>3, <1>5, <1>6 DEF WritebackInv, TraceInv, Untouched, ConflictLeavesNoTrace
<1>8. SpentStep
  BY <1>1 DEF SpentStep, Spend, WritebackInv, Shapes
<1> QED BY <1>1, <1>2, <1>3, <1>4, <1>7, <1>8, QuietStep DEF WritebackInv

LEMMA CrashStep == WritebackInv /\ Crash => WritebackInv'
<1> SUFFICES ASSUME WritebackInv, Crash PROVE WritebackInv'
  OBVIOUS
<1>1. /\ Fault("crashes") /\ queue' = <<>> /\ job' = NoJob /\ UNCHANGED <<files, sessions>>
      /\ record' = [r \in Records |-> [record[r] EXCEPT !.status = Recovered(@)]]
  BY DEF Crash
<1>2. SpentStep
  BY <1>1, FaultIsSpent DEF WritebackInv
<1>3. \A r \in Records : /\ record'[r].view = record[r].view /\ DOMAIN record'[r] = {"status", "view"}
                         /\ record'[r].status = Recovered(record[r].status)
  BY <1>1 DEF WritebackInv, Shapes
<1>4. Shapes'
  <2>1. queue' \in Seq({})
    BY <1>1
  <2> QED BY <1>1, <1>2, <1>3, <2>1, SpentShape DEF WritebackInv, Shapes, NoJob
<1>5. RecordInv'
  BY <1>3 DEF WritebackInv, RecordInv, Recovered, Statuses, Resolvable, InFlight
<1>6. DOMAIN queue' = {} /\ Operations' = {}
  BY <1>1 DEF Operations
<1>7. QueueInv'
  BY <1>6 DEF QueueInv
<1>8. JobInv'
  BY <1>1 DEF JobInv, NoJob, Early
<1>9. TraceInv'
  BY <1>1 DEF TraceInv, NoJob, ConflictLeavesNoTrace
<1>10. InFlightIsDriven'
  BY <1>3 DEF InFlightIsDriven, Recovered, InFlight
<1> QED BY <1>4, <1>5, <1>7, <1>8, <1>9, <1>10 DEF WritebackInv

-----------------------------------------------------------------------------
(* The invariant, and what follows from it. *)

LEMMA UserStep ==
    \A r \in Records :
        WritebackInv /\ (enqueue(r) \/ retryMerge(r) \/ useSession(r) \/ applyConfirmedConflict(r)) => WritebackInv'
<1> SUFFICES ASSUME NEW r \in Records, WritebackInv,
                    enqueue(r) \/ retryMerge(r) \/ useSession(r) \/ applyConfirmedConflict(r)
             PROVE  WritebackInv'
  OBVIOUS
<1>1. ChangesOf(r, ChangeSets[r]) /\ ChangesOf(r, ResolvedChanges(r))
  BY OwnChanges, ResolvedChangesOf
<1>2. CASE enqueue(r)
  BY <1>1, <1>2, SubmitStep DEF enqueue
<1>3. CASE retryMerge(r)
  BY <1>1, <1>3, SubmitStep DEF retryMerge, CanResolve
<1>4. CASE useSession(r)
  BY <1>1, <1>4, SubmitStep DEF useSession, CanResolve
<1>5. CASE applyConfirmedConflict(r)
  BY <1>1, <1>5, SubmitStep DEF applyConfirmedConflict, CanResolve
<1> QED BY <1>2, <1>3, <1>4, <1>5

LEMMA ControlStep ==
    \A r \in Records :
        WritebackInv /\ (Pause(r) \/ Resume(r) \/ BeginDelete(r) \/ FinishDelete(r) \/ Restore(r)) => WritebackInv'
<1> SUFFICES ASSUME NEW r \in Records, WritebackInv,
                    Pause(r) \/ Resume(r) \/ BeginDelete(r) \/ FinishDelete(r) \/ Restore(r)
             PROVE  WritebackInv'
  OBVIOUS
<1>1. CASE Pause(r)
  <2>1. SpentStep /\ SetSession(r, "paused") /\ UNCHANGED <<files, record, queue, job>>
    BY <1>1, FaultIsSpent DEF Pause, WritebackInv
  <2> QED BY <2>1, SessionStep
<1>2. CASE Resume(r)
  BY <1>2, SessionStep DEF Resume, SpentStep
<1>3. CASE BeginDelete(r)
  BY <1>3, SessionStep DEF BeginDelete, SpentStep
<1>4. CASE FinishDelete(r)
  BY <1>4, FinishDeleteStep
<1>5. CASE Restore(r)
  <2>1. r \notin Operations
    BY <1>5 DEF Restore, WritebackInv, QueueInv
  <2> QED BY <1>5, <2>1, SessionStep DEF Restore, SpentStep
<1> QED BY <1>1, <1>2, <1>3, <1>4, <1>5

LEMMA ApplyStep == WritebackInv /\ Apply => WritebackInv'
BY BeginStep, PrepareStep, MergeStep, ValidateStep, SnapshotStep, CheckStep, WriteStep, WriteErrorStep,
   RollbackStep, CaptureStep, SucceedStep, FailingStep DEF Apply

LEMMA InvNext == WritebackInv /\ [Next]_vars => WritebackInv'
<1> SUFFICES ASSUME WritebackInv, [Next]_vars PROVE WritebackInv'
  OBVIOUS
<1>1. CASE Apply
  BY <1>1, ApplyStep
<1>2. ASSUME NEW r \in Records, enqueue(r) \/ retryMerge(r) \/ useSession(r) \/ applyConfirmedConflict(r)
      PROVE  WritebackInv'
  BY <1>2, UserStep
<1>3. ASSUME NEW r \in Records, abandon(r)
      PROVE  WritebackInv'
  BY <1>3, AbandonStep
<1>4. ASSUME NEW r \in Records, NEW p \in Paths, NEW choice \in {"ours", "theirs"}, saveConflictFile(r, p, choice)
      PROVE  WritebackInv'
  BY <1>4, SaveStep
<1>5. ASSUME NEW r \in Closable, Pause(r) \/ Resume(r) \/ BeginDelete(r) \/ FinishDelete(r) \/ Restore(r)
      PROVE  WritebackInv'
  BY <1>5, ControlStep, ChangeSetsAssumption
<1>6. ASSUME NEW p \in Paths, OutsideEdit(p)
      PROVE  WritebackInv'
  BY <1>6, OutsideEditStep
<1>7. CASE Crash
  BY <1>7, CrashStep
<1>8. CASE UNCHANGED vars
  <2>1. SpentStep /\ UNCHANGED <<files, record, queue, sessions, job, spent>>
    BY <1>8 DEF vars, SpentStep
  <2>2. DOMAIN files' = Paths /\ DOMAIN job' = DOMAIN job
    BY <2>1 DEF WritebackInv, Shapes
  <2> QED BY <2>1, <2>2, QuietStep, JobFrame DEF WritebackInv
<1> QED BY <1>1, <1>2, <1>3, <1>4, <1>5, <1>6, <1>7, <1>8 DEF Next

\* The records, the queue, the operation and the Sessions fit together, in every
\* reachable state of every instance.
THEOREM WritebackInvariance == Spec => []WritebackInv
<1>1. Init => WritebackInv
  BY InvInit
<1>2. WritebackInv /\ [Next]_vars => WritebackInv'
  BY InvNext
<1> QED BY <1>1, <1>2, PTL DEF Spec

\* A conflict that is found after the first write leaves every file as it was
\* before the batch, except where somebody edited it meanwhile
\* (rollbackAppliedPaths, and its catch when a file changed since).
THEOREM ConflictsLeaveNoTrace == Spec => []ConflictLeavesNoTrace
<1>1. WritebackInv => ConflictLeavesNoTrace
  BY DEF WritebackInv, TraceInv
<1> QED BY <1>1, WritebackInvariance, PTL

\* A record in flight has an operation in the queue of its workspace that will
\* settle it, also after a restart, unless an update of a record failed.
THEOREM InFlightAreDriven == Spec => []InFlightIsDriven
<1>1. WritebackInv => InFlightIsDriven
  BY DEF WritebackInv
<1> QED BY <1>1, WritebackInvariance, PTL

\* The files are written by Write and taken back by rollbackAppliedPaths.
LEMMA ServerWritesAre ==
    ASSUME WritebackInv, Next, NEW p \in Paths, ServerWrites(p)
    PROVE  Write \/ rollbackAppliedPaths
<1>1. files' # files /\ spent'.edits = spent.edits /\ spent'.errors = spent.errors
  BY DEF ServerWrites
<1>2. CASE Apply
  <2>1. ~WriteError
    BY <1>1 DEF WriteError, Fault, Spend, WritebackInv, Shapes
  <2> QED BY <1>1, <1>2, <2>1 DEF Apply, Begin, Prepare, Merge, Validate, Snapshot, Check,
          Capture, Succeed, Fail
<1>3. ASSUME NEW q \in Paths, OutsideEdit(q) PROVE FALSE
  BY <1>1, <1>3 DEF OutsideEdit, Spend, WritebackInv, Shapes
<1>4. CASE Crash
  BY <1>1, <1>4 DEF Crash
<1>5. ASSUME NEW r \in Records,
             \/ enqueue(r) \/ abandon(r) \/ retryMerge(r) \/ useSession(r) \/ applyConfirmedConflict(r)
             \/ \E q \in Paths, choice \in {"ours", "theirs"} : saveConflictFile(r, q, choice)
      PROVE  FALSE
  BY <1>1, <1>5 DEF enqueue, abandon, retryMerge, useSession, applyConfirmedConflict, saveConflictFile
<1>6. ASSUME NEW r \in Closable, Pause(r) \/ Resume(r) \/ BeginDelete(r) \/ FinishDelete(r) \/ Restore(r)
      PROVE  FALSE
  BY <1>1, <1>6 DEF Pause, Resume, BeginDelete, FinishDelete, Restore
<1> QED BY <1>2, <1>3, <1>4, <1>5, <1>6 DEF Next

\* The server writes nothing of a Session that is deleted, nor of one that is
\* restored afterwards: clearSessionDrafts waits for its operations, and a new one
\* needs an active generation.
THEOREM DeletedWriteNothing == Spec => DeletedWritesNothing
<1>1. WritebackInv /\ [Next]_vars =>
          [\A p \in Paths : ServerWrites(p) => sessions[Current.rec] \notin {"deleted", "restored"}]_vars
  <2> SUFFICES ASSUME WritebackInv, Next, NEW p \in Paths, ServerWrites(p)
               PROVE  sessions[Current.rec] \notin {"deleted", "restored"}
    OBVIOUS
  <2>1. queue # <<>>
    BY ServerWritesAre DEF Write, rollbackAppliedPaths, At
  <2> QED BY <2>1, CurrentIn DEF WritebackInv, QueueInv
<1> QED BY <1>1, WritebackInvariance, PTL DEF Spec, DeletedWritesNothing

-----------------------------------------------------------------------------
(* The types. *)

\* The records, the queue, the operation and the Sessions have their types: a
\* conflicted writeback has a draft to resolve it in.
THEOREM RecordsTypeCorrect == Spec => []RecordsOK
<1>1. WritebackInv => RecordsOK
  BY DEF WritebackInv, RecordsOK, Shapes, RecordInv, QueueInv, JobInv, Statuses
<1> QED BY <1>1, WritebackInvariance, PTL

\* A merge of texts is a text.
LEMMA MergesAreTexts ==
    ASSUME NEW base \in Seq(TextLine), NEW current \in Seq(TextLine), NEW candidate \in Seq(TextLine)
    PROVE  mergeWorkspaceText(base, current, candidate).content \in Seq(TextLine)
<1>1. TextLine = LinesFrom(STRING)
  BY DEF TextLine, LinesFrom
<1>2. mergeWorkspaceText(base, current, candidate) \in MergeResults(TextLine)
  BY <1>1, MergeType
<1> QED BY <1>2 DEF MergeResults

TypedChanges(changes) == \A i \in DOMAIN changes : changes[i] \in WorkspaceChange
TypedView(view) == \A p \in DOMAIN view : DOMAIN view[p] = {"choice", "seen"} /\ view[p].seen \in Files

\* An operation that writes has a snapshot of every file it writes.
JobTexts ==
    /\ TypedChanges(job.changes)
    /\ \A p \in DOMAIN job.snapshots : job.snapshots[p] \in Files
    /\ WrittenPaths \subseteq DOMAIN job.snapshots
    /\ job.pc \in {"check", "write"} => PathsOf(job.changes) \subseteq DOMAIN job.snapshots

TextInv ==
    /\ files \in [Paths -> Files]
    /\ \A r \in Records : TypedView(record[r].view)
    /\ \A i \in DOMAIN queue : TypedChanges(queue[i].changes)
    /\ JobTexts

LEMMA FilesOfTexts ==
    /\ Missing \in Files
    /\ \A text \in Seq(TextLine) : File(text) \in Files
    /\ \A file \in Files : file.text \in Seq(TextLine) /\ file.exists \in BOOLEAN
BY DEF Missing, File, Files

\* A text with one line replaced is a text.
LEMMA EditedFile ==
    ASSUME NEW file \in Files, NEW i \in DOMAIN file.text, NEW line \in TextLine
    PROVE  WithLine(file, i, line) \in Files
<1>1. file.text \in [1..Len(file.text) -> TextLine] /\ Len(file.text) \in Nat
  BY FilesOfTexts
<1>2. [file.text EXCEPT ![i] = line] \in [1..Len(file.text) -> TextLine]
  BY <1>1
<1>3. [file.text EXCEPT ![i] = line] \in Seq(TextLine)
  BY <1>1, <1>2
<1> QED BY <1>3 DEF Files, WithLine

LEMMA ChangeSetsTyped == \A r \in Records : TypedChanges(ChangeSets[r])
BY ChangeSetsAssumption DEF TypedChanges

LEMMA ForcedTyped ==
    ASSUME files \in [Paths -> Files], NEW changes, TypedChanges(changes)
    PROVE  TypedChanges(Forced(changes))
BY DEF TypedChanges, Forced, WorkspaceChange

LEMMA MergedTyped ==
    ASSUME files \in [Paths -> Files], NEW changes, TypedChanges(changes)
    PROVE  TypedChanges(MergedChanges(changes))
<1> SUFFICES ASSUME NEW i \in DOMAIN MergedChanges(changes)
             PROVE  MergedChanges(changes)[i] \in WorkspaceChange
  BY DEF TypedChanges
<1> DEFINE c == changes[i]
<1>1. c \in WorkspaceChange
  BY DEF MergedChanges, TypedChanges
<1>2. MergedChanges(changes)[i] =
          IF NeedsMerge(c) THEN [c EXCEPT !.text = MergeOf(c).content, !.expected = files[c.path]] ELSE c
  BY DEF MergedChanges
<1> HIDE DEF c
<1>3. c.path \in Paths /\ c.text \in Seq(TextLine) /\ c.expected \in Files
  BY <1>1 DEF WorkspaceChange
<1>4. files[c.path] \in Files
  BY <1>3
<1>5. MergeOf(c).content \in Seq(TextLine)
  BY <1>3, <1>4, FilesOfTexts, MergesAreTexts DEF MergeOf
<1>6. [c EXCEPT !.text = MergeOf(c).content, !.expected = files[c.path]] \in WorkspaceChange
  <2> DEFINE content == MergeOf(c).content
  <2> HIDE DEF content
  <2>1. content \in Seq(TextLine)
    BY <1>5 DEF content
  <2>2. [c EXCEPT !.text = content, !.expected = files[c.path]] \in WorkspaceChange
    BY <1>1, <1>4, <2>1 DEF WorkspaceChange
  <2> QED BY <2>2 DEF content
<1> QED BY <1>1, <1>2, <1>6

LEMMA ResolvedTyped ==
    ASSUME NEW r \in Records, TypedView(record[r].view)
    PROVE  TypedChanges(ResolvedChanges(r))
<1>1. TypedChanges(ChangeSets[r])
  BY ChangeSetsTyped
<1> QED BY <1>1 DEF TypedChanges, TypedView, ResolvedChanges, WorkspaceChange

\* The parts of TextInv that a step disturbs.
LEMMA TextFrames ==
    ASSUME WritebackInv, TextInv
    PROVE  /\ UNCHANGED record => \A r \in Records : TypedView(record[r].view)'
           /\ UNCHANGED queue => (\A i \in DOMAIN queue : TypedChanges(queue[i].changes))'
           /\ job' \in {job, NoJob} => JobTexts'
<1>1. UNCHANGED record => \A r \in Records : TypedView(record[r].view)'
  BY DEF TextInv, TypedView
<1>2. UNCHANGED queue => (\A i \in DOMAIN queue : TypedChanges(queue[i].changes))'
  BY DEF TextInv, TypedChanges
<1>3. UNCHANGED job => JobTexts'
  BY DEF TextInv, JobTexts, TypedChanges, WrittenPaths, PathsOf
<1>4. job' = NoJob => JobTexts'
  BY DEF NoJob, JobTexts, TypedChanges, WrittenPaths
<1> QED BY <1>1, <1>2, <1>3, <1>4

LEMMA TextSubmit ==
    ASSUME WritebackInv, TextInv, NEW r \in Records, NEW mode, NEW changes, TypedChanges(changes),
           SetStatus(r, "queued"), Submit(r, mode, changes), UNCHANGED <<files, job, sessions, spent>>
    PROVE  TextInv'
<1> DEFINE item == [ rec |-> r, mode |-> mode, changes |-> changes ]
<1>1. PICK Items : queue \in Seq(Items)
  BY DEF WritebackInv, Shapes
<1>2. \A i \in DOMAIN queue' : (i \in DOMAIN queue /\ queue'[i] = queue[i]) \/ queue'[i] = item
  <2>1. queue' = Append(queue, item)
    BY DEF Submit
  <2> HIDE DEF item
  <2> QED BY <1>1, <2>1, AppendOperations
<1>3. \A i \in DOMAIN queue' : TypedChanges(queue'[i].changes)
  BY <1>2 DEF TextInv
<1>4. \A s \in Records : record'[s].view = record[s].view
  BY DEF WritebackInv, Shapes, SetStatus
<1>5. \A s \in Records : TypedView(record'[s].view)
  BY <1>4 DEF TextInv, TypedView
<1> QED BY <1>3, <1>5, TextFrames DEF TextInv, TypedChanges, TypedView

LEMMA TextSettle ==
    ASSUME WritebackInv, TextInv, queue # <<>>, NEW status, NEW view, TypedView(view),
           Settle(status, view), UNCHANGED <<files, sessions>>
    PROVE  TextInv'
<1>1. PICK Items : queue \in Seq(Items)
  BY DEF WritebackInv, Shapes
<1>2. \A i \in DOMAIN queue' : i + 1 \in DOMAIN queue /\ queue'[i] = queue[i + 1]
  BY <1>1, TailOperations DEF Settle, Leave
<1>3. \A i \in DOMAIN queue' : TypedChanges(queue'[i].changes)
  BY <1>2 DEF TextInv
<1>4. job' = NoJob
  BY DEF Settle, Leave
<1>5. \A r \in Records : TypedView(record'[r].view)
  <2>1. \A r \in Records : record'[r].view = record[r].view \/ record'[r].view = view
    <3>1. CASE SetRecord(Current.rec, status, view)
      BY <3>1, CurrentIn DEF WritebackInv, Shapes, SetRecord
    <3>2. CASE UNCHANGED record
      BY <3>2
    <3> QED BY <3>1, <3>2 DEF Settle
  <2> QED BY <2>1 DEF TextInv, TypedView
<1> QED BY <1>3, <1>4, <1>5, TextFrames DEF TextInv, TypedChanges, TypedView

\* An operation that fails keeps its changes and its snapshots.
LEMMA TextFail ==
    ASSUME WritebackInv, TextInv, Goto("fail")
    PROVE  JobTexts'
<1>1. /\ job'.changes = job.changes /\ job'.snapshots = job.snapshots /\ job'.written = job.written
      /\ job'.pc = "fail"
  BY DEF WritebackInv, Shapes, Goto
<1> QED BY <1>1 DEF TextInv, JobTexts, TypedChanges, WrittenPaths

\* So does one that has written nothing and goes on with typed changes.
LEMMA TextEarly ==
    ASSUME WritebackInv, TextInv, job.pc \in Early, job'.pc \in Early \cup {"capture"},
           TypedChanges(job'.changes), job'.snapshots = job.snapshots, job'.written = job.written
    PROVE  JobTexts'
<1>1. job'.written = {} /\ job'.pc \notin {"check", "write"}
  BY DEF WritebackInv, JobInv, Early
<1> QED BY <1>1 DEF TextInv, JobTexts, TypedChanges, WrittenPaths

LEMMA TextAdvance ==
    ASSUME WritebackInv, TextInv, queue # <<>>, NEW status, NEW next, Advance(status, next),
           UNCHANGED <<files, queue, sessions>>,
           job.pc \in Early, next.pc \in Early, TypedChanges(next.changes),
           next.snapshots = job.snapshots, next.written = job.written
    PROVE  TextInv'
<1>1. \A r \in Records : TypedView(record'[r].view)
  <2>1. \A r \in Records : record'[r].view = record[r].view
    BY DEF WritebackInv, Shapes, Advance, SetStatus
  <2> QED BY <2>1 DEF TextInv, TypedView
<1>2. JobTexts'
  <2>1. CASE Goto("fail")
    BY <2>1, TextFail
  <2>2. CASE job' = next
    BY <2>2, TextEarly
  <2> QED BY <2>1, <2>2 DEF Advance
<1> QED BY <1>1, <1>2, TextFrames DEF TextInv, TypedChanges, TypedView

\* A step of apply or of its parts keeps the texts.
LEMMA TextApply ==
    ASSUME WritebackInv, TextInv, Apply
    PROVE  TextInv'
<1>1. queue # <<>>
  BY DEF Apply, Begin, Prepare, Merge, Validate, Snapshot, Check, Write, WriteError,
         rollbackAppliedPaths, Capture, Succeed, Fail, At
<1>2. TypedView(record[Current.rec].view) /\ TypedChanges(Current.changes) /\ TypedView(NoView)
  <2>1. PICK Items : queue \in Seq(Items)
    BY DEF WritebackInv, Shapes
  <2>2. TypedChanges(Current.changes)
    BY <1>1, <2>1, HeadOperation DEF TextInv
  <2> QED BY <1>1, <2>2, CurrentIn DEF TextInv, TypedView, NoView
<1>3. CASE Begin
  <2>1. CASE Admitted(Current.rec)
    <3> DEFINE next == [job EXCEPT !.pc = "prepare"]
    <3>1. /\ next.pc = "prepare" /\ next.changes = job.changes /\ next.snapshots = job.snapshots
          /\ next.written = job.written
      BY DEF WritebackInv, Shapes
    <3>2. Advance("merging", next) /\ UNCHANGED <<files, queue, sessions>> /\ job.pc = "idle"
      BY <1>3, <2>1 DEF Begin, At
    <3> HIDE DEF next
    <3> QED BY <1>1, <3>1, <3>2, TextAdvance DEF Early, TextInv, JobTexts
  <2>2. CASE ~Admitted(Current.rec)
    BY <1>1, <1>2, <1>3, <2>2, TextSettle DEF Begin
  <2> QED BY <2>1, <2>2
<1>4. CASE Prepare
  <2> DEFINE changes == IF Current.mode = "force" THEN Forced(Current.changes) ELSE Current.changes
             next == [job EXCEPT !.pc = "merge", !.changes = changes]
  <2>1. TypedChanges(changes)
    BY <1>2, ForcedTyped DEF TextInv
  <2>2. Advance("applying", next) /\ UNCHANGED <<files, queue, sessions>> /\ job.pc = "prepare"
    BY <1>4 DEF Prepare, At
  <2> HIDE DEF changes
  <2>3. /\ next.pc = "merge" /\ next.changes = changes /\ next.snapshots = job.snapshots
        /\ next.written = job.written
    BY DEF WritebackInv, Shapes
  <2> HIDE DEF next
  <2> QED BY <1>1, <2>1, <2>2, <2>3, TextAdvance DEF Early
<1>5. CASE Merge
  <2> DEFINE conflicts == MergeConflicts(job.changes)
             merged == MergedChanges(job.changes)
  <2>1. TypedChanges(merged) /\ TypedChanges(job.changes)
    BY MergedTyped DEF TextInv, JobTexts
  <2>2. /\ job.pc = "merge" /\ UNCHANGED <<files, record, queue, sessions, spent>>
        /\ job' = IF conflicts # {} THEN [job EXCEPT !.pc = "capture", !.conflicts = conflicts]
                                    ELSE [job EXCEPT !.pc = "validate", !.changes = merged]
    BY <1>5 DEF Merge, At
  <2> HIDE DEF conflicts, merged
  <2>3. /\ job'.pc \in {"validate", "capture"} /\ job'.changes \in {merged, job.changes}
        /\ job'.snapshots = job.snapshots /\ job'.written = job.written
    BY <2>2 DEF WritebackInv, Shapes
  <2>4. JobTexts'
    BY <2>1, <2>2, <2>3, TextEarly DEF Early
  <2> QED BY <2>2, <2>4, TextFrames DEF TextInv
<1>6. CASE Validate
  <2> DEFINE conflicts == {c.path : c \in {d \in Range(job.changes) : Conflicts(d)}}
  <2>1. TypedChanges(job.changes)
    BY DEF TextInv, JobTexts
  <2>2. /\ job.pc = "validate" /\ UNCHANGED <<files, record, queue, sessions, spent>>
        /\ job' = IF conflicts # {} THEN [job EXCEPT !.pc = "capture", !.conflicts = conflicts]
                                    ELSE [job EXCEPT !.pc = "snapshot"]
    BY <1>6 DEF Validate, At
  <2> HIDE DEF conflicts
  <2>3. /\ job'.pc \in {"snapshot", "capture"} /\ job'.changes = job.changes
        /\ job'.snapshots = job.snapshots /\ job'.written = job.written
    BY <2>2 DEF WritebackInv, Shapes
  <2>4. JobTexts'
    BY <2>1, <2>2, <2>3, TextEarly DEF Early
  <2> QED BY <2>2, <2>4, TextFrames DEF TextInv
<1>7. CASE Snapshot
  <2> DEFINE taken == [p \in PathsOf(job.changes) |-> files[p]]
             pc == AfterWrites({})
  <2>1. /\ job' = [job EXCEPT !.pc = pc, !.snapshots = taken]
        /\ job.pc = "snapshot" /\ UNCHANGED <<files, record, queue, sessions, spent>>
    BY <1>7 DEF Snapshot, At
  <2>2. DOMAIN taken = PathsOf(job.changes) /\ \A p \in DOMAIN taken : taken[p] = files[p]
    OBVIOUS
  <2>3. PathsOf(job.changes) \subseteq Paths
    BY DEF PathsOf, TextInv, JobTexts, TypedChanges, WorkspaceChange
  <2> HIDE DEF taken, pc
  <2>4. job'.changes = job.changes /\ job'.snapshots = taken /\ job'.written = job.written
    BY <2>1 DEF WritebackInv, Shapes
  <2>5. job.written = {}
    BY <2>1 DEF WritebackInv, JobInv, Early
  <2>6. JobTexts'
    BY <2>2, <2>3, <2>4, <2>5 DEF TextInv, JobTexts, TypedChanges, WrittenPaths, PathsOf
  <2> QED BY <2>1, <2>6, TextFrames DEF TextInv
<1>8. CASE Check
  <2>1. /\ job'.changes = job.changes /\ job'.snapshots = job.snapshots /\ job'.written = job.written
        /\ job.pc = "check" /\ UNCHANGED <<files, record, queue>>
    BY <1>8 DEF Check, At, WritebackInv, Shapes
  <2>2. JobTexts'
    BY <2>1 DEF TextInv, JobTexts, TypedChanges, WrittenPaths, PathsOf
  <2> QED BY <2>1, <2>2, TextFrames DEF TextInv
<1>9. CASE Write
  <2>1. /\ job.pc = "write" /\ UNCHANGED <<record, queue>>
        /\ files' = [files EXCEPT ![NextChange.path] = Written(NextChange)]
    BY <1>9 DEF Write, At
  <2>2. NextPosition \in DOMAIN job.changes \ job.written /\ NextChange \in WorkspaceChange
    BY <1>1, <2>1, NextChangeIn DEF NextChange, TextInv, JobTexts, TypedChanges
  <2>3. Written(NextChange) \in Files
    BY <2>2, FilesOfTexts DEF Written, WorkspaceChange
  <2>4. files' \in [Paths -> Files]
    BY <2>1, <2>3 DEF TextInv
  <2>5. /\ job'.changes = job.changes /\ job'.snapshots = job.snapshots
        /\ job'.written = job.written \cup {NextPosition}
    BY <1>9 DEF Write, WritebackInv, Shapes
  <2>6. WrittenPaths' = WrittenPaths \cup {NextChange.path} /\ NextChange.path \in PathsOf(job.changes)
    BY <2>2, <2>5 DEF WrittenPaths, NextChange, PathsOf
  <2>7. JobTexts'
    BY <2>1, <2>5, <2>6 DEF TextInv, JobTexts, TypedChanges, PathsOf
  <2> QED BY <2>1, <2>4, <2>7, TextFrames DEF TextInv
<1>10. CASE WriteError
  <2>1. job.pc = "write" /\ UNCHANGED <<record, queue>> /\ Goto("rollback")
    BY <1>10 DEF WriteError, At
  <2>2. File(<<>>) \in Files
    <3>1. <<>> \in Seq(TextLine)
      OBVIOUS
    <3> QED BY <3>1, FilesOfTexts
  <2>3. files' \in [Paths -> Files]
    BY <1>10, <2>2 DEF WriteError, TextInv
  <2>4. /\ job'.changes = job.changes /\ job'.snapshots = job.snapshots /\ job'.written = job.written
        /\ job'.pc = "rollback"
    BY <2>1 DEF Goto, WritebackInv, Shapes
  <2>5. JobTexts'
    BY <2>4 DEF TextInv, JobTexts, TypedChanges, WrittenPaths
  <2> QED BY <2>1, <2>3, <2>5, TextFrames DEF TextInv
<1>11. CASE rollbackAppliedPaths
  <2> DEFINE kept == {c \in Applied : files[c.path] = Written(c)}
             back == {c.path : c \in kept}
  <2>1. back \subseteq WrittenPaths
    BY DEF WrittenPaths, Applied
  <2>2. /\ job.pc = "rollback" /\ UNCHANGED <<record, queue>>
        /\ files' = [p \in Paths |-> IF p \in back THEN job.snapshots[p] ELSE files[p]]
        /\ \E pc \in {"fail", "capture"} : Goto(pc)
    BY <1>11 DEF rollbackAppliedPaths, At
  <2> HIDE DEF back, kept
  <2>3. files' \in [Paths -> Files]
    BY <2>1, <2>2 DEF TextInv, JobTexts
  <2>4. /\ job'.changes = job.changes /\ job'.snapshots = job.snapshots /\ job'.written = job.written
        /\ job'.pc \notin {"check", "write"}
    BY <2>2 DEF Goto, WritebackInv, Shapes
  <2>5. JobTexts'
    BY <2>4 DEF TextInv, JobTexts, TypedChanges, WrittenPaths
  <2> QED BY <2>2, <2>3, <2>5, TextFrames DEF TextInv
<1>12. CASE Capture
  <2> DEFINE view == [p \in job.conflicts |-> [ choice |-> "open", seen |-> files[p] ]]
  <2>1. Settle("conflicted", view) /\ UNCHANGED <<files, sessions>>
    BY <1>12 DEF Capture
  <2>2. job.conflicts \subseteq Paths
    BY <1>1, CurrentIn, OwnChanges DEF WritebackInv, JobInv
  <2>3. TypedView(view)
    BY <2>2 DEF TypedView, TextInv
  <2> QED BY <1>1, <2>1, <2>3, TextSettle
<1>13. CASE Succeed
  BY <1>1, <1>2, <1>13, TextSettle DEF Succeed
<1>14. CASE Fail
  BY <1>1, <1>2, <1>14, TextSettle DEF Fail
<1> QED BY <1>3, <1>4, <1>5, <1>6, <1>7, <1>8, <1>9, <1>10, <1>11, <1>12, <1>13, <1>14 DEF Apply

LEMMA TextUser ==
    ASSUME WritebackInv, TextInv, NEW r \in Records,
           \/ enqueue(r) \/ abandon(r) \/ retryMerge(r) \/ useSession(r) \/ applyConfirmedConflict(r)
           \/ \E p \in Paths, choice \in {"ours", "theirs"} : saveConflictFile(r, p, choice)
    PROVE  TextInv'
<1>1. TypedChanges(ChangeSets[r]) /\ TypedChanges(ResolvedChanges(r))
  BY ChangeSetsTyped, ResolvedTyped DEF TextInv
<1>2. CASE enqueue(r)
  BY <1>1, <1>2, TextSubmit DEF enqueue
<1>3. CASE retryMerge(r)
  BY <1>1, <1>3, TextSubmit DEF retryMerge
<1>4. CASE useSession(r)
  BY <1>1, <1>4, TextSubmit DEF useSession
<1>5. CASE applyConfirmedConflict(r)
  BY <1>1, <1>5, TextSubmit DEF applyConfirmedConflict
<1>6. CASE abandon(r)
  <2>1. \A s \in Records : record'[s].view = record[s].view \/ record'[s].view = NoView
    BY <1>6 DEF abandon, SetRecord, WritebackInv, Shapes
  <2>2. \A s \in Records : TypedView(record'[s].view)
    BY <2>1 DEF TextInv, TypedView, NoView
  <2> QED BY <1>6, <2>2, TextFrames DEF abandon, TextInv, TypedView
<1>7. ASSUME NEW p \in Paths, NEW choice \in {"ours", "theirs"}, saveConflictFile(r, p, choice)
      PROVE  TextInv'
  <2>1. /\ p \in DOMAIN record[r].view /\ UNCHANGED <<files, queue, job>>
        /\ record' = [record EXCEPT ![r].view[p].choice = choice]
    BY <1>7 DEF saveConflictFile
  <2>2. \A s \in Records \ {r} : record'[s] = record[s]
    BY <2>1 DEF WritebackInv, Shapes
  <2>3. record'[r].view = [record[r].view EXCEPT ![p].choice = choice]
    BY <2>1 DEF WritebackInv, Shapes
  <2>4. TypedView(record'[r].view)
    <3> SUFFICES ASSUME NEW q \in DOMAIN record'[r].view
                 PROVE  DOMAIN record'[r].view[q] = {"choice", "seen"} /\ record'[r].view[q].seen \in Files
      BY DEF TypedView
    <3>1. q \in DOMAIN record[r].view
      BY <2>3
    <3>2. DOMAIN record[r].view[q] = {"choice", "seen"} /\ record[r].view[q].seen \in Files
      BY <3>1 DEF TextInv, TypedView
    <3>3. \/ record'[r].view[q] = record[r].view[q]
          \/ record'[r].view[q] = [record[r].view[q] EXCEPT !.choice = choice]
      BY <2>3, <3>1
    <3>4. CASE record'[r].view[q] = record[r].view[q]
      BY <3>2, <3>4
    <3>5. CASE record'[r].view[q] = [record[r].view[q] EXCEPT !.choice = choice]
      <4>1. "choice" # "seen"
        OBVIOUS
      <4>2. record'[r].view[q].seen = record[r].view[q].seen
        BY <3>2, <3>5, <4>1
      <4> QED BY <3>2, <3>5, <4>2
    <3> QED BY <3>3, <3>4, <3>5
  <2>5. \A s \in Records : TypedView(record'[s].view)
    BY <2>2, <2>4 DEF TextInv, TypedView
  <2> QED BY <2>1, <2>5, TextFrames DEF TextInv, TypedView
<1> QED BY <1>2, <1>3, <1>4, <1>5, <1>6, <1>7

LEMMA TextOutsideEdit ==
    ASSUME WritebackInv, TextInv, NEW p \in Paths, OutsideEdit(p)
    PROVE  TextInv'
<1>1. /\ UNCHANGED <<record, queue, sessions>>
      /\ \E file \in Edits(p) : files' = [files EXCEPT ![p] = file]
  BY DEF OutsideEdit
<1>2. Edits(p) \subseteq Files
  <2>1. files[p] \in Files /\ Baseline[p] \in Files /\ UserLines \subseteq TextLine
    BY ChangeSetsAssumption DEF TextInv
  <2>2. \A i \in DOMAIN files[p].text, line \in UserLines : WithLine(files[p], i, line) \in Files
    BY <2>1, EditedFile
  <2>3. \A line \in UserLines : File(<<line>>) \in Files
    <3>1. \A line \in TextLine : <<line>> \in Seq(TextLine)
      OBVIOUS
    <3> QED BY <2>1, <3>1, FilesOfTexts
  <2> DEFINE replaced == {WithLine(files[p], i, line) : i \in DOMAIN files[p].text, line \in UserLines}
             created == IF files[p].exists THEN {} ELSE {File(<<line>>) : line \in UserLines}
  <2>4. Edits(p) = (replaced \cup created \cup {Missing, Baseline[p]}) \ {files[p]}
    BY DEF Edits
  <2>5. replaced \subseteq Files
    BY <2>2
  <2>6. created \subseteq Files
    BY <2>3
  <2> HIDE DEF replaced, created
  <2> QED BY <2>1, <2>4, <2>5, <2>6, FilesOfTexts
<1>3. files' \in [Paths -> Files]
  BY <1>1, <1>2 DEF TextInv
<1>4. job'.changes = job.changes /\ job'.snapshots = job.snapshots /\ job'.written = job.written /\ job'.pc = job.pc
  BY DEF OutsideEdit, WritebackInv, Shapes
<1>5. JobTexts'
  BY <1>4 DEF TextInv, JobTexts, TypedChanges, WrittenPaths, PathsOf
<1> QED BY <1>1, <1>3, <1>5, TextFrames DEF TextInv

LEMMA TextNext ==
    ASSUME WritebackInv, TextInv, [Next]_vars
    PROVE  TextInv'
<1>1. CASE Apply
  BY <1>1, TextApply
<1>2. ASSUME NEW r \in Records,
             \/ enqueue(r) \/ abandon(r) \/ retryMerge(r) \/ useSession(r) \/ applyConfirmedConflict(r)
             \/ \E p \in Paths, choice \in {"ours", "theirs"} : saveConflictFile(r, p, choice)
      PROVE  TextInv'
  BY <1>2, TextUser
<1>3. ASSUME NEW r \in Closable, Pause(r) \/ Resume(r) \/ BeginDelete(r) \/ Restore(r)
      PROVE  TextInv'
  <2>1. UNCHANGED <<files, record, queue, job>>
    BY <1>3 DEF Pause, Resume, BeginDelete, Restore
  <2> QED BY <2>1, TextFrames DEF TextInv
<1>4. ASSUME NEW r \in Closable, FinishDelete(r)
      PROVE  TextInv'
  <2>1. \A s \in Records : record'[s].view = record[s].view \/ record'[s].view = NoView
    BY <1>4, ChangeSetsAssumption DEF FinishDelete, WritebackInv, Shapes
  <2>2. \A s \in Records : TypedView(record'[s].view)
    BY <2>1 DEF TextInv, TypedView, NoView
  <2> QED BY <1>4, <2>2, TextFrames DEF FinishDelete, TextInv, TypedView
<1>5. ASSUME NEW p \in Paths, OutsideEdit(p)
      PROVE  TextInv'
  BY <1>5, TextOutsideEdit
<1>6. CASE Crash
  <2>1. /\ queue' = <<>> /\ job' = NoJob /\ UNCHANGED files
        /\ \A r \in Records : record'[r].view = record[r].view
    BY <1>6 DEF Crash, WritebackInv, Shapes
  <2>2. \A r \in Records : TypedView(record'[r].view)
    BY <2>1 DEF TextInv, TypedView
  <2> QED BY <2>1, <2>2, TextFrames DEF TextInv, TypedView
<1>7. CASE UNCHANGED vars
  BY <1>7, TextFrames DEF vars, TextInv
<1> QED BY <1>1, <1>2, <1>3, <1>4, <1>5, <1>6, <1>7 DEF Next

\* The files stay texts, whatever is merged, forced, resolved, taken back or edited.
THEOREM TypeCorrect == Spec => []TypeOK
<1>1. Init => TextInv
  BY ChangeSetsAssumption
     DEF Init, TextInv, JobTexts, NoJob, NoView, TypedChanges, TypedView, WrittenPaths
<1>2. WritebackInv /\ TextInv /\ [Next]_vars => TextInv'
  BY TextNext
<1>3. WritebackInv /\ TextInv => TypeOK
  BY DEF WritebackInv, TextInv, TypeOK, RecordsOK, Shapes, RecordInv, QueueInv, JobInv, Statuses
<1> QED BY <1>1, <1>2, <1>3, WritebackInvariance, PTL DEF Spec

-----------------------------------------------------------------------------
(* The lines.  A last line without a newline runs into what a merge puts   *)
(* behind it, so what follows is about texts of whole lines.               *)

WholeLines ==
    /\ \A p \in Paths : EndsLines(Baseline[p].text)
    /\ \A r \in Records : \A i \in DOMAIN ChangeSets[r] : EndsLines(ChangeSets[r][i].text)
    /\ \A line \in UserLines : line.newline

Sound(file) == EndsLines(file.text) /\ (~file.exists => file = Missing)

SoundInv ==
    /\ \A p \in Paths : Sound(files[p])
    /\ \A r \in Records : \A p \in DOMAIN record[r].view : Sound(record[r].view[p].seen)
    /\ \A p \in DOMAIN job.snapshots : Sound(job.snapshots[p])

Seen(r, p, file) == p \in DOMAIN record[r].view /\ record[r].view[p].seen = file

\* An operation carries the change c of the Session of r as d: as it is, over whatever
\* the file was when it was forced, or over what the conflict editor showed.
Carries(r, mode, c, d) ==
    /\ d.path = c.path /\ d.text = c.text /\ (d.op = "delete" <=> c.op = "delete")
    /\ \/ d = c
       \/ ~d.based /\ mode = "force"
       \/ ~d.based /\ mode = "resolved" /\ Seen(r, c.path, d.expected)

\* The user decided against c, or saw it done.
LeftOut(r, c) ==
    /\ c.path \in DOMAIN record[r].view
    /\ \/ record[r].view[c.path].choice = "theirs"
       \/ c.op = "delete" /\ ~record[r].view[c.path].seen.exists
       \/ c.op # "delete" /\ record[r].view[c.path].seen.text = c.text

Submitted(r, mode, changes) ==
    /\ DOMAIN changes \subseteq DOMAIN ChangeSets[r]
    /\ \A i \in DOMAIN changes : Carries(r, mode, ChangeSets[r][i], changes[i])
    /\ \A i \in DOMAIN ChangeSets[r] \ DOMAIN changes : mode = "resolved" /\ LeftOut(r, ChangeSets[r][i])

\* A record has at most one operation, so the view that it was resolved from stays.
SubmitInv ==
    \A i \in DOMAIN queue :
        /\ record[queue[i].rec].status \in InFlight
        /\ \A j \in DOMAIN queue : queue[j].rec = queue[i].rec => i = j
        /\ Submitted(queue[i].rec, queue[i].mode, queue[i].changes)

Adds(c, text) == ToSet(c.text) \ LinesOf(Baseline[c.path]) \subseteq ToSet(text)

\* The merged change d does what c does, and of what others wrote it keeps what its
\* expected file has and brings nothing else.
Brings(r, mode, c, d) ==
    /\ d.path = c.path /\ (d.op = "delete" <=> c.op = "delete") /\ EndsLines(d.text)
    /\ c.op # "delete" => d.text = c.text \/ (c.op = "update" /\ Adds(c, d.text))
    /\ \/ d.op = "create" \/ mode = "force"
       \/ mode = "resolved" /\ Seen(r, c.path, d.expected)
       \/ ForeignLines(r, d.expected) \subseteq LinesOf(Written(d))
    /\ ForeignLines(r, Written(d)) \subseteq LinesOf(d.expected)
    /\ d.op # "update" => ForeignLines(r, Written(d)) = {}

Settled(c) ==
    \/ c.path \in job.touched
    \/ InEffect(c)
    \/ Current.mode = "resolved" /\ LeftOut(Current.rec, c)

OwnSet == ChangeSets[Current.rec]
Merging == job.pc \in {"validate", "snapshot", "check", "write", "succeed"}

JobLines ==
    /\ job.pc = "merge" \/ job.pc = "rollback" \/ Merging => DOMAIN job.changes \subseteq DOMAIN OwnSet
    /\ job.pc = "merge" => \A i \in DOMAIN job.changes : Carries(Current.rec, Current.mode, OwnSet[i], job.changes[i])
    /\ job.pc = "rollback" \/ Merging =>
           \A i \in DOMAIN job.changes : Brings(Current.rec, Current.mode, OwnSet[i], job.changes[i])
    /\ job.pc = "merge" \/ Merging =>
           \A i \in DOMAIN OwnSet : i \notin DOMAIN job.changes \/ i \in job.written => Settled(OwnSet[i])
    /\ job.pc = "write" /\ ~job.late => ~Conflicts(NextChange)
    /\ job.pc = "succeed" => DOMAIN job.changes \subseteq job.written

LineInv == SoundInv /\ SubmitInv /\ JobLines

-----------------------------------------------------------------------------
(* What an edit, a record and a frame leave of the lines.                  *)

LEMMA SoundFiles ==
    /\ Sound(Missing)
    /\ \A text : EndsLines(text) => Sound(File(text))
    /\ EndsLines(<<>>)
    /\ WholeLines => \A p \in Paths : Sound(Baseline[p])
<1>1. EndsLines(<<>>)
  BY DEF EndsLines
<1>2. WholeLines => \A p \in Paths : Sound(Baseline[p])
  BY ChangeSetsAssumption DEF WholeLines, Sound
<1> QED BY <1>1, <1>2 DEF Sound, Missing, File

LEMMA EditsSound ==
    ASSUME WholeLines, TextInv, SoundInv, NEW p \in Paths, NEW file \in Edits(p)
    PROVE  Sound(file)
<1> DEFINE replaced == {WithLine(files[p], i, line) : i \in DOMAIN files[p].text, line \in UserLines}
           created == IF files[p].exists THEN {} ELSE {File(<<line>>) : line \in UserLines}
<1>1. file \in replaced \cup created \cup {Missing, Baseline[p]}
  BY DEF Edits
<1>2. files[p] \in Files /\ Sound(files[p])
  BY DEF TextInv, SoundInv
<1>3. ASSUME NEW i \in DOMAIN files[p].text, NEW line \in UserLines
      PROVE  Sound(WithLine(files[p], i, line))
  <2> DEFINE text == files[p].text
             edited == [text EXCEPT ![i] = line]
             whole == WithLine(files[p], i, line)
  <2>1. text \in [1..Len(text) -> TextLine] /\ Len(text) \in Nat /\ EndsLines(text) /\ line.newline
    BY <1>2, FilesOfTexts DEF Sound, WholeLines
  <2>2. line \in TextLine
    BY ChangeSetsAssumption
  <2>3. edited \in [1..Len(text) -> TextLine]
    BY <2>1, <2>2
  <2>4. Len(edited) = Len(text)
    BY <2>1, <2>3
  <2>5. EndsLines(edited)
    BY <2>1, <2>4 DEF EndsLines
  <2>6. files[p].exists
    <3>1. files[p] # Missing
      BY DEF Missing
    <3> QED BY <1>2, <3>1 DEF Sound
  <2>7. whole.text = edited /\ whole.exists
    BY <1>2, <2>6 DEF WithLine, Files
  <2> HIDE DEF whole
  <2>8. Sound(whole)
    BY <2>5, <2>7 DEF Sound
  <2> QED BY <2>8 DEF whole
<1>4. ASSUME NEW line \in UserLines PROVE Sound(File(<<line>>))
  <2>1. EndsLines(<<line>>)
    BY DEF EndsLines, WholeLines
  <2> QED BY <2>1, SoundFiles
<1>5. file \in replaced => Sound(file)
  BY <1>3
<1>6. file \in created => Sound(file)
  BY <1>4
<1> HIDE DEF replaced, created
<1> QED BY <1>1, <1>5, <1>6, SoundFiles

\* What only depends on the view of the record of r.
LEMMA ViewFrame ==
    ASSUME NEW r, record'[r].view = record[r].view
    PROVE  /\ \A p, file : Seen(r, p, file)' <=> Seen(r, p, file)
           /\ \A c : LeftOut(r, c)' <=> LeftOut(r, c)
           /\ \A mode, c, d : Carries(r, mode, c, d)' <=> Carries(r, mode, c, d)
           /\ \A mode, c, d : Brings(r, mode, c, d)' <=> Brings(r, mode, c, d)
           /\ \A mode, changes : Submitted(r, mode, changes)' <=> Submitted(r, mode, changes)
<1>1. \A p, file : Seen(r, p, file)' <=> Seen(r, p, file)
  BY DEF Seen
<1>2. \A c : LeftOut(r, c)' <=> LeftOut(r, c)
  BY DEF LeftOut
<1>3. \A mode, c, d : Carries(r, mode, c, d)' <=> Carries(r, mode, c, d)
  BY <1>1 DEF Carries
<1>4. \A mode, c, d : Brings(r, mode, c, d)' <=> Brings(r, mode, c, d)
  BY <1>1 DEF Brings, ForeignLines, OwnLines, Written
<1>5. \A mode, changes : Submitted(r, mode, changes)' <=> Submitted(r, mode, changes)
  BY <1>2, <1>3 DEF Submitted
<1> QED BY <1>1, <1>2, <1>3, <1>4, <1>5

\* What is settled stays settled, unless the server writes the file.
LEMMA SettledFrame ==
    ASSUME queue # <<>>, queue' # <<>>, Current' = Current, record'[Current.rec].view = record[Current.rec].view,
           job.touched \subseteq job'.touched, NEW c,
           c.path \in job'.touched \/ files'[c.path] = files[c.path], Settled(c)
    PROVE  Settled(c)'
<1>1. LeftOut(Current.rec, c) => LeftOut(Current.rec, c)'
  BY ViewFrame
<1> QED BY <1>1 DEF Settled, InEffect

\* An operation that is not past its merge, or is over, says nothing of lines.
LEMMA NoLines ==
    ASSUME job'.pc \in {"idle", "prepare", "capture", "fail"}
    PROVE  JobLines'
BY DEF JobLines, Merging

LEMMA JobLinesFrame ==
    ASSUME LineInv, UNCHANGED <<files, job>>,
           queue # <<>> => queue' # <<>> /\ Current' = Current /\ record'[Current.rec].view = record[Current.rec].view,
           queue = <<>> => job.pc = "idle"
    PROVE  JobLines'
<1>1. CASE queue = <<>>
  BY <1>1, NoLines
<1>2. CASE queue # <<>>
  <2>1. /\ queue' # <<>> /\ Current' = Current /\ OwnSet' = OwnSet
        /\ record'[Current.rec].view = record[Current.rec].view
    BY <1>2 DEF OwnSet
  <2>2. \A c : Settled(c) => Settled(c)'
    BY <1>2, <2>1, SettledFrame
  <2>3. \A c, d : Carries(Current.rec, Current.mode, c, d) => Carries(Current.rec, Current.mode, c, d)'
    BY <2>1, ViewFrame
  <2>4. \A c, d : Brings(Current.rec, Current.mode, c, d) => Brings(Current.rec, Current.mode, c, d)'
    BY <2>1, ViewFrame
  <2>5. Conflicts(NextChange)' <=> Conflicts(NextChange)
    BY DEF Conflicts, NextChange, NextPosition
  <2>6. Merging' <=> Merging
    BY DEF Merging
  <2> QED BY <2>1, <2>2, <2>3, <2>4, <2>5, <2>6 DEF LineInv, JobLines
<1> QED BY <1>1, <1>2

LEMMA SoundFrames ==
    ASSUME LineInv
    PROVE  /\ UNCHANGED files => \A p \in Paths : Sound(files'[p])
           /\ (\A r \in Records : record'[r].view = record[r].view)
                  => \A r \in Records : \A p \in DOMAIN record'[r].view : Sound(record'[r].view[p].seen)
           /\ job'.snapshots = job.snapshots => \A p \in DOMAIN job'.snapshots : Sound(job'.snapshots[p])
BY DEF LineInv, SoundInv

\* The records of the operations do not change.
LEMMA SubmitFrame ==
    ASSUME WritebackInv, LineInv, UNCHANGED queue,
           \A r \in Operations : record'[r].view = record[r].view /\ record'[r].status \in InFlight
    PROVE  SubmitInv'
<1> SUFFICES ASSUME NEW i \in DOMAIN queue
             PROVE  /\ record'[queue[i].rec].status \in InFlight
                    /\ \A j \in DOMAIN queue : queue[j].rec = queue[i].rec => i = j
                    /\ Submitted(queue[i].rec, queue[i].mode, queue[i].changes)'
  BY DEF SubmitInv
<1>1. queue[i].rec \in Operations
  BY DEF Operations
<1>2. /\ record'[queue[i].rec].view = record[queue[i].rec].view
      /\ record'[queue[i].rec].status \in InFlight
  BY <1>1
<1>3. Submitted(queue[i].rec, queue[i].mode, queue[i].changes)
  BY DEF LineInv, SubmitInv
<1>4. Submitted(queue[i].rec, queue[i].mode, queue[i].changes)'
      <=> (\A r, mode, changes : r = queue[i].rec /\ mode = queue[i].mode /\ changes = queue[i].changes
               => Submitted(r, mode, changes)')
  OBVIOUS
<1>5. Submitted(queue[i].rec, queue[i].mode, queue[i].changes)'
  BY <1>2, <1>3, <1>4, ViewFrame
<1> QED BY <1>2, <1>5 DEF LineInv, SubmitInv

\* Every step that leaves the operations and the files alone.
LEMMA LineFrame ==
    ASSUME WritebackInv, LineInv, UNCHANGED <<files, queue, job>>,
           \A r \in Operations : record'[r] = record[r],
           \A r \in Records : \A p \in DOMAIN record'[r].view : Sound(record'[r].view[p].seen)
    PROVE  LineInv'
<1>1. SoundInv'
  BY SoundFrames DEF SoundInv
<1>2. SubmitInv'
  <2>1. \A r \in Operations : record[r].status \in InFlight
    BY DEF LineInv, SubmitInv, Operations
  <2> QED BY <2>1, SubmitFrame
<1>3. JobLines'
  <2>1. queue # <<>> => record'[Current.rec] = record[Current.rec]
    BY CurrentIn
  <2>2. Current' = Current
    BY DEF Current
  <2>3. queue = <<>> => job.pc = "idle"
    BY DEF WritebackInv, JobInv
  <2> QED BY <2>1, <2>2, <2>3, JobLinesFrame
<1> QED BY <1>1, <1>2, <1>3 DEF LineInv

\* Every record whose status is not in flight is free to be resolved.
LEMMA NotQueued ==
    ASSUME LineInv, NEW r, record[r].status \notin InFlight
    PROVE  r \notin Operations
BY DEF LineInv, SubmitInv, Operations

LEMMA LineSubmit ==
    ASSUME WritebackInv, LineInv, NEW r \in Records, record[r].status \notin InFlight,
           NEW mode, NEW changes, Submitted(r, mode, changes),
           SetStatus(r, "queued"), Submit(r, mode, changes), UNCHANGED <<files, job, sessions, spent>>
    PROVE  LineInv'
<1> DEFINE item == [ rec |-> r, mode |-> mode, changes |-> changes ]
<1>1. PICK Items : queue \in Seq(Items)
  BY DEF WritebackInv, Shapes
<1>2. queue' = Append(queue, item) /\ item.rec = r /\ item.mode = mode /\ item.changes = changes
  BY DEF Submit
<1> HIDE DEF item
<1>3. /\ queue' # <<>>
      /\ \A i \in DOMAIN queue' : (i \in DOMAIN queue /\ queue'[i] = queue[i]) \/ (i = Len(queue) + 1 /\ queue'[i] = item)
      /\ queue # <<>> => Head(queue') = Head(queue)
  <2>1. DOMAIN queue' = DOMAIN queue \cup {Len(queue) + 1} /\ queue'[Len(queue) + 1] = item
    BY <1>1, <1>2
  <2>2. \A i \in DOMAIN queue : queue'[i] = queue[i]
    BY <1>1, <1>2
  <2>3. queue' # <<>> /\ (queue # <<>> => Head(queue') = Head(queue))
    BY <1>1, <1>2, AppendOperations
  <2> QED BY <2>1, <2>2, <2>3
<1>4. \A s \in Records : record'[s].view = record[s].view
  BY DEF WritebackInv, Shapes, SetStatus
<1>5. record'[r].status \in InFlight /\ \A s \in Records \ {r} : record'[s] = record[s]
  BY DEF WritebackInv, Shapes, SetStatus, InFlight
<1>6. SoundInv'
  BY <1>4, SoundFrames DEF SoundInv
<1>7. r \notin Operations
  BY NotQueued
<1>8. SubmitInv'
  <2> SUFFICES ASSUME NEW i \in DOMAIN queue'
               PROVE  /\ record'[queue'[i].rec].status \in InFlight
                      /\ \A j \in DOMAIN queue' : queue'[j].rec = queue'[i].rec => i = j
                      /\ \A s, m, c : s = queue'[i].rec /\ m = queue'[i].mode /\ c = queue'[i].changes
                             => Submitted(s, m, c)'
    BY DEF SubmitInv
  <2>1. \A k \in DOMAIN queue : queue[k].rec # r /\ queue[k].rec \in Records
    BY <1>7 DEF Operations, WritebackInv, QueueInv
  <2>2. CASE i \in DOMAIN queue /\ queue'[i] = queue[i]
    <3>1. record'[queue[i].rec] = record[queue[i].rec]
      BY <1>5, <2>1, <2>2
    <3>2. Submitted(queue[i].rec, queue[i].mode, queue[i].changes) /\ record[queue[i].rec].status \in InFlight
      BY <2>2 DEF LineInv, SubmitInv
    <3>3. \A j \in DOMAIN queue' : queue'[j].rec = queue'[i].rec => i = j
      BY <1>2, <1>3, <2>1, <2>2 DEF LineInv, SubmitInv
    <3>4. \A s, m, c : s = queue'[i].rec /\ m = queue'[i].mode /\ c = queue'[i].changes => Submitted(s, m, c)'
      BY <2>2, <3>1, <3>2, ViewFrame
    <3> QED BY <2>2, <3>1, <3>2, <3>3, <3>4
  <2>3. CASE i = Len(queue) + 1 /\ queue'[i] = item
    <3>1. \A j \in DOMAIN queue' : queue'[j].rec = queue'[i].rec => i = j
      BY <1>2, <1>3, <2>1, <2>3
    <3>2. \A s, m, c : s = queue'[i].rec /\ m = queue'[i].mode /\ c = queue'[i].changes => Submitted(s, m, c)'
      BY <1>2, <1>4, <2>3, ViewFrame
    <3> QED BY <1>2, <1>5, <2>3, <3>1, <3>2
  <2> QED BY <1>3, <2>2, <2>3
<1>9. JobLines'
  <2>1. queue # <<>> => Current' = Current /\ record'[Current.rec].view = record[Current.rec].view
    BY <1>3, <1>4, CurrentIn DEF Current
  <2>2. queue = <<>> => job.pc = "idle"
    BY DEF WritebackInv, JobInv
  <2> QED BY <1>3, <2>1, <2>2, JobLinesFrame
<1> QED BY <1>6, <1>8, <1>9 DEF LineInv

LEMMA LineSettle ==
    ASSUME WritebackInv, LineInv, queue # <<>>, NEW status, NEW view,
           \A p \in DOMAIN view : Sound(view[p].seen),
           Settle(status, view), UNCHANGED <<files, sessions>>
    PROVE  LineInv'
<1>1. PICK Items : queue \in Seq(Items)
  BY DEF WritebackInv, Shapes
<1>2. job' = NoJob /\ queue' = Tail(queue)
  BY DEF Settle, Leave
<1>3. /\ \A i \in DOMAIN queue' : i + 1 \in DOMAIN queue /\ queue'[i] = queue[i + 1]
      /\ 1 \in DOMAIN queue /\ Current = queue[1] /\ \A i \in DOMAIN queue' : i + 1 # 1
      /\ \A i, j \in DOMAIN queue' : i + 1 = j + 1 => i = j
  <2>1. queue' \in Seq(Items)
    BY <1>1, <1>2, TailOperations
  <2>2. \A i \in DOMAIN queue' : i \in Nat \ {0}
    BY <2>1
  <2>3. \A i \in DOMAIN queue' : i + 1 # 1
    BY <2>2
  <2>4. \A i, j \in DOMAIN queue' : i + 1 = j + 1 => i = j
    BY <2>2
  <2> QED BY <1>1, <1>2, <2>3, <2>4, TailOperations, HeadOperation
<1>4. /\ \A r \in Records \ {Current.rec} : record'[r] = record[r]
      /\ record'[Current.rec].view = record[Current.rec].view \/ record'[Current.rec].view = view
  <2>1. CASE SetRecord(Current.rec, status, view)
    BY <2>1, CurrentIn DEF WritebackInv, Shapes, SetRecord
  <2>2. CASE UNCHANGED record
    BY <2>2
  <2> QED BY <2>1, <2>2 DEF Settle
<1>5. SoundInv'
  <2>1. \A r \in Records : \A p \in DOMAIN record'[r].view : Sound(record'[r].view[p].seen)
    BY <1>4 DEF LineInv, SoundInv
  <2>2. DOMAIN job'.snapshots = {}
    BY <1>2 DEF NoJob
  <2> QED BY <2>1, <2>2, SoundFrames DEF SoundInv
<1>6. SubmitInv'
  <2> SUFFICES ASSUME NEW i \in DOMAIN queue'
               PROVE  /\ record'[queue'[i].rec].status \in InFlight
                      /\ \A j \in DOMAIN queue' : queue'[j].rec = queue'[i].rec => i = j
                      /\ \A s, m, c : s = queue'[i].rec /\ m = queue'[i].mode /\ c = queue'[i].changes
                             => Submitted(s, m, c)'
    BY DEF SubmitInv
  <2> DEFINE k == i + 1
  <2>1. k \in DOMAIN queue /\ queue'[i] = queue[k] /\ k # 1
    BY <1>3
  <2>2. queue[k].rec # Current.rec /\ queue[k].rec \in Records
    BY <1>3, <2>1 DEF LineInv, SubmitInv, WritebackInv, QueueInv
  <2>3. record'[queue[k].rec] = record[queue[k].rec]
    BY <1>4, <2>2
  <2>4. Submitted(queue[k].rec, queue[k].mode, queue[k].changes) /\ record[queue[k].rec].status \in InFlight
    BY <2>1 DEF LineInv, SubmitInv
  <2>5. \A j \in DOMAIN queue' : queue'[j].rec = queue'[i].rec => i = j
    BY <1>3, <2>1 DEF LineInv, SubmitInv
  <2>6. \A s, m, c : s = queue'[i].rec /\ m = queue'[i].mode /\ c = queue'[i].changes => Submitted(s, m, c)'
    <3> HIDE DEF k
    <3> QED BY <2>1, <2>3, <2>4, ViewFrame
  <2> QED BY <2>1, <2>3, <2>4, <2>5, <2>6
<1>7. JobLines'
  BY <1>2, NoLines DEF NoJob
<1> QED BY <1>5, <1>6, <1>7 DEF LineInv

-----------------------------------------------------------------------------
(* What the merge of one change brings. *)

\* What the Session writes itself, and what was there before, is nobody else's.
LEMMA OwnForeign ==
    ASSUME NEW r \in Records, NEW i \in DOMAIN ChangeSets[r]
    PROVE  /\ ForeignLines(r, Missing) = {}
           /\ \A p \in Paths : ForeignLines(r, Baseline[p]) = {}
           /\ \A d : d.text = ChangeSets[r][i].text => ForeignLines(r, Written(d)) = {}
<1>1. ForeignLines(r, Missing) = {}
  BY DEF ForeignLines, LinesOf, Missing, ToSet
<1>2. \A p \in Paths : ForeignLines(r, Baseline[p]) = {}
  BY DEF ForeignLines
<1>3. ASSUME NEW d, d.text = ChangeSets[r][i].text PROVE ForeignLines(r, Written(d)) = {}
  <2>1. ToSet(d.text) \subseteq OwnLines(r)
    BY <1>3 DEF OwnLines
  <2>2. Written(d) = Missing \/ LinesOf(Written(d)) = ToSet(d.text)
    BY DEF Written, File, LinesOf
  <2> QED BY <1>1, <2>1, <2>2 DEF ForeignLines
<1> QED BY <1>1, <1>2, <1>3

\* MergeKeepsEdits, for a change of a Session.
LEMMA MergedLines ==
    ASSUME WholeLines, TextInv, SoundInv, NEW r \in Records, NEW i \in DOMAIN ChangeSets[r],
           NeedsMerge(ChangeSets[r][i]), MergeOf(ChangeSets[r][i]).ok
    PROVE  LET c == ChangeSets[r][i]
               content == MergeOf(c).content
           IN  /\ EndsLines(content) /\ content \in Seq(TextLine)
               /\ Adds(c, content)
               /\ ForeignLines(r, files[c.path]) \subseteq ToSet(content)
               /\ ForeignLines(r, File(content)) \subseteq LinesOf(files[c.path])
<1> DEFINE c == ChangeSets[r][i]
           base == c.expected.text
           current == files[c.path].text
           content == MergeOf(c).content
<1>1. c \in WorkspaceChange /\ c.path \in Paths /\ c.expected = Baseline[c.path] /\ EndsLines(c.text)
  <2>1. c \in WorkspaceChange
    BY ChangeSetsTyped DEF TypedChanges
  <2> QED BY <2>1, ChangeSetsAssumption DEF WholeLines, WorkspaceChange
<1>2. base \in Seq(TextLine) /\ current \in Seq(TextLine) /\ c.text \in Seq(TextLine)
  <2>1. c.expected \in Files /\ files[c.path] \in Files
    BY <1>1 DEF WorkspaceChange, TextInv
  <2> QED BY <1>1, <2>1, FilesOfTexts DEF WorkspaceChange
<1>3. EndsLines(base) /\ EndsLines(current)
  BY <1>1 DEF WholeLines, SoundInv, Sound
<1>4. TextLine = LinesFrom(STRING)
  BY DEF TextLine, LinesFrom
<1>5. MergeOf(c) = mergeWorkspaceText(base, current, c.text)
  BY DEF MergeOf
<1>6. content \in Seq(TextLine)
  BY <1>2, <1>5, MergesAreTexts
<1>7. /\ (ToSet(current) \cup ToSet(c.text)) \ ToSet(base) \subseteq ToSet(content)
      /\ ToSet(content) \subseteq ToSet(base) \cup ToSet(current) \cup ToSet(c.text)
  <2>1. mergeWorkspaceText(base, current, c.text).ok
    BY <1>5
  <2> DEFINE text == c.text
  <2>2. /\ base \in Seq(LinesFrom(STRING)) /\ current \in Seq(LinesFrom(STRING))
        /\ text \in Seq(LinesFrom(STRING)) /\ EndsLines(text)
    BY <1>1, <1>2, <1>4
  <2>3. content = mergeWorkspaceText(base, current, text).content
    BY <1>5
  <2> HIDE DEF base, current, content, text
  <2>4. /\ (ToSet(current) \cup ToSet(text)) \ ToSet(base) \subseteq ToSet(content)
        /\ ToSet(content) \subseteq ToSet(base) \cup ToSet(current) \cup ToSet(text)
    <3>1. mergeWorkspaceText(base, current, text).ok
      BY <2>1 DEF text
    <3> QED BY ONLY <1>3, <2>2, <2>3, <3>1, MergeKeepsEdits
  <2> QED BY <2>4 DEF text
<1>8. ToSet(base) = LinesOf(Baseline[c.path]) /\ ToSet(current) = LinesOf(files[c.path])
      /\ ToSet(c.text) \subseteq OwnLines(r) /\ LinesOf(File(content)) = ToSet(content)
  BY <1>1 DEF LinesOf, OwnLines, File
<1>9. EndsLines(content)
  <2> SUFFICES ASSUME NEW k \in 1..Len(content) PROVE content[k].newline
    BY DEF EndsLines
  <2>1. content[k] \in ToSet(content)
    BY <1>6 DEF ToSet
  <2>2. \A text \in Seq(TextLine) : \A line \in ToSet(text) : EndsLines(text) => line.newline
    BY DEF EndsLines, ToSet
  <2> HIDE DEF c, base, current, content
  <2> QED BY <1>1, <1>2, <1>3, <1>7, <2>1, <2>2
<1> HIDE DEF c, base, current, content
<1>10. Adds(c, content)
  BY <1>7, <1>8 DEF Adds
<1>11. ForeignLines(r, files[c.path]) \subseteq ToSet(content)
  BY <1>1, <1>7, <1>8 DEF ForeignLines
<1>12. ForeignLines(r, File(content)) \subseteq LinesOf(files[c.path])
  BY <1>1, <1>7, <1>8 DEF ForeignLines
<1> QED BY <1>6, <1>9, <1>10, <1>11, <1>12 DEF c, content

\* MergedChanges, for one change: what becomes of it, and when it is left out.
MergedChange(d) == IF NeedsMerge(d) THEN [d EXCEPT !.text = MergeOf(d).content, !.expected = files[d.path]] ELSE d
MergedAway(d) == NeedsMerge(d) /\ MergeOf(d).content = files[d.path].text

LEMMA MergedChangesAre ==
    ASSUME NEW changes
    PROVE  /\ DOMAIN MergedChanges(changes) = {i \in DOMAIN changes : ~MergedAway(changes[i])}
           /\ \A i \in DOMAIN MergedChanges(changes) : MergedChanges(changes)[i] = MergedChange(changes[i])
BY DEF MergedChanges, MergedChange, MergedAway

\* The merge of one change that an operation carries.
LEMMA MergeBrings ==
    ASSUME WholeLines, TextInv, SoundInv, NEW r \in Records, NEW i \in DOMAIN ChangeSets[r], NEW mode,
           NEW d \in WorkspaceChange, Carries(r, mode, ChangeSets[r][i], d),
           NeedsMerge(d) => MergeOf(d).ok
    PROVE  /\ Brings(r, mode, ChangeSets[r][i], MergedChange(d))
           /\ MergedAway(d) => InEffect(ChangeSets[r][i])
<1> DEFINE c == ChangeSets[r][i]
<1>1. c \in WorkspaceChange /\ c.path \in Paths /\ c.expected = Baseline[c.path] /\ EndsLines(c.text)
  <2>1. c \in WorkspaceChange
    BY ChangeSetsTyped DEF TypedChanges
  <2> QED BY <2>1, ChangeSetsAssumption DEF WholeLines, WorkspaceChange
<1>2. d.path = c.path /\ d.text = c.text /\ (d.op = "delete" <=> c.op = "delete")
  BY DEF Carries
<1>3. CASE NeedsMerge(d)
  <2>1. d = c /\ c.op = "update"
    BY <1>3 DEF NeedsMerge, Carries
  <2> DEFINE content == MergeOf(c).content
             m == [c EXCEPT !.text = content, !.expected = files[c.path]]
  <2>2. /\ EndsLines(content) /\ content \in Seq(TextLine)
        /\ Adds(c, content)
        /\ ForeignLines(r, files[c.path]) \subseteq ToSet(content)
        /\ ForeignLines(r, File(content)) \subseteq LinesOf(files[c.path])
    BY <1>3, <2>1, MergedLines
  <2> HIDE DEF content
  <2>3. m.path = c.path /\ m.op = "update" /\ m.text = content /\ m.expected = files[c.path]
    BY <1>1, <2>1 DEF WorkspaceChange
  <2> HIDE DEF m
  <2>4. Written(m) = File(content) /\ LinesOf(Written(m)) = ToSet(content)
    BY <2>3 DEF Written, File, LinesOf
  <2>5. Brings(r, mode, c, m)
    BY <2>1, <2>2, <2>3, <2>4 DEF Brings
  <2>6. content = files[c.path].text => InEffect(c)
    BY <2>1, <2>2 DEF InEffect, Adds, LinesOf
  <2> QED BY <1>3, <2>1, <2>5, <2>6 DEF m, content, MergedChange, MergedAway
<1>4. CASE ~NeedsMerge(d)
  <2>1. ForeignLines(r, Written(d)) = {}
    BY <1>2, OwnForeign
  <2>2. d = c => ForeignLines(r, d.expected) = {}
    BY <1>1, OwnForeign
  <2>3. \/ d.op = "create" \/ mode = "force"
        \/ mode = "resolved" /\ Seen(r, c.path, d.expected)
        \/ ForeignLines(r, d.expected) \subseteq LinesOf(Written(d))
    BY <2>2 DEF Carries
  <2> HIDE DEF c
  <2>4. Brings(r, mode, c, d)
    BY <1>1, <1>2, <1>4, <2>1, <2>3 DEF Brings
  <2> QED BY <1>4, <2>4 DEF MergedChange, MergedAway, c
<1> QED BY <1>3, <1>4

-----------------------------------------------------------------------------
(* The steps of an operation. *)

\* The operation keeps its changes, none of its files is written.
LEMMA LineKeeps ==
    ASSUME WritebackInv, LineInv, queue # <<>>, UNCHANGED <<files, record, queue>>, Merging,
           job'.changes = job.changes, job'.written = job.written, job'.touched = job.touched,
           job'.pc = "rollback" \/ Merging',
           job'.pc = "write" => ~Conflicts(NextChange),
           job'.pc = "succeed" => DOMAIN job.changes \subseteq job.written
    PROVE  JobLines'
<1>1. Current' = Current /\ OwnSet' = OwnSet
  BY DEF Current, OwnSet
<1>2. \A c : Settled(c) => Settled(c)'
  BY <1>1, SettledFrame
<1>3. \A c, d : Brings(Current.rec, Current.mode, c, d) => Brings(Current.rec, Current.mode, c, d)'
  BY <1>1, ViewFrame
<1>4. NextChange' = NextChange /\ (Conflicts(NextChange)' <=> Conflicts(NextChange))
  BY DEF Conflicts, NextChange, NextPosition
<1>5. job'.pc # "merge"
  BY DEF Merging
<1> QED BY <1>1, <1>2, <1>3, <1>4, <1>5 DEF LineInv, JobLines

\* The operation keeps its changes and rolls back.
LEMMA LineRollback ==
    ASSUME WritebackInv, LineInv, queue # <<>>, UNCHANGED <<record, queue>>, Merging,
           job'.changes = job.changes, job'.pc = "rollback"
    PROVE  JobLines'
<1>1. Current' = Current /\ OwnSet' = OwnSet
  BY DEF Current, OwnSet
<1>2. \A c, d : Brings(Current.rec, Current.mode, c, d) => Brings(Current.rec, Current.mode, c, d)'
  BY <1>1, ViewFrame
<1> QED BY <1>1, <1>2 DEF LineInv, JobLines, Merging

\* The records stay as they are.
LEMMA LineSteps ==
    ASSUME WritebackInv, LineInv, UNCHANGED <<record, queue>>, JobLines',
           \A p \in Paths : Sound(files'[p]), \A p \in DOMAIN job'.snapshots : Sound(job'.snapshots[p])
    PROVE  LineInv'
<1>1. SubmitInv'
  <2>1. \A r \in Operations : record[r].status \in InFlight
    BY DEF LineInv, SubmitInv, Operations
  <2> QED BY <2>1, SubmitFrame
<1>2. SoundInv'
  BY SoundFrames DEF SoundInv
<1> QED BY <1>1, <1>2 DEF LineInv

LEMMA LineAdvance ==
    ASSUME WritebackInv, LineInv, queue # <<>>, NEW status \in InFlight, NEW next, Advance(status, next),
           UNCHANGED <<files, queue, sessions>>,
           next.snapshots = job.snapshots,
           /\ job' = next
           /\ \A r \in Records : record'[r].view = record[r].view
           => JobLines'
    PROVE  LineInv'
<1>1. \A r \in Records : record'[r].view = record[r].view
  BY DEF WritebackInv, Shapes, Advance, SetStatus
<1>2. \A r \in Operations : r \in Records /\ record'[r].status \in InFlight
  <2>1. \A r \in Operations : r \in Records /\ record[r].status \in InFlight
    BY DEF LineInv, SubmitInv, Operations, WritebackInv, QueueInv
  <2> QED BY <2>1 DEF WritebackInv, Shapes, Advance, SetStatus
<1>3. SubmitInv'
  BY <1>1, <1>2, SubmitFrame
<1>4. JobLines' /\ job'.snapshots = job.snapshots
  <2>1. CASE Goto("fail")
    <3>1. job'.pc = "fail" /\ job'.snapshots = job.snapshots
      BY <2>1 DEF Goto, WritebackInv, Shapes
    <3> QED BY <3>1, NoLines
  <2>2. CASE job' = next
    BY <1>1, <2>2
  <2> QED BY <2>1, <2>2 DEF Advance
<1>5. SoundInv'
  BY <1>1, <1>4, SoundFrames DEF SoundInv
<1> QED BY <1>3, <1>4, <1>5 DEF LineInv

\* What an operation starts with: what the user submitted, or forced over the files.
LEMMA LinePrepared ==
    ASSUME WritebackInv, TextInv, LineInv, queue # <<>>, UNCHANGED <<files, queue>>,
           \A r \in Records : record'[r].view = record[r].view,
           job.pc = "prepare", job'.pc = "merge", job'.written = job.written,
           job'.changes = IF Current.mode = "force" THEN Forced(Current.changes) ELSE Current.changes
    PROVE  JobLines'
<1> DEFINE r == Current.rec
           mode == Current.mode
           given == Current.changes
<1>1. /\ DOMAIN given \subseteq DOMAIN OwnSet
      /\ \A i \in DOMAIN given : Carries(r, mode, OwnSet[i], given[i])
      /\ \A i \in DOMAIN OwnSet \ DOMAIN given : mode = "resolved" /\ LeftOut(r, OwnSet[i])
  <2>1. PICK Items : queue \in Seq(Items)
    BY DEF WritebackInv, Shapes
  <2>2. Submitted(r, mode, given)
    BY <2>1, HeadOperation DEF LineInv, SubmitInv
  <2> QED BY <2>2 DEF Submitted, OwnSet
<1>2. r \in Records /\ Current' = Current /\ OwnSet' = OwnSet /\ job'.written = {}
  BY CurrentIn DEF Current, OwnSet, WritebackInv, JobInv, Early
<1>3. \A c : Settled(c)' <=> (\/ c.path \in job'.touched
                              \/ InEffect(c)
                              \/ mode = "resolved" /\ LeftOut(r, c))
  <2>1. \A c : LeftOut(r, c)' <=> LeftOut(r, c)
    BY <1>2, ViewFrame
  <2> QED BY <1>2, <2>1 DEF Settled, InEffect
<1>4. \A c, d : Carries(r, mode, c, d)' <=> Carries(r, mode, c, d)
  BY <1>2, ViewFrame
<1> HIDE DEF r, mode, given
<1>5. CASE mode = "force"
  <2>1. job'.changes = Forced(given)
    BY <1>5 DEF mode, given
  <2>2. DOMAIN given = DOMAIN OwnSet
    BY <1>1, <1>5
  <2>3. ASSUME NEW i \in DOMAIN job'.changes
        PROVE  i \in DOMAIN OwnSet /\ Carries(r, mode, OwnSet[i], job'.changes[i])
    <3>1. i \in DOMAIN given
      BY <2>1, <2>3 DEF Forced
    <3> DEFINE c == given[i]
               d == [ op |-> IF c.op = "delete" THEN "delete"
                             ELSE IF files[c.path].exists THEN "update" ELSE "create",
                      path |-> c.path, text |-> c.text, expected |-> files[c.path], based |-> FALSE ]
    <3>2. job'.changes[i] = d
      BY <2>1, <2>3 DEF Forced
    <3>3. d.path = c.path /\ d.text = c.text /\ (d.op = "delete" <=> c.op = "delete") /\ ~d.based
      OBVIOUS
    <3>4. Carries(r, mode, OwnSet[i], c)
      BY <1>1, <3>1
    <3> HIDE DEF c, d
    <3>5. Carries(r, mode, OwnSet[i], d)
      BY <1>5, <3>3, <3>4 DEF Carries
    <3> QED BY <1>1, <3>1, <3>2, <3>5
  <2>4. ASSUME NEW i \in DOMAIN OwnSet, i \notin DOMAIN job'.changes
        PROVE  Settled(OwnSet[i])'
    <3>1. i \in DOMAIN given
      BY <2>2, <2>4
    <3>2. given[i].op = "delete" /\ ~files[given[i].path].exists
      BY <2>1, <2>4, <3>1 DEF Forced
    <3>3. OwnSet[i].op = "delete" /\ OwnSet[i].path = given[i].path
      BY <1>1, <3>1, <3>2 DEF Carries
    <3>4. InEffect(OwnSet[i])
      BY <3>2, <3>3 DEF InEffect
    <3>5. \A c : c = OwnSet[i] => Settled(c)'
      BY <1>3, <3>4
    <3> QED BY <1>2, <3>5
  <2>5. DOMAIN job'.changes \subseteq DOMAIN OwnSet
    BY <2>3
  <2> QED BY <1>2, <1>4, <2>3, <2>4, <2>5 DEF JobLines, Merging, r, mode
<1>6. CASE mode # "force"
  <2>1. job'.changes = given
    BY <1>6 DEF mode, given
  <2>2. ASSUME NEW i \in DOMAIN OwnSet, i \notin DOMAIN given
        PROVE  Settled(OwnSet[i])'
    <3>1. \A c : c = OwnSet[i] => Settled(c)'
      BY <1>1, <1>3, <2>2
    <3> QED BY <1>2, <3>1
  <2> QED BY <1>1, <1>2, <1>4, <2>1, <2>2 DEF JobLines, Merging, r, mode
<1> QED BY <1>5, <1>6

\* What an operation goes on with when nothing conflicts in the merge.
LEMMA LineMerged ==
    ASSUME WholeLines, WritebackInv, TextInv, LineInv, queue # <<>>, UNCHANGED <<files, record, queue>>,
           job.pc = "merge", job'.pc = "validate", MergeConflicts(job.changes) = {},
           job'.changes = MergedChanges(job.changes), job'.written = job.written, job'.touched = job.touched
    PROVE  JobLines'
<1> DEFINE r == Current.rec
           mode == Current.mode
           changes == job.changes
<1>1. /\ r \in Records /\ Current' = Current /\ OwnSet' = OwnSet /\ job'.written = {}
      /\ OwnSet = ChangeSets[r]
  BY CurrentIn DEF Current, OwnSet, WritebackInv, JobInv, Early
<1>2. /\ DOMAIN changes \subseteq DOMAIN OwnSet
      /\ \A i \in DOMAIN changes : Carries(r, mode, OwnSet[i], changes[i]) /\ changes[i] \in WorkspaceChange
      /\ \A i \in DOMAIN OwnSet : i \notin DOMAIN changes => Settled(OwnSet[i])
  BY DEF LineInv, JobLines, TextInv, JobTexts, TypedChanges
<1>3. \A i \in DOMAIN changes : NeedsMerge(changes[i]) => MergeOf(changes[i]).ok
  <2>1. \A i \in DOMAIN changes : changes[i] \in Range(changes)
    BY DEF Range
  <2> QED BY <2>1 DEF MergeConflicts
<1>4. \A c, d : Brings(r, mode, c, d) => Brings(r, mode, c, d)'
  BY <1>1, ViewFrame
<1>5. \A c : Settled(c) => Settled(c)'
  BY <1>1, SettledFrame
<1>6. /\ DOMAIN job'.changes = {i \in DOMAIN changes : ~MergedAway(changes[i])}
      /\ \A i \in DOMAIN job'.changes : job'.changes[i] = MergedChange(changes[i])
  BY MergedChangesAre
<1> HIDE DEF changes, r, mode
<1>7. ASSUME NEW i \in DOMAIN changes
      PROVE  /\ Brings(r, mode, OwnSet[i], MergedChange(changes[i]))
             /\ MergedAway(changes[i]) => InEffect(OwnSet[i])
  <2> DEFINE d == changes[i]
  <2>1. d \in WorkspaceChange /\ Carries(r, mode, ChangeSets[r][i], d) /\ i \in DOMAIN ChangeSets[r]
    BY <1>1, <1>2
  <2>2. (NeedsMerge(d) => MergeOf(d).ok) /\ SoundInv
    BY <1>3 DEF LineInv
  <2> HIDE DEF d
  <2>3. Brings(r, mode, ChangeSets[r][i], MergedChange(d)) /\ (MergedAway(d) => InEffect(ChangeSets[r][i]))
    BY <1>1, <2>1, <2>2, MergeBrings
  <2> QED BY <1>1, <2>3 DEF d
<1>8. DOMAIN job'.changes \subseteq DOMAIN OwnSet
  BY <1>2, <1>6
<1>9. ASSUME NEW i \in DOMAIN job'.changes
      PROVE  Brings(r, mode, OwnSet[i], job'.changes[i])
  BY <1>6, <1>7
<1>10. ASSUME NEW i \in DOMAIN OwnSet, i \notin DOMAIN job'.changes
       PROVE  Settled(OwnSet[i])
  BY <1>2, <1>6, <1>7, <1>10 DEF Settled
<1> QED BY <1>1, <1>4, <1>5, <1>8, <1>9, <1>10 DEF JobLines, Merging, r, mode

\* A change that is written is in effect.
LEMMA WrittenInEffect ==
    ASSUME NEW r, NEW mode, NEW c, c.op \in {"create", "update", "delete"}, NEW d, Brings(r, mode, c, d),
           files'[c.path] = Written(d)
    PROVE  InEffect(c)'
<1>1. CASE c.op = "delete"
  <2>1. files'[c.path] = Missing
    BY <1>1 DEF Brings, Written
  <2> QED BY <1>1, <2>1 DEF InEffect, Missing
<1>2. CASE c.op = "create"
  <2>1. files'[c.path] = File(c.text)
    BY <1>2 DEF Brings, Written
  <2> QED BY <1>2, <2>1 DEF InEffect
<1>3. CASE c.op = "update"
  <2>1. LinesOf(files'[c.path]) = ToSet(d.text)
    BY <1>3 DEF Brings, Written, LinesOf, File
  <2>2. d.text = c.text \/ Adds(c, d.text)
    BY <1>3 DEF Brings
  <2>3. ToSet(c.text) \ LinesOf(Baseline[c.path]) \subseteq LinesOf(files'[c.path])
    BY <2>1, <2>2 DEF Adds
  <2> QED BY <1>3, <2>3 DEF InEffect, LinesOf
<1> QED BY <1>1, <1>2, <1>3

LEMMA LineWritten ==
    ASSUME WritebackInv, TextInv, LineInv, Write
    PROVE  /\ JobLines'
           /\ \A p \in Paths : Sound(files'[p])
<1> DEFINE n == NextPosition
           d == NextChange
           c == OwnSet[n]
<1>1. /\ queue # <<>> /\ job.pc = "write" /\ UNCHANGED <<record, queue>>
      /\ files' = [files EXCEPT ![d.path] = Written(d)]
      /\ job'.changes = job.changes /\ job'.written = job.written \cup {n} /\ job'.touched = job.touched
      /\ job'.pc = AfterWrites(job.written \cup {n})
  BY DEF Write, At, WritebackInv, Shapes
<1>2. n \in DOMAIN job.changes /\ d = job.changes[n] /\ d.path \in Paths
  BY <1>1, NextChangeIn DEF NextChange
<1>3. /\ Current.rec \in Records /\ Current' = Current /\ OwnSet' = OwnSet
      /\ OwnSet = ChangeSets[Current.rec]
  BY <1>1, CurrentIn DEF Current, OwnSet
<1>4. /\ n \in DOMAIN OwnSet /\ Brings(Current.rec, Current.mode, c, d)
      /\ DOMAIN job.changes \subseteq DOMAIN OwnSet
      /\ \A i \in DOMAIN job.changes : Brings(Current.rec, Current.mode, OwnSet[i], job.changes[i])
      /\ \A i \in DOMAIN OwnSet : i \notin DOMAIN job.changes \/ i \in job.written => Settled(OwnSet[i])
  BY <1>1, <1>2 DEF LineInv, JobLines, Merging
<1>5. d.path = c.path /\ EndsLines(d.text)
  BY <1>4 DEF Brings
<1>6. /\ \A i \in DOMAIN OwnSet : OwnSet[i] \in WorkspaceChange
      /\ \A i \in DOMAIN OwnSet : OwnSet[i].path = c.path => i = n
  BY <1>3, <1>4, ChangeSetsTyped, ChangeSetsAssumption DEF TypedChanges
<1> HIDE DEF n, d, c
<1>7. files'[d.path] = Written(d) /\ \A p \in Paths : p # d.path => files'[p] = files[p]
  BY <1>1, <1>2 DEF WritebackInv, Shapes
<1>8. \A e : Settled(e) /\ files'[e.path] = files[e.path] => Settled(e)'
  BY <1>1, <1>3, SettledFrame
<1>9. \A e : e = c => Settled(e)'
  <2>1. c.op \in {"create", "update", "delete"}
    BY <1>4, <1>6 DEF WorkspaceChange, c
  <2>2. \A e : e = c => InEffect(e)'
    BY <1>4, <1>5, <1>7, <2>1, WrittenInEffect
  <2> QED BY <2>2 DEF Settled
<1>10. ASSUME NEW i \in DOMAIN OwnSet, i \notin DOMAIN job.changes \/ i \in job.written \cup {n}
       PROVE  \A e : e = OwnSet[i] => Settled(e)'
  <2>1. CASE i = n
    BY <1>9, <2>1 DEF c
  <2>2. CASE i # n
    <3>1. OwnSet[i].path # d.path /\ OwnSet[i].path \in Paths
      BY <1>5, <1>6, <2>2 DEF WorkspaceChange
    <3>2. Settled(OwnSet[i])
      BY <1>4, <1>10, <2>2
    <3> QED BY <1>7, <1>8, <3>1, <3>2
  <2> QED BY <2>1, <2>2
<1>11. \A i \in DOMAIN OwnSet : i \notin DOMAIN job'.changes \/ i \in job'.written => Settled(OwnSet[i])'
  BY <1>1, <1>3, <1>10
<1>12. \A e, f : Brings(Current.rec, Current.mode, e, f) => Brings(Current.rec, Current.mode, e, f)'
  BY <1>1, <1>3, ViewFrame
<1>13. /\ job'.pc \in {"succeed", "check"}
       /\ job'.pc = "succeed" => DOMAIN job'.changes \subseteq job'.written
  BY <1>1 DEF AfterWrites
<1>14. JobLines'
  BY <1>1, <1>3, <1>4, <1>11, <1>12, <1>13 DEF JobLines, Merging
<1>15. Sound(Written(d))
  BY <1>5, SoundFiles DEF Written
<1>16. \A p \in Paths : Sound(files'[p])
  BY <1>7, <1>15 DEF LineInv, SoundInv
<1> QED BY <1>14, <1>16

LEMMA LineApply ==
    ASSUME WholeLines, WritebackInv, TextInv, LineInv, Apply
    PROVE  LineInv'
<1>1. queue # <<>>
  BY DEF Apply, Begin, Prepare, Merge, Validate, Snapshot, Check, Write, WriteError,
         rollbackAppliedPaths, Capture, Succeed, Fail, At
<1>2. /\ \A p \in DOMAIN record[Current.rec].view : Sound(record[Current.rec].view[p].seen)
      /\ \A p \in DOMAIN NoView : Sound(NoView[p].seen)
      /\ \A p \in Paths : Sound(files[p])
      /\ \A p \in DOMAIN job.snapshots : Sound(job.snapshots[p])
  BY <1>1, CurrentIn DEF LineInv, SoundInv, NoView
<1>3. CASE Begin
  <2>1. CASE Admitted(Current.rec)
    <3> DEFINE next == [job EXCEPT !.pc = "prepare"]
    <3>1. next.pc = "prepare" /\ next.snapshots = job.snapshots
      BY DEF WritebackInv, Shapes
    <3>2. Advance("merging", next) /\ UNCHANGED <<files, queue, sessions>> /\ "merging" \in InFlight
      BY <1>3, <2>1 DEF Begin, InFlight
    <3> HIDE DEF next
    <3>3. job' = next => JobLines'
      BY <3>1, NoLines
    <3> QED BY <1>1, <3>1, <3>2, <3>3, LineAdvance
  <2>2. CASE ~Admitted(Current.rec)
    BY <1>1, <1>2, <1>3, <2>2, LineSettle DEF Begin
  <2> QED BY <2>1, <2>2
<1>4. CASE Prepare
  <2> DEFINE changes == IF Current.mode = "force" THEN Forced(Current.changes) ELSE Current.changes
             next == [job EXCEPT !.pc = "merge", !.changes = changes]
  <2>1. /\ Advance("applying", next) /\ UNCHANGED <<files, queue, sessions>> /\ job.pc = "prepare"
        /\ "applying" \in InFlight
    BY <1>4 DEF Prepare, At, InFlight
  <2> HIDE DEF changes
  <2>2. next.pc = "merge" /\ next.changes = changes /\ next.snapshots = job.snapshots /\ next.written = job.written
    BY DEF WritebackInv, Shapes
  <2> HIDE DEF next
  <2>3. job' = next /\ (\A r \in Records : record'[r].view = record[r].view) => JobLines'
    BY <1>1, <2>1, <2>2, LinePrepared DEF changes
  <2> QED BY <1>1, <2>1, <2>2, <2>3, LineAdvance
<1>5. CASE Merge
  <2> DEFINE conflicts == MergeConflicts(job.changes)
             merged == MergedChanges(job.changes)
  <2>1. /\ job.pc = "merge" /\ UNCHANGED <<files, record, queue, sessions, spent>>
        /\ job' = IF conflicts # {} THEN [job EXCEPT !.pc = "capture", !.conflicts = conflicts]
                                    ELSE [job EXCEPT !.pc = "validate", !.changes = merged]
    BY <1>5 DEF Merge, At
  <2> HIDE DEF conflicts, merged
  <2>2. /\ job'.snapshots = job.snapshots /\ job'.written = job.written /\ job'.touched = job.touched
        /\ IF conflicts # {} THEN job'.pc = "capture" ELSE job'.pc = "validate" /\ job'.changes = merged
    BY <2>1 DEF WritebackInv, Shapes
  <2>3. JobLines'
    <3>1. CASE conflicts # {}
      BY <2>2, <3>1, NoLines
    <3>2. CASE conflicts = {}
      BY <1>1, <2>1, <2>2, <3>2, LineMerged DEF conflicts, merged
    <3> QED BY <3>1, <3>2
  <2> QED BY <1>2, <2>1, <2>2, <2>3, LineSteps
<1>6. CASE Validate
  <2> DEFINE conflicts == {c.path : c \in {d \in Range(job.changes) : Conflicts(d)}}
  <2>1. /\ job.pc = "validate" /\ UNCHANGED <<files, record, queue, sessions, spent>>
        /\ job' = IF conflicts # {} THEN [job EXCEPT !.pc = "capture", !.conflicts = conflicts]
                                    ELSE [job EXCEPT !.pc = "snapshot"]
    BY <1>6 DEF Validate, At
  <2> HIDE DEF conflicts
  <2>2. /\ job'.pc \in {"snapshot", "capture"} /\ job'.changes = job.changes
        /\ job'.snapshots = job.snapshots /\ job'.written = job.written /\ job'.touched = job.touched
    BY <2>1 DEF WritebackInv, Shapes
  <2>3. JobLines'
    <3>1. CASE job'.pc = "capture"
      BY <3>1, NoLines
    <3>2. CASE job'.pc = "snapshot"
      <4>1. Merging /\ Merging'
        BY <2>1, <3>2 DEF Merging
      <4> QED BY <1>1, <2>1, <2>2, <3>2, <4>1, LineKeeps
    <3> QED BY <2>2, <3>1, <3>2
  <2> QED BY <1>2, <2>1, <2>2, <2>3, LineSteps
<1>7. CASE Snapshot
  <2> DEFINE taken == [p \in PathsOf(job.changes) |-> files[p]]
             pc == AfterWrites({})
  <2>1. /\ job' = [job EXCEPT !.pc = pc, !.snapshots = taken]
        /\ job.pc = "snapshot" /\ UNCHANGED <<files, record, queue, sessions, spent>>
    BY <1>7 DEF Snapshot, At
  <2>2. DOMAIN taken = PathsOf(job.changes) /\ \A p \in DOMAIN taken : taken[p] = files[p]
    OBVIOUS
  <2>3. PathsOf(job.changes) \subseteq Paths
    BY DEF PathsOf, TextInv, JobTexts, TypedChanges, WorkspaceChange
  <2>4. pc \in {"check", "succeed"} /\ (pc = "succeed" => DOMAIN job.changes \subseteq {})
    BY DEF AfterWrites
  <2> HIDE DEF taken, pc
  <2>5. /\ job'.changes = job.changes /\ job'.snapshots = taken /\ job'.written = job.written
        /\ job'.touched = job.touched /\ job'.pc = pc
    BY <2>1 DEF WritebackInv, Shapes
  <2>6. Merging /\ Merging'
    BY <2>1, <2>4, <2>5 DEF Merging
  <2>7. job'.pc # "write" /\ (job'.pc = "succeed" => DOMAIN job.changes \subseteq job.written)
    BY <2>4, <2>5
  <2>8. JobLines'
    BY <1>1, <2>1, <2>5, <2>6, <2>7, LineKeeps
  <2>9. \A p \in DOMAIN job'.snapshots : Sound(job'.snapshots[p])
    BY <1>2, <2>2, <2>3, <2>5
  <2> QED BY <1>2, <2>1, <2>8, <2>9, LineSteps
<1>8. CASE Check
  <2>1. /\ job'.changes = job.changes /\ job'.snapshots = job.snapshots /\ job'.written = job.written
        /\ job'.touched = job.touched
        /\ job.pc = "check" /\ UNCHANGED <<files, record, queue>>
        /\ IF Conflicts(NextChange) THEN job'.pc = "rollback" ELSE job'.pc = "write"
    BY <1>8 DEF Check, At, WritebackInv, Shapes
  <2>2. Merging /\ (job'.pc = "rollback" \/ Merging')
    BY <2>1 DEF Merging
  <2>3. JobLines'
    BY <1>1, <2>1, <2>2, LineKeeps
  <2> QED BY <1>2, <2>1, <2>3, LineSteps
<1>9. CASE Write
  <2>1. JobLines' /\ \A p \in Paths : Sound(files'[p])
    BY <1>9, LineWritten
  <2>2. UNCHANGED <<record, queue>> /\ job'.snapshots = job.snapshots
    BY <1>9 DEF Write, WritebackInv, Shapes
  <2> QED BY <1>2, <2>1, <2>2, LineSteps
<1>10. CASE WriteError
  <2>1. /\ job.pc = "write" /\ UNCHANGED <<record, queue>>
        /\ job'.changes = job.changes /\ job'.snapshots = job.snapshots /\ job'.pc = "rollback"
    BY <1>10 DEF WriteError, At, Goto, WritebackInv, Shapes
  <2>2. JobLines'
    <3>1. Merging
      BY <2>1 DEF Merging
    <3> QED BY <1>1, <2>1, <3>1, LineRollback
  <2>3. ASSUME NEW p \in Paths PROVE Sound(files'[p])
    <3>1. files'[p] = files[p] \/ files'[p] = File(<<>>)
      BY <1>10 DEF WriteError, WritebackInv, Shapes
    <3> QED BY <1>2, <3>1, SoundFiles
  <2> QED BY <1>2, <2>1, <2>2, <2>3, LineSteps
<1>11. CASE rollbackAppliedPaths
  <2> DEFINE kept == {c \in Applied : files[c.path] = Written(c)}
             back == {c.path : c \in kept}
  <2>1. back \subseteq DOMAIN job.snapshots
    BY DEF WrittenPaths, Applied, TextInv, JobTexts
  <2>2. /\ UNCHANGED <<record, queue>>
        /\ files' = [p \in Paths |-> IF p \in back THEN job.snapshots[p] ELSE files[p]]
        /\ \E pc \in {"fail", "capture"} : Goto(pc)
    BY <1>11 DEF rollbackAppliedPaths
  <2> HIDE DEF back, kept
  <2>3. \A p \in Paths : Sound(files'[p])
    BY <1>2, <2>1, <2>2
  <2>4. job'.snapshots = job.snapshots /\ job'.pc \in {"fail", "capture"}
    BY <2>2 DEF Goto, WritebackInv, Shapes
  <2>5. JobLines'
    BY <2>4, NoLines
  <2> QED BY <1>2, <2>2, <2>3, <2>4, <2>5, LineSteps
<1>12. CASE Capture
  <2> DEFINE view == [p \in job.conflicts |-> [ choice |-> "open", seen |-> files[p] ]]
  <2>1. Settle("conflicted", view) /\ UNCHANGED <<files, sessions>>
    BY <1>12 DEF Capture
  <2>2. job.conflicts \subseteq Paths
    BY <1>1, CurrentIn, OwnChanges DEF WritebackInv, JobInv
  <2>3. \A p \in DOMAIN view : Sound(view[p].seen)
    BY <1>2, <2>2
  <2> HIDE DEF view
  <2> QED BY <1>1, <2>1, <2>3, LineSettle
<1>13. CASE Succeed
  BY <1>1, <1>2, <1>13, LineSettle DEF Succeed
<1>14. CASE Fail
  BY <1>1, <1>2, <1>14, LineSettle DEF Fail
<1> QED BY <1>3, <1>4, <1>5, <1>6, <1>7, <1>8, <1>9, <1>10, <1>11, <1>12, <1>13, <1>14 DEF Apply

-----------------------------------------------------------------------------
(* The other steps. *)

\* ResolvedChanges, for one change.
ResolvedChange(r, c) ==
    LET view == record[r].view
        Decided == [ op |-> IF c.op = "delete" THEN "delete"
                             ELSE IF view[c.path].seen.exists THEN "update" ELSE "create",
                     path |-> c.path, text |-> c.text, expected |-> view[c.path].seen, based |-> FALSE ]
    IN  IF c.path \in DOMAIN view THEN Decided ELSE c

LEMMA ResolvedChangesAre ==
    ASSUME NEW r \in Records
    PROVE  /\ DOMAIN ResolvedChanges(r) = {i \in DOMAIN ChangeSets[r] : ~LeftOut(r, ChangeSets[r][i])}
           /\ \A i \in DOMAIN ResolvedChanges(r) : ResolvedChanges(r)[i] = ResolvedChange(r, ChangeSets[r][i])
<1> DEFINE wanted == {i \in DOMAIN ChangeSets[r] : ~LeftOut(r, ChangeSets[r][i])}
<1>1. ResolvedChanges(r) = [i \in wanted |-> ResolvedChange(r, ChangeSets[r][i])]
  BY Zenon DEF ResolvedChanges, LeftOut, ResolvedChange
<1> HIDE DEF wanted
<1>2. DOMAIN ResolvedChanges(r) = wanted
  BY <1>1
<1>3. \A i \in wanted : ResolvedChanges(r)[i] = ResolvedChange(r, ChangeSets[r][i])
  BY <1>1
<1> QED BY <1>2, <1>3 DEF wanted

LEMMA SubmittedAre ==
    ASSUME NEW r \in Records
    PROVE  /\ \A mode : Submitted(r, mode, ChangeSets[r])
           /\ Submitted(r, "resolved", ResolvedChanges(r))
<1>1. \A mode : Submitted(r, mode, ChangeSets[r])
  BY DEF Submitted, Carries
<1>2. ASSUME NEW c PROVE Carries(r, "resolved", c, ResolvedChange(r, c))
  <2> DEFINE view == record[r].view
             d == [ op |-> IF c.op = "delete" THEN "delete"
                             ELSE IF view[c.path].seen.exists THEN "update" ELSE "create",
                    path |-> c.path, text |-> c.text, expected |-> view[c.path].seen, based |-> FALSE ]
  <2>1. ResolvedChange(r, c) = IF c.path \in DOMAIN view THEN d ELSE c
    BY DEF ResolvedChange
  <2>2. d.path = c.path /\ d.text = c.text /\ (d.op = "delete" <=> c.op = "delete") /\ ~d.based
        /\ d.expected = view[c.path].seen
    OBVIOUS
  <2> HIDE DEF d
  <2>3. c.path \in DOMAIN view => Carries(r, "resolved", c, d)
    BY <2>2 DEF Carries, Seen
  <2>4. Carries(r, "resolved", c, c)
    BY DEF Carries
  <2> QED BY <2>1, <2>3, <2>4
<1> QED BY <1>1, <1>2, ResolvedChangesAre DEF Submitted

LEMMA LineUser ==
    ASSUME WritebackInv, TextInv, LineInv, NEW r \in Records,
           \/ enqueue(r) \/ abandon(r) \/ retryMerge(r) \/ useSession(r) \/ applyConfirmedConflict(r)
           \/ \E p \in Paths, choice \in {"ours", "theirs"} : saveConflictFile(r, p, choice)
    PROVE  LineInv'
<1>1. /\ enqueue(r) => record[r].status \notin InFlight
      /\ CanResolve(r) => record[r].status \notin InFlight
  BY DEF enqueue, CanResolve, Resolvable, InFlight
<1>2. CASE enqueue(r)
  BY <1>1, <1>2, SubmittedAre, LineSubmit DEF enqueue
<1>3. CASE retryMerge(r)
  BY <1>1, <1>3, SubmittedAre, LineSubmit DEF retryMerge
<1>4. CASE useSession(r)
  BY <1>1, <1>4, SubmittedAre, LineSubmit DEF useSession
<1>5. CASE applyConfirmedConflict(r)
  BY <1>1, <1>5, SubmittedAre, LineSubmit DEF applyConfirmedConflict
<1>6. CASE abandon(r)
  <2>1. /\ UNCHANGED <<files, queue, job>> /\ r \notin Operations
        /\ \A s \in Records \ {r} : record'[s] = record[s]
        /\ record'[r].view = NoView
    BY <1>1, <1>6, NotQueued DEF abandon, SetRecord, WritebackInv, Shapes
  <2>2. \A s \in Records : \A p \in DOMAIN record'[s].view : Sound(record'[s].view[p].seen)
    BY <2>1 DEF LineInv, SoundInv, NoView
  <2>3. \A s \in Operations : record'[s] = record[s]
    BY <2>1 DEF WritebackInv, QueueInv, Operations
  <2> QED BY <2>1, <2>2, <2>3, LineFrame
<1>7. ASSUME NEW p \in Paths, NEW choice \in {"ours", "theirs"}, saveConflictFile(r, p, choice)
      PROVE  LineInv'
  <2>1. /\ UNCHANGED <<files, queue, job>> /\ r \notin Operations
        /\ p \in DOMAIN record[r].view
        /\ record' = [record EXCEPT ![r].view[p].choice = choice]
    BY <1>1, <1>7, NotQueued DEF saveConflictFile
  <2>2. \A s \in Records \ {r} : record'[s] = record[s]
    BY <2>1 DEF WritebackInv, Shapes
  <2>3. record'[r].view = [record[r].view EXCEPT ![p].choice = choice]
    BY <2>1 DEF WritebackInv, Shapes
  <2>4. ASSUME NEW q \in DOMAIN record'[r].view PROVE Sound(record'[r].view[q].seen)
    <3>1. q \in DOMAIN record[r].view
      BY <2>3
    <3>2. DOMAIN record[r].view[q] = {"choice", "seen"} /\ Sound(record[r].view[q].seen)
      BY <3>1 DEF TextInv, TypedView, LineInv, SoundInv
    <3>3. \/ record'[r].view[q] = record[r].view[q]
          \/ record'[r].view[q] = [record[r].view[q] EXCEPT !.choice = choice]
      BY <2>3, <3>1
    <3>4. CASE record'[r].view[q] = record[r].view[q]
      BY <3>2, <3>4
    <3>5. CASE record'[r].view[q] = [record[r].view[q] EXCEPT !.choice = choice]
      <4>1. "choice" # "seen"
        OBVIOUS
      <4>2. record'[r].view[q].seen = record[r].view[q].seen
        BY <3>2, <3>5, <4>1
      <4> QED BY <3>2, <4>2
    <3> QED BY <3>3, <3>4, <3>5
  <2>5. \A s \in Records : \A q \in DOMAIN record'[s].view : Sound(record'[s].view[q].seen)
    BY <2>2, <2>4 DEF LineInv, SoundInv
  <2>6. \A s \in Operations : record'[s] = record[s]
    BY <2>1, <2>2 DEF WritebackInv, QueueInv, Operations
  <2> QED BY <2>1, <2>5, <2>6, LineFrame
<1> QED BY <1>2, <1>3, <1>4, <1>5, <1>6, <1>7

LEMMA LineOutsideEdit ==
    ASSUME WholeLines, WritebackInv, TextInv, LineInv, NEW p \in Paths, OutsideEdit(p)
    PROVE  LineInv'
<1>1. /\ UNCHANGED <<record, queue>>
      /\ \E file \in Edits(p) : files' = [files EXCEPT ![p] = file]
  BY DEF OutsideEdit
<1>2. \A q \in Paths : q # p => files'[q] = files[q]
  BY <1>1 DEF TextInv
<1>3. \A q \in Paths : Sound(files'[q])
  <2>1. SoundInv
    BY DEF LineInv
  <2> QED BY <1>1, <2>1, EditsSound DEF TextInv, SoundInv
<1>4. /\ job'.changes = job.changes /\ job'.snapshots = job.snapshots /\ job'.written = job.written
      /\ job'.pc = job.pc
      /\ job.pc # "idle" => /\ job'.touched = job.touched \cup {p}
                            /\ job'.late = (job.late \/ (job.pc = "write" /\ NextChange.path = p))
  BY DEF OutsideEdit, WritebackInv, Shapes
<1>5. JobLines'
  <2>1. CASE queue = <<>>
    <3>1. job.pc = "idle"
      BY <2>1 DEF WritebackInv, JobInv
    <3> QED BY <1>4, <3>1, NoLines
  <2>2. CASE job.pc = "idle"
    BY <1>4, <2>2, NoLines
  <2>3. CASE queue # <<>> /\ job.pc # "idle"
    <3>1. /\ Current' = Current /\ OwnSet' = OwnSet /\ (Merging' <=> Merging)
          /\ Current.rec \in Records /\ OwnSet = ChangeSets[Current.rec]
      BY <1>1, <1>4, <2>3, CurrentIn DEF Current, OwnSet, Merging
    <3>2. \A c : c.path \in Paths /\ Settled(c) => Settled(c)'
      <4>1. \A c : c.path \in Paths => c.path \in job'.touched \/ files'[c.path] = files[c.path]
        BY <1>2, <1>4, <2>3
      <4>2. job.touched \subseteq job'.touched /\ queue' # <<>>
        BY <1>1, <1>4, <2>3
      <4> QED BY <1>1, <2>3, <3>1, <4>1, <4>2, SettledFrame
    <3>3. \A i \in DOMAIN OwnSet : OwnSet[i].path \in Paths
      BY <3>1, ChangeSetsTyped DEF TypedChanges, WorkspaceChange
    <3>4. ASSUME NEW i \in DOMAIN OwnSet, Settled(OwnSet[i])
          PROVE  Settled(OwnSet[i])'
      <4>1. \A c : c = OwnSet[i] => Settled(c)'
        BY <3>2, <3>3, <3>4
      <4> QED BY <3>1, <4>1
    <3>5. \A c, d : Carries(Current.rec, Current.mode, c, d) => Carries(Current.rec, Current.mode, c, d)'
      BY <1>1, <3>1, ViewFrame
    <3>6. \A c, d : Brings(Current.rec, Current.mode, c, d) => Brings(Current.rec, Current.mode, c, d)'
      BY <1>1, <3>1, ViewFrame
    <3>7. ASSUME job.pc = "write", ~job'.late, ~Conflicts(NextChange)
          PROVE  ~Conflicts(NextChange)'
      <4>1. NextChange' = NextChange
        BY <1>4 DEF NextChange, NextPosition
      <4>2. NextChange.path # p /\ NextChange.path \in Paths
        BY <1>4, <2>3, <3>7, NextChangeIn
      <4>3. files'[NextChange.path] = files[NextChange.path]
        BY <1>2, <4>2
      <4> QED BY <3>7, <4>1, <4>3 DEF Conflicts
    <3>8. job.pc = "write" /\ ~job'.late => ~job.late
      BY <1>4, <2>3
    <3> QED BY <1>4, <3>1, <3>4, <3>5, <3>6, <3>7, <3>8 DEF LineInv, JobLines
  <2> QED BY <2>1, <2>2, <2>3
<1>6. \A q \in DOMAIN job'.snapshots : Sound(job'.snapshots[q])
  BY <1>4 DEF LineInv, SoundInv
<1> QED BY <1>1, <1>3, <1>5, <1>6, LineSteps

LEMMA LineNext ==
    ASSUME WholeLines, WritebackInv, TextInv, LineInv, [Next]_vars
    PROVE  LineInv'
<1>1. CASE Apply
  BY <1>1, LineApply
<1>2. ASSUME NEW r \in Records,
             \/ enqueue(r) \/ abandon(r) \/ retryMerge(r) \/ useSession(r) \/ applyConfirmedConflict(r)
             \/ \E p \in Paths, choice \in {"ours", "theirs"} : saveConflictFile(r, p, choice)
      PROVE  LineInv'
  BY <1>2, LineUser
<1>3. ASSUME UNCHANGED <<files, record, queue, job>>
      PROVE  LineInv'
  <2>1. /\ \A r \in Operations : record'[r] = record[r]
        /\ \A r \in Records : \A p \in DOMAIN record'[r].view : Sound(record'[r].view[p].seen)
    BY <1>3 DEF LineInv, SoundInv
  <2> QED BY <1>3, <2>1, LineFrame
<1>4. ASSUME NEW r \in Closable, Pause(r) \/ Resume(r) \/ BeginDelete(r) \/ Restore(r)
      PROVE  LineInv'
  BY <1>3, <1>4 DEF Pause, Resume, BeginDelete, Restore
<1>5. ASSUME NEW r \in Closable, FinishDelete(r)
      PROVE  LineInv'
  <2>1. /\ UNCHANGED <<files, queue, job>> /\ r \notin Operations
        /\ \A s \in Records \ {r} : record'[s] = record[s]
        /\ \A s \in Records : record'[s].view \in {record[s].view, NoView}
    BY <1>5, ChangeSetsAssumption DEF FinishDelete, WritebackInv, Shapes
  <2>2. \A s \in Records : \A p \in DOMAIN record'[s].view : Sound(record'[s].view[p].seen)
    BY <2>1 DEF LineInv, SoundInv, NoView
  <2>3. \A s \in Operations : record'[s] = record[s]
    BY <2>1 DEF WritebackInv, QueueInv, Operations
  <2> QED BY <2>1, <2>2, <2>3, LineFrame
<1>6. ASSUME NEW p \in Paths, OutsideEdit(p)
      PROVE  LineInv'
  BY <1>6, LineOutsideEdit
<1>7. CASE Crash
  <2>1. /\ queue' = <<>> /\ job' = NoJob /\ UNCHANGED files
        /\ \A r \in Records : record'[r].view = record[r].view
    BY <1>7 DEF Crash, WritebackInv, Shapes
  <2>2. SubmitInv'
    BY <2>1 DEF SubmitInv
  <2>3. job'.pc = "idle" /\ DOMAIN job'.snapshots = {}
    BY <2>1 DEF NoJob
  <2>4. SoundInv'
    BY <2>1, <2>3, SoundFrames DEF SoundInv
  <2> QED BY <2>2, <2>3, <2>4, NoLines DEF LineInv
<1>8. CASE UNCHANGED vars
  BY <1>3, <1>8 DEF vars
<1> QED BY <1>1, <1>2, <1>4, <1>5, <1>6, <1>7, <1>8 DEF Next

LEMMA LineInit ==
    ASSUME WholeLines, Init
    PROVE  LineInv
<1>1. SoundInv
  BY SoundFiles DEF Init, SoundInv, NoJob, NoView
<1>2. SubmitInv
  BY DEF Init, SubmitInv
<1>3. JobLines
  BY DEF Init, JobLines, Merging, NoJob
<1> QED BY <1>1, <1>2, <1>3 DEF LineInv

\* Where every line ends with a newline, an operation that is past its merge brings what
\* its Session changed and keeps what others wrote, whatever is merged, forced or
\* resolved, and whoever edits the files meanwhile.
THEOREM LineInvariance == WholeLines /\ Spec => [](WritebackInv /\ TextInv /\ LineInv)
<1>1. Init => TextInv
  BY ChangeSetsAssumption
     DEF Init, TextInv, JobTexts, NoJob, NoView, TypedChanges, TypedView, WrittenPaths
<1>2. WritebackInv /\ TextInv /\ [Next]_vars => TextInv'
  BY TextNext
<1>3. WholeLines /\ Init => LineInv
  BY LineInit
<1>4. WholeLines /\ WritebackInv /\ TextInv /\ LineInv /\ [Next]_vars => LineInv'
  BY LineNext
<1>5. WholeLines => WholeLines'
  BY DEF WholeLines
<1> QED BY <1>1, <1>2, <1>3, <1>4, <1>5, WritebackInvariance, PTL DEF Spec

\* A write keeps the lines of others, unless the user overruled that very content.
LEMMA WriteKeeps ==
    ASSUME WritebackInv, TextInv, LineInv, Write, NEW p \in Paths, ServerWrites(p), ~job.late, ~Overruled(p)
    PROVE  ForeignLines(Current.rec, files[p]) \subseteq LinesOf(files'[p])
<1> DEFINE n == NextPosition
           d == NextChange
           r == Current.rec
           c == OwnSet[n]
<1>1. /\ queue # <<>> /\ job.pc = "write"
      /\ files' = [files EXCEPT ![d.path] = Written(d)]
  BY DEF Write, At
<1>2. n \in DOMAIN job.changes /\ d = job.changes[n] /\ d.path \in Paths
  BY <1>1, NextChangeIn DEF NextChange
<1>3. p = d.path /\ files'[p] = Written(d)
  BY <1>1, <1>2 DEF ServerWrites, TextInv
<1>4. r \in Records /\ n \in DOMAIN ChangeSets[r] /\ Brings(r, Current.mode, c, d) /\ ~Conflicts(d)
  BY <1>1, <1>2, CurrentIn DEF LineInv, JobLines, Merging, OwnSet
<1>5. Sound(files[p])
  BY DEF LineInv, SoundInv
<1>6. ~(Current.mode = "force" /\ d.expected = files[p]) /\ ~(Current.mode = "resolved" /\ Seen(r, p, files[p]))
  BY DEF Overruled, Seen
<1> HIDE DEF n, d, c
<1>7. CASE d.op = "create"
  <2>1. files[p] = Missing
    BY <1>3, <1>4, <1>5, <1>7 DEF Conflicts, Sound
  <2> QED BY <1>4, <2>1, OwnForeign
<1>8. CASE d.op # "create"
  <2>1. files[p] = d.expected
    BY <1>3, <1>4, <1>8 DEF Conflicts
  <2>2. c.path = p
    BY <1>3, <1>4 DEF Brings
  <2>3. ForeignLines(r, d.expected) \subseteq LinesOf(Written(d))
    BY <1>4, <1>6, <1>8, <2>1, <2>2 DEF Brings
  <2> QED BY <1>3, <2>1, <2>3
<1> QED BY <1>7, <1>8

\* So does a rollback, where the snapshot is what the write saw.
LEMMA RollbackKeeps ==
    ASSUME WritebackInv, TextInv, LineInv, rollbackAppliedPaths, NEW p \in Paths, ServerWrites(p), ~SnapshotIsOther(p)
    PROVE  ForeignLines(Current.rec, files[p]) \subseteq LinesOf(files'[p])
<1> DEFINE kept == {c \in Applied : files[c.path] = Written(c)}
           back == {c.path : c \in kept}
           r == Current.rec
<1>1. /\ queue # <<>> /\ job.pc = "rollback"
      /\ files' = [q \in Paths |-> IF q \in back THEN job.snapshots[q] ELSE files[q]]
  BY DEF rollbackAppliedPaths, At
<1>2. p \in back /\ files'[p] = job.snapshots[p]
  BY <1>1 DEF ServerWrites
<1>3. PICK i \in job.written : job.changes[i].path = p /\ files[p] = Written(job.changes[i])
  BY <1>2 DEF Applied
<1> DEFINE d == job.changes[i]
<1>4. r \in Records /\ Brings(r, Current.mode, OwnSet[i], d)
  BY <1>1, <1>3, CurrentIn DEF LineInv, JobLines, WritebackInv, JobInv
<1>5. d.op = "update" => d.expected = job.snapshots[p]
  BY <1>3 DEF SnapshotIsOther
<1> HIDE DEF d, back, kept
<1>6. files[p] = Written(d)
  BY <1>3 DEF d
<1> QED BY <1>2, <1>4, <1>5, <1>6 DEF Brings

\* Writing the changes of a Session, and taking them back, removes no line of a user or
\* of another Session that was there at the file's last check, unless a user
\* decided against that very content.
THEOREM EditsKept == WholeLines /\ Spec => EditsAreKept
<1>1. WritebackInv /\ TextInv /\ LineInv /\ [Next]_vars =>
          [\A p \in Paths :
              /\ ServerWrites(p)
              /\ ~job.late
              /\ ~(job.pc = "write" /\ Overruled(p))
              /\ ~(job.pc = "rollback" /\ SnapshotIsOther(p))
              => ForeignLines(Current.rec, files[p]) \subseteq LinesOf(files'[p])]_vars
  <2> SUFFICES ASSUME WritebackInv, TextInv, LineInv, Next, NEW p \in Paths, ServerWrites(p), ~job.late,
                      ~(job.pc = "write" /\ Overruled(p)),
                      ~(job.pc = "rollback" /\ SnapshotIsOther(p))
               PROVE  ForeignLines(Current.rec, files[p]) \subseteq LinesOf(files'[p])
    OBVIOUS
  <2>1. CASE Write
    <3>1. job.pc = "write"
      BY <2>1 DEF Write, At
    <3> QED BY <2>1, <3>1, WriteKeeps
  <2>2. CASE rollbackAppliedPaths
    <3>1. job.pc = "rollback"
      BY <2>2 DEF rollbackAppliedPaths, At
    <3> QED BY <2>2, <3>1, RollbackKeeps
  <2> QED BY <2>1, <2>2, ServerWritesAre
<1> QED BY <1>1, LineInvariance, PTL DEF Spec, EditsAreKept

\* A new file with nothing in it looks to the conflict editor like a file that is missing.
CreatesSomething ==
    \A r \in Records : \A i \in DOMAIN ChangeSets[r] : ChangeSets[r][i].op = "create" => ChangeSets[r][i].text # <<>>

\* A writeback that is reported as applied has brought every change of its Session, but
\* those that a user decided against or saw done.
THEOREM AppliedAreComplete == WholeLines /\ CreatesSomething /\ Spec => []AppliedIsComplete
<1>1. CreatesSomething /\ WritebackInv /\ TextInv /\ LineInv => AppliedIsComplete
  <2> SUFFICES ASSUME CreatesSomething, WritebackInv, TextInv, LineInv, job.pc = "succeed",
                      NEW c \in ToSet(ChangeSets[Current.rec])
               PROVE  \/ c.path \in job.touched
                      \/ InEffect(c)
                      \/ /\ Current.mode = "resolved"
                         /\ c.path \in DOMAIN record[Current.rec].view
                         /\ \/ record[Current.rec].view[c.path].choice = "theirs"
                            \/ record[Current.rec].view[c.path].seen = Written(c)
    BY DEF AppliedIsComplete
  <2> DEFINE r == Current.rec
             seen == record[r].view[c.path].seen
  <2>1. PICK i \in DOMAIN ChangeSets[r] : c = ChangeSets[r][i]
    BY DEF ToSet
  <2>2. r \in Records /\ c \in WorkspaceChange /\ (c.op = "create" => c.text # <<>>)
    <3>1. queue # <<>>
      BY DEF WritebackInv, JobInv
    <3> QED BY <2>1, <3>1, CurrentIn, ChangeSetsTyped DEF TypedChanges, CreatesSomething
  <2>3. Settled(c)
    BY <2>1 DEF LineInv, JobLines, Merging, OwnSet
  <2>4. ASSUME c.path \in DOMAIN record[r].view, c.op = "delete", ~seen.exists
        PROVE  seen = Written(c)
    BY <2>2, <2>4 DEF LineInv, SoundInv, Sound, Written
  <2>5. ASSUME c.path \in DOMAIN record[r].view, c.op # "delete", seen.text = c.text
        PROVE  InEffect(c) \/ seen = Written(c)
    <3>1. Sound(seen) /\ seen \in Files
      BY <2>2, <2>5 DEF LineInv, SoundInv, TextInv, TypedView
    <3>2. CASE seen.exists
      <4>1. seen = File(c.text)
        <5>1. \A file \in Files : file.exists => file = File(file.text)
          BY DEF Files, File
        <5> HIDE DEF seen
        <5> QED BY <2>5, <3>1, <3>2, <5>1
      <4> QED BY <2>5, <4>1 DEF Written
    <3>3. CASE ~seen.exists
      <4>1. c.text = <<>>
        BY <2>5, <3>1, <3>3 DEF Sound, Missing
      <4>2. c.op = "update" /\ ToSet(c.text) = {}
        BY <2>2, <2>5, <4>1 DEF WorkspaceChange, ToSet
      <4> QED BY <4>2 DEF InEffect
    <3> QED BY <3>2, <3>3
  <2> QED BY <2>3, <2>4, <2>5 DEF Settled, LeftOut
<1>2. CreatesSomething => CreatesSomething'
  BY DEF CreatesSomething
<1> QED BY <1>1, <1>2, LineInvariance, PTL DEF Spec
=============================================================================
