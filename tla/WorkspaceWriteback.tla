------------------------- MODULE WorkspaceWriteback -------------------------
(***************************************************************************)
(* Writing the change sets of several Sessions back into one shared        *)
(* server_local workspace: WorkspaceWritebackService (the records, the     *)
(* queue of the workspace, the conflict drafts and how a user resolves     *)
(* them), applyServerLocalChangeSet (merge, validate, snapshot, write,     *)
(* roll back) and clearSessionDrafts.  Users and other programs edit the   *)
(* same files at any time; the server may crash between any two steps.     *)
(*                                                                         *)
(* A file is a text or missing; its hash stands for its content, so        *)
(* contents are compared where the code compares hashes.  Reads of several *)
(* files are one step: an outside edit is of one file, so it can be moved  *)
(* before or after the reads of the others.  Each record has a Session of  *)
(* its own.                                                                *)
(***************************************************************************)
EXTENDS ThreeWayMerge

CONSTANTS
    Paths, Records,
    Baseline,       \* the files the Sessions started from
    ChangeSets,     \* per record: the changes of its Session, in order
    UserLines,      \* lines that users write into the files
    MaxEdits,       \* bound: outside edits
    MaxFaults,      \* bound: record updates that fail, file writes that fail, crashes and pauses, together
    Closable        \* the records whose Sessions users pause and delete

Missing == [ exists |-> FALSE, text |-> <<>> ]
File(text) == [ exists |-> TRUE, text |-> text ]

\* Changes are written in the order of their positions; those left out leave a gap.
PathsOf(changes) == {changes[i].path : i \in DOMAIN changes}

TextLine == [ words : Seq(STRING), newline : BOOLEAN ]
Files == [ exists : BOOLEAN, text : Seq(TextLine) ]
WorkspaceChange == [ op : {"create", "update", "delete"}, path : Paths, text : Seq(TextLine),
                     expected : Files, based : BOOLEAN ]

\* The change set of a Session names each file once and is relative to the baseline.
ASSUME ChangeSetsAssumption ==
    /\ Baseline \in [Paths -> Files]
    /\ ChangeSets \in [Records -> Seq(WorkspaceChange)]
    /\ UserLines \subseteq TextLine
    /\ Closable \subseteq Records
    /\ \A p \in Paths : ~Baseline[p].exists => Baseline[p] = Missing
    /\ \A r \in Records :
        /\ \A i, j \in DOMAIN ChangeSets[r] : ChangeSets[r][i].path = ChangeSets[r][j].path => i = j
        /\ \A i \in DOMAIN ChangeSets[r] : ChangeSets[r][i].expected = Baseline[ChangeSets[r][i].path]

VARIABLES
    files,          \* the workspace
    record,         \* per record: status and conflict view
    queue,          \* the tail of the workspace: the running operation and those behind it
    job,            \* the operation at the head of the queue
    sessions,       \* per record: its Session
    spent           \* how much of each bound is used

vars == <<files, record, queue, job, sessions, spent>>

InFlight == {"queued", "merging", "applying"}
Resolvable == {"conflicted", "failed"}
NoView == <<>>
NoJob == [ pc |-> "idle", changes |-> <<>>, snapshots |-> <<>>, written |-> {}, conflicts |-> {},
           touched |-> {}, late |-> FALSE ]

\* touched and late are history: the files edited from outside since the operation
\* began, and whether one was edited between its last check and its write.

\* The record, the mode and the changes of the operation that runs.
Current == Head(queue)
Operations == {queue[i].rec : i \in DOMAIN queue}       \* activeOperations

\* assertActiveGeneration: a restored Session has another generation.
Admitted(r) == sessions[r] = "active"
\* The Session check of update.
Live(r) == sessions[r] \notin {"deleting", "deleted"}

Init ==
    /\ files = Baseline
    /\ record = [r \in Records |-> [ status |-> "none", view |-> NoView ]]
    /\ queue = <<>>
    /\ job = NoJob
    /\ sessions = [r \in Records |-> "active"]
    /\ spent = [ edits |-> 0, failures |-> 0, errors |-> 0, crashes |-> 0, pauses |-> 0 ]

Spend(what) == spent' = [spent EXCEPT ![what] = @ + 1]
Fault(what) == spent.failures + spent.errors + spent.crashes + spent.pauses < MaxFaults /\ Spend(what)

-----------------------------------------------------------------------------
(* The changes of an operation. *)

Written(change) == IF change.op = "delete" THEN Missing ELSE File(change.text)

\* forceChangeSet: the changes of the Session over whatever the files are now.
Forced(changes) ==
    LET Now(c) == [ op |-> IF c.op = "delete" THEN "delete"
                            ELSE IF files[c.path].exists THEN "update" ELSE "create",
                    path |-> c.path, text |-> c.text, expected |-> files[c.path], based |-> FALSE ]
        Needed(c) == c.op = "delete" => files[c.path].exists
    IN  [i \in {j \in DOMAIN changes : Needed(changes[j])} |-> Now(changes[i])]

\* mergeServerLocalChangeSet, for one change.
NeedsMerge(c) == c.op = "update" /\ files[c.path].exists /\ files[c.path] # c.expected /\ c.based
MergeOf(c) == mergeWorkspaceText(c.expected.text, files[c.path].text, c.text)
MergeConflicts(changes) == {c.path : c \in {d \in Range(changes) : NeedsMerge(d) /\ ~MergeOf(d).ok}}
MergedChanges(changes) ==
    LET Wanted(c) == ~(NeedsMerge(c) /\ MergeOf(c).content = files[c.path].text)
        Result(c) == IF NeedsMerge(c) THEN [c EXCEPT !.text = MergeOf(c).content, !.expected = files[c.path]] ELSE c
    IN  [i \in {j \in DOMAIN changes : Wanted(changes[j])} |-> Result(changes[i])]

\* validateChangeSetBaseHashes, for one change.
Conflicts(c) == IF c.op = "create" THEN files[c.path].exists ELSE ~files[c.path].exists \/ files[c.path] # c.expected

\* Mutant: only the files of the conflict editor are submitted again.
ResolvedChanges_OnlyView(r) ==
    LET view == record[r].view
        Wanted(c) == c.path \in DOMAIN view /\ view[c.path].choice = "ours"
        wanted == {i \in DOMAIN ChangeSets[r] : Wanted(ChangeSets[r][i])}
    IN  [i \in wanted |-> [ChangeSets[r][i] EXCEPT !.expected = view[ChangeSets[r][i].path].seen, !.based = FALSE]]

\* applyConfirmedConflict: what the user decided for the conflicting files, the
\* original changes for the others.
ResolvedChanges(r) ==
    LET view == record[r].view
        Leaves(c) == c.path \in DOMAIN view /\ (\/ view[c.path].choice = "theirs"
                                                \/ c.op = "delete" /\ ~view[c.path].seen.exists
                                                \/ c.op # "delete" /\ view[c.path].seen.text = c.text)
        Decided(c) == [ op |-> IF c.op = "delete" THEN "delete"
                                ELSE IF view[c.path].seen.exists THEN "update" ELSE "create",
                        path |-> c.path, text |-> c.text, expected |-> view[c.path].seen, based |-> FALSE ]
        Result(c) == IF c.path \in DOMAIN view THEN Decided(c) ELSE c
    IN  [i \in {j \in DOMAIN ChangeSets[r] : ~Leaves(ChangeSets[r][j])} |-> Result(ChangeSets[r][i])]

-----------------------------------------------------------------------------
(* update: one transaction on the record of r. *)

\* A record of a Session that is going away is not stored: nobody can resolve it.
Stored(r, status) == IF Live(r) THEN status ELSE "failed"

SetStatus(r, status) == record' = [record EXCEPT ![r].status = status]
SetRecord(r, status, view) == record' = [record EXCEPT ![r] = [ status |-> Stored(r, status), view |-> view ]]

Submit(r, mode, changes) == queue' = Append(queue, [ rec |-> r, mode |-> mode, changes |-> changes ])
Leave == queue' = Tail(queue) /\ job' = NoJob
Goto(pc) == job' = [job EXCEPT !.pc = pc]

At(pc) == queue # <<>> /\ job.pc = pc

\* The update of an operation to an in-flight status; when it throws, the
\* operation goes on in the catch of apply.
Advance(status, next) ==
    \/ /\ Live(Current.rec)
       /\ SetStatus(Current.rec, status)
       /\ job' = next
       /\ UNCHANGED spent
    \/ /\ ~Live(Current.rec)
       /\ Goto("fail")
       /\ UNCHANGED <<record, spent>>
    \/ /\ Fault("failures")
       /\ Goto("fail")
       /\ UNCHANGED record

\* The last update of an operation.  It is returned, not awaited, so the catch does not
\* see it fail: the record is left in flight.
Settle(status, view) ==
    /\ Leave
    /\ \/ SetRecord(Current.rec, status, view) /\ UNCHANGED spent
       \/ Fault("failures") /\ UNCHANGED record

-----------------------------------------------------------------------------
(* apply of the service, and applyServerLocalChangeSet. *)

enqueue(r) ==
    /\ record[r].status = "none"
    /\ Admitted(r)
    /\ SetStatus(r, "queued")
    /\ Submit(r, "plain", ChangeSets[r])
    /\ UNCHANGED <<files, job, sessions, spent>>

Begin ==
    /\ At("idle")
    /\ IF Admitted(Current.rec)
       THEN Advance("merging", [job EXCEPT !.pc = "prepare"]) /\ UNCHANGED queue
       ELSE Settle("failed", record[Current.rec].view)
    /\ UNCHANGED <<files, sessions>>

Prepare ==
    /\ At("prepare")
    /\ LET changes == IF Current.mode = "force" THEN Forced(Current.changes) ELSE Current.changes
       IN  Advance("applying", [job EXCEPT !.pc = "merge", !.changes = changes])
    /\ UNCHANGED <<files, queue, sessions>>

Merge ==
    /\ At("merge")
    /\ LET conflicts == MergeConflicts(job.changes)
       IN  job' = IF conflicts # {} THEN [job EXCEPT !.pc = "capture", !.conflicts = conflicts]
                                    ELSE [job EXCEPT !.pc = "validate", !.changes = MergedChanges(job.changes)]
    /\ UNCHANGED <<files, record, queue, sessions, spent>>

Validate ==
    /\ At("validate")
    /\ LET conflicts == {c.path : c \in {d \in Range(job.changes) : Conflicts(d)}}
       IN  job' = IF conflicts # {} THEN [job EXCEPT !.pc = "capture", !.conflicts = conflicts]
                                    ELSE [job EXCEPT !.pc = "snapshot"]
    /\ UNCHANGED <<files, record, queue, sessions, spent>>

\* The position that is written next.
NextPosition == Min(DOMAIN job.changes \ job.written)
NextChange == job.changes[NextPosition]
AfterWrites(written) == IF DOMAIN job.changes \subseteq written THEN "succeed" ELSE "check"

Snapshot ==
    /\ At("snapshot")
    /\ job' = [job EXCEPT !.pc = AfterWrites({}),
                          !.snapshots = [p \in PathsOf(job.changes) |-> files[p]]]
    /\ UNCHANGED <<files, record, queue, sessions, spent>>

\* Mutant: the files are not looked at again before they are written.
Check_Skipped ==
    /\ At("check")
    /\ Goto("write")
    /\ UNCHANGED <<files, record, queue, sessions, spent>>

\* The late check of one change, right before it is written.
Check ==
    /\ At("check")
    /\ job' = IF Conflicts(NextChange)
              THEN [job EXCEPT !.pc = "rollback", !.conflicts = {NextChange.path}]
              ELSE [job EXCEPT !.pc = "write"]
    /\ UNCHANGED <<files, record, queue, sessions, spent>>

Write ==
    /\ At("write")
    /\ files' = [files EXCEPT ![NextChange.path] = Written(NextChange)]
    /\ LET written == job.written \cup {NextPosition}
       IN  job' = [job EXCEPT !.pc = AfterWrites(written), !.written = written, !.late = FALSE]
    /\ UNCHANGED <<record, queue, sessions, spent>>

\* writeFile can truncate the file before it throws.
WriteError ==
    /\ At("write")
    /\ Fault("errors")
    /\ \/ UNCHANGED files
       \/ NextChange.op # "delete" /\ files' = [files EXCEPT ![NextChange.path] = File(<<>>)]
    /\ Goto("rollback")
    /\ UNCHANGED <<record, queue, sessions>>

\* Mutant: the last write is forgotten.
Applied_ButLast == {job.changes[i] : i \in {j \in job.written : \E k \in job.written : k > j}}

\* rollbackAppliedPaths: what was written is taken back where it is still there.
Applied == {job.changes[i] : i \in job.written}
rollbackAppliedPaths ==
    LET kept == {c \in Applied : files[c.path] = Written(c)}
        back == {c.path : c \in kept}
    IN  /\ At("rollback")
        /\ files' = [p \in Paths |-> IF p \in back THEN job.snapshots[p] ELSE files[p]]
        /\ Goto(IF kept # Applied \/ job.conflicts = {} THEN "fail" ELSE "capture")
        /\ UNCHANGED <<record, queue, sessions, spent>>

\* Mutant: the conflicts are recorded without a draft to resolve them in.
Capture_NoView ==
    /\ At("capture")
    /\ Settle("conflicted", NoView)
    /\ UNCHANGED <<files, sessions>>

\* captureConflictView: the draft holds the files that conflict now, and no others.
Capture ==
    /\ At("capture")
    /\ Settle("conflicted", [p \in job.conflicts |-> [ choice |-> "open", seen |-> files[p] ]])
    /\ UNCHANGED <<files, sessions>>

Succeed ==
    /\ At("succeed")
    /\ Settle("applied", NoView)
    /\ UNCHANGED <<files, sessions>>

Fail ==
    /\ At("fail")
    /\ Settle("failed", record[Current.rec].view)
    /\ UNCHANGED <<files, sessions>>

-----------------------------------------------------------------------------
(* What the user decides about a conflicted or failed writeback. *)

CanResolve(r) == record[r].status \in Resolvable /\ Admitted(r)

saveConflictFile(r, p, choice) ==
    /\ CanResolve(r)
    /\ p \in DOMAIN record[r].view
    /\ record[r].view[p].choice = "open"
    /\ record' = [record EXCEPT ![r].view[p].choice = choice]
    /\ UNCHANGED <<files, queue, job, sessions, spent>>

abandon(r) ==
    /\ CanResolve(r)
    /\ SetRecord(r, "abandoned", NoView)
    /\ UNCHANGED <<files, queue, job, sessions, spent>>

retryMerge(r) ==
    /\ CanResolve(r)
    /\ SetStatus(r, "queued")
    /\ Submit(r, "plain", ChangeSets[r])
    /\ UNCHANGED <<files, job, sessions, spent>>

\* A conflicted record always has a view, so its files are decided one by one.
useSession(r) ==
    /\ CanResolve(r)
    /\ record[r].status = "failed"
    /\ SetStatus(r, "queued")
    /\ Submit(r, "force", ChangeSets[r])
    /\ UNCHANGED <<files, job, sessions, spent>>

applyConfirmedConflict(r) ==
    /\ CanResolve(r)
    /\ record[r].view # NoView
    /\ \A p \in DOMAIN record[r].view :
           record[r].view[p].choice # "open" /\ record[r].view[p].seen = files[p]
    /\ SetStatus(r, "queued")
    /\ Submit(r, "resolved", ResolvedChanges(r))
    /\ UNCHANGED <<files, job, sessions, spent>>

-----------------------------------------------------------------------------
(* The Sessions. *)

SetSession(r, state) == sessions' = [sessions EXCEPT ![r] = state]

Pause(r) ==
    /\ sessions[r] = "active"
    /\ Fault("pauses")
    /\ SetSession(r, "paused")
    /\ UNCHANGED <<files, record, queue, job>>

Resume(r) ==
    /\ sessions[r] = "paused"
    /\ SetSession(r, "active")
    /\ UNCHANGED <<files, record, queue, job, spent>>

BeginDelete(r) ==
    /\ sessions[r] \in {"active", "paused"}
    /\ SetSession(r, "deleting")
    /\ UNCHANGED <<files, record, queue, job, spent>>

\* Mutant: the delete does not wait for an operation of the Session.
FinishDelete_Eager(r) ==
    /\ sessions[r] = "deleting"
    /\ SetSession(r, "deleted")
    /\ UNCHANGED <<files, record, queue, job, spent>>

\* clearSessionDrafts, then completeDelete.
FinishDelete(r) ==
    /\ sessions[r] = "deleting"
    /\ r \notin Operations
    /\ record' = IF record[r].view = NoView THEN record
                 ELSE [record EXCEPT ![r] = [ status |-> IF @.status \in Resolvable THEN "abandoned" ELSE @.status,
                                              view |-> NoView ]]
    /\ SetSession(r, "deleted")
    /\ UNCHANGED <<files, queue, job, spent>>

Restore(r) ==
    /\ sessions[r] = "deleted"
    /\ SetSession(r, "restored")
    /\ UNCHANGED <<files, record, queue, job, spent>>

-----------------------------------------------------------------------------
(* The environment: other writers of the workspace, and a crash of the server. *)

WithLine(file, i, line) == [file EXCEPT !.text[i] = line]

\* A user replaces a line, creates the file, deletes it or puts the original back.
Edits(p) ==
    LET replaced == {WithLine(files[p], i, line) : i \in DOMAIN files[p].text, line \in UserLines}
        created == IF files[p].exists THEN {} ELSE {File(<<line>>) : line \in UserLines}
    IN  (replaced \cup created \cup {Missing, Baseline[p]}) \ {files[p]}

OutsideEdit(p) ==
    /\ spent.edits < MaxEdits
    /\ Spend("edits")
    /\ \E file \in Edits(p) : files' = [files EXCEPT ![p] = file]
    /\ job' = IF job.pc = "idle" THEN job
              ELSE [job EXCEPT !.touched = @ \cup {p},
                               !.late = @ \/ (job.pc = "write" /\ NextChange.path = p)]
    /\ UNCHANGED <<record, queue, sessions>>

\* Mutant: a record that had not started is left queued.
Recovered_Started(status) == IF status \in {"merging", "applying"} THEN "failed" ELSE status

\* The constructor of the service, on the next boot.
Recovered(status) == IF status \in InFlight THEN "failed" ELSE status

Crash ==
    /\ Fault("crashes")
    /\ record' = [r \in Records |-> [record[r] EXCEPT !.status = Recovered(@)]]
    /\ queue' = <<>>
    /\ job' = NoJob
    /\ UNCHANGED <<files, sessions>>

-----------------------------------------------------------------------------
Apply == Begin \/ Prepare \/ Merge \/ Validate \/ Snapshot \/ Check \/ Write \/ WriteError
            \/ rollbackAppliedPaths \/ Capture \/ Succeed \/ Fail

Next ==
    \/ Apply
    \/ \E r \in Records :
           \/ enqueue(r) \/ abandon(r) \/ retryMerge(r) \/ useSession(r) \/ applyConfirmedConflict(r)
           \/ \E p \in Paths, choice \in {"ours", "theirs"} : saveConflictFile(r, p, choice)
    \/ \E r \in Closable : Pause(r) \/ Resume(r) \/ BeginDelete(r) \/ FinishDelete(r) \/ Restore(r)
    \/ \E p \in Paths : OutsideEdit(p)
    \/ Crash

Spec == Init /\ [][Next]_vars

-----------------------------------------------------------------------------
RecordsOK ==
    /\ \A r \in Records :
           /\ record[r].status \in InFlight \cup Resolvable \cup {"none", "applied", "abandoned"}
           /\ record[r].view # NoView => record[r].status # "none" /\ DOMAIN record[r].view \subseteq PathsOf(ChangeSets[r])
           /\ record[r].status = "conflicted" => record[r].view # NoView
    /\ \A i \in DOMAIN queue : queue[i].rec \in Records /\ queue[i].mode \in {"plain", "force", "resolved"}
    /\ job.pc # "idle" => queue # <<>>
    /\ job.written \subseteq DOMAIN job.changes
    /\ sessions \in [Records -> {"active", "paused", "deleting", "deleted", "restored"}]

TypeOK == files \in [Paths -> Files] /\ RecordsOK

LinesOf(file) == ToSet(file.text)
OwnLines(r) == UNION {ToSet(ChangeSets[r][i].text) : i \in DOMAIN ChangeSets[r]}
\* What users and other Sessions put into a file.
ForeignLines(r, file) == (LinesOf(file) \ OwnLines(r)) \ UNION {LinesOf(Baseline[p]) : p \in Paths}

\* A write or a rollback of the server, as opposed to an outside edit or a write that fails.
ServerWrites(p) ==
    /\ files'[p] # files[p]
    /\ spent'.edits = spent.edits
    /\ spent'.errors = spent.errors

\* The user chose the Session's version over exactly this content: it was read after
\* the choice (forceChangeSet) or shown in the conflict editor.
Overruled(p) ==
    \/ Current.mode = "force" /\ NextChange.expected = files[p]
    \/ /\ Current.mode = "resolved"
       /\ p \in DOMAIN record[Current.rec].view
       /\ record[Current.rec].view[p].seen = files[p]

\* An update of p was written over the content it was checked against, and the
\* snapshot taken in between holds another one: an edit that was made after the check
\* of the batch was taken back after the snapshot.
SnapshotIsOther(p) ==
    \E i \in job.written :
        /\ job.changes[i].path = p
        /\ job.changes[i].op = "update"
        /\ job.changes[i].expected # job.snapshots[p]

\* Writing a Session back, and rolling it back, never removes a line of a user or
\* of another Session, unless a user decided so for that very content
\* (validateChangeSetBaseHashes before each write, sameSnapshot before each
\* restore).  The edits at risk are those saved between a file's last check and
\* its write, and those that a snapshot holds and the write did not see.
EditsAreKept ==
    [][\A p \in Paths :
          /\ ServerWrites(p)
          /\ ~job.late
          /\ ~(job.pc = "write" /\ Overruled(p))
          /\ ~(job.pc = "rollback" /\ SnapshotIsOther(p))
          => ForeignLines(Current.rec, files[p]) \subseteq LinesOf(files'[p])]_vars

\* When a writeback ends in conflict after it began to write, every file of the batch
\* is as it was, except where somebody edited it meanwhile.
ConflictLeavesNoTrace ==
    job.pc = "capture" => \A p \in DOMAIN job.snapshots \ job.touched : files[p] = job.snapshots[p]

InEffect(c) ==
    /\ c.op = "delete" => ~files[c.path].exists
    /\ c.op = "create" => files[c.path] = File(c.text)
    /\ c.op = "update" => ToSet(c.text) \ LinesOf(Baseline[c.path]) \subseteq LinesOf(files[c.path])

\* A writeback is only reported as applied when each change of the Session is in
\* the workspace, or the conflict editor left it out because the user decided
\* against it or saw it done: also when it is retried after a restart that left
\* half of it written.
AppliedIsComplete ==
    job.pc = "succeed" =>
        \A c \in ToSet(ChangeSets[Current.rec]) :
            \/ c.path \in job.touched
            \/ InEffect(c)
            \/ /\ Current.mode = "resolved"
               /\ c.path \in DOMAIN record[Current.rec].view
               /\ \/ record[Current.rec].view[c.path].choice = "theirs"
                  \/ record[Current.rec].view[c.path].seen = Written(c)

\* A record in flight has an operation in the queue that will settle it, also
\* after a restart, unless one of its updates failed.
InFlightIsDriven ==
    spent.failures = 0 => \A r \in Records : record[r].status \in InFlight => r \in Operations

\* Once a Session is deleted the server writes none of its changes, whatever was
\* queued or running when the delete began (clearSessionDrafts).
DeletedWritesNothing ==
    [][\A p \in Paths : ServerWrites(p) => sessions[Current.rec] \notin {"deleted", "restored"}]_vars
=============================================================================
