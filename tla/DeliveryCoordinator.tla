------------------------- MODULE DeliveryCoordinator -------------------------
(***************************************************************************)
(* The GitHub delivery of one Session: the record kept in the Session      *)
(* (delivery-state.ts, delivery-candidate.ts), the coordinator that        *)
(* validates, publishes, refreshes, merges and resolves conflicts, one     *)
(* operation at a time (delivery-coordinator.ts), the delivery worktree,   *)
(* and the task branches and pull requests on GitHub, which other people   *)
(* push to, close and merge.  The orchestrator records candidates outside  *)
(* the coordinator's queue; the record's version tells an operation that   *)
(* this happened while it was waiting.                                     *)
(*                                                                         *)
(* A tree is the set of changes it carries over the base commit.  A commit *)
(* is its position in commits; 0 is none, or the base commit, whose tree   *)
(* is empty.                                                               *)
(***************************************************************************)
EXTENDS Integers, Sequences, FiniteSets

CONSTANTS
    Candidates,     \* the task candidates the orchestrator may record
    TaskOf,         \* the task of each candidate
    MaxRounds,      \* bound: delivery rounds
    MaxRequests,    \* bound: requests made of the coordinator
    MaxWaiting,     \* bound: requests that wait at a time
    MaxClicks,      \* bound: different merge requests
    MaxForeign,     \* bound: steps other people take on GitHub
    MaxCrashes      \* bound: crashes of the server

ASSUME DeliveryAssumption ==
    /\ Candidates # {} /\ Candidates \cap {"foreign", "mainline", "none"} = {}
    /\ MaxRounds \in Nat \ {0}
    /\ {MaxRequests, MaxWaiting, MaxClicks, MaxForeign, MaxCrashes} \subseteq Nat

VARIABLES
    delivery,   \* session.delivery in memory
    durable,    \* the record a crash would leave: the last one written
    recorded,   \* the candidates the orchestrator has produced
    queue,      \* requests waiting behind the running one (running)
    op,         \* the running operation, or Idle
    late,       \* what a device still does for an operation already given up
    index,      \* the tree of the delivery worktree, NoTree when unmerged
    view,       \* the conflict saved beside the worktree
    commits,    \* every commit made: tree, history, and who made it
    branches,   \* per round: head of the task branch and its pull request
    clicks,     \* the merge requests users have made
    passed,     \* history: the trees that passed validation
    merges,     \* history: the heads the coordinator merged
    requests, foreigns, crashes     \* steps used of the bounds

githubVars == <<commits, branches, merges>>
worktreeVars == <<index, view>>
budgetVars == <<recorded, requests, foreigns, crashes>>
vars == <<delivery, durable, recorded, queue, op, late, index, view, commits, branches,
          clicks, passed, merges, requests, foreigns, crashes>>

\* Changes that are no candidate: what somebody else pushed to a task branch,
\* and what the base branch brings into a merge.
Foreign == "foreign"
Mainline == "mainline"

Trees == SUBSET (Candidates \cup {Foreign, Mainline})
NoTree == {"none"}      \* an absent tree, which is not one of Trees
Rounds == 1 .. MaxRounds
States == {"idle", "awaiting_validation_input", "validating", "needs_fix", "preparing_push",
           "resolving_conflict", "pushing", "awaiting_ci", "merge_ready", "merging",
           "merged", "blocked"}
InFlight == {"validating", "pushing", "merging"}

\* The record before the first candidate: session.delivery is undefined.
NoDelivery ==
    [round |-> 0, state |-> "idle", version |-> 0, candidates |-> {}, tree |-> NoTree,
     valid |-> NoTree, commit |-> 0, parent |-> 0, pull |-> FALSE, conflicting |-> FALSE,
     conflict |-> 0, key |-> 0, head |-> 0]

NoStatus == [head |-> 0, pull |-> "none", computed |-> "pending"]
Idle == [kind |-> "idle", phase |-> "done", version |-> 0, record |-> NoDelivery,
         head |-> 0, key |-> 0, commit |-> 0, status |-> NoStatus]

NoView == [id |-> 0, source |-> 0, ours |-> {}, theirs |-> {}]

Init ==
    /\ delivery = NoDelivery /\ durable = NoDelivery /\ recorded = {}
    /\ queue = <<>> /\ op = Idle /\ late = Idle
    /\ index = {} /\ view = NoView
    /\ commits = <<>>
    /\ branches = [r \in Rounds |-> [head |-> 0, pull |-> "none", at |-> 0]]
    /\ clicks = {} /\ passed = {} /\ merges = {}
    /\ requests = 0 /\ foreigns = 0 /\ crashes = 0

-----------------------------------------------------------------------------
(* The record. *)

\* updateDeliveryRecord takes the new value only if the version is still the
\* one the operation read, and saves it in the background; whether a crash
\* before the next write finds it, or the value before it, is decided here
\* (bound: the database is one step behind; no choice once no crash is left).
Write(old, values) ==
    IF delivery.version = old
    THEN /\ delivery' = values[Len(values)]
         /\ durable' \in IF crashes < MaxCrashes
                         THEN {delivery} \cup {values[i] : i \in 1 .. Len(values)}
                         ELSE {values[Len(values)]}
    ELSE UNCHANGED <<delivery, durable>>

Moved(r, state) == [r EXCEPT !.state = state, !.version = @ + 1]

\* recordDeliveryCandidate: the orchestrator adds a task's candidate.  After a
\* merge it opens a new round, whose record starts again at version 1.
Recorded(r, c) ==
    LET active == IF r.state = "merged" THEN [NoDelivery EXCEPT !.round = r.round + 1]
                  ELSE [r EXCEPT !.round = IF @ = 0 THEN 1 ELSE @]
    IN  [active EXCEPT
            !.state = "awaiting_validation_input", !.version = @ + 1,
            !.candidates = {d \in @ : TaskOf[d] # TaskOf[c]} \cup {c},
            !.tree = NoTree, !.valid = NoTree, !.conflict = 0,
            !.parent = 0, !.key = 0, !.head = 0]

RecordCandidate(c) ==
    /\ c \notin recorded
    /\ recorded' = recorded \cup {c}
    /\ delivery.state = "merged" => delivery.round < MaxRounds
    /\ Write(delivery.version, <<Recorded(delivery, c)>>)
    /\ UNCHANGED <<queue, op, late, worktreeVars, githubVars, clicks, passed,
                   requests, foreigns, crashes>>

-----------------------------------------------------------------------------
(* Requests.  Each carries the version its sender saw and waits in the     *)
(* Session's queue behind the running operation.                           *)

Ask(request) ==
    /\ requests < MaxRequests /\ Len(queue) < MaxWaiting
    /\ requests' = requests + 1
    /\ queue' = Append(queue, request)
    /\ UNCHANGED <<delivery, durable, recorded, op, late, worktreeVars, githubVars, passed,
                   foreigns, crashes>>

Request(kind, version, head, key) ==
    [kind |-> kind, version |-> version, head |-> head, key |-> key]

\* A client or the orchestrator's ready callback asks for what the record's
\* state allows; the panel refreshes on a timer.
AskValidate ==
    /\ delivery.state \in {"awaiting_validation_input", "blocked", "needs_fix"}
    /\ Ask(Request("validate", delivery.version, 0, 0))
    /\ UNCHANGED clicks
AskPublish ==
    /\ delivery.state \in {"preparing_push", "blocked"}
    /\ Ask(Request("publish", delivery.version, 0, 0))
    /\ UNCHANGED clicks
AskRefresh ==
    /\ delivery.pull
    /\ Ask(Request("refresh", delivery.version, 0, 0))
    /\ UNCHANGED clicks
AskComplete ==
    /\ delivery.state = "resolving_conflict"
    /\ Ask(Request("complete", delivery.version, delivery.conflict, 0))
    /\ UNCHANGED clicks

\* The panel sends the head of the diff the user reviewed, which is the
\* record's commit, under the record's key or a new one.
AskMerge ==
    /\ \/ delivery.state = "merge_ready"
       \/ delivery.state = "awaiting_ci" /\ delivery.conflicting
    /\ Cardinality(clicks) < MaxClicks
    /\ LET key == IF delivery.key # 0 THEN delivery.key ELSE Cardinality(clicks) + 1
           click == Request("merge", delivery.version, delivery.commit, key)
       IN  clicks' = clicks \cup {click} /\ Ask(click)

\* The same merge request arrives again.
Resend == \E c \in clicks : Ask(c) /\ UNCHANGED clicks

-----------------------------------------------------------------------------
(* Git and GitHub. *)

TreeOf(c) == IF c = 0 THEN {} ELSE commits[c].tree

\* A commit names its parent and thereby its whole history.
Ancestors(c) == IF c = 0 THEN {0} ELSE commits[c].history

\* A three-way merge that meets no conflict keeps what both sides have and
\* what either side added.
MergedTree(base, ours, theirs) ==
    {x \in ours \cup theirs : (x \in ours /\ x \in theirs) \/ x \notin base}

MergeBase(a, b) == CHOOSE c \in Ancestors(a) \cap Ancestors(b) :
                     \A d \in Ancestors(a) \cap Ancestors(b) : d <= c

Branch(r) == branches[r]
Made(tree, parent, own) ==
    Append(commits, [tree |-> tree, own |-> own,
                     history |-> {Len(commits) + 1} \cup Ancestors(parent)])

Open(r) == branches[r].pull = "open"

\* The branch moves, and an open pull request with it.
HeadAt(r, c) == [branches EXCEPT ![r].head = c, ![r].at = IF Open(r) THEN c ELSE @]

\* Somebody pushes to the task branch, closes the pull request (deleting the
\* branch or not), or merges it on GitHub.
OtherPush(r) ==
    /\ Branch(r).head # 0
    /\ commits' = Made(TreeOf(Branch(r).head) \cup {Foreign}, Branch(r).head, FALSE)
    /\ branches' = HeadAt(r, Len(commits'))

OtherClose(r) ==
    /\ Open(r)
    /\ \E kept \in {0, Branch(r).head} :
         branches' = [branches EXCEPT ![r].head = kept, ![r].pull = "closed"]
    /\ UNCHANGED commits

OtherMerge(r) ==
    /\ Open(r)
    /\ branches' = [branches EXCEPT ![r].pull = "merged"]
    /\ UNCHANGED commits

Others ==
    /\ foreigns < MaxForeign
    /\ foreigns' = foreigns + 1
    /\ \E r \in Rounds : OtherPush(r) \/ OtherClose(r) \/ OtherMerge(r)
    /\ UNCHANGED <<delivery, durable, queue, op, late, worktreeVars, clicks, passed,
                   merges, recorded, requests, crashes>>

-----------------------------------------------------------------------------
(* Starting an operation: the synchronous checks of the request at the     *)
(* head of the queue.  One that fails throws and leaves the record alone.  *)

Running(kind, phase, r) == [Idle EXCEPT !.kind = kind, !.phase = phase,
                                        !.version = r.version, !.record = r]

ValidateReady(r, version) ==
    /\ r.candidates # {}
    /\ r.state \in {"awaiting_validation_input", "blocked", "needs_fix"}
    /\ r.version = version

\* Mutant: any tree may be published, validated or not.
PublishReady_Unvalidated(r, version) ==
    r.version = version /\ r.state \in {"preparing_push", "blocked"} /\ r.tree # NoTree

PublishReady(r, version) ==
    /\ r.version = version
    /\ r.state \in {"preparing_push", "blocked"}
    /\ r.tree # NoTree
    /\ r.valid = r.tree

RefreshReady(r, version) == r.version = version /\ r.pull /\ r.commit # 0

\* A retry of a blocked merge may carry an older version if key and head agree.
SameMerge(r, q) == r.key = q.key /\ r.head = q.head
MergeReady(r, q) ==
    /\ r.version = q.version \/ (r.state = "blocked" /\ SameMerge(r, q))
    /\ r.pull /\ r.commit = q.head
    /\ r.state \in {"merge_ready", "awaiting_ci", "blocked"}
    /\ r.state = "blocked" => r.key = q.key

CompleteReady(r, q) == r.state = "resolving_conflict" /\ r.conflict = q.head

Take == queue # <<>> /\ op = Idle /\ queue' = Tail(queue)

Rejected(q) ==
    \/ q.kind = "validate" /\ ~ValidateReady(delivery, q.version)
    \/ q.kind = "publish" /\ ~PublishReady(delivery, q.version)
    \/ q.kind = "refresh" /\ (~RefreshReady(delivery, q.version)
                               \/ delivery.state = "resolving_conflict")
    \/ q.kind = "merge" /\ ~MergeReady(delivery, q)
    \/ q.kind = "complete" /\ ~CompleteReady(delivery, q)

Reject ==
    /\ Take
    /\ Rejected(Head(queue))
    /\ UNCHANGED <<delivery, durable, op, late, worktreeVars, githubVars, clicks, passed,
                   budgetVars>>

\* validateUnlocked and publishUnlocked first mark the record.
StartValidate ==
    /\ Take
    /\ Head(queue).kind = "validate" /\ ~Rejected(Head(queue))
    /\ LET r == Moved(delivery, "validating")
       IN  Write(delivery.version, <<r>>) /\ op' = Running("validate", "validate", r)
    /\ UNCHANGED <<late, worktreeVars, githubVars, clicks, passed, budgetVars>>

StartPublish ==
    /\ Take
    /\ Head(queue).kind = "publish" /\ ~Rejected(Head(queue))
    /\ LET r == Moved(delivery, "pushing")
       IN  Write(delivery.version, <<r>>) /\ op' = Running("publish", "look", r)
    /\ UNCHANGED <<late, worktreeVars, githubVars, clicks, passed, budgetVars>>

\* refresh and merge begin by asking GitHub, complete by asking the worktree.
StartOther ==
    /\ Take
    /\ LET q == Head(queue) IN
         /\ q.kind \in {"refresh", "merge", "complete"} /\ ~Rejected(q)
         /\ op' = [Running(q.kind, IF q.kind = "complete" THEN "complete" ELSE "ask", delivery)
                     EXCEPT !.head = q.head, !.key = q.key]
    /\ UNCHANGED <<delivery, durable, late, worktreeVars, githubVars, clicks, passed, budgetVars>>

-----------------------------------------------------------------------------
(* Validation. *)

\* The commit a tree is compared with to tell whether there is anything to
\* deliver; candidates freshly integrated are compared with the base.
Compared(r) == IF r.tree = NoTree THEN 0 ELSE IF r.parent # 0 THEN r.parent ELSE r.commit

\* Mutant: the candidates are integrated on top of the recorded tree.
Prepared_OnTop(r) == r.tree \cup r.candidates

\* What the worktree holds once it is prepared: the candidates integrated on
\* the base, or the tree already integrated, if it is still the one recorded.
Prepared(r) == IF r.tree = NoTree THEN r.candidates ELSE r.tree
Prepares(o) == o.phase = "validate" /\ o.record.tree \in {NoTree, index}

\* The operation's catch block: the record is parked if nobody changed it.
Park(o) == Write(o.version, <<Moved(o.record, "blocked")>>)

Conflict(source, ours, theirs) ==
    [id |-> view.id + 1, source |-> source, ours |-> ours, theirs |-> theirs]

\* The candidates conflict: captureExisting saves a conflict view.
ValidateConflict ==
    /\ op.phase = "validate" /\ op.record.tree = NoTree
    /\ index' = NoTree
    /\ view' = Conflict(0, op.record.candidates, op.record.candidates)
    /\ Write(op.version, <<[Moved(op.record, "resolving_conflict") EXCEPT
                              !.conflict = view'.id, !.valid = NoTree]>>)
    /\ op' = Idle
    /\ UNCHANGED <<queue, late, githubVars, clicks, passed, budgetVars>>

\* There is nothing to deliver, no command to validate with, or the command fails.
ValidateStops(state) ==
    /\ Prepares(op)
    /\ index' = Prepared(op.record)
    /\ (state = "idle") <=> (index' = TreeOf(Compared(op.record)))
    /\ Write(op.version, <<[Moved(op.record, state) EXCEPT !.tree = index', !.valid = NoTree]>>)
    /\ op' = Idle
    /\ UNCHANGED <<queue, late, view, githubVars, clicks, passed, budgetVars>>

\* The command passes and publishUnlocked goes on at once, unless the
\* authorization is gone, which leaves the record at preparing_push.  An
\* operation whose version was overtaken ends here.
ValidatePasses(authorized) ==
    /\ Prepares(op)
    /\ index' = Prepared(op.record)
    /\ index' # TreeOf(Compared(op.record))
    /\ passed' = passed \cup {index'}
    /\ LET ready == [Moved(op.record, "preparing_push") EXCEPT !.tree = index', !.valid = index']
           pushing == Moved(ready, "pushing")
       IN  /\ Write(op.version, IF authorized THEN <<ready, pushing>> ELSE <<ready>>)
           /\ op' = IF authorized /\ delivery.version = op.version
                    THEN Running("publish", "look", pushing) ELSE Idle
    /\ UNCHANGED <<queue, late, view, githubVars, clicks, budgetVars>>

-----------------------------------------------------------------------------
(* Publication: publishGitDelivery, then createOrReopen. *)

Expected(r) == IF r.parent # 0 THEN r.parent ELSE r.commit

\* Whether a head the coordinator did not expect may be built on: it descends
\* from the previous commit or its message names the Session.
Owned(r, head) == commits[head].own \/ (r.commit # 0 /\ r.commit \in Ancestors(head))

Looks(o) == o.phase = "look" /\ index = o.record.tree

\* ls-remote finds the expected head, or no branch: commit-tree, then push.
LookExpected ==
    /\ Looks(op)
    /\ Branch(op.record.round).head \in {0, Expected(op.record)}
    /\ op' = [op EXCEPT !.phase = "push", !.commit = Len(commits) + 1]
    /\ commits' = Made(op.record.tree, Expected(op.record), TRUE)
    /\ UNCHANGED <<delivery, durable, queue, late, worktreeVars, branches, merges, clicks,
                   passed, budgetVars>>

Unexpected(r) ==
    LET head == Branch(r.round).head IN head \notin {0, Expected(r)} /\ Owned(r, head)

\* The head is not the expected one but carries the very tree: it is adopted.
LookAdopt ==
    /\ Looks(op) /\ Unexpected(op.record)
    /\ LET head == Branch(op.record.round).head
       IN  /\ TreeOf(head) = op.record.tree
           /\ op' = [op EXCEPT !.phase = "open", !.commit = head]
    /\ UNCHANGED <<delivery, durable, queue, late, worktreeVars, githubVars, clicks, passed,
                   budgetVars>>

\* Somebody pushed: their head is merged into the candidate, cleanly (and the
\* result is validated next) or leaving a conflict to the user.
LookChanged(conflicted) ==
    /\ Looks(op) /\ Unexpected(op.record)
    /\ LET r == op.record
           head == Branch(r.round).head
           tree == MergedTree(TreeOf(MergeBase(Expected(r), head)), r.tree, TreeOf(head))
           next == [Moved(r, IF conflicted THEN "resolving_conflict"
                             ELSE "awaiting_validation_input")
                      EXCEPT !.parent = head, !.valid = NoTree,
                             !.tree = IF conflicted THEN NoTree ELSE tree,
                             !.conflict = IF conflicted THEN view'.id ELSE 0]
       IN  /\ TreeOf(head) # r.tree
           /\ commits' = Made(r.tree, Expected(r), TRUE)
           /\ view' = IF conflicted THEN Conflict(Len(commits'), r.tree, TreeOf(head)) ELSE view
           /\ index' = IF conflicted THEN NoTree ELSE tree
           /\ Write(op.version, <<next>>)
           /\ queue' = IF ~conflicted /\ delivery.version = op.version
                       THEN Append(queue, Request("validate", next.version, 0, 0))
                       ELSE queue
    /\ op' = Idle
    /\ UNCHANGED <<late, branches, merges, clicks, passed, budgetVars>>

\* git push without force: only forward.
Pushed(o) ==
    /\ Branch(o.record.round).head \in Ancestors(o.commit)
    /\ branches' = HeadAt(o.record.round, o.commit)
    /\ UNCHANGED <<commits, merges>>

Push ==
    /\ op.phase = "push"
    /\ Pushed(op)
    /\ op' = [op EXCEPT !.phase = "open"]
    /\ UNCHANGED <<delivery, durable, queue, late, worktreeVars, clicks, passed, budgetVars>>

\* createOrReopen refuses a merged pull request and opens any other.  If its
\* head is the commit just pushed, the record names commit and pull request.
OpenPull(computed) ==
    /\ op.phase = "open"
    /\ Branch(op.record.round).pull # "merged"
    /\ Branch(op.record.round).head # 0
    /\ branches' = [branches EXCEPT ![op.record.round].pull = "open",
                                    ![op.record.round].at = Branch(op.record.round).head]
    /\ IF Branch(op.record.round).head = op.commit
       THEN Write(op.version,
              <<[Moved(op.record, IF computed = "ready" THEN "merge_ready" ELSE "awaiting_ci")
                   EXCEPT !.commit = op.commit, !.pull = TRUE, !.parent = 0,
                          !.conflicting = computed = "conflicting"]>>)
       ELSE Park(op)
    /\ op' = Idle
    /\ UNCHANGED <<queue, late, worktreeVars, commits, merges, clicks, passed, budgetVars>>

-----------------------------------------------------------------------------
(* Status, refresh and merge. *)

\* What GitHub computes of a pull request: mergeable with its checks passed or
\* not configured; in conflict with the base branch; anything else.
Computed == {"ready", "conflicting", "pending"}

AskStatus(computed) ==
    /\ op.phase = "ask"
    /\ LET branch == Branch(op.record.round)
           status == [head |-> branch.at, pull |-> branch.pull, computed |-> computed]
       IN  /\ branch.pull # "open" => computed = "pending"
           /\ op' = [op EXCEPT !.phase = "answer", !.status = status]
    /\ UNCHANGED <<delivery, durable, queue, late, worktreeVars, githubVars, clicks, passed,
                   budgetVars>>

\* refreshUnlocked: the record follows the pull request, from any state.
Refreshed(r, status) ==
    IF status.pull = "merged" THEN Moved(r, "merged")
    ELSE [Moved(r, IF status.head # r.commit \/ status.pull = "closed" THEN "blocked"
                   ELSE IF status.computed = "ready" THEN "merge_ready" ELSE "awaiting_ci")
            EXCEPT !.conflicting = status.computed = "conflicting"]

\* Nothing is written when nothing changed; whether the checks or the error
\* code of the record changed, which the model leaves out, is open.
Refresh ==
    /\ op.kind = "refresh" /\ op.phase = "answer"
    /\ LET next == Refreshed(op.record, op.status)
           same == next.state = op.record.state /\ next.conflicting = op.record.conflicting
       IN  \/ same /\ UNCHANGED <<delivery, durable>>
           \/ ~(same /\ next.state = "merged") /\ Write(op.version, <<next>>)
    /\ op' = Idle
    /\ UNCHANGED <<queue, late, worktreeVars, githubVars, clicks, passed, budgetVars>>

Merging == op.kind = "merge" /\ op.phase = "answer"
Keyed(r) == [r EXCEPT !.key = op.key, !.head = op.head]

\* It was merged already: by an earlier attempt whose answer was lost, or on GitHub.
MergeFound ==
    /\ Merging /\ op.status.pull = "merged"
    /\ Write(op.version, <<Moved(Keyed(op.record), "merged")>>)
    /\ op' = Idle
    /\ UNCHANGED <<queue, late, worktreeVars, githubVars, clicks, passed, budgetVars>>

\* GITHUB_PULL_HEAD_CHANGED: somebody pushed what the user has not reviewed.
MergeRefused ==
    /\ Merging /\ op.status.pull # "merged" /\ op.status.head # op.head
    /\ op' = Idle
    /\ UNCHANGED <<delivery, durable, queue, late, worktreeVars, githubVars, clicks, passed,
                   budgetVars>>

Reviewed == Merging /\ op.status.pull # "merged" /\ op.status.head = op.head

\* Checks or mergeability are not there yet.
MergeWaits ==
    /\ Reviewed /\ op.status.computed = "pending"
    /\ Write(op.version, <<[Moved(op.record, "awaiting_ci") EXCEPT !.conflicting = FALSE]>>)
    /\ op' = Idle
    /\ UNCHANGED <<queue, late, worktreeVars, githubVars, clicks, passed, budgetVars>>

\* The base branch conflicts: startRemoteConflict merges it into the worktree,
\* or returns the conflict already saved for this head.
MergeConflict ==
    /\ Reviewed /\ op.status.computed = "conflicting"
    /\ \/ view.source = op.head /\ UNCHANGED <<view, index>>
       \/ view' = Conflict(op.head, TreeOf(op.head), {Mainline}) /\ index' = NoTree
    /\ Write(op.version, <<[Moved(op.record, "resolving_conflict") EXCEPT !.conflict = view'.id]>>)
    /\ op' = Idle
    /\ UNCHANGED <<queue, late, githubVars, clicks, passed, budgetVars>>

\* GitHub's answer was out of date and the merge is clean: the new tree is validated.
MergeClean ==
    /\ Reviewed /\ op.status.computed = "conflicting"
    /\ index' = TreeOf(op.head) \cup {Mainline}
    /\ LET next == [Moved(op.record, "awaiting_validation_input")
                      EXCEPT !.tree = index', !.valid = NoTree]
           validating == Moved(next, "validating")
       IN  /\ Write(op.version, <<next, validating>>)
           /\ op' = IF delivery.version = op.version
                    THEN Running("validate", "validate", validating) ELSE Idle
    /\ UNCHANGED <<queue, late, view, githubVars, clicks, passed, budgetVars>>

MergeStart ==
    /\ Reviewed /\ op.status.computed = "ready"
    /\ LET r == Moved(Keyed(op.record), "merging")
       IN  /\ Write(op.version, <<r>>)
           /\ op' = IF delivery.version = op.version
                    THEN [Running("merge", "merge", r) EXCEPT !.head = op.head, !.key = op.key]
                    ELSE Idle
    /\ UNCHANGED <<queue, late, worktreeVars, githubVars, clicks, passed, budgetVars>>

\* Mutant: squashMerge does not name the head.
SquashMerge_AnyHead(o) ==
    /\ Open(o.record.round)
    /\ branches' = [branches EXCEPT ![o.record.round].pull = "merged"]
    /\ merges' = merges \cup {Branch(o.record.round).at}
    /\ UNCHANGED commits

\* squashMerge names the reviewed head; GitHub refuses any other.
SquashMerge(o) ==
    /\ Open(o.record.round)
    /\ Branch(o.record.round).at = o.head
    /\ branches' = [branches EXCEPT ![o.record.round].pull = "merged"]
    /\ merges' = merges \cup {Branch(o.record.round).at}
    /\ UNCHANGED commits

RemoteMerge ==
    /\ op.phase = "merge"
    /\ SquashMerge(op)
    /\ op' = [op EXCEPT !.phase = "merged"]
    /\ UNCHANGED <<delivery, durable, queue, late, worktreeVars, clicks, passed, budgetVars>>

MergeReturns ==
    /\ op.phase = "merged"
    /\ Write(op.version, <<Moved(op.record, "merged")>>)
    /\ op' = Idle
    /\ UNCHANGED <<queue, late, worktreeVars, githubVars, clicks, passed, budgetVars>>

-----------------------------------------------------------------------------
(* Conflicts. *)

\* What the user makes of an unmerged worktree: both sides, or one of them.
\* write-tree takes the index as it is when nothing in it is unmerged.
Resolved == IF index = NoTree THEN {view.ours \cup view.theirs, view.ours, view.theirs}
            ELSE {index}

\* completeConflict takes the resolved tree and validates it at once.
Complete ==
    /\ op.phase = "complete" /\ view.id = op.head
    /\ \E tree \in Resolved :
         /\ index' = tree
         /\ LET next == [Moved(op.record, "awaiting_validation_input")
                           EXCEPT !.tree = tree, !.valid = NoTree]
                validating == Moved(next, "validating")
            IN  /\ Write(op.version, <<next, validating>>)
                /\ op' = IF delivery.version = op.version
                         THEN Running("validate", "validate", validating) ELSE Idle
    /\ UNCHANGED <<queue, late, view, githubVars, clicks, passed, budgetVars>>

-----------------------------------------------------------------------------
(* Failure. *)

\* What a device or GitHub may still do after the coordinator has given up.
Abandoned == IF op.phase \in {"push", "merge"} THEN {op, late} ELSE {late}

\* An error, a refusal or a lost answer.  validate, publish and the merge
\* request itself park the record; the other waits just throw.
Fails ==
    /\ op # Idle
    /\ IF op.phase \in {"validate", "look", "push", "open", "merge", "merged"}
       THEN Park(op) ELSE UNCHANGED <<delivery, durable>>
    /\ late' \in Abandoned
    /\ op' = Idle
    /\ UNCHANGED <<queue, worktreeVars, githubVars, clicks, passed, budgetVars>>

LateEffect ==
    /\ \/ late.phase = "push" /\ Pushed(late)
       \/ late.phase = "merge" /\ SquashMerge(late)
    /\ late' = Idle
    /\ UNCHANGED <<delivery, durable, queue, op, worktreeVars, clicks, passed, budgetVars>>

\* Mutant: a merge under way is not parked.
Booted_NotMerging(r) == IF r.state \in {"validating", "pushing"} THEN Moved(r, "blocked") ELSE r

\* The server stops and starts again: onApplicationBootstrap parks what was in
\* flight and validates candidates whose final delivery was already announced.
Booted(r) == IF r.state \in InFlight THEN Moved(r, "blocked") ELSE r

Crash ==
    /\ crashes < MaxCrashes
    /\ crashes' = crashes + 1
    /\ delivery' = Booted(durable)
    /\ durable' = delivery'
    /\ late' \in Abandoned
    /\ op' = Idle
    /\ queue' \in {<<>>} \cup
         (IF durable.state = "awaiting_validation_input" /\ durable.tree = NoTree
          THEN {<<Request("validate", durable.version, 0, 0)>>}
          ELSE {})
    /\ UNCHANGED <<worktreeVars, githubVars, clicks, passed, recorded, requests,
                   foreigns>>

-----------------------------------------------------------------------------
Next ==
    \/ \E c \in Candidates : RecordCandidate(c)
    \/ AskValidate \/ AskPublish \/ AskRefresh \/ AskComplete \/ AskMerge \/ Resend
    \/ Others
    \/ Reject \/ StartValidate \/ StartPublish \/ StartOther
    \/ ValidateConflict
    \/ \E state \in {"idle", "awaiting_validation_input", "needs_fix"} : ValidateStops(state)
    \/ \E authorized \in BOOLEAN : ValidatePasses(authorized)
    \/ LookExpected \/ LookAdopt
    \/ \E conflicted \in BOOLEAN : LookChanged(conflicted)
    \/ Push
    \/ \E computed \in Computed : OpenPull(computed) \/ AskStatus(computed)
    \/ Refresh
    \/ MergeFound \/ MergeRefused \/ MergeWaits \/ MergeConflict \/ MergeClean \/ MergeStart
    \/ RemoteMerge \/ MergeReturns
    \/ Complete
    \/ Fails \/ LateEffect \/ Crash

Spec == Init /\ [][Next]_vars

-----------------------------------------------------------------------------
(* Properties. *)

Records ==
    [round : 0 .. MaxRounds, state : States, version : Nat, candidates : SUBSET Candidates,
     tree : Trees \cup {NoTree}, valid : Trees \cup {NoTree}, commit : 0 .. Len(commits),
     parent : 0 .. Len(commits), pull : BOOLEAN, conflicting : BOOLEAN,
     conflict : 0 .. view.id, key : 0 .. MaxClicks, head : 0 .. Len(commits)]

\* The variables keep their types; in particular every commit a record or a
\* branch names exists, and the record's conflict is one the worktree has had.
TypeOK ==
    /\ delivery \in Records /\ durable \in Records
    /\ op.record \in Records /\ late.record \in Records
    /\ index \in Trees \cup {NoTree}
    /\ \A c \in 1 .. Len(commits) :
         commits[c].tree \in Trees /\ c \in commits[c].history /\ commits[c].history \subseteq 0 .. c
    /\ branches \in [Rounds -> [head : 0 .. Len(commits), at : 0 .. Len(commits),
                                pull : {"none", "open", "closed", "merged"}]]
    /\ passed \subseteq Trees

\* GSD-I4: whatever the coordinator has put on a task branch passed validation,
\* also when candidates, conflicts, crashes and lost answers came in between.
PushedIsValidated ==
    \A r \in Rounds : \A c \in Ancestors(branches[r].head) \ {0} :
        commits[c].own => commits[c].tree \in passed

\* GSD-I4 and GSD-I6: the coordinator merges only a head a user reviewed and
\* asked to merge, and only one whose tree passed validation, whatever others
\* push between the status, the click and the merge, and however late it lands.
MergedIsReviewed ==
    \A h \in merges : commits[h].tree \in passed /\ \E c \in clicks : c.head = h

\* A record that says an operation is under way has one: Session deletion waits
\* for it, and no request is accepted in these states.
InFlightIsDriven ==
    delivery.state \in InFlight => op # Idle /\ op.version = delivery.version
=============================================================================
