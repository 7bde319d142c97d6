---------------------------- MODULE DeliveryProofs ----------------------------
(***************************************************************************)
(* Proofs about DeliveryCoordinator: for any candidates, tasks, rounds,    *)
(* requests, steps of other people, and crashes, its variables keep their  *)
(* types, whatever it put on a task branch passed validation, whatever it  *)
(* merged was reviewed, and a record in flight has its operation.          *)
(***************************************************************************)
EXTENDS DeliveryCoordinator, FiniteSetTheorems, TLAPS

-----------------------------------------------------------------------------
(* The inductive invariant. *)

Commits == [tree : Trees, own : BOOLEAN, history : SUBSET Nat]

\* A record names validated trees and commits only, and is in a round unless
\* nothing was ever recorded.
Good ==
    {r \in Records :
        /\ r.valid # NoTree => r.valid \in passed
        /\ r.commit # 0 => commits[r.commit].tree \in passed
        /\ r.pull = TRUE => r.commit # 0
        /\ r.round = 0 => r.state = "idle" /\ r.candidates = {} /\ r.pull = FALSE}

Kinds == {"validate", "publish", "refresh", "merge", "complete"}
Phases == {"done", "validate", "look", "push", "open", "ask", "answer", "merge", "merged",
           "complete"}
Marking == {"validate", "look", "push", "open", "merge", "merged"}
Pulls == {"none", "open", "closed", "merged"}
Statuses == [head : 0 .. Len(commits), pull : Pulls, computed : Computed]

\* A request of a user to merge is a click.
Asked ==
    {q \in [kind : Kinds, version : Nat, head : Nat, key : 0 .. MaxClicks] :
        q.kind = "merge" => q \in clicks}

\* What an operation, running or given up, may still do: publish what passed
\* validation, merge what a user saw.
Operations ==
    {o \in [kind : Kinds \cup {"idle"}, phase : Phases, version : Nat, record : Good,
            head : Nat, key : 0 .. MaxClicks, commit : 0 .. Len(commits), status : Statuses] :
        /\ o.phase # "done" => o.record.round # 0
        /\ o.phase \in {"look", "push", "open"} => o.record.tree \in passed
        /\ o.phase \in {"push", "open"} => o.commit # 0 /\ commits[o.commit].tree \in passed
        /\ o.phase \in {"merge", "merged"} => o.kind = "merge"
        /\ o.kind = "merge" => /\ o.head = o.record.commit
                               /\ o.record.pull = TRUE
                               /\ \E c \in clicks : c.head = o.head}

\* GitHub and the worktree.
GitType ==
    /\ commits \in Seq(Commits)
    /\ \A c \in 1 .. Len(commits) :
         /\ c \in commits[c].history
         /\ commits[c].history \subseteq 0 .. c
    /\ branches \in [Rounds -> [head : 0 .. Len(commits), pull : Pulls, at : 0 .. Len(commits)]]
    /\ index \in Trees \cup {NoTree}
    /\ view \in [id : Nat, source : Nat, ours : Trees, theirs : Trees]
    /\ passed \subseteq Trees

\* The coordinator commits only what passed validation.
CommitInv == \A c \in 1 .. Len(commits) : commits[c].own = TRUE => commits[c].tree \in passed

RecordInv == delivery \in Good /\ durable \in Good
OperationInv == op \in Operations /\ late \in Operations
RequestInv ==
    /\ clicks \subseteq Asked /\ IsFiniteSet(clicks)
    /\ \A c \in clicks : c.kind = "merge"
    /\ queue \in Seq(Asked)

MergeInv ==
    \A h \in merges : /\ h \in 1 .. Len(commits)
                      /\ commits[h].tree \in passed
                      /\ \E c \in clicks : c.head = h

\* The running operation is one that parks the record when it fails.
DrivenInv ==
    delivery.state \in InFlight => op.phase \in Marking /\ op.version = delivery.version

IInv == GitType /\ CommitInv /\ RecordInv /\ OperationInv /\ RequestInv /\ MergeInv /\ DrivenInv

-----------------------------------------------------------------------------
(* Growth: commits, validated trees, conflicts and clicks only ever become *)
(* more, so what was good stays good.                                      *)

Grows ==
    /\ Len(commits) <= Len(commits')
    /\ \A c \in 1 .. Len(commits) : commits'[c] = commits[c]
    /\ view.id <= view'.id
    /\ passed \subseteq passed'
    /\ clicks \subseteq clicks'

(***************************************************************************)
(* The base tree "none" is no set of changes.                              *)
(***************************************************************************)
LEMMA NoTreeIsNone == NoTree \notin Trees
<1>1. "none" \notin Candidates \cup {Foreign, Mainline}
  BY DeliveryAssumption DEF Foreign, Mainline
<1>. QED  BY <1>1 DEF NoTree, Trees

(***************************************************************************)
(* A larger set has more sequences.                                        *)
(***************************************************************************)
LEMMA SeqGrows ==
    ASSUME NEW S, NEW T, S \subseteq T, NEW s \in Seq(S)
    PROVE  s \in Seq(T)
<1>1. s \in [1 .. Len(s) -> T] /\ Len(s) \in Nat
  OBVIOUS
<1>. QED  BY <1>1

(***************************************************************************)
(* What was good stays good while commits, trees, conflicts and clicks     *)
(* are added.                                                              *)
(***************************************************************************)
LEMMA Growth ==
    ASSUME GitType, GitType', Grows
    PROVE  /\ Good \subseteq Good'
           /\ Operations \subseteq Operations'
           /\ Asked \subseteq Asked'
<1>. DEFINE n == Len(commits)  m == Len(commits')
<1>1. n \in Nat /\ m \in Nat /\ n <= m /\ 0 .. n \subseteq 0 .. m /\ 1 .. n \subseteq 1 .. m
  BY DEF GitType, Grows
<1>2. 0 .. view.id \subseteq 0 .. view'.id
  BY DEF GitType, Grows
<1>3. Records \subseteq Records'
  BY <1>1, <1>2 DEF Records
<1>4. ASSUME NEW c \in 0 .. n, c # 0, commits[c].tree \in passed
      PROVE  commits'[c].tree \in passed'
  BY <1>1, <1>4 DEF Grows
<1>5. Good \subseteq Good'
  <2> SUFFICES ASSUME NEW r \in Good PROVE r \in Good'
    OBVIOUS
  <2>1. r \in Records' /\ r.commit \in 0 .. n
    BY <1>3 DEF Good, Records
  <2>2. r.valid # NoTree => r.valid \in passed'
    BY DEF Good, Grows
  <2>3. r.commit # 0 => commits'[r.commit].tree \in passed'
    BY <2>1, <1>4 DEF Good
  <2>. QED  BY <2>1, <2>2, <2>3 DEF Good
<1>6. Asked \subseteq Asked'
  BY DEF Asked, Grows
<1>7. Statuses \subseteq Statuses'
  BY <1>1 DEF Statuses
<1>8. Operations \subseteq Operations'
  <2> SUFFICES ASSUME NEW o \in Operations PROVE o \in Operations'
    OBVIOUS
  <2>1. o \in [kind : Kinds \cup {"idle"}, phase : Phases, version : Nat, record : Good,
            head : Nat, key : 0 .. MaxClicks, commit : 0 .. Len(commits), status : Statuses]
    BY DEF Operations
  <2>2. o \in [kind : Kinds \cup {"idle"}, phase : Phases, version : Nat, record : Good',
            head : Nat, key : 0 .. MaxClicks, commit : 0 .. Len(commits'), status : Statuses']
    BY <2>1, <1>5, <1>7, <1>1
  <2>3. o.phase \in {"look", "push", "open"} => o.record.tree \in passed'
    BY DEF Operations, Grows
  <2>4. o.phase \in {"push", "open"} => o.commit # 0 /\ commits'[o.commit].tree \in passed'
    BY <2>1, <1>4 DEF Operations
  <2>5. o.kind = "merge" => \E c \in clicks' : c.head = o.head
    BY DEF Operations, Grows
  <2>. QED  BY <2>2, <2>3, <2>4, <2>5 DEF Operations
<1>. QED  BY <1>5, <1>6, <1>8

(***************************************************************************)
(* Nothing is committed or merged: the invariants of both stay.            *)
(***************************************************************************)
LEMMA NoCommit ==
    ASSUME GitType, CommitInv, MergeInv, Grows, UNCHANGED <<commits, merges>>
    PROVE  CommitInv' /\ MergeInv'
<1>1. CommitInv'
  BY DEF CommitInv, Grows, GitType
<1>2. MergeInv'
  BY DEF MergeInv, Grows, GitType
<1>. QED  BY <1>1, <1>2

(***************************************************************************)
(* A new commit: the earlier ones stay, and so do their types.             *)
(***************************************************************************)
LEMMA CommitMade ==
    ASSUME GitType, NEW tree \in Trees, NEW parent \in 0 .. Len(commits), NEW own \in BOOLEAN,
           commits' = Made(tree, parent, own)
    PROVE  /\ commits' \in Seq(Commits)
           /\ Len(commits') = Len(commits) + 1
           /\ \A c \in 1 .. Len(commits) : commits'[c] = commits[c]
           /\ commits'[Len(commits')].tree = tree
           /\ commits'[Len(commits')].own = own
           /\ \A c \in 1 .. Len(commits') :
                c \in commits'[c].history /\ commits'[c].history \subseteq 0 .. c
<1>. DEFINE n == Len(commits)
           h == {n + 1} \cup Ancestors(parent)
           new == [tree |-> tree, own |-> own, history |-> h]
<1>1. commits \in Seq(Commits) /\ n \in Nat
  BY DEF GitType
<1>2. Ancestors(parent) \subseteq 0 .. parent
  BY <1>1 DEF Ancestors, GitType
<1>3. h \subseteq 0 .. n + 1 /\ n + 1 \in h
  BY <1>1, <1>2
<1>4. h \in SUBSET Nat
  BY <1>1, <1>3
<1>. HIDE DEF h
<1>5. new \in Commits
  BY <1>4 DEF Commits
<1>6. new.tree = tree /\ new.own = own /\ new.history = h
  OBVIOUS
<1>7. commits' = Append(commits, new)
  BY DEF Made, new, h
<1>. HIDE DEF new
<1>8. commits' \in Seq(Commits) /\ Len(commits') = n + 1 /\ commits'[n + 1] = new
      /\ \A c \in 1 .. n : commits'[c] = commits[c]
  BY <1>1, <1>5, <1>7
<1>9. \A c \in 1 .. n + 1 : c \in commits'[c].history /\ commits'[c].history \subseteq 0 .. c
  <2> SUFFICES ASSUME NEW c \in 1 .. n + 1
               PROVE  c \in commits'[c].history /\ commits'[c].history \subseteq 0 .. c
    OBVIOUS
  <2>1. CASE c = n + 1
    BY <1>3, <1>6, <1>8, <2>1
  <2>2. CASE c \in 1 .. n
    BY <1>8, <2>2 DEF GitType
  <2>. QED  BY <1>1, <2>1, <2>2
<1>. QED  BY <1>6, <1>8, <1>9

(***************************************************************************)
(* updateDeliveryRecord takes one new value, or leaves the record alone.   *)
(***************************************************************************)
LEMMA WriteOne ==
    ASSUME NEW old, NEW r, NEW G, r \in G, delivery \in G, durable \in G, Write(old, <<r>>)
    PROVE  /\ delivery' \in G /\ durable' \in G
           /\ IF delivery.version = old THEN delivery' = r ELSE delivery' = delivery
<1>1. Len(<<r>>) = 1 /\ <<r>>[1] = r /\ {<<r>>[i] : i \in 1 .. 1} = {r}
  OBVIOUS
<1>2. CASE delivery.version = old
  BY <1>1, <1>2 DEF Write
<1>3. CASE delivery.version # old
  BY <1>3 DEF Write
<1>. QED  BY <1>2, <1>3

(***************************************************************************)
(* Two writes of one operation: the second is in memory, a crash may find  *)
(* the first.                                                              *)
(***************************************************************************)
LEMMA WriteTwo ==
    ASSUME NEW old, NEW a, NEW b, NEW G, a \in G, b \in G, delivery \in G, durable \in G,
           Write(old, <<a, b>>)
    PROVE  /\ delivery' \in G /\ durable' \in G
           /\ IF delivery.version = old THEN delivery' = b ELSE delivery' = delivery
<1>1. Len(<<a, b>>) = 2 /\ <<a, b>>[2] = b /\ <<a, b>>[1] = a
  OBVIOUS
<1>2. \A i \in 1 .. 2 : <<a, b>>[i] \in {a, b}
  OBVIOUS
<1>3. CASE delivery.version = old
  BY <1>1, <1>2, <1>3 DEF Write
<1>4. CASE delivery.version # old
  BY <1>4 DEF Write
<1>. QED  BY <1>3, <1>4

(***************************************************************************)
(* Moving a record to another state keeps it good.                         *)
(***************************************************************************)
LEMMA MovedIsGood ==
    ASSUME NEW r \in Good', NEW s \in States, r.round # 0
    PROVE  /\ Moved(r, s) \in Good' /\ Moved(r, s).round # 0
           /\ Moved(r, s).version = r.version + 1 /\ Moved(r, s).version \in Nat
           /\ Moved(r, s).state = s
           /\ Moved(r, s).tree = r.tree /\ Moved(r, s).valid = r.valid
           /\ Moved(r, s).pull = r.pull /\ Moved(r, s).commit = r.commit
           /\ Moved(r, s).parent = r.parent /\ Moved(r, s).conflict = r.conflict
<1>. DEFINE m == Moved(r, s)
<1>1. r \in Records'
  BY DEF Good
<1>2. m.version = r.version + 1 /\ m.version \in Nat /\ m.state = s
  BY <1>1 DEF Moved, Records
<1>a. r.version + 1 \in Nat
  BY <1>1 DEF Records
<1>b. m \in Records'
  BY <1>1, <1>a DEF Moved, Records
<1>3. m.round = r.round /\ m.tree = r.tree /\ m.valid = r.valid /\ m.commit = r.commit
      /\ m.parent = r.parent /\ m.conflict = r.conflict
  BY <1>1 DEF Moved, Records
<1>4. m.pull = r.pull
  BY <1>1 DEF Moved, Records
<1>. HIDE DEF m
<1>5. m \in Good'
  BY <1>b, <1>2, <1>3, <1>4 DEF Good
<1>. QED  BY <1>2, <1>3, <1>4, <1>5 DEF m

(***************************************************************************)
(* So does giving it another tree, validated or not.                       *)
(***************************************************************************)
LEMMA TreeIsGood ==
    ASSUME NEW r \in Good', NEW t \in Trees \cup {NoTree}, NEW v \in {NoTree, t},
           v = NoTree \/ v \in passed', r.round # 0
    PROVE  LET n == [r EXCEPT !.tree = t, !.valid = v]
           IN  /\ n \in Good' /\ n.round # 0 /\ n.version = r.version /\ n.state = r.state
               /\ n.tree = t /\ n.valid = v
<1>. DEFINE n == [r EXCEPT !.tree = t, !.valid = v]
<1>1. r \in Records'
  BY DEF Good
<1>2. n \in Records'
  BY <1>1 DEF Records
<1>3. n.round = r.round /\ n.version = r.version /\ n.state = r.state /\ n.commit = r.commit
      /\ n.tree = t /\ n.valid = v
  BY <1>1 DEF Records
<1>4. n.pull = r.pull
  BY <1>1 DEF Records
<1>. HIDE DEF n
<1>5. n \in Good'
  BY <1>2, <1>3, <1>4 DEF Good
<1>. QED  BY <1>3, <1>5 DEF n

(***************************************************************************)
(* And naming the conflict it waits for.                                   *)
(***************************************************************************)
LEMMA ConflictIsGood ==
    ASSUME NEW r \in Good', NEW k \in 0 .. view'.id, NEW v \in {NoTree, r.valid}, r.round # 0
    PROVE  LET n == [r EXCEPT !.conflict = k, !.valid = v]
           IN  /\ n \in Good' /\ n.round # 0 /\ n.version = r.version /\ n.state = r.state
<1>. DEFINE n == [r EXCEPT !.conflict = k, !.valid = v]
<1>1. r \in Records' /\ v \in Trees \cup {NoTree}
  BY DEF Good, Records
<1>2. n \in Records'
  BY <1>1 DEF Records
<1>3. n.round = r.round /\ n.version = r.version /\ n.state = r.state /\ n.commit = r.commit
      /\ n.valid = v
  BY <1>1 DEF Records
<1>4. n.pull = r.pull
  BY <1>1 DEF Records
<1>. HIDE DEF n
<1>5. n \in Good'
  BY <1>2, <1>3, <1>4 DEF Good
<1>. QED  BY <1>3, <1>5 DEF n

(***************************************************************************)
(* While nothing is committed or merged, a well-typed worktree and what    *)
(* has grown keep everything about git, and what was good stays good.      *)
(***************************************************************************)
ViewType == view \in [id : Nat, source : Nat, ours : Trees, theirs : Trees]

LEMMA QuietGit ==
    ASSUME GitType, CommitInv, MergeInv, UNCHANGED <<commits, merges>>,
           branches' \in [Rounds -> [head : 0 .. Len(commits), pull : Pulls,
                                     at : 0 .. Len(commits)]],
           index' \in Trees \cup {NoTree}, ViewType', view.id <= view'.id,
           passed \subseteq passed', passed' \subseteq Trees, clicks \subseteq clicks'
    PROVE  /\ GitType' /\ CommitInv' /\ MergeInv'
           /\ Good \subseteq Good' /\ Operations \subseteq Operations' /\ Asked \subseteq Asked'
<1>1. GitType'
  BY DEF GitType, ViewType
<1>2. Grows
  BY DEF Grows, GitType
<1>. QED  BY <1>1, <1>2, Growth, NoCommit

(***************************************************************************)
(* The same when git, worktree and validated trees stay altogether.        *)
(***************************************************************************)
LEMMA SameGit ==
    ASSUME GitType, CommitInv, MergeInv, UNCHANGED <<githubVars, worktreeVars, passed>>,
           clicks \subseteq clicks'
    PROVE  /\ GitType' /\ CommitInv' /\ MergeInv'
           /\ Good \subseteq Good' /\ Operations \subseteq Operations' /\ Asked \subseteq Asked'
<1>1. UNCHANGED <<commits, merges, branches, index, view, passed>>
  BY DEF githubVars, worktreeVars
<1>2. ViewType' /\ view.id <= view'.id
  BY <1>1 DEF GitType, ViewType
<1>. QED  BY <1>1, <1>2, QuietGit DEF GitType

(***************************************************************************)
(* The queue and the clicks while nobody asks for anything.                *)
(***************************************************************************)
LEMMA SameRequests ==
    ASSUME RequestInv, clicks' = clicks, queue' \in Seq(Asked)
    PROVE  RequestInv'
<1>1. Asked' = Asked
  BY DEF Asked
<1>. QED  BY <1>1 DEF RequestInv

(***************************************************************************)
(* The empty record is good and nothing at all is an operation.            *)
(***************************************************************************)
LEMMA IdleIsOperation ==
    ASSUME GitType
    PROVE  NoDelivery \in Good /\ Idle \in Operations /\ Idle.phase = "done"
<1>1. Len(commits) \in Nat /\ view.id \in Nat /\ MaxClicks \in Nat /\ MaxRounds \in Nat
  BY DeliveryAssumption DEF GitType
<1>2. NoDelivery \in Records
  BY <1>1 DEF NoDelivery, Records, States
<1>3. NoDelivery \in Good
  BY <1>2 DEF Good, NoDelivery
<1>4. NoStatus \in Statuses
  BY <1>1 DEF NoStatus, Statuses, Pulls, Computed
<1>5. Idle \in Operations
  BY <1>1, <1>3, <1>4 DEF Idle, Operations, Phases
<1>. QED  BY <1>3, <1>5 DEF Idle

LEMMA IdleIsOperationNext ==
    ASSUME GitType'
    PROVE  NoDelivery \in Good' /\ Idle \in Operations' /\ Idle.phase = "done"
<1>1. Len(commits') \in Nat /\ view'.id \in Nat /\ MaxClicks \in Nat /\ MaxRounds \in Nat
  BY DeliveryAssumption DEF GitType
<1>2. NoDelivery \in Records'
  BY <1>1 DEF NoDelivery, Records, States
<1>3. NoDelivery \in Good'
  BY <1>2 DEF Good, NoDelivery
<1>4. NoStatus \in Statuses'
  BY <1>1 DEF NoStatus, Statuses, Pulls, Computed
<1>5. Idle \in Operations'
  BY <1>1, <1>3, <1>4 DEF Idle, Operations, Phases
<1>. QED  BY <1>3, <1>5 DEF Idle

(***************************************************************************)
(* An operation that begins: it has a round, publishes only a validated    *)
(* tree, and merges only the commit of its record that a user saw.         *)
(***************************************************************************)
LEMMA RunningIsOperation ==
    ASSUME GitType', NEW r \in Good', r.round # 0, NEW kind \in Kinds, NEW phase \in Phases,
           NEW h \in Nat, NEW k \in 0 .. MaxClicks,
           phase \notin {"push", "open"},
           phase = "look" => r.tree \in passed',
           phase \in {"merge", "merged"} => kind = "merge",
           kind = "merge" => h = r.commit /\ r.pull = TRUE /\ \E c \in clicks' : c.head = h
    PROVE  LET o == [Running(kind, phase, r) EXCEPT !.head = h, !.key = k]
           IN  o \in Operations' /\ o.phase = phase /\ o.version = r.version /\ o.record = r
<1>. DEFINE o == [Running(kind, phase, r) EXCEPT !.head = h, !.key = k]
<1>1. Len(commits') \in Nat /\ r.version \in Nat
  BY DEF GitType, Good, Records
<1>2. NoStatus \in Statuses'
  BY <1>1 DEF NoStatus, Statuses, Pulls, Computed
<1>a. Idle \in [kind : Kinds \cup {"idle"}, phase : Phases, version : Nat, record : Good',
                 head : Nat, key : 0 .. MaxClicks, commit : 0 .. Len(commits'),
                 status : Statuses']
  BY IdleIsOperationNext DEF Operations
<1>b. phase \in Phases
  BY DEF Phases
<1>3. o \in [kind : Kinds \cup {"idle"}, phase : Phases, version : Nat, record : Good',
             head : Nat, key : 0 .. MaxClicks, commit : 0 .. Len(commits'),
             status : Statuses']
  BY <1>1, <1>a, <1>b DEF Running
<1>c. o.kind = kind /\ o.phase = phase /\ o.version = r.version /\ o.record = r /\ o.head = h
  BY <1>a DEF Running
<1>. HIDE DEF o
<1>4. o \in Operations'
  BY <1>3, <1>c DEF Operations
<1>. QED  BY <1>c, <1>4 DEF o

LEMMA RunningPlain ==
    ASSUME GitType', NEW r \in Good', r.round # 0, NEW kind \in Kinds \ {"merge"},
           NEW phase \in {"validate", "look"},
           phase = "look" => r.tree \in passed'
    PROVE  /\ Running(kind, phase, r) \in Operations'
           /\ Running(kind, phase, r).phase = phase
           /\ Running(kind, phase, r).version = r.version
<1>. DEFINE o == Running(kind, phase, r)
<1>1. Len(commits') \in Nat /\ r.version \in Nat /\ MaxClicks \in Nat
  BY DeliveryAssumption DEF GitType, Good, Records
<1>2. NoStatus \in Statuses'
  BY <1>1 DEF NoStatus, Statuses, Pulls, Computed
<1>a. Idle \in [kind : Kinds \cup {"idle"}, phase : Phases, version : Nat, record : Good',
                 head : Nat, key : 0 .. MaxClicks, commit : 0 .. Len(commits'),
                 status : Statuses']
  BY IdleIsOperationNext DEF Operations
<1>b. phase \in Phases
  BY DEF Phases
<1>3. o \in [kind : Kinds \cup {"idle"}, phase : Phases, version : Nat, record : Good',
             head : Nat, key : 0 .. MaxClicks, commit : 0 .. Len(commits'),
             status : Statuses']
  BY <1>1, <1>a, <1>b DEF Running
<1>c. o.kind = kind /\ o.phase = phase /\ o.version = r.version /\ o.record = r
  BY <1>a DEF Running
<1>. HIDE DEF o
<1>4. o \in Operations'
  BY <1>3, <1>c DEF Operations
<1>. QED  BY <1>c, <1>4 DEF o

-----------------------------------------------------------------------------
(* Candidates and requests. *)

(***************************************************************************)
(* The record with a new candidate is good and waits for validation.       *)
(***************************************************************************)
LEMMA RecordedIsGood ==
    ASSUME NEW r \in Good', NEW c \in Candidates, GitType',
           r.state = "merged" => r.round < MaxRounds
    PROVE  Recorded(r, c) \in Good' /\ Recorded(r, c).state = "awaiting_validation_input"
<1>. DEFINE active == IF r.state = "merged" THEN [NoDelivery EXCEPT !.round = r.round + 1]
                      ELSE [r EXCEPT !.round = IF @ = 0 THEN 1 ELSE @]
            n == Recorded(r, c)
<1>1. r \in Records' /\ MaxRounds \in Nat \ {0} /\ NoDelivery \in Good' /\ NoDelivery \in Records'
  BY IdleIsOperationNext, DeliveryAssumption DEF Good
<1>2. r.round \in 0 .. MaxRounds
  BY <1>1 DEF Records
<1>3. active \in Records' /\ active.round # 0
  <2>1. CASE r.state = "merged"
    <3>1. r.round + 1 \in 0 .. MaxRounds /\ r.round + 1 # 0
      BY <1>1, <1>2, <2>1
    <3>2. active = [NoDelivery EXCEPT !.round = r.round + 1]
      BY <2>1
    <3>3. active \in Records'
      BY <1>1, <3>1, <3>2 DEF Records
    <3>4. active.round = r.round + 1
      BY <1>1, <3>2 DEF Records
    <3>. QED  BY <3>1, <3>3, <3>4
  <2>2. CASE r.state # "merged"
    <3>. DEFINE k == IF r.round = 0 THEN 1 ELSE r.round
    <3>1. k \in 0 .. MaxRounds /\ k # 0
      BY <1>1, <1>2
    <3>2. active = [r EXCEPT !.round = k]
      BY <2>2
    <3>. HIDE DEF k
    <3>3. active \in Records'
      BY <1>1, <3>1, <3>2 DEF Records
    <3>4. active.round = k
      BY <1>1, <3>2 DEF Records
    <3>. QED  BY <3>1, <3>3, <3>4
  <2>. QED  BY <2>1, <2>2
<1>4. /\ active.commit # 0 => commits'[active.commit].tree \in passed'
      /\ active.pull = TRUE => active.commit # 0
  <2>1. CASE r.state = "merged"
    BY <2>1 DEF NoDelivery
  <2>2. CASE r.state # "merged"
    <3>1. active.commit = r.commit
      BY <1>1, <2>2 DEF Records
    <3>2. active.pull = r.pull
      BY <1>1, <2>2 DEF Records
    <3>. QED  BY <3>1, <3>2 DEF Good
  <2>. QED  BY <2>1, <2>2
<1>5. n = [active EXCEPT
            !.state = "awaiting_validation_input", !.version = @ + 1,
            !.candidates = {d \in @ : TaskOf[d] # TaskOf[c]} \cup {c},
            !.tree = NoTree, !.valid = NoTree, !.conflict = 0,
            !.parent = 0, !.key = 0, !.head = 0]
  BY DEF Recorded
<1>. HIDE DEF active
<1>6. {d \in active.candidates : TaskOf[d] # TaskOf[c]} \cup {c} \in SUBSET Candidates
  BY <1>3 DEF Records
<1>7. active.version + 1 \in Nat /\ Len(commits') \in Nat /\ view'.id \in Nat /\ MaxClicks \in Nat
  BY <1>3, DeliveryAssumption DEF Records, GitType
<1>8. n \in Records'
  <2>. DEFINE d == {x \in active.candidates : TaskOf[x] # TaskOf[c]} \cup {c}
  <2>1. n = [active EXCEPT
              !.state = "awaiting_validation_input", !.version = active.version + 1,
              !.candidates = d, !.tree = NoTree, !.valid = NoTree, !.conflict = 0,
              !.parent = 0, !.key = 0, !.head = 0]
    BY <1>5
  <2>2. d \in SUBSET Candidates /\ 0 \in 0 .. Len(commits') /\ 0 \in 0 .. view'.id
        /\ 0 \in 0 .. MaxClicks /\ "awaiting_validation_input" \in States
    BY <1>6, <1>7 DEF States
  <2>. HIDE DEF d
  <2>. QED  BY <1>3, <1>7, <2>1, <2>2 DEF Records
<1>9. n.state = "awaiting_validation_input" /\ n.valid = NoTree /\ n.commit = active.commit
      /\ n.round = active.round
  BY <1>3, <1>5 DEF Records
<1>10. n.pull = active.pull
  BY <1>3, <1>5 DEF Records
<1>. HIDE DEF n
<1>11. n \in Good'
  BY <1>3, <1>4, <1>8, <1>9, <1>10 DEF Good
<1>. QED  BY <1>9, <1>11 DEF n

(***************************************************************************)
(* recordDeliveryCandidate keeps the invariant.                            *)
(***************************************************************************)
LEMMA RecordCandidateStep ==
    ASSUME IInv, NEW c \in Candidates, RecordCandidate(c)
    PROVE  IInv'
<1>1. UNCHANGED <<queue, op, late, clicks, passed, githubVars, worktreeVars>>
  BY DEF RecordCandidate
<1>2. /\ GitType' /\ CommitInv' /\ MergeInv'
      /\ Good \subseteq Good' /\ Operations \subseteq Operations' /\ Asked \subseteq Asked'
  BY <1>1, SameGit DEF IInv
<1>3. delivery \in Good' /\ durable \in Good'
  BY <1>2 DEF IInv, RecordInv
<1>4. Recorded(delivery, c) \in Good' /\ Recorded(delivery, c).state = "awaiting_validation_input"
  BY <1>2, <1>3, RecordedIsGood DEF RecordCandidate
<1>5. Write(delivery.version, <<Recorded(delivery, c)>>)
  BY DEF RecordCandidate
<1>6. delivery' \in Good' /\ durable' \in Good' /\ delivery' = Recorded(delivery, c)
  BY <1>3, <1>4, <1>5, WriteOne
<1>7. RecordInv'
  BY <1>6 DEF RecordInv
<1>8. OperationInv'
  BY <1>1, <1>2 DEF IInv, OperationInv
<1>9. RequestInv'
  BY <1>1, SameRequests DEF IInv, RequestInv
<1>10. DrivenInv'
  BY <1>4, <1>6 DEF DrivenInv, InFlight
<1>. QED  BY <1>2, <1>7, <1>8, <1>9, <1>10 DEF IInv

(***************************************************************************)
(* A request of the right kind is one to be queued.                        *)
(***************************************************************************)
LEMMA AskStep ==
    ASSUME IInv, NEW q \in Asked', Ask(q), clicks \subseteq clicks', clicks' \subseteq Asked',
           IsFiniteSet(clicks'), \A c \in clicks' : c.kind = "merge"
    PROVE  IInv'
<1>1. UNCHANGED <<delivery, durable, op, late, passed, githubVars, worktreeVars>>
  BY DEF Ask
<1>2. /\ GitType' /\ CommitInv' /\ MergeInv'
      /\ Good \subseteq Good' /\ Operations \subseteq Operations' /\ Asked \subseteq Asked'
  BY <1>1, SameGit DEF IInv
<1>3. queue \in Seq(Asked')
  BY <1>2, SeqGrows DEF IInv, RequestInv
<1>4. queue' \in Seq(Asked')
  BY <1>3 DEF Ask
<1>5. RequestInv'
  BY <1>4 DEF RequestInv
<1>6. RecordInv' /\ OperationInv' /\ DrivenInv'
  BY <1>1, <1>2 DEF IInv, RecordInv, OperationInv, DrivenInv
<1>. QED  BY <1>2, <1>5, <1>6 DEF IInv

(***************************************************************************)
(* Every request of the panel, the ready callback or a repeated click      *)
(* keeps the invariant.                                                    *)
(***************************************************************************)
LEMMA AsksStep ==
    ASSUME IInv, AskValidate \/ AskPublish \/ AskRefresh \/ AskComplete \/ AskMerge \/ Resend
    PROVE  IInv'
<1>1. /\ delivery.version \in Nat /\ delivery.conflict \in Nat /\ delivery.commit \in Nat
      /\ delivery.key \in 0 .. MaxClicks /\ MaxClicks \in Nat
  BY DeliveryAssumption DEF IInv, RecordInv, Good, Records, GitType
<1>2. ASSUME NEW kind \in Kinds \ {"merge"}, NEW head \in Nat, clicks' = clicks,
             Ask(Request(kind, delivery.version, head, 0))
      PROVE  IInv'
  <2>1. Request(kind, delivery.version, head, 0) \in Asked'
    BY <1>1 DEF Request, Asked
  <2>2. Asked' = Asked
    BY <1>2 DEF Asked
  <2>. QED  BY <1>2, <2>1, <2>2, AskStep DEF IInv, RequestInv
<1>3. CASE AskValidate
  BY <1>2, <1>3 DEF AskValidate, Kinds
<1>4. CASE AskPublish
  BY <1>2, <1>4 DEF AskPublish, Kinds
<1>5. CASE AskRefresh
  BY <1>2, <1>5 DEF AskRefresh, Kinds
<1>6. CASE AskComplete
  BY <1>1, <1>2, <1>6 DEF AskComplete, Kinds
<1>7. CASE AskMerge
  <2>. DEFINE key == IF delivery.key # 0 THEN delivery.key ELSE Cardinality(clicks) + 1
              click == Request("merge", delivery.version, delivery.commit, key)
  <2>1. clicks' = clicks \cup {click} /\ Ask(click) /\ Cardinality(clicks) < MaxClicks
    BY <1>7 DEF AskMerge
  <2>2. IsFiniteSet(clicks) /\ Cardinality(clicks) \in Nat
    BY FS_CardinalityType DEF IInv, RequestInv
  <2>3. key \in 0 .. MaxClicks
    BY <1>1, <2>1, <2>2
  <2>. HIDE DEF key
  <2>4. /\ click \in [kind : Kinds, version : Nat, head : Nat, key : 0 .. MaxClicks]
        /\ click.kind = "merge"
    BY <1>1, <2>3 DEF Request, Kinds
  <2>. HIDE DEF click
  <2>5. IsFiniteSet(clicks')
    BY <2>1, <2>2, FS_AddElement
  <2>6. click \in Asked'
    BY <2>1, <2>4 DEF Asked
  <2>7. clicks \subseteq Asked'
    BY <2>1 DEF IInv, RequestInv, Asked
  <2>8. \A c \in clicks' : c.kind = "merge"
    BY <2>1, <2>4 DEF IInv, RequestInv
  <2>. QED  BY <2>1, <2>5, <2>6, <2>7, <2>8, AskStep
<1>8. CASE Resend
  <2>1. PICK c \in clicks : Ask(c) /\ clicks' = clicks
    BY <1>8 DEF Resend
  <2>2. Asked' = Asked
    BY <2>1 DEF Asked
  <2>. QED  BY <2>1, <2>2, AskStep DEF IInv, RequestInv
<1>. QED  BY <1>3, <1>4, <1>5, <1>6, <1>7, <1>8

-----------------------------------------------------------------------------
(* Operations end, go on and write. *)

(***************************************************************************)
(* The running operation writes a record that is not in flight, if it      *)
(* still may, and ends.                                                    *)
(***************************************************************************)
LEMMA FinishStep ==
    ASSUME IInv, GitType', CommitInv', MergeInv', Good \subseteq Good',
           Operations \subseteq Operations',
           NEW r \in Good', r.state \notin InFlight, Write(op.version, <<r>>), op' = Idle,
           late' \in {late, op}, RequestInv'
    PROVE  IInv'
<1>1. delivery \in Good' /\ durable \in Good'
  BY DEF IInv, RecordInv
<1>2. /\ delivery' \in Good' /\ durable' \in Good'
      /\ IF delivery.version = op.version THEN delivery' = r ELSE delivery' = delivery
  BY <1>1, WriteOne
<1>3. DrivenInv'
  BY <1>2 DEF DrivenInv, IInv
<1>4. OperationInv'
  BY IdleIsOperationNext DEF IInv, OperationInv
<1>. QED  BY <1>2, <1>3, <1>4 DEF IInv, RecordInv

(***************************************************************************)
(* It writes two records and goes on with the second, or ends because the  *)
(* record was overtaken.                                                   *)
(***************************************************************************)
LEMMA GoOnStep ==
    ASSUME IInv, GitType', CommitInv', MergeInv', Good \subseteq Good',
           Operations \subseteq Operations', RequestInv', late' = late,
           NEW a \in Good', NEW b \in Good', NEW o \in Operations', o.phase \in Marking,
           o.version = b.version,
           Write(op.version, <<a, b>>) \/ Write(op.version, <<b>>),
           op' = IF delivery.version = op.version THEN o ELSE Idle
    PROVE  IInv'
<1>1. delivery \in Good' /\ durable \in Good'
  BY DEF IInv, RecordInv
<1>2. /\ delivery' \in Good' /\ durable' \in Good'
      /\ IF delivery.version = op.version THEN delivery' = b ELSE delivery' = delivery
  <2>1. CASE Write(op.version, <<a, b>>)
    BY <1>1, <2>1, WriteTwo
  <2>2. CASE Write(op.version, <<b>>)
    BY <1>1, <2>2, WriteOne
  <2>. QED  BY <2>1, <2>2
<1>3. DrivenInv'
  BY <1>2 DEF DrivenInv, IInv
<1>4. OperationInv'
  BY IdleIsOperationNext DEF IInv, OperationInv
<1>. QED  BY <1>2, <1>3, <1>4 DEF IInv, RecordInv

(***************************************************************************)
(* It goes on, ends or begins without writing.                             *)
(***************************************************************************)
LEMMA SilentStep ==
    ASSUME IInv, GitType', CommitInv', MergeInv', Good \subseteq Good', RequestInv',
           UNCHANGED <<delivery, durable>>, op' \in Operations', late' \in Operations',
           op.phase \in Marking => op'.phase \in Marking /\ op'.version = op.version
    PROVE  IInv'
<1>1. RecordInv'
  BY DEF IInv, RecordInv
<1>2. DrivenInv'
  BY DEF IInv, DrivenInv
<1>. QED  BY <1>1, <1>2 DEF IInv, OperationInv

(***************************************************************************)
(* The request at the head of the queue, when it is taken.                 *)
(***************************************************************************)
LEMMA TakeEffect ==
    ASSUME RequestInv, Take, clicks' = clicks
    PROVE  Head(queue) \in Asked /\ op = Idle /\ RequestInv'
<1>1. queue' \in Seq(Asked) /\ Head(queue) \in Asked
  BY DEF Take, RequestInv
<1>. QED  BY <1>1, SameRequests DEF Take

LEMMA RejectStep ==
    ASSUME IInv, Reject
    PROVE  IInv'
<1>1. UNCHANGED <<delivery, durable, op, late, githubVars, worktreeVars, clicks, passed>>
  BY DEF Reject
<1>2. /\ GitType' /\ CommitInv' /\ MergeInv'
      /\ Good \subseteq Good' /\ Operations \subseteq Operations'
  BY <1>1, SameGit DEF IInv
<1>3. RequestInv'
  BY <1>1, TakeEffect DEF IInv, Reject
<1>. QED  BY <1>1, <1>2, <1>3, SilentStep DEF IInv, OperationInv

LEMMA StartMarked ==
    ASSUME IInv, StartValidate \/ StartPublish
    PROVE  IInv'
<1>1. UNCHANGED <<late, githubVars, worktreeVars, clicks, passed>> /\ Take
  BY DEF StartValidate, StartPublish
<1>2. /\ GitType' /\ CommitInv' /\ MergeInv'
      /\ Good \subseteq Good' /\ Operations \subseteq Operations'
  BY <1>1, SameGit DEF IInv
<1>3. RequestInv'
  BY <1>1, TakeEffect DEF IInv
<1>4. delivery \in Good /\ delivery \in Good' /\ durable \in Good' /\ passed' = passed
  BY <1>1, <1>2 DEF IInv, RecordInv
<1>5. late' \in Operations'
  BY <1>1, <1>2 DEF IInv, OperationInv
<1>6. ASSUME NEW r \in Good', Write(delivery.version, <<r>>), op' \in Operations',
             op'.phase \in Marking, op'.version = r.version
      PROVE  IInv'
  <2>1. delivery' \in Good' /\ durable' \in Good' /\ delivery' = r
    BY <1>4, <1>6, WriteOne
  <2>. QED  BY <1>2, <1>3, <1>5, <1>6, <2>1 DEF IInv, RecordInv, OperationInv, DrivenInv
<1>7. CASE StartValidate
  <2>. DEFINE r == Moved(delivery, "validating")
  <2>1. delivery.candidates # {}
    BY <1>7 DEF StartValidate, Rejected, ValidateReady
  <2>2. delivery.round # 0
    BY <1>4, <2>1 DEF Good
  <2>3. r \in Good' /\ r.round # 0
    BY <1>4, <2>2, MovedIsGood DEF States
  <2>4. Write(delivery.version, <<r>>) /\ op' = Running("validate", "validate", r)
    BY <1>7 DEF StartValidate
  <2>. HIDE DEF r
  <2>5. op' \in Operations' /\ op'.phase = "validate" /\ op'.version = r.version
    BY <1>2, <2>3, <2>4, RunningPlain DEF Kinds
  <2>. QED  BY <1>6, <2>3, <2>4, <2>5 DEF Marking
<1>8. CASE StartPublish
  <2>. DEFINE r == Moved(delivery, "pushing")
  <2>1. /\ delivery.state \in {"preparing_push", "blocked"}
        /\ delivery.tree # NoTree /\ delivery.valid = delivery.tree
    BY <1>8 DEF StartPublish, Rejected, PublishReady
  <2>2. delivery.round # 0 /\ delivery.tree \in passed'
    BY <1>4, <2>1 DEF Good
  <2>3. r \in Good' /\ r.round # 0 /\ r.tree = delivery.tree
    BY <1>4, <2>2, MovedIsGood DEF States
  <2>4. Write(delivery.version, <<r>>) /\ op' = Running("publish", "look", r)
    BY <1>8 DEF StartPublish
  <2>. HIDE DEF r
  <2>5. op' \in Operations' /\ op'.phase = "look" /\ op'.version = r.version
    BY <1>2, <2>2, <2>3, <2>4, RunningPlain DEF Kinds
  <2>. QED  BY <1>6, <2>3, <2>4, <2>5 DEF Marking
<1>. QED  BY <1>7, <1>8

LEMMA StartOtherStep ==
    ASSUME IInv, StartOther
    PROVE  IInv'
<1>1. UNCHANGED <<delivery, durable, late, githubVars, worktreeVars, clicks, passed>> /\ Take
  BY DEF StartOther
<1>2. /\ GitType' /\ CommitInv' /\ MergeInv'
      /\ Good \subseteq Good' /\ Operations \subseteq Operations'
  BY <1>1, SameGit DEF IInv
<1>3. RequestInv' /\ op = Idle /\ Head(queue) \in Asked
  BY <1>1, TakeEffect DEF IInv
<1>4. delivery \in Good /\ delivery \in Good' /\ late' \in Operations'
  BY <1>1, <1>2 DEF IInv, RecordInv, OperationInv
<1>5. PICK q \in Asked : /\ q.kind \in {"refresh", "merge", "complete"} /\ ~Rejected(q)
                         /\ op' = [Running(q.kind, IF q.kind = "complete" THEN "complete"
                                                   ELSE "ask", delivery)
                                     EXCEPT !.head = q.head, !.key = q.key]
  BY <1>3 DEF StartOther
<1>6. q.head \in Nat /\ q.key \in 0 .. MaxClicks /\ q.kind \in Kinds
      /\ (q.kind = "merge" => q \in clicks)
  BY DEF Asked
<1>7. CASE q.kind = "complete"
  <2>1. delivery.round # 0
    BY <1>4, <1>5, <1>7 DEF Good, Rejected, CompleteReady
  <2>2. op' = [Running("complete", "complete", delivery) EXCEPT !.head = q.head, !.key = q.key]
    BY <1>5, <1>7
  <2>3. op' \in Operations'
    <3>1. "complete" \in Kinds /\ "complete" \in Phases
      BY DEF Kinds, Phases
    <3>2. q.head \in Nat /\ q.key \in 0 .. MaxClicks
      BY <1>6
    <3>3. [Running("complete", "complete", delivery) EXCEPT !.head = q.head, !.key = q.key]
            \in Operations'
      BY <1>2, <1>4, <2>1, <3>1, <3>2, RunningIsOperation
    <3>. QED  BY <2>2, <3>3
  <2>. QED  BY <1>1, <1>2, <1>3, <1>4, <2>3, SilentStep DEF Idle, Marking
<1>8. CASE q.kind # "complete"
  <2>1. delivery.pull = TRUE
    BY <1>5, <1>8 DEF Rejected, RefreshReady, MergeReady
  <2>2. delivery.round # 0
    BY <1>4, <2>1 DEF Good
  <2>3. q.kind = "merge" => q.head = delivery.commit /\ \E c \in clicks' : c.head = q.head
    BY <1>1, <1>5, <1>6 DEF Rejected, MergeReady
  <2>4. op' = [Running(q.kind, "ask", delivery) EXCEPT !.head = q.head, !.key = q.key]
    BY <1>5, <1>8
  <2>5. op' \in Operations'
    <3>1. q.kind \in Kinds /\ "ask" \in Phases
      BY <1>6 DEF Phases
    <3>2. q.head \in Nat /\ q.key \in 0 .. MaxClicks
      BY <1>6
    <3>3. [Running(q.kind, "ask", delivery) EXCEPT !.head = q.head, !.key = q.key]
            \in Operations'
      BY <1>2, <1>4, <2>1, <2>2, <2>3, <3>1, <3>2, RunningIsOperation
    <3>. QED  BY <2>4, <3>3
  <2>. QED  BY <1>1, <1>2, <1>3, <1>4, <2>5, SilentStep DEF Idle, Marking
<1>. QED  BY <1>7, <1>8

-----------------------------------------------------------------------------
(* Validation. *)

(***************************************************************************)
(* What the worktree holds once it is prepared is a tree.                  *)
(***************************************************************************)
LEMMA PreparedIsTree ==
    ASSUME IInv, Prepares(op)
    PROVE  /\ Prepared(op.record) \in Trees
           /\ op.record \in Good /\ op.record.round # 0 /\ op.record.candidates \in Trees
<1>1. op \in Operations /\ op.record \in Good /\ op.record.round # 0
  BY DEF IInv, OperationInv, Operations, Prepares
<1>2. op.record.candidates \in Trees /\ op.record.tree \in Trees \cup {NoTree}
  BY <1>1 DEF Good, Records, Trees
<1>. QED  BY <1>1, <1>2 DEF Prepared

LEMMA ValidateConflictStep ==
    ASSUME IInv, ValidateConflict
    PROVE  IInv'
<1>. DEFINE m == Moved(op.record, "resolving_conflict")
            r == [m EXCEPT !.conflict = view'.id, !.valid = NoTree]
<1>1. /\ op' = Idle /\ index' = NoTree
      /\ view' = Conflict(0, op.record.candidates, op.record.candidates)
      /\ Write(op.version, <<r>>)
      /\ UNCHANGED <<queue, late, githubVars, clicks, passed>>
  BY DEF ValidateConflict
<1>2. op.record \in Good /\ op.record.round # 0 /\ op.record.candidates \in Trees
  BY DEF IInv, OperationInv, Operations, ValidateConflict, Good, Records, Trees
<1>3. ViewType' /\ view.id <= view'.id /\ view'.id \in 0 .. view'.id
  BY <1>1, <1>2 DEF ViewType, Conflict, IInv, GitType
<1>4. /\ GitType' /\ CommitInv' /\ MergeInv'
      /\ Good \subseteq Good' /\ Operations \subseteq Operations' /\ Asked \subseteq Asked'
  BY <1>1, <1>3, QuietGit DEF IInv, GitType, githubVars
<1>5. m \in Good' /\ m.round # 0 /\ m.state = "resolving_conflict"
  BY <1>2, <1>4, MovedIsGood DEF States
<1>. HIDE DEF m
<1>6. r \in Good' /\ r.state = "resolving_conflict"
  BY <1>3, <1>5, ConflictIsGood
<1>7. RequestInv'
  BY <1>1, SameRequests DEF IInv, RequestInv
<1>. HIDE DEF r
<1>. QED  BY <1>1, <1>4, <1>6, <1>7, FinishStep DEF InFlight

LEMMA ValidateStopsStep ==
    ASSUME IInv, NEW state \in {"idle", "awaiting_validation_input", "needs_fix"},
           ValidateStops(state)
    PROVE  IInv'
<1>. DEFINE m == Moved(op.record, state)
            r == [m EXCEPT !.tree = index', !.valid = NoTree]
<1>1. /\ op' = Idle /\ index' = Prepared(op.record) /\ Prepares(op)
      /\ Write(op.version, <<r>>)
      /\ UNCHANGED <<queue, late, view, githubVars, clicks, passed>>
  BY DEF ValidateStops
<1>2. op.record \in Good /\ op.record.round # 0 /\ index' \in Trees
  BY <1>1, PreparedIsTree
<1>3. /\ GitType' /\ CommitInv' /\ MergeInv'
      /\ Good \subseteq Good' /\ Operations \subseteq Operations' /\ Asked \subseteq Asked'
  BY <1>1, <1>2, QuietGit DEF IInv, GitType, githubVars, ViewType
<1>4. m \in Good' /\ m.round # 0 /\ m.state = state
  BY <1>2, <1>3, MovedIsGood DEF States
<1>. HIDE DEF m
<1>5. r \in Good' /\ r.state = state
  BY <1>2, <1>4, TreeIsGood
<1>6. RequestInv'
  BY <1>1, SameRequests DEF IInv, RequestInv
<1>. HIDE DEF r
<1>. QED  BY <1>1, <1>3, <1>5, <1>6, FinishStep DEF InFlight

LEMMA ValidatePassesStep ==
    ASSUME IInv, NEW authorized \in BOOLEAN, ValidatePasses(authorized)
    PROVE  IInv'
<1>. DEFINE m == Moved(op.record, "preparing_push")
            ready == [m EXCEPT !.tree = index', !.valid = index']
            pushing == Moved(ready, "pushing")
<1>1. /\ index' = Prepared(op.record) /\ Prepares(op)
      /\ passed' = passed \cup {index'}
      /\ Write(op.version, IF authorized THEN <<ready, pushing>> ELSE <<ready>>)
      /\ op' = IF authorized /\ delivery.version = op.version
               THEN Running("publish", "look", pushing) ELSE Idle
      /\ UNCHANGED <<queue, late, view, githubVars, clicks>>
  BY DEF ValidatePasses
<1>2. op.record \in Good /\ op.record.round # 0 /\ index' \in Trees
  BY <1>1, PreparedIsTree
<1>3. passed' \subseteq Trees /\ passed \subseteq passed' /\ index' \in passed'
  BY <1>1, <1>2 DEF IInv, GitType
<1>4. /\ GitType' /\ CommitInv' /\ MergeInv'
      /\ Good \subseteq Good' /\ Operations \subseteq Operations' /\ Asked \subseteq Asked'
  BY <1>1, <1>2, <1>3, QuietGit DEF IInv, GitType, githubVars, ViewType
<1>5. m \in Good' /\ m.round # 0
  BY <1>2, <1>4, MovedIsGood DEF States
<1>. HIDE DEF m
<1>6. ready \in Good' /\ ready.state = m.state /\ ready.tree = index' /\ ready.round # 0
  BY <1>2, <1>3, <1>5, TreeIsGood
<1>7. m.state = "preparing_push"
  BY <1>2, <1>4, MovedIsGood DEF States, m
<1>8. RequestInv'
  BY <1>1, SameRequests DEF IInv, RequestInv
<1>. HIDE DEF ready
<1>9. pushing \in Good' /\ pushing.round # 0 /\ pushing.tree = index'
  BY <1>6, MovedIsGood DEF States
<1>. HIDE DEF pushing
<1>10. CASE ~authorized
  BY <1>1, <1>4, <1>6, <1>7, <1>8, <1>10, FinishStep DEF InFlight
<1>11. CASE authorized
  <2>. DEFINE o == Running("publish", "look", pushing)
  <2>1. o \in Operations' /\ o.phase = "look" /\ o.version = pushing.version
    BY <1>3, <1>4, <1>9, RunningPlain DEF Kinds
  <2>. HIDE DEF o
  <2>2. op' = IF delivery.version = op.version THEN o ELSE Idle
    BY <1>1, <1>11 DEF o
  <2>3. Write(op.version, <<ready, pushing>>)
    BY <1>1, <1>11
  <2>. QED  BY <1>1, <1>4, <1>6, <1>8, <1>9, <2>1, <2>2, <2>3, GoOnStep DEF Marking
<1>. QED  BY <1>10, <1>11

-----------------------------------------------------------------------------
(* Git and GitHub. *)

BranchType == branches \in [Rounds -> [head : 0 .. Len(commits), pull : Pulls,
                                       at : 0 .. Len(commits)]]

(***************************************************************************)
(* A commit of a validated tree, or of somebody else, keeps everything     *)
(* about git.                                                              *)
(***************************************************************************)
LEMMA CommitGit ==
    ASSUME GitType, CommitInv, MergeInv, NEW tree \in Trees, NEW parent \in 0 .. Len(commits),
           NEW own \in BOOLEAN, commits' = Made(tree, parent, own),
           own = TRUE => tree \in passed,
           BranchType', index' \in Trees \cup {NoTree}, ViewType', view.id <= view'.id,
           UNCHANGED <<merges, passed, clicks>>
    PROVE  /\ GitType' /\ CommitInv' /\ MergeInv'
           /\ Good \subseteq Good' /\ Operations \subseteq Operations' /\ Asked \subseteq Asked'
           /\ Len(commits') = Len(commits) + 1 /\ Len(commits) \in Nat
           /\ commits'[Len(commits')].tree = tree
<1>1. /\ commits' \in Seq(Commits)
      /\ Len(commits') = Len(commits) + 1
      /\ \A c \in 1 .. Len(commits) : commits'[c] = commits[c]
      /\ commits'[Len(commits')].tree = tree
      /\ commits'[Len(commits')].own = own
      /\ \A c \in 1 .. Len(commits') :
           c \in commits'[c].history /\ commits'[c].history \subseteq 0 .. c
  BY CommitMade
<1>2. GitType'
  BY <1>1 DEF GitType, BranchType, ViewType
<1>3. Len(commits) \in Nat
  BY DEF GitType
<1>4. Grows
  BY <1>1, <1>3 DEF Grows
<1>5. CommitInv'
  <2> SUFFICES ASSUME NEW c \in 1 .. Len(commits'), commits'[c].own = TRUE
               PROVE  commits'[c].tree \in passed'
    BY DEF CommitInv
  <2>1. CASE c \in 1 .. Len(commits)
    BY <1>1, <2>1 DEF CommitInv
  <2>2. CASE c = Len(commits')
    BY <1>1, <2>2
  <2>. QED  BY <1>1, <1>3, <2>1, <2>2
<1>6. MergeInv'
  <2> SUFFICES ASSUME NEW h \in merges
               PROVE  /\ h \in 1 .. Len(commits')
                      /\ commits'[h].tree \in passed'
                      /\ \E c \in clicks' : c.head = h
    BY DEF MergeInv
  <2>1. h \in 1 .. Len(commits) /\ commits[h].tree \in passed /\ \E c \in clicks : c.head = h
    BY DEF MergeInv
  <2>. QED  BY <1>1, <1>3, <2>1
<1>. QED  BY <1>1, <1>2, <1>3, <1>4, <1>5, <1>6, Growth

(***************************************************************************)
(* Moving a branch to a commit, and changing its pull request, keeps the   *)
(* types of the branches.                                                  *)
(***************************************************************************)
LEMMA BranchMoves ==
    ASSUME NEW n \in Nat, NEW r \in Rounds,
           branches \in [Rounds -> [head : 0 .. n, pull : Pulls, at : 0 .. n]],
           NEW c \in 0 .. n, NEW p \in Pulls
    PROVE  /\ HeadAt(r, c) \in [Rounds -> [head : 0 .. n, pull : Pulls, at : 0 .. n]]
           /\ [branches EXCEPT ![r].head = c, ![r].pull = p]
                \in [Rounds -> [head : 0 .. n, pull : Pulls, at : 0 .. n]]
           /\ [branches EXCEPT ![r].pull = p, ![r].at = c]
                \in [Rounds -> [head : 0 .. n, pull : Pulls, at : 0 .. n]]
           /\ [branches EXCEPT ![r].pull = p]
                \in [Rounds -> [head : 0 .. n, pull : Pulls, at : 0 .. n]]
<1>1. HeadAt(r, c) \in [Rounds -> [head : 0 .. n, pull : Pulls, at : 0 .. n]]
  <2>1. CASE Open(r)
    BY <2>1 DEF HeadAt
  <2>2. CASE ~Open(r)
    BY <2>2 DEF HeadAt
  <2>. QED  BY <2>1, <2>2
<1>2. [branches EXCEPT ![r].head = c, ![r].pull = p]
                \in [Rounds -> [head : 0 .. n, pull : Pulls, at : 0 .. n]]
  OBVIOUS
<1>3. [branches EXCEPT ![r].pull = p, ![r].at = c]
                \in [Rounds -> [head : 0 .. n, pull : Pulls, at : 0 .. n]]
  OBVIOUS
<1>4. [branches EXCEPT ![r].pull = p]
                \in [Rounds -> [head : 0 .. n, pull : Pulls, at : 0 .. n]]
  OBVIOUS
<1>. QED  BY <1>1, <1>2, <1>3, <1>4

(***************************************************************************)
(* What a commit carries.                                                  *)
(***************************************************************************)
LEMMA TreeOfIsTree ==
    ASSUME GitType, NEW c \in 0 .. Len(commits)
    PROVE  TreeOf(c) \in Trees
<1>1. {} \in Trees /\ Len(commits) \in Nat
  BY DEF Trees, GitType
<1>2. CASE c # 0
  <2>1. c \in 1 .. Len(commits)
    BY <1>1, <1>2
  <2>2. commits[c] \in Commits
    BY <2>1 DEF GitType
  <2>. QED  BY <1>2, <2>2 DEF TreeOf, Commits
<1>. QED  BY <1>1, <1>2 DEF TreeOf

(***************************************************************************)
(* Nothing of the coordinator moves.                                       *)
(***************************************************************************)
LEMMA StillStep ==
    ASSUME IInv, UNCHANGED <<delivery, durable, queue, op, late, clicks>>,
           GitType', CommitInv', MergeInv',
           Good \subseteq Good', Operations \subseteq Operations'
    PROVE  IInv'
<1>1. RequestInv'
  BY SameRequests DEF IInv, RequestInv
<1>2. op' \in Operations' /\ late' \in Operations'
  BY DEF IInv, OperationInv
<1>. QED  BY <1>1, <1>2, SilentStep

LEMMA OthersStep ==
    ASSUME IInv, Others
    PROVE  IInv'
<1>1. UNCHANGED <<delivery, durable, queue, op, late, clicks, passed, merges, index, view>>
  BY DEF Others, worktreeVars
<1>2. /\ GitType /\ CommitInv /\ MergeInv /\ Len(commits) \in Nat
      /\ branches \in [Rounds -> [head : 0 .. Len(commits), pull : Pulls,
                                  at : 0 .. Len(commits)]]
      /\ index' \in Trees \cup {NoTree} /\ ViewType' /\ view.id <= view'.id
  BY <1>1 DEF IInv, GitType, ViewType
<1>3. PICK r \in Rounds : OtherPush(r) \/ OtherClose(r) \/ OtherMerge(r)
  BY DEF Others
<1>4. branches[r].head \in 0 .. Len(commits)
  BY <1>2
<1>5. CASE OtherPush(r)
  <2>. DEFINE tree == TreeOf(branches[r].head) \cup {Foreign}
  <2>1. commits' = Made(tree, branches[r].head, FALSE) /\ branches' = HeadAt(r, Len(commits'))
    BY <1>5 DEF OtherPush, Branch
  <2>2. tree \in Trees
    BY <1>2, <1>4, TreeOfIsTree DEF Trees
  <2>. HIDE DEF tree
  <2>3. Len(commits') = Len(commits) + 1
    BY <1>2, <1>4, <2>1, <2>2, CommitMade
  <2>4. BranchType'
    <3>1. branches \in [Rounds -> [head : 0 .. Len(commits) + 1, pull : Pulls,
                                   at : 0 .. Len(commits) + 1]]
      BY <1>2
    <3>2. HeadAt(r, Len(commits) + 1) \in [Rounds -> [head : 0 .. Len(commits) + 1,
                                           pull : Pulls, at : 0 .. Len(commits) + 1]]
      <4>1. Len(commits) + 1 \in Nat /\ Len(commits) + 1 \in 0 .. Len(commits) + 1
            /\ "none" \in Pulls
        BY <1>2 DEF Pulls
      <4>. QED  BY <3>1, <4>1, BranchMoves
    <3>. QED  BY <2>1, <2>3, <3>2 DEF BranchType
  <2>5. /\ GitType' /\ CommitInv' /\ MergeInv'
        /\ Good \subseteq Good' /\ Operations \subseteq Operations'
    BY <1>1, <1>2, <1>4, <2>1, <2>2, <2>4, CommitGit
  <2>. QED  BY <1>1, <2>5, StillStep
<1>6. CASE OtherClose(r)
  <2>1. PICK kept \in {0, branches[r].head} :
          branches' = [branches EXCEPT ![r].head = kept, ![r].pull = "closed"]
    BY <1>6 DEF OtherClose, Branch
  <2>2. kept \in 0 .. Len(commits) /\ commits' = commits
    BY <1>2, <1>4, <1>6 DEF OtherClose
  <2>3. branches' \in [Rounds -> [head : 0 .. Len(commits), pull : Pulls, at : 0 .. Len(commits)]]
    BY <1>2, <2>1, <2>2, BranchMoves DEF Pulls
  <2>4. /\ GitType' /\ CommitInv' /\ MergeInv'
        /\ Good \subseteq Good' /\ Operations \subseteq Operations'
    BY <1>1, <1>2, <2>2, <2>3, QuietGit DEF GitType
  <2>. QED  BY <1>1, <2>4, StillStep
<1>7. CASE OtherMerge(r)
  <2>1. branches' = [branches EXCEPT ![r].pull = "merged"] /\ commits' = commits
    BY <1>7 DEF OtherMerge
  <2>2. branches' \in [Rounds -> [head : 0 .. Len(commits), pull : Pulls, at : 0 .. Len(commits)]]
    BY <1>2, <1>4, <2>1, BranchMoves DEF Pulls
  <2>3. /\ GitType' /\ CommitInv' /\ MergeInv'
        /\ Good \subseteq Good' /\ Operations \subseteq Operations'
    BY <1>1, <1>2, <2>1, <2>2, QuietGit DEF GitType
  <2>. QED  BY <1>1, <2>3, StillStep
<1>. QED  BY <1>3, <1>5, <1>6, <1>7

(***************************************************************************)
(* A running operation and its record.                                     *)
(***************************************************************************)
LEMMA RunningFacts ==
    ASSUME IInv, NEW o \in {op, late}, o.phase # "done"
    PROVE  /\ o \in Operations /\ o.record \in Good /\ o.record.round # 0
           /\ o.record.round \in Rounds
           /\ branches[o.record.round] \in [head : 0 .. Len(commits), pull : Pulls,
                                            at : 0 .. Len(commits)]
           /\ Expected(o.record) \in 0 .. Len(commits)
           /\ Len(commits) \in Nat
<1>1. o \in Operations /\ o.record \in Good /\ o.record.round # 0
  BY DEF IInv, OperationInv, Operations
<1>2. o.record.round \in Rounds
  BY <1>1, DeliveryAssumption DEF Good, Records, Rounds
<1>3. Expected(o.record) \in 0 .. Len(commits)
  BY <1>1 DEF Good, Records, Expected
<1>. QED  BY <1>1, <1>2, <1>3 DEF IInv, GitType

-----------------------------------------------------------------------------
(* Publication. *)

Shapes == [kind : Kinds \cup {"idle"}, phase : Phases, version : Nat, record : Good,
           head : Nat, key : 0 .. MaxClicks, commit : 0 .. Len(commits), status : Statuses]

(***************************************************************************)
(* An operation goes on: it publishes validated trees only.                *)
(***************************************************************************)
LEMMA GoesOn ==
    ASSUME GitType', NEW o \in Operations', o.phase # "done", NEW n \in Shapes',
           n.kind = o.kind, n.head = o.head, n.record = o.record,
           n.phase \in {"look", "push", "open"} => o.record.tree \in passed',
           n.phase \in {"push", "open"} => n.commit # 0 /\ commits'[n.commit].tree \in passed',
           n.phase \in {"merge", "merged"} => n.kind = "merge"
    PROVE  n \in Operations'
<1>1. o.record.round # 0
  BY DEF Operations
<1>2. o.kind = "merge" => /\ o.head = o.record.commit
                          /\ o.record.pull = TRUE
                          /\ \E c \in clicks' : c.head = o.head
  BY DEF Operations
<1>. QED  BY <1>1, <1>2 DEF Operations, Shapes

LEMMA LookExpectedStep ==
    ASSUME IInv, LookExpected
    PROVE  IInv'
<1>1. /\ op.phase = "look"
      /\ op' = [op EXCEPT !.phase = "push", !.commit = Len(commits) + 1]
      /\ commits' = Made(op.record.tree, Expected(op.record), TRUE)
      /\ UNCHANGED <<delivery, durable, queue, late, index, view, branches, merges, clicks, passed>>
  BY DEF LookExpected, Looks, worktreeVars
<1>2. /\ op \in Operations /\ Len(commits) \in Nat
      /\ Expected(op.record) \in 0 .. Len(commits)
      /\ op.record.tree \in passed /\ op.record.tree \in Trees
  BY <1>1, RunningFacts DEF Operations, IInv, GitType
<1>3. BranchType' /\ index' \in Trees \cup {NoTree} /\ ViewType' /\ view.id <= view'.id
  <2>1. Len(commits') = Len(commits) + 1
    BY <1>1, <1>2, CommitMade DEF IInv
  <2>2. BranchType'
    <3>1. branches \in [Rounds -> [head : 0 .. Len(commits), pull : Pulls,
                                   at : 0 .. Len(commits)]]
      BY DEF IInv, GitType
    <3>2. branches \in [Rounds -> [head : 0 .. Len(commits) + 1, pull : Pulls,
                                   at : 0 .. Len(commits) + 1]]
      BY <1>2, <3>1
    <3>. QED  BY <1>1, <2>1, <3>2 DEF BranchType
  <2>3. index' \in Trees \cup {NoTree} /\ ViewType' /\ view.id <= view'.id
    BY <1>1 DEF IInv, GitType, ViewType
  <2>. QED  BY <2>2, <2>3
<1>4. /\ GitType' /\ CommitInv' /\ MergeInv'
      /\ Good \subseteq Good' /\ Operations \subseteq Operations'
      /\ Len(commits') = Len(commits) + 1
      /\ commits'[Len(commits')].tree = op.record.tree
  BY <1>1, <1>2, <1>3, CommitGit DEF IInv
<1>5. RequestInv'
  BY <1>1, SameRequests DEF IInv, RequestInv
<1>6. op \in Operations' /\ op \in Shapes'
  BY <1>2, <1>4 DEF Operations, Shapes
<1>a. Len(commits) + 1 \in 0 .. Len(commits') /\ Len(commits) + 1 # 0 /\ "push" \in Phases
  BY <1>2, <1>4 DEF Phases
<1>7. op' \in Shapes'
  BY <1>1, <1>6, <1>a DEF Shapes
<1>8. op'.phase = "push" /\ op'.version = op.version /\ op'.kind = op.kind /\ op'.head = op.head
      /\ op'.record = op.record /\ op'.commit = Len(commits')
  BY <1>1, <1>4, <1>6 DEF Shapes
<1>9. op' \in Operations'
  <2>1. op.record.tree \in passed' /\ op'.commit # 0 /\ commits'[op'.commit].tree \in passed'
    <3>1. passed' = passed
      BY <1>1
    <3>2. op'.commit # 0
      BY <1>8, <1>4, <1>2
    <3>3. commits'[op'.commit].tree = op.record.tree
      BY <1>8, <1>4
    <3>. QED  BY <1>2, <3>1, <3>2, <3>3
  <2>. QED  BY <1>1, <1>4, <1>6, <1>7, <1>8, <2>1, GoesOn
<1>. QED  BY <1>1, <1>4, <1>5, <1>8, <1>9, SilentStep DEF Marking, IInv, OperationInv

LEMMA LookAdoptStep ==
    ASSUME IInv, LookAdopt
    PROVE  IInv'
<1>. DEFINE head == branches[op.record.round].head
<1>1. /\ op.phase = "look" /\ head # 0 /\ TreeOf(head) = op.record.tree
      /\ op' = [op EXCEPT !.phase = "open", !.commit = head]
      /\ UNCHANGED <<delivery, durable, queue, late, worktreeVars, githubVars, clicks, passed>>
  BY DEF LookAdopt, Looks, Unexpected, Branch
<1>2. /\ op \in Operations /\ head \in 0 .. Len(commits) /\ op.record.tree \in passed
      /\ Len(commits) \in Nat
  BY <1>1, RunningFacts DEF Operations
<1>3. commits[head].tree \in passed
  BY <1>1, <1>2 DEF TreeOf
<1>. HIDE DEF head
<1>4. /\ GitType' /\ CommitInv' /\ MergeInv'
      /\ Good \subseteq Good' /\ Operations \subseteq Operations'
  BY <1>1, SameGit DEF IInv
<1>5. RequestInv' /\ commits' = commits /\ passed' = passed
  BY <1>1, SameRequests DEF IInv, RequestInv, githubVars
<1>6. op \in Operations' /\ op \in Shapes'
  BY <1>2, <1>4 DEF Operations, Shapes
<1>7. op' \in Shapes'
  BY <1>1, <1>2, <1>5, <1>6 DEF Shapes, Phases
<1>8. op'.phase = "open" /\ op'.version = op.version /\ op'.kind = op.kind /\ op'.head = op.head
      /\ op'.record = op.record /\ op'.commit = head
  BY <1>1, <1>6 DEF Shapes
<1>9. op' \in Operations'
  BY <1>1, <1>2, <1>3, <1>4, <1>5, <1>6, <1>7, <1>8, GoesOn
<1>. QED  BY <1>1, <1>4, <1>5, <1>8, <1>9, SilentStep DEF Marking, IInv, OperationInv

(***************************************************************************)
(* The record of a delivery whose branch somebody else moved is good.      *)
(***************************************************************************)
Changed(r, p, t, k) == [r EXCEPT !.parent = p, !.valid = NoTree, !.tree = t, !.conflict = k]

LEMMA ChangedIsGood ==
    ASSUME NEW r \in Good', r.round # 0, NEW p \in 0 .. Len(commits'),
           NEW t \in Trees \cup {NoTree}, NEW k \in 0 .. view'.id
    PROVE  /\ Changed(r, p, t, k) \in Good'
           /\ Changed(r, p, t, k).version = r.version /\ Changed(r, p, t, k).state = r.state
<1>. DEFINE n == Changed(r, p, t, k)
<1>1. r \in Records'
  BY DEF Good
<1>2. n \in Records'
  BY <1>1 DEF Records, Changed
<1>3. n.round = r.round /\ n.version = r.version /\ n.state = r.state /\ n.commit = r.commit
      /\ n.valid = NoTree
  BY <1>1 DEF Records, Changed
<1>4. n.pull = r.pull
  BY <1>1 DEF Records, Changed
<1>. HIDE DEF n
<1>5. n \in Good'
  BY <1>2, <1>3, <1>4 DEF Good
<1>. QED  BY <1>3, <1>5 DEF n

LEMMA LookChangedStep ==
    ASSUME IInv, NEW conflicted \in BOOLEAN, LookChanged(conflicted)
    PROVE  IInv'
<1>. DEFINE o == op.record
            head == branches[o.round].head
            tree == MergedTree(TreeOf(MergeBase(Expected(o), head)), o.tree, TreeOf(head))
            m == Moved(o, IF conflicted THEN "resolving_conflict"
                          ELSE "awaiting_validation_input")
            t == IF conflicted THEN NoTree ELSE tree
            k == IF conflicted THEN view'.id ELSE 0
            next == [m EXCEPT !.parent = head, !.valid = NoTree, !.tree = t, !.conflict = k]
<1>1. /\ op.phase = "look" /\ op' = Idle
      /\ commits' = Made(o.tree, Expected(o), TRUE)
      /\ view' = IF conflicted THEN Conflict(Len(commits'), o.tree, TreeOf(head)) ELSE view
      /\ index' = t
      /\ Write(op.version, <<next>>)
      /\ queue' = IF ~conflicted /\ delivery.version = op.version
                  THEN Append(queue, Request("validate", next.version, 0, 0)) ELSE queue
      /\ UNCHANGED <<late, branches, merges, clicks, passed>>
  BY DEF LookChanged, Looks, Branch
<1>2. /\ op \in Operations /\ o \in Good /\ o.round # 0 /\ Len(commits) \in Nat
      /\ Expected(o) \in 0 .. Len(commits) /\ head \in 0 .. Len(commits)
      /\ o.tree \in passed /\ o.tree \in Trees
  BY <1>1, RunningFacts DEF Operations, IInv, GitType
<1>3. TreeOf(head) \in Trees
  BY <1>2, TreeOfIsTree DEF IInv
<1>4. tree \in Trees
  <2>1. tree \subseteq o.tree \cup TreeOf(head)
    BY DEF MergedTree
  <2>. QED  BY <1>2, <1>3, <2>1 DEF Trees
<1>5. Len(commits') = Len(commits) + 1
  BY <1>1, <1>2, CommitMade DEF IInv
<1>6. BranchType'
  <2>1. branches \in [Rounds -> [head : 0 .. Len(commits), pull : Pulls, at : 0 .. Len(commits)]]
    BY DEF IInv, GitType
  <2>2. branches \in [Rounds -> [head : 0 .. Len(commits) + 1, pull : Pulls,
                                 at : 0 .. Len(commits) + 1]]
    BY <1>2, <2>1
  <2>. QED  BY <1>1, <1>5, <2>2 DEF BranchType
<1>. HIDE DEF head, tree
<1>7. ViewType' /\ view.id <= view'.id /\ k \in 0 .. view'.id
  <2>1. view \in [id : Nat, source : Nat, ours : Trees, theirs : Trees]
    BY DEF IInv, GitType
  <2>2. Len(commits') \in Nat
    BY <1>2, <1>5
  <2>3. view.id \in 0 .. view.id /\ 0 \in 0 .. view.id /\ view.id + 1 \in 0 .. view.id + 1
        /\ view.id <= view.id + 1 /\ view.id + 1 \in Nat /\ view.id <= view.id
    BY <2>1
  <2>4. CASE conflicted
    <3>1. view' = Conflict(Len(commits'), o.tree, TreeOf(head)) /\ k = view'.id
      BY <1>1, <2>4
    <3>2. view' \in [id : Nat, source : Nat, ours : Trees, theirs : Trees]
          /\ view'.id = view.id + 1
      BY <1>2, <1>3, <2>2, <2>3, <3>1 DEF Conflict
    <3>. QED  BY <2>3, <3>1, <3>2 DEF ViewType
  <2>5. CASE ~conflicted
    <3>1. view' = view /\ k = 0
      BY <1>1, <2>5
    <3>. QED  BY <2>1, <2>3, <3>1 DEF ViewType
  <2>. QED  BY <2>4, <2>5
<1>8. t \in Trees \cup {NoTree} /\ index' \in Trees \cup {NoTree}
  BY <1>1, <1>4
<1>9. /\ GitType' /\ CommitInv' /\ MergeInv'
      /\ Good \subseteq Good' /\ Operations \subseteq Operations' /\ Asked \subseteq Asked'
  BY <1>1, <1>2, <1>6, <1>7, <1>8, CommitGit DEF IInv
<1>10. m \in Good' /\ m.round # 0 /\ m.state \notin InFlight /\ m.version \in Nat
  <2>1. o \in Good'
    BY <1>2, <1>9
  <2>. QED  BY <1>2, <2>1, MovedIsGood DEF States, InFlight
<1>11. head \in 0 .. Len(commits')
  BY <1>2, <1>5
<1>. HIDE DEF m, t, k
<1>12. next \in Good' /\ next.state = m.state /\ next.version = m.version
  <2>1. m \in Good' /\ m.round # 0
    BY <1>10
  <2>2. t \in Trees \cup {NoTree}
    BY <1>8
  <2>3. k \in 0 .. view'.id
    BY <1>7
  <2>4. next = Changed(m, head, t, k)
    BY DEF Changed
  <2>. HIDE DEF next
  <2>. QED  BY <1>11, <2>1, <2>2, <2>3, <2>4, ChangedIsGood
<1>. HIDE DEF next
<1>13. queue' \in Seq(Asked')
  <2>1. queue \in Seq(Asked')
    BY <1>9, SeqGrows DEF IInv, RequestInv
  <2>2. Request("validate", next.version, 0, 0) \in Asked'
    BY <1>10, <1>12, DeliveryAssumption DEF Request, Asked, Kinds
  <2>. QED  BY <1>1, <2>1, <2>2
<1>14. Asked' = Asked
  BY <1>1 DEF Asked
<1>15. RequestInv'
  BY <1>1, <1>13, <1>14 DEF IInv, RequestInv
<1>. QED  BY <1>1, <1>9, <1>10, <1>12, <1>15, FinishStep

LEMMA PushStep ==
    ASSUME IInv, Push
    PROVE  IInv'
<1>1. /\ op.phase = "push" /\ op' = [op EXCEPT !.phase = "open"]
      /\ branches' = HeadAt(op.record.round, op.commit)
      /\ UNCHANGED <<delivery, durable, queue, late, index, view, commits, merges, clicks, passed>>
  BY DEF Push, Pushed, worktreeVars
<1>2. /\ op \in Operations /\ op.record.round \in Rounds /\ Len(commits) \in Nat
      /\ op.commit \in 0 .. Len(commits)
  BY <1>1, RunningFacts DEF Operations
<1>3. branches' \in [Rounds -> [head : 0 .. Len(commits), pull : Pulls, at : 0 .. Len(commits)]]
  <2>1. "none" \in Pulls
    BY DEF Pulls
  <2>2. branches \in [Rounds -> [head : 0 .. Len(commits), pull : Pulls, at : 0 .. Len(commits)]]
    BY DEF IInv, GitType
  <2>. QED  BY <1>1, <1>2, <2>1, <2>2, BranchMoves
<1>4. /\ GitType' /\ CommitInv' /\ MergeInv'
      /\ Good \subseteq Good' /\ Operations \subseteq Operations'
  BY <1>1, <1>3, QuietGit DEF IInv, GitType, ViewType
<1>5. RequestInv' /\ commits' = commits /\ passed' = passed
  BY <1>1, SameRequests DEF IInv, RequestInv
<1>6. op \in Operations' /\ op \in Shapes'
  BY <1>2, <1>4 DEF Operations, Shapes
<1>7. op' \in Shapes'
  BY <1>1, <1>6 DEF Shapes, Phases
<1>8. op'.phase = "open" /\ op'.version = op.version /\ op'.kind = op.kind /\ op'.head = op.head
      /\ op'.record = op.record /\ op'.commit = op.commit
  BY <1>1, <1>6 DEF Shapes
<1>9. op'.commit # 0 /\ commits'[op'.commit].tree \in passed' /\ op.record.tree \in passed'
  BY <1>1, <1>2, <1>5, <1>8 DEF Operations
<1>10. op' \in Operations'
  BY <1>1, <1>4, <1>6, <1>7, <1>8, <1>9, GoesOn
<1>. QED  BY <1>1, <1>4, <1>5, <1>8, <1>10, SilentStep DEF Marking, IInv, OperationInv

(***************************************************************************)
(* The record that names a published commit and its pull request is good.  *)
(***************************************************************************)
LEMMA PublishedIsGood ==
    ASSUME NEW r \in Good', r.round # 0, NEW c \in 0 .. Len(commits'), c # 0,
           commits'[c].tree \in passed', NEW b \in BOOLEAN
    PROVE  LET n == [r EXCEPT !.commit = c, !.pull = TRUE, !.parent = 0, !.conflicting = b]
           IN  n \in Good' /\ n.state = r.state
<1>. DEFINE n == [r EXCEPT !.commit = c, !.pull = TRUE, !.parent = 0, !.conflicting = b]
<1>1. r \in Records' /\ 0 \in 0 .. Len(commits')
  BY DEF Good, Records
<1>2. n \in Records'
  BY <1>1 DEF Records
<1>3. n.round = r.round /\ n.valid = r.valid /\ n.state = r.state /\ n.commit = c
  BY <1>1 DEF Records
<1>. HIDE DEF n
<1>4. n \in Good'
  BY <1>2, <1>3 DEF Good
<1>. QED  BY <1>3, <1>4 DEF n

LEMMA ConflictingIsGood ==
    ASSUME NEW r \in Good', r.round # 0, NEW b \in BOOLEAN
    PROVE  LET n == [r EXCEPT !.conflicting = b]
           IN  n \in Good' /\ n.state = r.state /\ n.round # 0
<1>. DEFINE n == [r EXCEPT !.conflicting = b]
<1>1. r \in Records'
  BY DEF Good
<1>2. n \in Records'
  BY <1>1 DEF Records
<1>3. n.round = r.round /\ n.valid = r.valid /\ n.state = r.state /\ n.commit = r.commit
  BY <1>1 DEF Records
<1>4. n.pull = r.pull
  BY <1>1 DEF Records
<1>. HIDE DEF n
<1>5. n \in Good'
  BY <1>2, <1>3, <1>4 DEF Good
<1>. QED  BY <1>3, <1>5 DEF n

LEMMA OpenPullStep ==
    ASSUME IInv, NEW computed \in Computed, OpenPull(computed)
    PROVE  IInv'
<1>. DEFINE round == op.record.round
            m == Moved(op.record, IF computed = "ready" THEN "merge_ready" ELSE "awaiting_ci")
            b == computed = "conflicting"
            next == [m EXCEPT !.commit = op.commit, !.pull = TRUE, !.parent = 0,
                              !.conflicting = b]
<1>1. /\ op.phase = "open" /\ op' = Idle
      /\ branches' = [branches EXCEPT ![round].pull = "open", ![round].at = branches[round].head]
      /\ \/ Write(op.version, <<next>>)
         \/ Write(op.version, <<Moved(op.record, "blocked")>>)
      /\ UNCHANGED <<queue, late, index, view, commits, merges, clicks, passed>>
  BY DEF OpenPull, Branch, Park, worktreeVars
<1>2. /\ op \in Operations /\ op.record \in Good /\ round # 0 /\ round \in Rounds
      /\ Len(commits) \in Nat /\ branches[round].head \in 0 .. Len(commits)
      /\ op.commit \in 0 .. Len(commits) /\ op.commit # 0 /\ commits[op.commit].tree \in passed
  BY <1>1, RunningFacts DEF Operations
<1>3. branches' \in [Rounds -> [head : 0 .. Len(commits), pull : Pulls, at : 0 .. Len(commits)]]
  <2>1. "open" \in Pulls
    BY DEF Pulls
  <2>2. branches \in [Rounds -> [head : 0 .. Len(commits), pull : Pulls, at : 0 .. Len(commits)]]
    BY DEF IInv, GitType
  <2>. QED  BY <1>1, <1>2, <2>1, <2>2, BranchMoves
<1>4. /\ GitType' /\ CommitInv' /\ MergeInv'
      /\ Good \subseteq Good' /\ Operations \subseteq Operations'
  BY <1>1, <1>3, QuietGit DEF IInv, GitType, ViewType
<1>5. RequestInv' /\ commits' = commits /\ passed' = passed
  BY <1>1, SameRequests DEF IInv, RequestInv
<1>6. op.record \in Good'
  BY <1>2, <1>4
<1>7. m \in Good' /\ m.round # 0 /\ m.state \notin InFlight
  BY <1>2, <1>6, MovedIsGood DEF States, InFlight
<1>8. b \in BOOLEAN
  OBVIOUS
<1>. HIDE DEF m, b
<1>9. next \in Good' /\ next.state = m.state
  BY <1>2, <1>5, <1>7, <1>8, PublishedIsGood
<1>10. Moved(op.record, "blocked") \in Good' /\ Moved(op.record, "blocked").state = "blocked"
  BY <1>2, <1>6, MovedIsGood DEF States
<1>. HIDE DEF next
<1>11. CASE Write(op.version, <<next>>)
  BY <1>1, <1>4, <1>5, <1>7, <1>9, <1>11, FinishStep
<1>12. CASE Write(op.version, <<Moved(op.record, "blocked")>>)
  BY <1>1, <1>4, <1>5, <1>10, <1>12, FinishStep DEF InFlight
<1>. QED  BY <1>1, <1>11, <1>12

-----------------------------------------------------------------------------
(* Status, refresh and merge. *)

LEMMA AskStatusStep ==
    ASSUME IInv, NEW computed \in Computed, AskStatus(computed)
    PROVE  IInv'
<1>. DEFINE status == [head |-> branches[op.record.round].at,
                       pull |-> branches[op.record.round].pull, computed |-> computed]
<1>1. /\ op.phase = "ask" /\ op' = [op EXCEPT !.phase = "answer", !.status = status]
      /\ UNCHANGED <<delivery, durable, queue, late, worktreeVars, githubVars, clicks, passed>>
  BY DEF AskStatus, Branch
<1>2. op \in Operations /\ status \in Statuses
  BY <1>1, RunningFacts DEF Statuses
<1>3. /\ GitType' /\ CommitInv' /\ MergeInv'
      /\ Good \subseteq Good' /\ Operations \subseteq Operations'
  BY <1>1, SameGit DEF IInv
<1>4. RequestInv' /\ commits' = commits
  BY <1>1, SameRequests DEF IInv, RequestInv, githubVars
<1>5. op \in Operations' /\ op \in Shapes' /\ status \in Statuses'
  BY <1>2, <1>3, <1>4 DEF Operations, Shapes, Statuses
<1>. HIDE DEF status
<1>6. op' \in Shapes'
  BY <1>1, <1>5 DEF Shapes, Phases
<1>7. op'.phase = "answer" /\ op'.kind = op.kind /\ op'.head = op.head /\ op'.record = op.record
  BY <1>1, <1>5 DEF Shapes
<1>8. op' \in Operations'
  BY <1>1, <1>3, <1>5, <1>6, <1>7, GoesOn
<1>. QED  BY <1>1, <1>3, <1>4, <1>8, SilentStep DEF Marking, IInv, OperationInv

(***************************************************************************)
(* An operation at its answer, while git stays.                            *)
(***************************************************************************)
LEMMA AnsweredFacts ==
    ASSUME IInv, op.phase \in {"answer", "merged"},
           UNCHANGED <<queue, worktreeVars, githubVars, clicks, passed>>
    PROVE  /\ op \in Operations /\ op.record \in Good' /\ op.record.round # 0
           /\ GitType' /\ CommitInv' /\ MergeInv' /\ RequestInv'
           /\ Good \subseteq Good' /\ Operations \subseteq Operations'
<1>1. op \in Operations /\ op.record \in Good /\ op.record.round # 0
  BY RunningFacts
<1>2. /\ GitType' /\ CommitInv' /\ MergeInv'
      /\ Good \subseteq Good' /\ Operations \subseteq Operations'
  BY SameGit DEF IInv
<1>3. RequestInv'
  BY SameRequests DEF IInv, RequestInv
<1>. QED  BY <1>1, <1>2, <1>3

(***************************************************************************)
(* It moves the record to a state that is not in flight and ends.          *)
(***************************************************************************)
LEMMA AnswerMoves ==
    ASSUME IInv, op.phase \in {"answer", "merged"}, op' = Idle,
           UNCHANGED <<queue, late, worktreeVars, githubVars, clicks, passed>>,
           NEW state \in States \ InFlight, NEW b \in BOOLEAN,
           \/ Write(op.version, <<Moved(op.record, state)>>)
           \/ Write(op.version, <<[Moved(op.record, state) EXCEPT !.conflicting = b]>>)
    PROVE  IInv'
<1>. DEFINE m == Moved(op.record, state)
            n == [m EXCEPT !.conflicting = b]
<1>1. /\ op.record \in Good' /\ op.record.round # 0
      /\ GitType' /\ CommitInv' /\ MergeInv' /\ RequestInv'
      /\ Good \subseteq Good' /\ Operations \subseteq Operations'
  BY AnsweredFacts
<1>2. m \in Good' /\ m.round # 0 /\ m.state = state
  BY <1>1, MovedIsGood
<1>. HIDE DEF m
<1>3. n \in Good' /\ n.state = state
  BY <1>2, ConflictingIsGood
<1>4. Write(op.version, <<m>>) \/ Write(op.version, <<n>>)
  BY DEF m
<1>. HIDE DEF n
<1>. QED  BY <1>1, <1>2, <1>3, <1>4, FinishStep

LEMMA RefreshStep ==
    ASSUME IInv, Refresh
    PROVE  IInv'
<1>. DEFINE next == Refreshed(op.record, op.status)
            s == IF op.status.head # op.record.commit \/ op.status.pull = "closed" THEN "blocked"
                 ELSE IF op.status.computed = "ready" THEN "merge_ready" ELSE "awaiting_ci"
            b == op.status.computed = "conflicting"
<1>1. /\ op.phase = "answer" /\ op' = Idle
      /\ UNCHANGED <<queue, late, worktreeVars, githubVars, clicks, passed>>
      /\ UNCHANGED <<delivery, durable>> \/ Write(op.version, <<next>>)
  BY DEF Refresh
<1>2. CASE UNCHANGED <<delivery, durable>>
  <2>1. /\ GitType' /\ CommitInv' /\ MergeInv' /\ RequestInv'
        /\ Good \subseteq Good' /\ Operations \subseteq Operations'
    BY <1>1, AnsweredFacts
  <2>. QED  BY <1>1, <1>2, <2>1, IdleIsOperationNext, SilentStep
            DEF Marking, IInv, OperationInv
<1>3. CASE Write(op.version, <<next>>)
  <2>1. s \in States \ InFlight /\ "merged" \in States \ InFlight /\ b \in BOOLEAN
    BY DEF States, InFlight
  <2>. HIDE DEF s, b
  <2>2. CASE op.status.pull = "merged"
    <3>1. next = Moved(op.record, "merged")
      BY <2>2 DEF Refreshed
    <3>. QED  BY <1>1, <1>3, <2>1, <3>1, AnswerMoves
  <2>3. CASE op.status.pull # "merged"
    <3>1. next = [Moved(op.record, s) EXCEPT !.conflicting = b]
      BY <2>3 DEF Refreshed, s, b
    <3>. QED  BY <1>1, <1>3, <2>1, <3>1, AnswerMoves
  <2>. QED  BY <2>2, <2>3
<1>. QED  BY <1>1, <1>2, <1>3

(***************************************************************************)
(* A merge: the head the user asked for is the commit of the record.       *)
(***************************************************************************)
LEMMA MergeFacts ==
    ASSUME IInv, NEW o \in {op, late}, o.kind = "merge", o.phase # "done"
    PROVE  /\ o.head = o.record.commit /\ o.head \in 1 .. Len(commits)
           /\ commits[o.head].tree \in passed /\ \E c \in clicks : c.head = o.head
           /\ o.record.pull = TRUE
<1>1. o \in Operations /\ o.record \in Good /\ Len(commits) \in Nat
  BY RunningFacts
<1>2. o.head = o.record.commit /\ o.record.pull = TRUE /\ \E c \in clicks : c.head = o.head
  BY <1>1 DEF Operations
<1>3. o.record.commit # 0 /\ o.record.commit \in 0 .. Len(commits)
  BY <1>1, <1>2 DEF Good, Records
<1>. QED  BY <1>1, <1>2, <1>3 DEF Good

(***************************************************************************)
(* The record that names the merge under way is good.                      *)
(***************************************************************************)
Named(r, k, h) == [r EXCEPT !.key = k, !.head = h]

LEMMA NamedIsGood ==
    ASSUME NEW r \in Good', r.round # 0, NEW k \in 0 .. MaxClicks, NEW h \in 0 .. Len(commits')
    PROVE  /\ Named(r, k, h) \in Good' /\ Named(r, k, h).round # 0
           /\ Named(r, k, h).pull = r.pull /\ Named(r, k, h).commit = r.commit
<1>. DEFINE n == Named(r, k, h)
<1>1. r \in Records'
  BY DEF Good
<1>2. n \in Records'
  BY <1>1 DEF Records, Named
<1>3. n.round = r.round /\ n.valid = r.valid /\ n.state = r.state /\ n.commit = r.commit
  BY <1>1 DEF Records, Named
<1>4. n.pull = r.pull
  BY <1>1 DEF Records, Named
<1>. HIDE DEF n
<1>5. n \in Good'
  BY <1>2, <1>3, <1>4 DEF Good
<1>. QED  BY <1>3, <1>4, <1>5 DEF n

LEMMA KeyedIsGood ==
    ASSUME IInv, Merging, UNCHANGED <<queue, worktreeVars, githubVars, clicks, passed>>
    PROVE  /\ Keyed(op.record) \in Good' /\ Keyed(op.record).round # 0
           /\ Keyed(op.record).pull = TRUE /\ Keyed(op.record).commit = op.head
<1>1. op \in Operations /\ op.record \in Good' /\ op.record.round # 0
  BY AnsweredFacts DEF Merging
<1>2. op.head = op.record.commit /\ op.head \in 1 .. Len(commits) /\ op.record.pull = TRUE
  BY MergeFacts DEF Merging
<1>3. op.key \in 0 .. MaxClicks /\ op.head \in 0 .. Len(commits') /\ commits' = commits
  BY <1>1, <1>2 DEF Operations, githubVars, IInv, GitType
<1>4. Keyed(op.record) = Named(op.record, op.key, op.head)
  BY DEF Keyed, Named
<1>. QED  BY <1>1, <1>2, <1>3, <1>4, NamedIsGood

LEMMA MergeAnswers ==
    ASSUME IInv, MergeFound \/ MergeRefused \/ MergeWaits \/ MergeReturns
    PROVE  IInv'
<1>1. CASE MergeFound
  <2>1. /\ Merging /\ op' = Idle /\ UNCHANGED <<queue, late, worktreeVars, githubVars, clicks, passed>>
        /\ Write(op.version, <<Moved(Keyed(op.record), "merged")>>)
    BY <1>1 DEF MergeFound
  <2>2. Keyed(op.record) \in Good' /\ Keyed(op.record).round # 0
    BY <2>1, KeyedIsGood
  <2>3. /\ GitType' /\ CommitInv' /\ MergeInv' /\ RequestInv'
        /\ Good \subseteq Good' /\ Operations \subseteq Operations'
    BY <2>1, AnsweredFacts DEF Merging
  <2>4. /\ Moved(Keyed(op.record), "merged") \in Good'
        /\ Moved(Keyed(op.record), "merged").state = "merged"
    BY <2>2, MovedIsGood DEF States
  <2>. QED  BY <2>1, <2>3, <2>4, FinishStep DEF InFlight
<1>2. CASE MergeRefused
  <2>1. /\ Merging /\ op' = Idle
        /\ UNCHANGED <<delivery, durable, queue, late, worktreeVars, githubVars, clicks, passed>>
    BY <1>2 DEF MergeRefused
  <2>2. /\ GitType' /\ CommitInv' /\ MergeInv' /\ RequestInv'
        /\ Good \subseteq Good' /\ Operations \subseteq Operations'
    BY <2>1, AnsweredFacts DEF Merging
  <2>. QED  BY <2>1, <2>2, IdleIsOperationNext, SilentStep
            DEF Marking, IInv, OperationInv, Merging
<1>3. CASE MergeWaits
  BY <1>3, AnswerMoves DEF MergeWaits, Reviewed, Merging, States, InFlight
<1>4. CASE MergeReturns
  BY <1>4, AnswerMoves DEF MergeReturns, States, InFlight
<1>. QED  BY <1>1, <1>2, <1>3, <1>4

LEMMA MergeConflictStep ==
    ASSUME IInv, MergeConflict
    PROVE  IInv'
<1>. DEFINE m == Moved(op.record, "resolving_conflict")
            r == [m EXCEPT !.conflict = view'.id, !.valid = m.valid]
            r0 == [m EXCEPT !.conflict = view'.id]
<1>1. /\ op.phase = "answer" /\ op' = Idle /\ op.kind = "merge"
      /\ \/ UNCHANGED <<view, index>>
         \/ view' = Conflict(op.head, TreeOf(op.head), {Mainline}) /\ index' = NoTree
      /\ Write(op.version, <<r0>>)
      /\ UNCHANGED <<queue, late, commits, branches, merges, clicks, passed>>
  BY DEF MergeConflict, Reviewed, Merging, githubVars
<1>2. op.head \in 0 .. Len(commits) /\ op.record \in Good /\ op.record.round # 0
  <2>1. op.phase # "done" /\ op \in {op, late}
    BY <1>1
  <2>2. op.head \in 1 .. Len(commits)
    BY <1>1, <2>1, MergeFacts
  <2>3. op.record \in Good /\ op.record.round # 0 /\ Len(commits) \in Nat
    BY <2>1, RunningFacts
  <2>. QED  BY <2>2, <2>3
<1>3. op.head \in Nat /\ TreeOf(op.head) \in Trees /\ {Mainline} \in Trees
  BY <1>2, TreeOfIsTree DEF IInv, GitType, Trees
<1>4. ViewType' /\ view.id <= view'.id /\ view'.id \in 0 .. view'.id
      /\ index' \in Trees \cup {NoTree}
  <2>1. view \in [id : Nat, source : Nat, ours : Trees, theirs : Trees]
        /\ index \in Trees \cup {NoTree}
    BY DEF IInv, GitType
  <2>2. CASE UNCHANGED <<view, index>>
    BY <2>1, <2>2 DEF ViewType
  <2>3. CASE view' = Conflict(op.head, TreeOf(op.head), {Mainline}) /\ index' = NoTree
    BY <1>3, <2>1, <2>3 DEF ViewType, Conflict
  <2>. QED  BY <1>1, <2>2, <2>3
<1>5. /\ GitType' /\ CommitInv' /\ MergeInv'
      /\ Good \subseteq Good' /\ Operations \subseteq Operations'
  BY <1>1, <1>4, QuietGit DEF IInv, GitType
<1>6. m \in Good' /\ m.round # 0 /\ m.state = "resolving_conflict"
  BY <1>2, <1>5, MovedIsGood DEF States
<1>. HIDE DEF m
<1>7. r0 \in Good' /\ r0.state = "resolving_conflict"
  <2>1. m \in Records' /\ view'.id \in 0 .. view'.id
    BY <1>4, <1>6 DEF Good
  <2>2. r0 \in Records'
    BY <2>1 DEF Records
  <2>3. r0.round = m.round /\ r0.valid = m.valid /\ r0.state = m.state /\ r0.commit = m.commit
    BY <2>1 DEF Records
  <2>4. r0.pull = m.pull
    BY <2>1 DEF Records
  <2>. HIDE DEF r0
  <2>. QED  BY <1>6, <2>2, <2>3, <2>4 DEF Good
<1>8. RequestInv'
  BY <1>1, SameRequests DEF IInv, RequestInv
<1>. HIDE DEF r0
<1>. QED  BY <1>1, <1>5, <1>7, <1>8, FinishStep DEF InFlight

(***************************************************************************)
(* A new tree is written and validated at once: after a clean merge of the *)
(* base branch, and after a conflict was resolved.                         *)
(***************************************************************************)
LEMMA Revalidates ==
    ASSUME IInv, op.phase \in {"answer", "complete"}, index' \in Trees,
           Write(op.version,
             <<[Moved(op.record, "awaiting_validation_input")
                  EXCEPT !.tree = index', !.valid = NoTree],
               Moved([Moved(op.record, "awaiting_validation_input")
                        EXCEPT !.tree = index', !.valid = NoTree], "validating")>>),
           op' = IF delivery.version = op.version
                 THEN Running("validate", "validate",
                        Moved([Moved(op.record, "awaiting_validation_input")
                                 EXCEPT !.tree = index', !.valid = NoTree], "validating"))
                 ELSE Idle,
           UNCHANGED <<queue, late, view, githubVars, clicks, passed>>
    PROVE  IInv'
<1>. DEFINE m == Moved(op.record, "awaiting_validation_input")
            a == [m EXCEPT !.tree = index', !.valid = NoTree]
            b == Moved(a, "validating")
            o == Running("validate", "validate", b)
<1>1. op.record \in Good /\ op.record.round # 0
  BY RunningFacts
<1>2. /\ GitType' /\ CommitInv' /\ MergeInv'
      /\ Good \subseteq Good' /\ Operations \subseteq Operations'
  BY QuietGit DEF IInv, GitType, githubVars, ViewType
<1>3. RequestInv'
  BY SameRequests DEF IInv, RequestInv
<1>4. Write(op.version, <<a, b>>) /\ op' = IF delivery.version = op.version THEN o ELSE Idle
  OBVIOUS
<1>5. m \in Good' /\ m.round # 0
  BY <1>1, <1>2, MovedIsGood DEF States
<1>. HIDE DEF m
<1>6. a \in Good' /\ a.round # 0
  BY <1>5, TreeIsGood
<1>. HIDE DEF a
<1>7. b \in Good' /\ b.round # 0
  BY <1>6, MovedIsGood DEF States
<1>. HIDE DEF b
<1>8. o \in Operations' /\ o.phase = "validate" /\ o.version = b.version
  BY <1>2, <1>7, RunningPlain DEF Kinds
<1>. HIDE DEF o
<1>. QED  BY <1>2, <1>3, <1>4, <1>6, <1>7, <1>8, GoOnStep DEF Marking

LEMMA MergeCleanStep ==
    ASSUME IInv, MergeClean
    PROVE  IInv'
<1>1. op.phase = "answer" /\ op.kind = "merge" /\ index' = TreeOf(op.head) \cup {Mainline}
  BY DEF MergeClean, Reviewed, Merging
<1>2. op.head \in 0 .. Len(commits)
  <2>1. op.phase # "done" /\ op \in {op, late}
    BY <1>1
  <2>2. op.head \in 1 .. Len(commits)
    BY <1>1, <2>1, MergeFacts
  <2>3. Len(commits) \in Nat
    BY DEF IInv, GitType
  <2>. QED  BY <2>2, <2>3
<1>3. index' \in Trees
  BY <1>1, <1>2, TreeOfIsTree DEF IInv, Trees
<1>. QED  BY <1>1, <1>3, Revalidates DEF MergeClean

LEMMA CompleteStep ==
    ASSUME IInv, Complete
    PROVE  IInv'
<1>1. PICK tree \in Resolved :
         /\ index' = tree
         /\ LET next == [Moved(op.record, "awaiting_validation_input")
                           EXCEPT !.tree = tree, !.valid = NoTree]
                validating == Moved(next, "validating")
            IN  /\ Write(op.version, <<next, validating>>)
                /\ op' = IF delivery.version = op.version
                         THEN Running("validate", "validate", validating) ELSE Idle
  BY DEF Complete
<1>2. tree \in Trees
  BY DEF Resolved, IInv, GitType, Trees
<1>. QED  BY <1>1, <1>2, Revalidates DEF Complete

LEMMA MergeStartStep ==
    ASSUME IInv, MergeStart
    PROVE  IInv'
<1>. DEFINE r == Moved(Keyed(op.record), "merging")
            o == [Running("merge", "merge", r) EXCEPT !.head = op.head, !.key = op.key]
<1>1. /\ Merging /\ UNCHANGED <<queue, late, worktreeVars, githubVars, clicks, passed>>
      /\ Write(op.version, <<r>>)
      /\ op' = IF delivery.version = op.version THEN o ELSE Idle
  BY DEF MergeStart, Reviewed
<1>2. /\ Keyed(op.record) \in Good' /\ Keyed(op.record).round # 0
      /\ Keyed(op.record).pull = TRUE /\ Keyed(op.record).commit = op.head
  BY <1>1, KeyedIsGood
<1>3. /\ op \in Operations
      /\ GitType' /\ CommitInv' /\ MergeInv' /\ RequestInv'
      /\ Good \subseteq Good' /\ Operations \subseteq Operations'
  BY <1>1, AnsweredFacts DEF Merging
<1>4. r \in Good' /\ r.round # 0 /\ r.pull = TRUE /\ r.commit = op.head
  BY <1>2, MovedIsGood DEF States
<1>. HIDE DEF r
<1>5. op.head \in Nat /\ op.key \in 0 .. MaxClicks
  BY <1>3 DEF Operations
<1>6. \E c \in clicks' : c.head = op.head
  BY <1>1, MergeFacts DEF Merging
<1>7. o \in Operations' /\ o.phase = "merge" /\ o.version = r.version
  <2>1. "merge" \in Kinds /\ "merge" \in Phases
    BY DEF Kinds, Phases
  <2>2. GitType' /\ r \in Good' /\ r.round # 0 /\ op.head = r.commit /\ r.pull = TRUE
    BY <1>3, <1>4
  <2>3. "merge" \notin {"push", "open"} /\ "merge" # "look"
    OBVIOUS
  <2>4. o \in Operations'
    BY <1>5, <1>6, <2>1, <2>2, <2>3, RunningIsOperation
  <2>5. o.phase = "merge"
    BY DEF Running, Idle
  <2>6. o.version = r.version
    BY DEF Running, Idle
  <2>. QED  BY <2>4, <2>5, <2>6
<1>. HIDE DEF o
<1>. QED  BY <1>1, <1>3, <1>4, <1>7, GoOnStep DEF Marking

(***************************************************************************)
(* GitHub merges the head an operation names: a reviewed one, whose tree   *)
(* passed validation.                                                      *)
(***************************************************************************)
LEMMA SquashEffect ==
    ASSUME IInv, NEW o \in {op, late}, o.phase = "merge", SquashMerge(o),
           UNCHANGED <<worktreeVars, clicks, passed>>
    PROVE  /\ GitType' /\ CommitInv' /\ MergeInv'
           /\ Good \subseteq Good' /\ Operations \subseteq Operations'
           /\ commits' = commits
<1>1. o \in Operations /\ o.phase # "done" /\ o.kind = "merge" /\ o.record.round \in Rounds
      /\ Len(commits) \in Nat
  BY RunningFacts DEF Operations
<1>2. /\ o.head \in 1 .. Len(commits) /\ commits[o.head].tree \in passed
      /\ \E c \in clicks : c.head = o.head
  BY <1>1, MergeFacts
<1>3. /\ branches' = [branches EXCEPT ![o.record.round].pull = "merged"]
      /\ merges' = merges \cup {o.head} /\ commits' = commits
      /\ UNCHANGED <<index, view>>
  BY DEF SquashMerge, Branch, worktreeVars
<1>4. branches' \in [Rounds -> [head : 0 .. Len(commits), pull : Pulls, at : 0 .. Len(commits)]]
  <2>1. "merged" \in Pulls
    BY DEF Pulls
  <2>2. branches \in [Rounds -> [head : 0 .. Len(commits), pull : Pulls, at : 0 .. Len(commits)]]
    BY DEF IInv, GitType
  <2>3. 0 \in 0 .. Len(commits)
    BY <1>1
  <2>. QED  BY <1>1, <1>3, <2>1, <2>2, <2>3, BranchMoves
<1>5. GitType'
  BY <1>3, <1>4 DEF IInv, GitType
<1>6. Grows
  BY <1>1, <1>3 DEF Grows, IInv, GitType
<1>7. CommitInv'
  BY <1>3 DEF IInv, CommitInv
<1>8. MergeInv'
  BY <1>2, <1>3 DEF IInv, MergeInv
<1>. QED  BY <1>3, <1>5, <1>6, <1>7, <1>8, Growth DEF IInv

LEMMA RemoteMergeStep ==
    ASSUME IInv, RemoteMerge
    PROVE  IInv'
<1>1. /\ op.phase = "merge" /\ SquashMerge(op) /\ op' = [op EXCEPT !.phase = "merged"]
      /\ UNCHANGED <<delivery, durable, queue, late, worktreeVars, clicks, passed>>
  BY DEF RemoteMerge
<1>2. /\ GitType' /\ CommitInv' /\ MergeInv'
      /\ Good \subseteq Good' /\ Operations \subseteq Operations' /\ commits' = commits
  BY <1>1, SquashEffect
<1>3. op \in Operations' /\ op \in Shapes' /\ op.kind = "merge"
  BY <1>1, <1>2 DEF IInv, OperationInv, Operations, Shapes
<1>4. op' \in Shapes'
  BY <1>1, <1>3 DEF Shapes, Phases
<1>5. op'.phase = "merged" /\ op'.version = op.version /\ op'.kind = op.kind /\ op'.head = op.head
      /\ op'.record = op.record
  BY <1>1, <1>3 DEF Shapes
<1>6. op' \in Operations'
  BY <1>1, <1>2, <1>3, <1>4, <1>5, GoesOn
<1>7. RequestInv'
  BY <1>1, SameRequests DEF IInv, RequestInv
<1>. QED  BY <1>1, <1>2, <1>5, <1>6, <1>7, SilentStep DEF Marking, IInv, OperationInv

-----------------------------------------------------------------------------
(* Failure. *)

LEMMA FailsStep ==
    ASSUME IInv, Fails
    PROVE  IInv'
<1>1. /\ op' = Idle /\ late' \in {op, late}
      /\ UNCHANGED <<queue, worktreeVars, githubVars, clicks, passed>>
  BY DEF Fails, Abandoned
<1>2. /\ GitType' /\ CommitInv' /\ MergeInv'
      /\ Good \subseteq Good' /\ Operations \subseteq Operations'
  BY <1>1, SameGit DEF IInv
<1>3. RequestInv'
  BY <1>1, SameRequests DEF IInv, RequestInv
<1>4. CASE op.phase \in Marking
  <2>1. Write(op.version, <<Moved(op.record, "blocked")>>)
    BY <1>4 DEF Fails, Marking, Park
  <2>2. op.record \in Good' /\ op.record.round # 0
    BY <1>2, <1>4, RunningFacts DEF Marking
  <2>3. Moved(op.record, "blocked") \in Good' /\ Moved(op.record, "blocked").state = "blocked"
    BY <2>2, MovedIsGood DEF States
  <2>. QED  BY <1>1, <1>2, <1>3, <2>1, <2>3, FinishStep DEF InFlight
<1>5. CASE op.phase \notin Marking
  <2>1. UNCHANGED <<delivery, durable>>
    BY <1>5 DEF Fails, Marking
  <2>2. op' \in Operations' /\ late' \in Operations'
    BY <1>1, <1>2, IdleIsOperationNext DEF IInv, OperationInv
  <2>. QED  BY <1>2, <1>3, <1>5, <2>1, <2>2, SilentStep
<1>. QED  BY <1>4, <1>5

LEMMA LateEffectStep ==
    ASSUME IInv, LateEffect
    PROVE  IInv'
<1>1. /\ late' = Idle
      /\ UNCHANGED <<delivery, durable, queue, op, worktreeVars, clicks, passed>>
      /\ \/ late.phase = "push" /\ Pushed(late)
         \/ late.phase = "merge" /\ SquashMerge(late)
  BY DEF LateEffect
<1>2. /\ GitType' /\ CommitInv' /\ MergeInv'
      /\ Good \subseteq Good' /\ Operations \subseteq Operations'
  <2>1. CASE late.phase = "push" /\ Pushed(late)
    <3>1. /\ branches' = HeadAt(late.record.round, late.commit)
          /\ UNCHANGED <<commits, merges, index, view>>
      BY <1>1, <2>1 DEF Pushed, worktreeVars
    <3>2. /\ late \in Operations /\ late.record.round \in Rounds /\ Len(commits) \in Nat
          /\ late.commit \in 0 .. Len(commits)
      BY <2>1, RunningFacts DEF Operations
    <3>3. branches' \in [Rounds -> [head : 0 .. Len(commits), pull : Pulls,
                                    at : 0 .. Len(commits)]]
      <4>1. "none" \in Pulls
        BY DEF Pulls
      <4>2. branches \in [Rounds -> [head : 0 .. Len(commits), pull : Pulls,
                                     at : 0 .. Len(commits)]]
        BY DEF IInv, GitType
      <4>. QED  BY <3>1, <3>2, <4>1, <4>2, BranchMoves
    <3>. QED  BY <1>1, <3>1, <3>3, QuietGit DEF IInv, GitType, ViewType
  <2>2. CASE late.phase = "merge" /\ SquashMerge(late)
    BY <1>1, <2>2, SquashEffect
  <2>. QED  BY <1>1, <2>1, <2>2
<1>3. RequestInv'
  BY <1>1, SameRequests DEF IInv, RequestInv
<1>4. op' \in Operations' /\ late' \in Operations'
  BY <1>1, <1>2, IdleIsOperationNext DEF IInv, OperationInv
<1>. QED  BY <1>1, <1>2, <1>3, <1>4, SilentStep

LEMMA CrashStep ==
    ASSUME IInv, Crash
    PROVE  IInv'
<1>1. /\ delivery' = Booted(durable) /\ durable' = delivery' /\ op' = Idle
      /\ late' \in {op, late}
      /\ queue' \in {<<>>, <<Request("validate", durable.version, 0, 0)>>}
      /\ UNCHANGED <<worktreeVars, githubVars, clicks, passed>>
  BY DEF Crash, Abandoned
<1>2. /\ GitType' /\ CommitInv' /\ MergeInv'
      /\ Good \subseteq Good' /\ Operations \subseteq Operations'
  BY <1>1, SameGit DEF IInv
<1>3. durable \in Good /\ durable \in Good' /\ durable.version \in Nat
  BY <1>2 DEF IInv, RecordInv, Good, Records
<1>4. delivery' \in Good' /\ delivery'.state \notin InFlight
  <2>1. CASE durable.state \in InFlight
    <3>1. durable.round # 0
      BY <1>3, <2>1 DEF Good, InFlight
    <3>2. /\ Moved(durable, "blocked") \in Good'
          /\ Moved(durable, "blocked").state = "blocked"
      BY <1>3, <3>1, MovedIsGood DEF States
    <3>. QED  BY <1>1, <2>1, <3>2 DEF Booted, InFlight
  <2>2. CASE durable.state \notin InFlight
    BY <1>1, <1>3, <2>2 DEF Booted
  <2>. QED  BY <2>1, <2>2
<1>5. RequestInv'
  <2>1. Request("validate", durable.version, 0, 0) \in Asked
    BY <1>3, DeliveryAssumption DEF Request, Asked, Kinds
  <2>. DEFINE q == Request("validate", durable.version, 0, 0)
  <2>. HIDE DEF q
  <2>2. queue' \in Seq(Asked)
    <3>1. q \in Asked /\ queue' \in {<<>>, <<q>>}
      BY <1>1, <2>1 DEF q
    <3>2. CASE queue' = <<>>
      BY <3>2
    <3>3. CASE queue' = <<q>>
      BY <3>1, <3>3
    <3>. QED  BY <3>1, <3>2, <3>3
  <2>. QED  BY <1>1, <2>2, SameRequests DEF IInv
<1>6. op' \in Operations' /\ late' \in Operations'
  BY <1>1, <1>2, IdleIsOperationNext DEF IInv, OperationInv
<1>. QED  BY <1>1, <1>2, <1>4, <1>5, <1>6 DEF IInv, RecordInv, OperationInv, DrivenInv

-----------------------------------------------------------------------------
(* The theorems. *)

LEMMA InitInv == Init => IInv
<1>. SUFFICES ASSUME Init PROVE IInv
  OBVIOUS
<1>1. Len(commits) = 0 /\ commits \in Seq(Commits)
  BY DEF Init
<1>2. GitType
  <2>1. {} \in Trees /\ 0 \in 0 .. 0 /\ "none" \in Pulls
    BY DEF Trees, Pulls
  <2>2. view \in [id : Nat, source : Nat, ours : Trees, theirs : Trees]
    BY <2>1 DEF Init, NoView
  <2>3. branches \in [Rounds -> [head : 0 .. 0, pull : Pulls, at : 0 .. 0]]
    BY <2>1 DEF Init
  <2>. QED  BY <1>1, <2>1, <2>2, <2>3 DEF Init, GitType
<1>3. NoDelivery \in Good /\ Idle \in Operations
  BY <1>2, IdleIsOperation
<1>4. RequestInv
  BY FS_EmptySet DEF Init, RequestInv
<1>5. CommitInv /\ MergeInv
  BY <1>1 DEF Init, CommitInv, MergeInv
<1>6. DrivenInv
  BY DEF Init, DrivenInv, NoDelivery, InFlight
<1>. QED  BY <1>2, <1>3, <1>4, <1>5, <1>6 DEF Init, IInv, RecordInv, OperationInv

LEMMA NextInv == IInv /\ [Next]_vars => IInv'
<1>. SUFFICES ASSUME IInv, [Next]_vars PROVE IInv'
  OBVIOUS
<1>1. CASE UNCHANGED vars
  <2>1. /\ UNCHANGED <<delivery, durable, queue, op, late, clicks, passed>>
        /\ UNCHANGED <<githubVars, worktreeVars>>
    BY <1>1 DEF vars, githubVars, worktreeVars
  <2>2. /\ GitType' /\ CommitInv' /\ MergeInv'
        /\ Good \subseteq Good' /\ Operations \subseteq Operations'
    BY <2>1, SameGit DEF IInv
  <2>. QED  BY <2>1, <2>2, StillStep
<1>2. CASE Next
  BY <1>2, RecordCandidateStep, AsksStep, OthersStep, RejectStep, StartMarked, StartOtherStep,
     ValidateConflictStep, ValidateStopsStep, ValidatePassesStep, LookExpectedStep,
     LookAdoptStep, LookChangedStep, PushStep, OpenPullStep, AskStatusStep, RefreshStep,
     MergeAnswers, MergeConflictStep, MergeCleanStep, MergeStartStep, RemoteMergeStep,
     CompleteStep, FailsStep, LateEffectStep, CrashStep DEF Next
<1>. QED  BY <1>1, <1>2

(***************************************************************************)
(* The inductive invariant, for any candidates, tasks, rounds, requests,   *)
(* foreign steps and crashes.                                              *)
(***************************************************************************)
THEOREM Invariance == Spec => []IInv
<1>1. Init => IInv
  BY InitInv
<1>2. IInv /\ [Next]_vars => IInv'
  BY NextInv
<1>. QED  BY <1>1, <1>2, PTL DEF Spec

(***************************************************************************)
(* Every variable keeps its type: in particular every commit that a record *)
(* in memory, a record a crash would leave or a branch names was made.     *)
(***************************************************************************)
THEOREM TypeCorrect == Spec => []TypeOK
<1>1. IInv => TypeOK
  <2>. SUFFICES ASSUME IInv PROVE TypeOK
    OBVIOUS
  <2>1. delivery \in Records /\ durable \in Records
    BY DEF IInv, RecordInv, Good
  <2>2. op.record \in Records /\ late.record \in Records
    BY DEF IInv, OperationInv, Operations, Good
  <2>3. \A c \in 1 .. Len(commits) :
          commits[c].tree \in Trees /\ c \in commits[c].history /\ commits[c].history \subseteq 0 .. c
    <3>1. \A c \in 1 .. Len(commits) : commits[c] \in Commits
      BY DEF IInv, GitType
    <3>2. \A c \in 1 .. Len(commits) : commits[c].tree \in Trees
      BY <3>1 DEF Commits
    <3>. QED  BY <3>2 DEF IInv, GitType
  <2>. QED  BY <2>1, <2>2, <2>3 DEF IInv, GitType, TypeOK, Pulls
<1>. QED  BY <1>1, Invariance, PTL

(***************************************************************************)
(* Whatever the coordinator put on a task branch passed validation, also   *)
(* through candidates recorded meanwhile, conflicts, crashes between two   *)
(* remote calls, and pushes of a device that was given up.                 *)
(***************************************************************************)
THEOREM OnlyValidatedIsPushed == Spec => []PushedIsValidated
<1>1. IInv => PushedIsValidated
  <2>. SUFFICES ASSUME IInv, NEW r \in Rounds, NEW c \in Ancestors(branches[r].head) \ {0},
                       commits[c].own
                PROVE  commits[c].tree \in passed
    BY DEF PushedIsValidated
  <2>1. branches[r].head \in 0 .. Len(commits) /\ Len(commits) \in Nat
    BY DEF IInv, GitType
  <2>2. Ancestors(branches[r].head) \subseteq 0 .. Len(commits)
    BY <2>1 DEF Ancestors, IInv, GitType
  <2>3. c \in 1 .. Len(commits)
    BY <2>1, <2>2
  <2>. QED  BY <2>3 DEF IInv, CommitInv
<1>. QED  BY <1>1, Invariance, PTL

(***************************************************************************)
(* The coordinator merges only a head that a user reviewed and asked to    *)
(* merge and whose tree passed validation, however late a device acts.     *)
(***************************************************************************)
THEOREM OnlyReviewedIsMerged == Spec => []MergedIsReviewed
<1>1. IInv => MergedIsReviewed
  BY DEF IInv, MergeInv, MergedIsReviewed
<1>. QED  BY <1>1, Invariance, PTL

(***************************************************************************)
(* A record that shows an operation under way has that operation: it is    *)
(* never stuck in a state in which nothing is accepted, also after a crash *)
(* or when a candidate was recorded meanwhile.                             *)
(***************************************************************************)
THEOREM WorkIsDriven == Spec => []InFlightIsDriven
<1>1. IInv => InFlightIsDriven
  <2>1. Idle.phase \notin Marking
    BY DEF Idle, Marking
  <2>. QED  BY <2>1 DEF IInv, DrivenInv, InFlightIsDriven
<1>. QED  BY <1>1, Invariance, PTL
=============================================================================
