---------------------------- MODULE WorkflowProofs ----------------------------
(***************************************************************************)
(* What the workflow runtime keeps for every published workflow and any    *)
(* bounds: one node at a time, approval before what it gates, quiet while a *)
(* decision is due, a driver of what shows that it works, and a history    *)
(* that is never rewritten.                                                *)
(*                                                                         *)
(* The helpers of the service map a state record x to the next one.  Each  *)
(* has a lemma that says what it changes; an action is a chain of them.    *)
(***************************************************************************)
EXTENDS WorkflowRuntime, TLAPS, WellFoundedInduction

-----------------------------------------------------------------------------
(* The inductive invariant, over state records. *)

Work == {"idle", "node", "review"}
Aborts == {"no", "pause", "superseded", "cancel", "disconnect"}
Runs == [ status : {"none", "running", "waiting_human"} \cup Terminal, at : Nodes \cup {0},
          parked : {"no", "substitution", "upstream"}, card : BOOLEAN, asked : BOOLEAN ]
Sessions == [ status : Statuses, open : BOOLEAN, previous : Statuses, delivered : BOOLEAN,
              reworks : 0 .. MaxReworks + 1, conflict : Nat ]

States == [ run : Runs, nodes : Seq(NodeRun), context : BOOLEAN,
            slot : [ work : Work, nodeRun : Nat, abort : Aborts ],
            superseded : SUBSET Nat, session : Sessions ]

\* Indices of node runs are indices.
Indexed(x) ==
    /\ x.slot.nodeRun <= Len(x.nodes)
    /\ x.superseded \subseteq DOMAIN x.nodes
    /\ x.session.conflict <= Len(x.nodes)

\* A node run is by what its node is of, or a human's at a gate; the first is an Agent's.
ByInv(nodes) ==
    /\ \A i \in DOMAIN nodes : IF nodes[i].by = "human" THEN nodes[i].node \notin Agents
                                                        ELSE nodes[i].by = Kinds[nodes[i].node]
    /\ nodes # <<>> => nodes[1].by = "agent"

NoneRunning(nodes) == \A i \in DOMAIN nodes : nodes[i].status # "running"

LastIsRunning(nodes) == nodes # <<>> /\ nodes[Len(nodes)].status = "running"

\* Cleared without the maxima.
Clear(nodes, n) ==
    \A g \in Nodes \ Agents : g < n =>
        \E last \in DOMAIN nodes :
            /\ nodes[last].node = g /\ nodes[last].status = "approved"
            /\ \A j \in DOMAIN nodes : /\ nodes[j].node = g => j <= last
                                       /\ nodes[j].node \in Agents /\ nodes[j].node < g => j < last

LiveInv(x) ==
    /\ x.run.at \in Nodes
    /\ \A i \in DOMAIN x.nodes : x.nodes[i].status = "running" =>
           i = Len(x.nodes) /\ x.nodes[i].node = x.run.at /\ x.nodes[i].by # "human"
    /\ x.nodes # <<>> /\ x.nodes[Len(x.nodes)].status = "waiting" =>
           x.nodes[Len(x.nodes)].node = x.run.at
    /\ x.run.status = "waiting_human" => x.nodes # <<>>
    /\ Clear(x.nodes, x.run.at)

EndInv(x) ==
    /\ x.run.status \in {"failed", "completed", "none"} => NoneRunning(x.nodes)
    /\ x.run.status = "failed" => x.run.at \in Nodes /\ Clear(x.nodes, x.run.at)
    /\ x.run.status = "completed" => x.nodes # <<>> /\ Clear(x.nodes, Len(Kinds) + 1)
    /\ x.run.status = "none" => x.nodes = <<>> /\ x.slot = Idle

ParkInv(x) ==
    x.run.parked # "no" =>
        /\ x.run.status = "waiting_human"
        /\ x.slot = Idle
        /\ x.nodes # <<>>
        /\ LET last == x.nodes[Len(x.nodes)]
           IN  /\ last.node = x.run.at
               /\ last.by = "agent"
               /\ last.status = IF x.run.parked = "substitution" THEN "waiting" ELSE "running"

SlotInv(x) ==
    /\ x.slot.work = "idle" => x.slot = Idle
    /\ x.slot.work = "node" => /\ x.slot.nodeRun \in DOMAIN x.nodes
                               /\ IF Live(x) THEN x.slot.nodeRun = Len(x.nodes) /\ LastIsRunning(x.nodes)
                                             ELSE x.slot.abort # "no"
    /\ x.slot.work = "review" => x.run.status = "completed"

\* What concerns the workflow alone.
CoreInv(x) ==
    /\ x \in States
    /\ Indexed(x)
    /\ ByInv(x.nodes)
    /\ x.nodes = <<>> => x.run.at \in {0, 1}
    /\ Live(x) => LiveInv(x)
    /\ EndInv(x)
    /\ ParkInv(x)
    /\ SlotInv(x)

\* What relates it to the Session.
SessionInv(x) ==
    /\ Live(x) /\ x.session.status = "EXECUTING" /\ x.session.open =>
           /\ x.run.status = "running" /\ x.context => Busy(x)
           /\ x.slot.abort # "pause"
    /\ x.session.conflict # 0 => x.run.status = "cancelled" \/
           /\ Live(x)
           /\ x.run.parked = "no"
           /\ x.slot = Idle
           /\ x.session.conflict = Len(x.nodes)
           /\ LastIsRunning(x.nodes)
           /\ (IF x.session.status = "PAUSED" THEN x.session.previous ELSE x.session.status)
                   \in {"WAIT_WORKSPACE_CONFLICT_RESOLUTION", "COMPLETED"}
    /\ x.session.status = "WAIT_WORKFLOW_SELECT" => x.nodes = <<>> /\ x.slot = Idle /\ x.session.open
    /\ x.session.reworks > MaxReworks => x.run.status = "completed" /\ x.slot = Idle

\* The two controls that await something.
AwaitInv ==
    /\ starting \in BOOLEAN /\ pausing \in BOOLEAN
    /\ starting =>
           /\ nodeRuns = <<>> /\ slot = Idle /\ ~pausing
           /\ \/ run.status = "running" /\ run.parked = "no" /\ context
                 /\ session.status = "WAIT_WORKFLOW_SELECT"
              \/ run.status = "cancelled" /\ session.status = "CANCELLED"
    /\ session.status = "WAIT_WORKFLOW_SELECT" =>
           /\ ~pausing
           /\ run.status \in {"none", "running"}
           /\ run.status = "running" /\ ~starting => ~context
    /\ pausing => session.status # "PAUSED"

IInv == CoreInv(State) /\ SessionInv(State) /\ AwaitInv

-----------------------------------------------------------------------------
(* Maxima, and the last node run of a node. *)

\* A bounded set of naturals has a maximum.
LEMMA MaxIn ==
    ASSUME NEW n \in Nat, NEW S, S \subseteq 0 .. n, S # {}
    PROVE  Max(S) \in S /\ \A y \in S : y <= Max(S)
<1> DEFINE Less == {ss \in Nat \X Nat : ss[1] < ss[2]}
           Mirror == {n - i : i \in S}
<1>1. OpToRel(<, Nat) = Less
  BY Zenon DEF OpToRel
<1>2. \E m \in Mirror : \A k \in Mirror : <<k, m>> \notin Less
  <2>1. IsWellFoundedOn(Less, Nat)
    BY <1>1, NatLessThanWellFounded, Zenon
  <2>2. Mirror \subseteq Nat /\ Mirror # {}
    <3>1. \A i \in S : n - i \in Nat
      OBVIOUS
    <3>2. PICK i \in S : TRUE
      OBVIOUS
    <3>3. n - i \in Mirror
      OBVIOUS
    <3> QED BY <3>1, <3>3
  <2> HIDE DEF Less, Mirror
  <2> QED BY <2>1, <2>2, WFMin
<1>3. \E m \in S : \A y \in S : m >= y
  <2>1. PICK m \in Mirror : \A k \in Mirror : <<k, m>> \notin Less
    BY <1>2
  <2>2. PICK i \in S : m = n - i
    OBVIOUS
  <2>3. ASSUME NEW y \in S PROVE i >= y
    <3>1. n - y \in Mirror /\ n - y \in Nat /\ m \in Nat
      OBVIOUS
    <3>2. ~(<<n - y, m>>[1] < <<n - y, m>>[2])
      BY <2>1, <3>1
    <3> HIDE DEF Mirror, Less
    <3> QED BY <2>2, <3>1, <3>2
  <2> QED BY <2>3
<1> HIDE DEF Less, Mirror
<1>4. Max(S) \in S /\ \A y \in S : Max(S) >= y
  BY <1>3 DEF Max
<1> QED BY <1>4

LEMMA LastRunIs ==
    ASSUME NEW x \in States, NEW n
    PROVE  /\ LastRun(x, n) \in 0 .. Len(x.nodes)
           /\ LastRun(x, n) # 0 => x.nodes[LastRun(x, n)].node = n
           /\ \A i \in DOMAIN x.nodes : x.nodes[i].node = n => i <= LastRun(x, n)
<1> DEFINE S == {0} \cup {i \in DOMAIN x.nodes : x.nodes[i].node = n}
<1>1. x.nodes \in Seq(NodeRun)
  BY DEF States
<1>2. S \subseteq 0 .. Len(x.nodes) /\ S # {} /\ Len(x.nodes) \in Nat
  BY <1>1
<1>3. Max(S) \in S /\ \A y \in S : y <= Max(S)
  <2> HIDE DEF S
  <2> QED BY <1>2, MaxIn
<1>4. LastRun(x, n) = Max(S)
  BY DEF LastRun
<1> HIDE DEF LastRun
<1>5. Max(S) \in 0 .. Len(x.nodes)
  BY <1>2, <1>3
<1> QED BY <1>1, <1>3, <1>4, <1>5

\* The last node run is the last of its node.
LEMMA LastRunIsLast ==
    ASSUME NEW x \in States, NEW n, x.nodes # <<>>, x.nodes[Len(x.nodes)].node = n
    PROVE  LastRun(x, n) = Len(x.nodes)
<1>1. x.nodes \in Seq(NodeRun)
  BY DEF States
<1>2. Len(x.nodes) \in DOMAIN x.nodes
  BY <1>1
<1> QED BY <1>1, <1>2, LastRunIs

\* The maximum of a singleton.
LEMMA MaxOne ==
    ASSUME NEW n \in Nat
    PROVE  Max({n}) = n
BY MaxIn, {n} \subseteq 0 .. n, {n} # {}

-----------------------------------------------------------------------------
(* What the elementary helpers change. *)

\* Nothing but the status of the Session.
Restatus(x, y) ==
    /\ y \in States
    /\ y.run = x.run /\ y.nodes = x.nodes /\ y.context = x.context
    /\ y.slot = x.slot /\ y.superseded = x.superseded
    /\ y.session = [x.session EXCEPT !.status = y.session.status]

LEMMA SetStatusEffect ==
    ASSUME NEW x \in States, NEW s \in Statuses
    PROVE  Restatus(x, SetStatus(x, s)) /\ SetStatus(x, s).session.status = s
BY DEF States, Sessions, SetStatus, Restatus

Projected == {"WAIT_WORKFLOW_STEP_CONFIRM", "WAIT_USER_DECISION", "FAILED", "CANCELLED", "EXECUTING"}

LEMMA ProjectEffect ==
    ASSUME NEW x \in States
    PROVE  LET y == Project(x)
           IN  /\ Restatus(x, y)
               /\ y.session.status = x.session.status \/ y.session.status \in Projected
               /\ y.session.status = "EXECUTING" =>
                     x.session.status = "EXECUTING" \/
                     (x.session.open /\ x.run.status \notin {"waiting_human", "failed", "cancelled"})
<1> DEFINE s == CASE x.run.status = "waiting_human" -> IF x.run.parked = "no" THEN "WAIT_WORKFLOW_STEP_CONFIRM"
                                                                                  ELSE "WAIT_USER_DECISION"
                  [] x.run.status = "failed"    -> "FAILED"
                  [] x.run.status = "cancelled" -> "CANCELLED"
                  [] OTHER                      -> "EXECUTING"
<1>1. s \in Projected /\ s \in Statuses
  BY DEF Projected, Statuses
<1>2. s = "EXECUTING" => x.run.status \notin {"waiting_human", "failed", "cancelled"}
  OBVIOUS
<1>3. Project(x) = x \/ (x.session.open /\ Project(x) = SetStatus(x, s))
  BY DEF Project, States, Sessions
<1> HIDE DEF s
<1>4. Restatus(x, x)
  BY DEF Restatus, States, Sessions
<1>5. CASE Project(x) = x
  BY <1>4, <1>5
<1>6. CASE x.session.open /\ Project(x) = SetStatus(x, s)
  BY <1>1, <1>2, <1>6, SetStatusEffect
<1> QED BY <1>3, <1>5, <1>6

-----------------------------------------------------------------------------
(* What the history allows: statuses that are final stay, node runs are    *)
(* appended.                                                               *)

Final(status) == status \notin {"running", "waiting"}

\* Node runs of the same nodes; only those under way or waiting get another status.
Marked(a, b) ==
    /\ Len(a) = Len(b)
    /\ \A i \in DOMAIN a : /\ b[i].node = a[i].node
                           /\ b[i].by = a[i].by
                           /\ Final(a[i].status) => b[i].status = a[i].status

Kept(a, b) ==
    /\ Len(a) <= Len(b)
    /\ \A i \in DOMAIN a : Final(a[i].status) => b[i].status = a[i].status

LEMMA KeptTransitive ==
    ASSUME NEW a \in Seq(NodeRun), NEW b \in Seq(NodeRun), NEW c \in Seq(NodeRun),
           Kept(a, b), Kept(b, c)
    PROVE  Kept(a, c)
BY DEF Kept, Final

LEMMA MarkedKeeps ==
    ASSUME NEW a \in Seq(NodeRun), NEW b \in Seq(NodeRun), Marked(a, b)
    PROVE  /\ Kept(a, b)
           /\ DOMAIN a = DOMAIN b
           /\ ByInv(a) => ByInv(b)
           /\ \A n : Clear(a, n) => Clear(b, n)
<1>1. DOMAIN a = DOMAIN b
  BY DEF Marked
<1>2. Kept(a, b)
  BY DEF Marked, Kept
<1>3. ByInv(a) => ByInv(b)
  BY <1>1 DEF Marked, ByInv
<1>4. ASSUME NEW n, Clear(a, n) PROVE Clear(b, n)
  <2> SUFFICES ASSUME NEW g \in Nodes \ Agents, g < n
               PROVE  \E last \in DOMAIN b :
                         /\ b[last].node = g /\ b[last].status = "approved"
                         /\ \A j \in DOMAIN b : /\ b[j].node = g => j <= last
                                                /\ b[j].node \in Agents /\ b[j].node < g => j < last
    BY DEF Clear
  <2>1. PICK last \in DOMAIN a :
            /\ a[last].node = g /\ a[last].status = "approved"
            /\ \A j \in DOMAIN a : /\ a[j].node = g => j <= last
                                   /\ a[j].node \in Agents /\ a[j].node < g => j < last
    BY <1>4 DEF Clear
  <2>2. b[last].node = g /\ b[last].status = "approved"
    BY <2>1 DEF Marked, Final
  <2> QED BY <1>1, <2>1, <2>2 DEF Marked
<1> QED BY <1>1, <1>2, <1>3, <1>4

LEMMA SetRun ==
    ASSUME NEW a \in Seq(NodeRun), NEW i \in DOMAIN a, NEW r \in NodeRun
    PROVE  LET b == [a EXCEPT ![i] = r]
           IN  /\ b \in Seq(NodeRun) /\ Len(b) = Len(a) /\ DOMAIN b = DOMAIN a
               /\ b[i] = r /\ \A j \in DOMAIN a : j # i => b[j] = a[j]
OBVIOUS

\* What is clear stays so for every node before, and when the node is run again.
LEMMA ClearBefore ==
    ASSUME NEW a \in Seq(NodeRun), NEW n \in Nat, NEW m \in Nat, m <= n, Clear(a, n)
    PROVE  Clear(a, m)
BY WorkflowAssumption DEF Clear, Nodes

LEMMA ClearAppend ==
    ASSUME NEW a \in Seq(NodeRun), NEW n \in Nodes, NEW r \in NodeRun, r.node = n, Clear(a, n)
    PROVE  Clear(Append(a, r), n)
<1> DEFINE b == Append(a, r)
<1> SUFFICES ASSUME NEW g \in Nodes \ Agents, g < n
             PROVE  \E last \in DOMAIN b :
                       /\ b[last].node = g /\ b[last].status = "approved"
                       /\ \A j \in DOMAIN b : /\ b[j].node = g => j <= last
                                              /\ b[j].node \in Agents /\ b[j].node < g => j < last
  BY DEF Clear
<1>1. PICK last \in DOMAIN a :
          /\ a[last].node = g /\ a[last].status = "approved"
          /\ \A j \in DOMAIN a : /\ a[j].node = g => j <= last
                                 /\ a[j].node \in Agents /\ a[j].node < g => j < last
  BY DEF Clear
<1>2. DOMAIN b = DOMAIN a \cup {Len(a) + 1} /\ b[Len(a) + 1] = r /\ \A j \in DOMAIN a : b[j] = a[j]
  OBVIOUS
<1>3. n \in Nat /\ g \in Nat /\ n # g /\ ~(n < g)
  BY WorkflowAssumption DEF Nodes
<1> HIDE DEF b
<1> QED BY <1>1, <1>2, <1>3

\* A node whose last run is the last of all, and approved if it is a gate, is clear.
LEMMA ClearNext ==
    ASSUME NEW a \in Seq(NodeRun), a # <<>>, NEW n \in Nodes, Clear(a, n),
           a[Len(a)].node = n, n \in Agents \/ a[Len(a)].status = "approved"
    PROVE  Clear(a, n + 1)
<1> SUFFICES ASSUME NEW g \in Nodes \ Agents, g < n + 1
             PROVE  \E last \in DOMAIN a :
                       /\ a[last].node = g /\ a[last].status = "approved"
                       /\ \A j \in DOMAIN a : /\ a[j].node = g => j <= last
                                              /\ a[j].node \in Agents /\ a[j].node < g => j < last
  BY DEF Clear
<1>1. n \in Nat /\ g \in Nat
  BY WorkflowAssumption DEF Nodes
<1>2. CASE g < n
  BY <1>2 DEF Clear
<1>3. CASE g = n
  <2>1. Len(a) \in DOMAIN a /\ \A j \in DOMAIN a : j <= Len(a) /\ (j # Len(a) => j < Len(a))
    OBVIOUS
  <2> QED BY <1>1, <1>3, <2>1
<1> QED BY <1>1, <1>2, <1>3

LEMMA ByAppend ==
    ASSUME NEW a \in Seq(NodeRun), ByInv(a), NEW r \in NodeRun,
           IF r.by = "human" THEN r.node \notin Agents ELSE r.by = Kinds[r.node],
           a = <<>> => r.by = "agent"
    PROVE  ByInv(Append(a, r)) /\ Kept(a, Append(a, r)) /\ Append(a, r) \in Seq(NodeRun)
<1> DEFINE b == Append(a, r)
<1>1. DOMAIN b = DOMAIN a \cup {Len(a) + 1} /\ b[Len(a) + 1] = r /\ \A j \in DOMAIN a : b[j] = a[j]
  OBVIOUS
<1>2. b \in Seq(NodeRun) /\ Len(b) = Len(a) + 1
  OBVIOUS
<1>3. b[1].by = "agent"
  <2>1. CASE a = <<>>
    BY <1>1, <2>1
  <2>2. CASE a # <<>>
    <3>1. 1 \in DOMAIN a
      BY <2>2
    <3> QED BY <1>1, <2>2, <3>1 DEF ByInv
  <2> QED BY <2>1, <2>2
<1> HIDE DEF b
<1>4. ByInv(b)
  BY <1>1, <1>3 DEF ByInv
<1>5. Kept(a, b)
  BY <1>1, <1>2 DEF Kept
<1> QED BY <1>2, <1>4, <1>5 DEF b

\* Publishable workflows: the first node is an Agent's, and a gate has one before it.
LEMMA FirstIsAgent ==
    /\ Nodes = 1 .. Len(Kinds) /\ Len(Kinds) \in Nat
    /\ 1 \in Agents
    /\ \A n \in Nodes : Kinds[n] \in {"agent", "human", "robot"}
<1>1. Kinds \in Seq({"agent", "human", "robot"}) /\ Len(Kinds) > 0
  BY WorkflowAssumption
<1>2. Nodes = 1 .. Len(Kinds) /\ 1 \in Nodes /\ Agents \subseteq Nodes
  BY <1>1 DEF Nodes, Agents
<1>3. 1 \in Agents
  BY <1>2, WorkflowAssumption
<1> QED BY <1>1, <1>2, <1>3 DEF Nodes

LEMMA ReworkTargetIs ==
    ASSUME NEW n \in Nodes \ Agents
    PROVE  ReworkTarget(n) \in Agents /\ ReworkTarget(n) < n
<1> DEFINE S == {a \in Agents : a < n}
<1>1. S # {} /\ S \subseteq 0 .. n /\ n \in Nat
  BY FirstIsAgent, WorkflowAssumption DEF Agents
<1>2. Max(S) \in S
  <2> HIDE DEF S
  <2> QED BY <1>1, MaxIn
<1> QED BY <1>2 DEF ReworkTarget

-----------------------------------------------------------------------------
(* Activating a node.                                                      *)

\* Nothing is under way: the Session's execution is over and no node run runs.
Fresh(x) ==
    /\ x \in States
    /\ Indexed(x)
    /\ ByInv(x.nodes)
    /\ NoneRunning(x.nodes)
    /\ x.slot = Idle
    /\ x.session.conflict = 0
    /\ ~(x.session.reworks > MaxReworks)

\* A running run has an execution, and nothing waits to be undone.
Settled(y) ==
    /\ y.run.status = "running" /\ y.context => Busy(y)
    /\ y.slot.abort = "no"
    /\ y.session.conflict = 0
    /\ ~(y.session.reworks > MaxReworks)

\* What a helper leaves of the rest of the state.
Follows(x, y) ==
    /\ Kept(x.nodes, y.nodes)
    /\ y.context = x.context
    /\ y.session = [x.session EXCEPT !.status = y.session.status]
    /\ y.session.status = x.session.status \/ y.session.status \in Projected

LEMMA SettledSession ==
    ASSUME NEW y, Settled(y), y.session.status # "WAIT_WORKFLOW_SELECT"
    PROVE  SessionInv(y)
BY DEF Settled, SessionInv

LEMMA RestatusCore ==
    ASSUME NEW x \in States, NEW y, Restatus(x, y)
    PROVE  /\ CoreInv(x) => CoreInv(y)
           /\ Settled(x) => Settled(y)
           /\ Kept(x.nodes, y.nodes)
<1>1. y.session.conflict = x.session.conflict /\ y.session.reworks = x.session.reworks
  BY DEF Restatus, States, Sessions
<1>2. Kept(x.nodes, y.nodes)
  BY DEF Restatus, Kept, States
<1>3. Settled(x) => Settled(y)
  BY <1>1 DEF Settled, Restatus, Busy
<1>4. CoreInv(x) => CoreInv(y)
  BY <1>1 DEF CoreInv, Restatus, Indexed, Live, LiveInv, EndInv, ParkInv, SlotInv
<1> QED BY <1>2, <1>3, <1>4

LEMMA HumanCore ==
    ASSUME NEW x, Fresh(x), Live(x), x.run.parked = "no", x.run.at \in Nodes \ Agents,
           x.nodes # <<>>, Clear(x.nodes, x.run.at)
    PROVE  LET y == ActivateHuman(x) IN CoreInv(y) /\ Settled(y) /\ Follows(x, y)
<1> DEFINE r == [ node |-> x.run.at, by |-> "human", status |-> "waiting", task |-> "none" ]
           w == [AppendRun(x, "human", "waiting", "none") EXCEPT !.run.status = "waiting_human"]
           y == Project(w)
<1>1. r \in NodeRun
  BY DEF NodeRun, Fresh
<1>2. /\ w.nodes = Append(x.nodes, r)
      /\ w.run = [x.run EXCEPT !.status = "waiting_human"]
      /\ w.context = x.context /\ w.slot = x.slot /\ w.superseded = x.superseded
      /\ w.session = x.session
  BY DEF Fresh, States, AppendRun
<1>4. x.nodes \in Seq(NodeRun) /\ x \in States
  BY DEF Fresh, States
<1>3. w \in States
  <2> DEFINE v == [x EXCEPT !.nodes = Append(@, r)]
  <2>1. w = [v EXCEPT !.run.status = "waiting_human"]
    BY DEF AppendRun
  <2>2. v \in States
    BY <1>1, <1>4, Append(x.nodes, r) \in Seq(NodeRun) DEF States
  <2> HIDE DEF v
  <2> QED BY <2>1, <2>2 DEF States, Runs
<1>5. ByInv(w.nodes) /\ Kept(x.nodes, w.nodes) /\ w.nodes \in Seq(NodeRun)
  BY <1>1, <1>2, <1>4, ByAppend DEF Fresh
<1>6. Clear(w.nodes, w.run.at)
  <2>1. w.run.at = x.run.at
    BY <1>2, <1>4 DEF States, Runs
  <2> QED BY <1>1, <1>2, <1>4, <2>1, ClearAppend
<1>7. /\ w.run.status = "waiting_human" /\ w.run.at = x.run.at /\ w.run.parked = "no"
      /\ w.nodes # <<>> /\ Len(w.nodes) = Len(x.nodes) + 1
      /\ w.nodes[Len(w.nodes)] = r
      /\ \A i \in DOMAIN x.nodes : w.nodes[i] = x.nodes[i]
      /\ DOMAIN w.nodes = DOMAIN x.nodes \cup {Len(w.nodes)}
  BY <1>2, <1>4 DEF Fresh, States, Runs
<1>8. Indexed(w)
  BY <1>2, <1>4, <1>7 DEF Fresh, Indexed, Idle
<1>9. NoneRunning(w.nodes)
  BY <1>7 DEF Fresh, NoneRunning
<1> HIDE DEF w
<1>10. CoreInv(w)
  <2>1. LiveInv(w)
    BY <1>6, <1>7, <1>9 DEF LiveInv, NoneRunning
  <2>2. EndInv(w) /\ ParkInv(w)
    BY <1>7 DEF EndInv, ParkInv
  <2>3. SlotInv(w)
    BY <1>2 DEF SlotInv, Fresh, Idle
  <2> QED BY <1>3, <1>5, <1>7, <1>8, <2>1, <2>2, <2>3 DEF CoreInv
<1>11. Settled(w)
  BY <1>2, <1>7 DEF Settled, Fresh, Idle
<1>12. Restatus(w, y) /\ (y.session.status = w.session.status \/ y.session.status \in Projected)
  BY <1>3, ProjectEffect
<1>13. y = ActivateHuman(x)
  BY DEF ActivateHuman, w
<1> HIDE DEF y
<1>14. CoreInv(y) /\ Settled(y)
  BY <1>3, <1>10, <1>11, <1>12, RestatusCore
<1>15. Follows(x, y)
  BY <1>2, <1>5, <1>12 DEF Follows, Restatus
<1> QED BY <1>13, <1>14, <1>15

\* An Agent's or a robot's node is started, if there is a context to start it from.
LEMMA ActivateCore ==
    ASSUME NEW x, Fresh(x), x.run.status = "running", x.run.parked = "no", x.run.at \in Nodes,
           x.nodes = <<>> => x.run.at = 1, Clear(x.nodes, x.run.at),
           x.context \/ x.nodes = <<>> \/ x.nodes[Len(x.nodes)].status # "waiting"
    PROVE  LET y == Activate(x) IN CoreInv(y) /\ Settled(y) /\ Follows(x, y)
<1>0. ~Ended(x) /\ Live(x) /\ x \in States /\ x.nodes \in Seq(NodeRun)
  BY DEF Ended, Live, Terminal, Fresh, States
<1>1. CASE Kinds[x.run.at] = "human"
  <2>1. x.run.at \in Nodes \ Agents /\ x.nodes # <<>>
    BY <1>1, FirstIsAgent DEF Agents
  <2>2. Activate(x) = ActivateHuman(x)
    BY <1>0, <1>1 DEF Activate
  <2> QED BY <1>0, <2>1, <2>2, HumanCore
<1>2. CASE Kinds[x.run.at] # "human" /\ ~x.context
  <2>1. Activate(x) = x
    BY <1>0, <1>2 DEF Activate
  <2>2. LiveInv(x)
    BY <1>2, <1>0 DEF LiveInv, Fresh, NoneRunning
  <2>3. EndInv(x) /\ ParkInv(x) /\ SlotInv(x)
    BY DEF EndInv, ParkInv, SlotInv, Fresh, Idle
  <2>4. CoreInv(x)
    BY <2>2, <2>3 DEF CoreInv, Fresh
  <2>5. Settled(x)
    BY <1>2 DEF Settled, Fresh, Idle
  <2>6. Follows(x, x)
    BY <1>0 DEF Follows, Kept, States, Sessions
  <2> QED BY <2>1, <2>4, <2>5, <2>6
<1>3. CASE Kinds[x.run.at] # "human" /\ x.context
  <2> DEFINE r == [ node |-> x.run.at, by |-> Kinds[x.run.at], status |-> "running", task |-> "open" ]
             w == AppendRun(x, Kinds[x.run.at], "running", "open")
             s == [ work |-> "node", nodeRun |-> Len(x.nodes) + 1, abort |-> "no" ]
             y == [w EXCEPT !.slot = s]
  <2>1. r \in NodeRun /\ r.by # "human" /\ (x.nodes = <<>> => r.by = "agent")
    BY <1>3, FirstIsAgent DEF NodeRun, Agents
  <2>2. w = [x EXCEPT !.nodes = Append(@, r)]
    BY DEF AppendRun
  <2>3. ~Busy(w)
    BY <1>0, <2>2 DEF Busy, Fresh, Idle, States
  <2>4. Activate(x) = y
    BY <1>0, <1>3, <2>3 DEF Activate, Launch
  <2>5. /\ y.nodes = Append(x.nodes, r) /\ y.slot = s
        /\ y.run = x.run /\ y.context = x.context /\ y.superseded = x.superseded
        /\ y.session = x.session
    BY <1>0, <2>2 DEF States
  <2>6. s \in [ work : Work, nodeRun : Nat, abort : Aborts ]
    BY <1>0 DEF Work, Aborts
  <2>7. y \in States
    <3>1. w \in States
      BY <1>0, <2>1, <2>2, Append(x.nodes, r) \in Seq(NodeRun) DEF States
    <3> HIDE DEF w, s
    <3> QED BY <2>6, <3>1 DEF States
  <2> HIDE DEF w, y
  <2>8. ByInv(y.nodes) /\ Kept(x.nodes, y.nodes)
    BY <1>0, <2>1, <2>5, ByAppend DEF Fresh
  <2>9. Clear(y.nodes, y.run.at)
    BY <1>0, <2>1, <2>5, ClearAppend
  <2>10. /\ y.nodes # <<>> /\ Len(y.nodes) = Len(x.nodes) + 1
         /\ y.nodes[Len(y.nodes)] = r
         /\ \A i \in DOMAIN x.nodes : y.nodes[i] = x.nodes[i]
         /\ DOMAIN y.nodes = DOMAIN x.nodes \cup {Len(y.nodes)}
    BY <1>0, <2>5
  <2>11. Indexed(y)
    BY <1>0, <2>5, <2>10 DEF Fresh, Indexed
  <2>12. \A i \in DOMAIN y.nodes : y.nodes[i].status = "running" => i = Len(y.nodes)
    BY <2>10 DEF Fresh, NoneRunning
  <2>13. LiveInv(y)
    BY <2>1, <2>5, <2>9, <2>10, <2>12 DEF LiveInv
  <2>14. EndInv(y) /\ ParkInv(y)
    BY <2>5 DEF EndInv, ParkInv
  <2>15. SlotInv(y)
    BY <1>0, <2>5, <2>10 DEF SlotInv, Live, LastIsRunning
  <2>16. CoreInv(y)
    BY <2>5, <2>7, <2>8, <2>10, <2>11, <2>13, <2>14, <2>15 DEF CoreInv
  <2>17. Settled(y)
    BY <2>5 DEF Settled, Fresh, Busy
  <2>18. Follows(x, y)
    BY <1>0, <2>5, <2>8 DEF Follows, States, Sessions
  <2> QED BY <2>4, <2>16, <2>17, <2>18
<1> QED BY <1>1, <1>2, <1>3

LEMMA GoToCore ==
    ASSUME NEW x, Fresh(x), NEW n \in Nodes, x.nodes = <<>> => n = 1, Clear(x.nodes, n),
           x.context \/ x.nodes = <<>> \/ x.nodes[Len(x.nodes)].status # "waiting"
    PROVE  LET y == GoTo(x, n) IN CoreInv(y) /\ Settled(y) /\ Follows(x, y)
<1> DEFINE R == [ NoRun EXCEPT !.status = "running", !.at = n ]
           w == [x EXCEPT !.run = R]
           v == Project(w)
           y == Activate(v)
<1>1. R \in Runs /\ R.status = "running" /\ R.at = n /\ R.parked = "no"
  BY DEF NoRun, Runs
<1>2. x \in States /\ x.nodes \in Seq(NodeRun)
  BY DEF Fresh, States
<1>3. /\ w.run = R /\ w.nodes = x.nodes /\ w.context = x.context /\ w.slot = x.slot
      /\ w.superseded = x.superseded /\ w.session = x.session
  BY <1>2 DEF States
<1>4. w \in States
  BY <1>1, <1>2 DEF States
<1> HIDE DEF R, w
<1>5. Restatus(w, v) /\ (v.session.status = w.session.status \/ v.session.status \in Projected)
  BY <1>4, ProjectEffect
<1>6. /\ v.run = R /\ v.nodes = x.nodes /\ v.context = x.context /\ v.slot = x.slot
      /\ v.superseded = x.superseded
      /\ v.session = [x.session EXCEPT !.status = v.session.status]
      /\ v.session.status = x.session.status \/ v.session.status \in Projected
      /\ v \in States
  BY <1>3, <1>5 DEF Restatus
<1> HIDE DEF v
<1>7. v.session.conflict = x.session.conflict /\ v.session.reworks = x.session.reworks
  BY <1>2, <1>6 DEF States, Sessions
<1>8. Fresh(v)
  BY <1>6, <1>7 DEF Fresh, Indexed
<1>9. CoreInv(y) /\ Settled(y) /\ Follows(v, y)
  BY <1>1, <1>6, <1>8, ActivateCore
<1>10. y = GoTo(x, n)
  BY DEF GoTo, v, w, R
<1> HIDE DEF y
<1>11. Follows(x, y)
  BY <1>2, <1>6, <1>9 DEF Follows, States, Sessions
<1> QED BY <1>9, <1>10, <1>11

-----------------------------------------------------------------------------
(* Finishing.                                                              *)

LEMMA FailNodeEffect ==
    ASSUME NEW x \in States,
           \A i \in DOMAIN x.nodes : x.nodes[i].status = "running" =>
               i = Len(x.nodes) /\ x.nodes[i].node = x.run.at
    PROVE  LET y == FailNode(x)
           IN  /\ y \in States
               /\ y.run = x.run /\ y.context = x.context /\ y.slot = x.slot
               /\ y.superseded = x.superseded /\ y.session = x.session
               /\ Marked(x.nodes, y.nodes) /\ NoneRunning(y.nodes)
<1> DEFINE running == {i \in DOMAIN x.nodes : x.nodes[i].node = x.run.at /\ x.nodes[i].status = "running"}
<1>1. x.nodes \in Seq(NodeRun) /\ Len(x.nodes) \in Nat
  BY DEF States
<1>2. CASE running = {}
  <2>1. FailNode(x) = x
    BY <1>2 DEF FailNode
  <2>2. NoneRunning(x.nodes)
    BY <1>2 DEF NoneRunning
  <2> QED BY <1>1, <2>1, <2>2 DEF Marked
<1>3. CASE running # {}
  <2> DEFINE n == Len(x.nodes)
             y == [x EXCEPT !.nodes[n].status = "failed"]
  <2>1. running = {n} /\ n \in DOMAIN x.nodes /\ x.nodes[n].status = "running"
    BY <1>1, <1>3
  <2>2. FailNode(x) = y
    <3>1. FailNode(x) = [x EXCEPT !.nodes[Max(running)].status = "failed"]
      BY <1>3 DEF FailNode
    <3>2. Max(running) = n
      BY <1>1, <2>1, MaxOne
    <3> QED BY <3>1, <3>2
  <2>3. y.nodes = [x.nodes EXCEPT ![n].status = "failed"]
    BY DEF States
  <2>4. y.nodes \in Seq(NodeRun) /\ y \in States
    <3> DEFINE r == [x.nodes[n] EXCEPT !.status = "failed"]
    <3>0. x.nodes[n] \in NodeRun
      BY <1>1, <2>1
    <3>1. r \in NodeRun
      BY <3>0 DEF NodeRun
    <3>2. y = [x EXCEPT !.nodes = [x.nodes EXCEPT ![n] = r]]
      BY DEF States
    <3>3. [x.nodes EXCEPT ![n] = r] \in Seq(NodeRun)
      BY <1>1, <2>1, <3>1, SetRun
    <3> QED BY <3>2, <3>3 DEF States
  <2>5. Marked(x.nodes, y.nodes)
    BY <1>1, <2>1, <2>3 DEF Marked, Final, NodeRun
  <2>6. NoneRunning(y.nodes)
    BY <1>1, <2>1, <2>3 DEF NoneRunning, NodeRun
  <2> QED BY <2>2, <2>4, <2>5, <2>6 DEF States
<1> QED BY <1>2, <1>3

\* The run ends by its own doing.
LEMMA FinishedCore ==
    ASSUME NEW x, Fresh(x), NEW R \in Runs, R.status \in Terminal, R.parked = "no", R.at \in {0} \cup Nodes,
           R.status # "cancelled" => x.nodes # <<>>,
           R.status = "failed" => R.at \in Nodes /\ Clear(x.nodes, R.at),
           R.status = "completed" => Clear(x.nodes, Len(Kinds) + 1),
           x.nodes = <<>> => R.at \in {0, 1}
    PROVE  LET y == Project([x EXCEPT !.run = R])
           IN  /\ CoreInv(y) /\ Settled(y) /\ Follows(x, y)
               /\ y.run = R /\ y.slot = Idle /\ y.nodes = x.nodes
<1> DEFINE w == [x EXCEPT !.run = R]
           y == Project(w)
<1>1. x \in States /\ x.nodes \in Seq(NodeRun)
  BY DEF Fresh, States
<1>2. /\ w.run = R /\ w.nodes = x.nodes /\ w.context = x.context /\ w.slot = x.slot
      /\ w.superseded = x.superseded /\ w.session = x.session /\ w \in States
  BY <1>1 DEF States
<1> HIDE DEF w
<1>3. Restatus(w, y) /\ (y.session.status = w.session.status \/ y.session.status \in Projected)
  BY <1>2, ProjectEffect
<1> HIDE DEF y
<1>4. CoreInv(w)
  <2>1. Indexed(w) /\ ByInv(w.nodes) /\ ~Live(w)
    BY <1>2 DEF Fresh, Indexed, Live, Terminal
  <2>2. EndInv(w)
    BY <1>2 DEF EndInv, Fresh, Terminal
  <2>3. ParkInv(w) /\ SlotInv(w)
    BY <1>2 DEF ParkInv, SlotInv, Fresh, Idle
  <2> QED BY <1>2, <2>1, <2>2, <2>3 DEF CoreInv
<1>5. Settled(w)
  BY <1>2 DEF Settled, Fresh, Idle, Terminal
<1>6. CoreInv(y) /\ Settled(y) /\ Kept(w.nodes, y.nodes)
  BY <1>2, <1>3, <1>4, <1>5, RestatusCore
<1>7. Follows(x, y) /\ y.run = R /\ y.slot = Idle /\ y.nodes = x.nodes
  BY <1>2, <1>3, <1>6 DEF Follows, Restatus, Fresh
<1> QED BY <1>6, <1>7 DEF w, y

LEMMA FinishFails ==
    ASSUME NEW x \in States, Indexed(x), ByInv(x.nodes), x.slot = Idle, x.session.conflict = 0,
           ~(x.session.reworks > MaxReworks), Live(x), LiveInv(x), x.nodes # <<>>
    PROVE  LET y == Finish(x, "failed") IN CoreInv(y) /\ Settled(y) /\ Follows(x, y)
<1> DEFINE w == FailNode(x)
           R == [ NoRun EXCEPT !.status = "failed", !.at = x.run.at ]
           y == Project([w EXCEPT !.run = R])
<1>1. x.nodes \in Seq(NodeRun) /\ x.run \in Runs
  BY DEF States
<1>2. /\ w \in States
      /\ w.run = x.run /\ w.context = x.context /\ w.slot = x.slot
      /\ w.superseded = x.superseded /\ w.session = x.session
      /\ Marked(x.nodes, w.nodes) /\ NoneRunning(w.nodes)
  BY FailNodeEffect DEF LiveInv
<1> HIDE DEF w
<1>3. w.nodes \in Seq(NodeRun)
  BY <1>2 DEF States
<1>4. Kept(x.nodes, w.nodes) /\ ByInv(w.nodes) /\ Clear(w.nodes, x.run.at) /\ DOMAIN x.nodes = DOMAIN w.nodes
  BY <1>1, <1>2, <1>3, MarkedKeeps DEF LiveInv
<1>5. w.nodes # <<>> /\ Len(w.nodes) = Len(x.nodes)
  BY <1>1, <1>2, <1>3 DEF Marked
<1>6. Fresh(w)
  BY <1>2, <1>4, <1>5 DEF Fresh, Indexed
<1>7. /\ R \in Runs /\ R.status = "failed" /\ R.parked = "no" /\ R.at = x.run.at /\ x.run.at \in Nodes
      /\ R.status \in Terminal
  BY <1>1 DEF LiveInv, NoRun, Runs, Terminal
<1>8. Finish(x, "failed") = y
  BY DEF Finish, Ended, Live, Terminal, w
<1> HIDE DEF R
<1>9. CoreInv(y) /\ Settled(y) /\ Follows(w, y)
  BY <1>4, <1>5, <1>6, <1>7, FinishedCore
<1>10. Follows(x, y)
  <2> HIDE DEF y
  <2>1. y.nodes \in Seq(NodeRun)
    BY <1>9 DEF CoreInv, States
  <2>2. Kept(x.nodes, y.nodes)
    BY <1>1, <1>3, <1>4, <1>9, <2>1, KeptTransitive DEF Follows
  <2> QED BY <1>2, <1>9, <2>2 DEF Follows
<1> QED BY <1>8, <1>9, <1>10

\* A cancel of a live run, whatever executes.
LEMMA FinishCancels ==
    ASSUME NEW x \in States, Indexed(x), ByInv(x.nodes), Live(x),
           x.slot.work = "idle" => x.slot = Idle,
           x.slot.work = "node" => x.slot.nodeRun \in DOMAIN x.nodes /\ x.slot.abort # "no",
           x.slot.work # "review"
    PROVE  LET y == Finish(x, "cancelled")
           IN  /\ CoreInv(y)
               /\ y.run.status = "cancelled" /\ y.nodes = x.nodes /\ y.context = x.context
               /\ y.slot = x.slot /\ y.superseded = x.superseded
               /\ y.session = [x.session EXCEPT !.status = y.session.status]
               /\ y.session.status = x.session.status \/ y.session.status \in Projected \ {"EXECUTING"}
<1> DEFINE R == [ NoRun EXCEPT !.status = "cancelled" ]
           w == [x EXCEPT !.run = R]
           y == Project(w)
<1>1. R \in Runs /\ R.status = "cancelled" /\ R.parked = "no" /\ R.at = 0
  BY DEF NoRun, Runs, Terminal
<1>2. Finish(x, "cancelled") = y
  BY DEF Finish, Ended, Live, Terminal
<1> HIDE DEF R
<1>3. /\ w.run = R /\ w.nodes = x.nodes /\ w.context = x.context /\ w.slot = x.slot
      /\ w.superseded = x.superseded /\ w.session = x.session /\ w \in States
  BY <1>1 DEF States
<1> HIDE DEF w
<1>4. Restatus(w, y)
      /\ (y.session.status = w.session.status \/ y.session.status \in Projected)
      /\ (y.session.status = "EXECUTING" => w.session.status = "EXECUTING")
  BY <1>1, <1>3, ProjectEffect
<1> HIDE DEF y
<1>5. CoreInv(w)
  <2>1. Indexed(w) /\ ByInv(w.nodes) /\ ~Live(w)
    BY <1>1, <1>3 DEF Indexed, Live
  <2>2. EndInv(w) /\ ParkInv(w) /\ SlotInv(w)
    BY <1>1, <1>3, <2>1 DEF EndInv, ParkInv, SlotInv, States, Work
  <2> QED BY <1>1, <1>3, <2>1, <2>2 DEF CoreInv
<1>6. CoreInv(y)
  BY <1>3, <1>4, <1>5, RestatusCore
<1>7. /\ y.run.status = "cancelled" /\ y.nodes = x.nodes /\ y.context = x.context
      /\ y.slot = x.slot /\ y.superseded = x.superseded
      /\ y.session = [x.session EXCEPT !.status = y.session.status]
      /\ y.session.status = x.session.status \/ y.session.status \in Projected \ {"EXECUTING"}
  BY <1>1, <1>3, <1>4 DEF Restatus
<1> QED BY <1>2, <1>6, <1>7

\* The same when nothing executes.
LEMMA FinishCancelsIdle ==
    ASSUME NEW x \in States, Indexed(x), ByInv(x.nodes), Live(x), x.slot = Idle,
           x.session.conflict = 0, ~(x.session.reworks > MaxReworks)
    PROVE  LET y == Finish(x, "cancelled") IN CoreInv(y) /\ Settled(y) /\ Follows(x, y)
<1> DEFINE y == Finish(x, "cancelled")
<1>1. /\ CoreInv(y)
      /\ y.run.status = "cancelled" /\ y.nodes = x.nodes /\ y.context = x.context
      /\ y.slot = x.slot /\ y.superseded = x.superseded
      /\ y.session = [x.session EXCEPT !.status = y.session.status]
      /\ y.session.status = x.session.status \/ y.session.status \in Projected \ {"EXECUTING"}
  BY FinishCancels DEF Idle
<1> HIDE DEF y
<1>2. Settled(y)
  BY <1>1 DEF Settled, Idle, States, Sessions
<1>3. Follows(x, y)
  BY <1>1 DEF Follows, Kept, States
<1> QED BY <1>1, <1>2, <1>3 DEF y

\* Behind the last node the run completes and its review begins.
LEMMA AdvanceCore ==
    ASSUME NEW x, Fresh(x), Live(x), x.nodes # <<>>, NEW n \in Nodes, Clear(x.nodes, n + 1),
           x.nodes[Len(x.nodes)].status # "waiting"
    PROVE  LET y == Advance(x, n) IN CoreInv(y) /\ Settled(y) /\ Follows(x, y)
<1>1. CASE n + 1 \in Nodes
  <2>1. Advance(x, n) = GoTo(x, n + 1)
    BY <1>1 DEF Advance
  <2> QED BY <1>1, <2>1, GoToCore
<1>2. CASE n + 1 \notin Nodes
  <2> DEFINE R == [ NoRun EXCEPT !.status = "completed" ]
             z == Project([x EXCEPT !.run = R])
             y == [z EXCEPT !.slot = [ Idle EXCEPT !.work = "review" ]]
  <2>1. R \in Runs /\ R.status = "completed" /\ R.status \in Terminal /\ R.parked = "no" /\ R.at = 0
    BY DEF NoRun, Runs, Terminal
  <2>2. Finish(x, "completed") = z
    BY DEF Finish, Ended, Live, Terminal
  <2>3. n + 1 = Len(Kinds) + 1
    BY <1>2, FirstIsAgent
  <2>4. /\ CoreInv(z) /\ Settled(z) /\ Follows(x, z)
        /\ z.run = R /\ z.slot = Idle /\ z.nodes = x.nodes
    <3> HIDE DEF R
    <3> QED BY <2>1, <2>3, FinishedCore
  <2>5. Advance(x, n) = IF z.context THEN y ELSE z
    BY <1>2, <2>2 DEF Advance
  <2> HIDE DEF R, z
  <2>6. CASE ~z.context
    BY <2>4, <2>5, <2>6
  <2>7. CASE z.context
    <3>1. z \in States
      BY <2>4 DEF CoreInv
    <3>2. /\ y.run = R /\ y.nodes = z.nodes /\ y.context = z.context /\ y.superseded = z.superseded
          /\ y.session = z.session /\ y.slot = [ Idle EXCEPT !.work = "review" ]
          /\ y \in States
      BY <2>4, <3>1 DEF States, Idle, Work, Aborts
    <3> HIDE DEF y
    <3>3. y.slot.work = "review" /\ y.slot.nodeRun = 0 /\ y.slot.abort = "no"
      BY <3>2 DEF Idle
    <3>4. CoreInv(y)
      <4>1. Indexed(y) /\ ByInv(y.nodes) /\ ~Live(y)
        BY <2>1, <2>4, <3>2, <3>3 DEF CoreInv, Indexed, Live
      <4>2. EndInv(y) /\ ParkInv(y) /\ SlotInv(y)
        BY <2>1, <2>4, <3>2, <3>3 DEF CoreInv, EndInv, ParkInv, SlotInv
      <4> QED BY <2>1, <2>4, <3>2, <4>1, <4>2 DEF CoreInv
    <3>5. Settled(y)
      BY <2>1, <2>4, <3>2, <3>3 DEF Settled
    <3>6. Follows(x, y)
      BY <2>4, <3>2 DEF Follows
    <3> QED BY <2>5, <2>7, <3>4, <3>5, <3>6
  <2> QED BY <2>6, <2>7
<1> QED BY <1>1, <1>2

-----------------------------------------------------------------------------
(* A node run under way, or waiting, is the last one; marking it leaves    *)
(* nothing under way.                                                      *)

Good(x, y) == CoreInv(y) /\ Settled(y) /\ Follows(x, y)

LEMMA FollowsTransitive ==
    ASSUME NEW x \in States, NEW y \in States, NEW z \in States, Follows(x, y), Follows(y, z)
    PROVE  Follows(x, z)
<1>1. Kept(x.nodes, z.nodes)
  BY KeptTransitive DEF Follows, States
<1>2. z.session = [x.session EXCEPT !.status = z.session.status]
  BY DEF Follows, States, Sessions
<1> QED BY <1>1, <1>2 DEF Follows

LEMMA GoodAfter ==
    ASSUME NEW x \in States, NEW y \in States, NEW z, Follows(x, y), Good(y, z)
    PROVE  Good(x, z)
BY FollowsTransitive DEF Good, CoreInv

\* Node run i becomes r.
Put(x, i, r) == [x EXCEPT !.nodes[i] = r]

LEMMA MarkEffect ==
    ASSUME NEW x \in States, NEW i \in DOMAIN x.nodes, NEW r \in NodeRun,
           r.node = x.nodes[i].node, r.by = x.nodes[i].by,
           Final(x.nodes[i].status) => r.status = x.nodes[i].status
    PROVE  LET y == Put(x, i, r)
           IN  /\ y \in States
               /\ y.run = x.run /\ y.context = x.context /\ y.slot = x.slot
               /\ y.superseded = x.superseded /\ y.session = x.session
               /\ Marked(x.nodes, y.nodes)
               /\ Len(y.nodes) = Len(x.nodes) /\ DOMAIN y.nodes = DOMAIN x.nodes
               /\ y.nodes[i] = r /\ \A j \in DOMAIN x.nodes : j # i => y.nodes[j] = x.nodes[j]
<1> DEFINE b == [x.nodes EXCEPT ![i] = r]
           y == Put(x, i, r)
<1>1. x.nodes \in Seq(NodeRun)
  BY DEF States
<1>2. /\ b \in Seq(NodeRun) /\ Len(b) = Len(x.nodes) /\ DOMAIN b = DOMAIN x.nodes
      /\ b[i] = r /\ \A j \in DOMAIN x.nodes : j # i => b[j] = x.nodes[j]
  BY <1>1, SetRun
<1>3. y = [x EXCEPT !.nodes = b]
  BY DEF States, Put
<1> HIDE DEF b
<1> HIDE DEF y
<1>4. Marked(x.nodes, b)
  BY <1>2 DEF Marked
<1>5. /\ y \in States /\ y.nodes = b
      /\ y.run = x.run /\ y.context = x.context /\ y.slot = x.slot
      /\ y.superseded = x.superseded /\ y.session = x.session
  BY <1>2, <1>3 DEF States
<1> QED BY <1>2, <1>4, <1>5 DEF y

\* Nothing executes, and the last node run, of the current node, has not ended.
Ready(x) ==
    /\ x \in States
    /\ Indexed(x)
    /\ ByInv(x.nodes)
    /\ x.slot = Idle
    /\ Live(x)
    /\ LiveInv(x)
    /\ x.nodes # <<>>
    /\ ~Final(x.nodes[Len(x.nodes)].status)
    /\ x.nodes[Len(x.nodes)].node = x.run.at
    /\ x.session.conflict = 0
    /\ ~(x.session.reworks > MaxReworks)

LEMMA MarkReady ==
    ASSUME NEW x, Ready(x), NEW r \in NodeRun, r.node = x.run.at,
           r.by = x.nodes[Len(x.nodes)].by, Final(r.status)
    PROVE  LET y == Put(x, Len(x.nodes), r)
           IN  /\ Fresh(y) /\ Live(y) /\ LiveInv(y)
               /\ y.run = x.run
               /\ y.nodes # <<>> /\ y.nodes[Len(y.nodes)] = r
               /\ Follows(x, y)
<1> DEFINE n == Len(x.nodes)
           y == Put(x, n, r)
<1>1. x \in States /\ x.nodes \in Seq(NodeRun) /\ n \in DOMAIN x.nodes
  BY DEF Ready, States
<1>2. /\ y \in States
      /\ y.run = x.run /\ y.context = x.context /\ y.slot = x.slot
      /\ y.superseded = x.superseded /\ y.session = x.session
      /\ Marked(x.nodes, y.nodes)
      /\ Len(y.nodes) = n /\ DOMAIN y.nodes = DOMAIN x.nodes
      /\ y.nodes[n] = r /\ \A j \in DOMAIN x.nodes : j # n => y.nodes[j] = x.nodes[j]
  <2>1. r.node = x.nodes[n].node /\ r.by = x.nodes[n].by /\ ~Final(x.nodes[n].status)
    BY DEF Ready
  <2> QED BY <1>1, <2>1, MarkEffect
<1> HIDE DEF y
<1>3. y.nodes \in Seq(NodeRun)
  BY <1>2 DEF States
<1>4. Kept(x.nodes, y.nodes) /\ ByInv(y.nodes) /\ Clear(y.nodes, x.run.at)
  BY <1>1, <1>2, <1>3, MarkedKeeps DEF Ready, LiveInv
<1>5. NoneRunning(y.nodes)
  BY <1>1, <1>2 DEF NoneRunning, Ready, LiveInv, Final
<1>6. y.nodes # <<>>
  BY <1>1, <1>2, <1>3
<1>7. Fresh(y)
  BY <1>2, <1>4, <1>5 DEF Fresh, Ready, Indexed
<1>8. LiveInv(y)
  BY <1>2, <1>4, <1>5 DEF LiveInv, NoneRunning, Final, Ready
<1>9. Follows(x, y)
  BY <1>2, <1>4 DEF Follows, States, Sessions
<1> QED BY <1>2, <1>6, <1>7, <1>8, <1>9 DEF y, Ready, Live

\* What may follow a mark.
LEMMA MarkGoTo ==
    ASSUME NEW x, Ready(x), NEW r \in NodeRun, r.node = x.run.at,
           r.by = x.nodes[Len(x.nodes)].by, Final(r.status), NEW n \in Nodes, n <= x.run.at
    PROVE  Good(x, GoTo(Put(x, Len(x.nodes), r), n))
<1> DEFINE y == Put(x, Len(x.nodes), r)
<1>1. /\ Fresh(y) /\ Live(y) /\ LiveInv(y)
      /\ y.run = x.run
      /\ y.nodes # <<>> /\ y.nodes[Len(y.nodes)] = r
      /\ Follows(x, y)
  BY MarkReady
<1> HIDE DEF y
<1>2. Clear(y.nodes, n)
  <2>1. n \in Nat /\ y.run.at \in Nat /\ n <= y.run.at
    BY <1>1, FirstIsAgent DEF LiveInv
  <2> QED BY <1>1, <2>1, ClearBefore DEF LiveInv, Fresh, States
<1>3. Good(y, GoTo(y, n))
  BY <1>1, <1>2, GoToCore DEF Good, Final
<1>4. x \in States /\ y \in States
  BY <1>1 DEF Ready, Fresh
<1> QED BY <1>1, <1>3, <1>4, GoodAfter DEF y

LEMMA MarkAdvance ==
    ASSUME NEW x, Ready(x), NEW r \in NodeRun, r.node = x.run.at,
           r.by = x.nodes[Len(x.nodes)].by, Final(r.status),
           x.run.at \in Agents \/ r.status = "approved"
    PROVE  Good(x, Advance(Put(x, Len(x.nodes), r), x.run.at))
<1> DEFINE y == Put(x, Len(x.nodes), r)
<1>1. /\ Fresh(y) /\ Live(y) /\ LiveInv(y)
      /\ y.run = x.run
      /\ y.nodes # <<>> /\ y.nodes[Len(y.nodes)] = r
      /\ Follows(x, y)
  BY MarkReady
<1> HIDE DEF y
<1>2. y.run.at \in Nodes /\ Clear(y.nodes, y.run.at + 1)
  BY <1>1, ClearNext DEF LiveInv, Fresh, States
<1>3. Good(y, Advance(y, x.run.at))
  BY <1>1, <1>2, AdvanceCore DEF Good, Final
<1>4. x \in States /\ y \in States
  BY <1>1 DEF Ready, Fresh
<1> QED BY <1>1, <1>3, <1>4, GoodAfter DEF y

LEMMA MarkHuman ==
    ASSUME NEW x, Ready(x), NEW r \in NodeRun, r.node = x.run.at,
           r.by = x.nodes[Len(x.nodes)].by, Final(r.status),
           x.run.at \notin Agents, x.run.parked = "no"
    PROVE  Good(x, ActivateHuman(Put(x, Len(x.nodes), r)))
<1> DEFINE y == Put(x, Len(x.nodes), r)
<1>1. /\ Fresh(y) /\ Live(y) /\ LiveInv(y)
      /\ y.run = x.run
      /\ y.nodes # <<>> /\ y.nodes[Len(y.nodes)] = r
      /\ Follows(x, y)
  BY MarkReady
<1> HIDE DEF y
<1>2. Good(y, ActivateHuman(y))
  BY <1>1, HumanCore DEF Good, LiveInv
<1>3. x \in States /\ y \in States
  BY <1>1 DEF Ready, Fresh
<1> QED BY <1>1, <1>2, <1>3, GoodAfter DEF y

LEMMA MarkFinish ==
    ASSUME NEW x, Ready(x), NEW r \in NodeRun, r.node = x.run.at,
           r.by = x.nodes[Len(x.nodes)].by, Final(r.status), NEW s \in {"failed", "cancelled"}
    PROVE  Good(x, Finish(Put(x, Len(x.nodes), r), s))
<1> DEFINE y == Put(x, Len(x.nodes), r)
<1>1. /\ Fresh(y) /\ Live(y) /\ LiveInv(y)
      /\ y.run = x.run
      /\ y.nodes # <<>> /\ y.nodes[Len(y.nodes)] = r
      /\ Follows(x, y)
  BY MarkReady
<1> HIDE DEF y
<1>2. Good(y, Finish(y, s))
  <2>1. CASE s = "failed"
    BY <1>1, <2>1, FinishFails DEF Good, Fresh
  <2>2. CASE s = "cancelled"
    BY <1>1, <2>2, FinishCancelsIdle DEF Good, Fresh
  <2> QED BY <2>1, <2>2
<1>3. x \in States /\ y \in States
  BY <1>1 DEF Ready, Fresh
<1> QED BY <1>1, <1>2, <1>3, GoodAfter DEF y

-----------------------------------------------------------------------------
(* Outcomes of node runs.                                                  *)

LEMMA Remark ==
    ASSUME NEW x \in States, NEW i \in DOMAIN x.nodes
    PROVE  /\ \A s : [x EXCEPT !.nodes[i].status = s] =
                     Put(x, i, [x.nodes[i] EXCEPT !.status = s])
           /\ \A t : [x EXCEPT !.nodes[i].task = t] =
                     Put(x, i, [x.nodes[i] EXCEPT !.task = t])
BY DEF Put

\* The marks of the service: a new status, or a new status and an ended task.
LEMMA MarkedRun ==
    ASSUME NEW r \in NodeRun
    PROVE  /\ \A s \in {"running", "waiting", "completed", "approved", "revision_requested", "skipped", "failed"} :
                 LET q == [r EXCEPT !.status = s]
                 IN  q \in NodeRun /\ q.node = r.node /\ q.by = r.by /\ q.status = s
           /\ \A t \in {"none", "open", "waiting", "blocked", "ended"} :
                 LET q == [r EXCEPT !.task = t]
                 IN  q \in NodeRun /\ q.node = r.node /\ q.by = r.by /\ q.status = r.status
BY DEF NodeRun

Outcomes == {"completed", "approved", "revision_requested", "skipped", "failed"}

\* The node run under way, with a new status.
LEMMA ReadyMark ==
    ASSUME NEW x, Ready(x), NEW s \in Outcomes
    PROVE  LET r == [x.nodes[Len(x.nodes)] EXCEPT !.status = s]
           IN  /\ r \in NodeRun /\ r.node = x.run.at
               /\ r.by = x.nodes[Len(x.nodes)].by /\ Final(r.status) /\ r.status = s
               /\ [x EXCEPT !.nodes[Len(x.nodes)].status = s] = Put(x, Len(x.nodes), r)
<1>1. x \in States /\ x.nodes \in Seq(NodeRun) /\ Len(x.nodes) \in DOMAIN x.nodes
  BY DEF Ready, States
<1>2. x.nodes[Len(x.nodes)] \in NodeRun
  BY <1>1
<1>3. /\ s \in {"running", "waiting", "completed", "approved", "revision_requested", "skipped", "failed"}
      /\ Final(s) /\ x.nodes[Len(x.nodes)].node = x.run.at
  BY DEF Ready, Final, Outcomes
<1> DEFINE r == [x.nodes[Len(x.nodes)] EXCEPT !.status = s]
<1>4. r \in NodeRun /\ r.node = x.run.at /\ r.by = x.nodes[Len(x.nodes)].by /\ r.status = s
  <2> DEFINE last == x.nodes[Len(x.nodes)]
  <2>1. r = [last EXCEPT !.status = s] /\ last \in NodeRun
    BY <1>2
  <2> HIDE DEF last, r
  <2>2. r \in NodeRun /\ r.node = last.node /\ r.by = last.by /\ r.status = s
    BY <1>3, <2>1 DEF NodeRun
  <2> QED BY <1>3, <2>2 DEF last
<1>5. [x EXCEPT !.nodes[Len(x.nodes)].status = s] = Put(x, Len(x.nodes), r)
  BY <1>1 DEF Put
<1> HIDE DEF r
<1> QED BY <1>3, <1>4, <1>5 DEF r

\* By a robot means of a robot's node.
LEMMA ReadyBy ==
    ASSUME NEW x, Ready(x)
    PROVE  LET last == x.nodes[Len(x.nodes)]
           IN  /\ last.by \in {"agent", "human", "robot"}
               /\ last.by = "agent" <=> (x.run.at \in Agents /\ last.by # "human")
               /\ last.by # "agent" => x.run.at \in Nodes \ Agents
<1>1. x \in States /\ x.nodes \in Seq(NodeRun) /\ Len(x.nodes) \in DOMAIN x.nodes
  BY DEF Ready, States
<1>2. x.nodes[Len(x.nodes)] \in NodeRun
  BY <1>1
<1> QED BY <1>1, <1>2 DEF Ready, LiveInv, ByInv, NodeRun, Agents

LEMMA RobotResultGood ==
    ASSUME NEW x, Ready(x), x.run.parked = "no", x.nodes[Len(x.nodes)].by = "robot",
           NEW result \in {"approve", "revise", "reject", "invalid"}
    PROVE  Good(x, RobotResult(x, Len(x.nodes), result))
<1> DEFINE n == Len(x.nodes)
           r(s) == [x.nodes[n] EXCEPT !.status = s]
           Mark(s) == [x EXCEPT !.nodes[n].status = s]
<1>1. x.run.at \in Nodes \ Agents /\ x.nodes[n].node = x.run.at
  BY ReadyBy DEF Ready
<1>2. \A s \in Outcomes : /\ r(s) \in NodeRun /\ r(s).node = x.run.at
                          /\ r(s).by = x.nodes[n].by /\ Final(r(s).status) /\ r(s).status = s
                          /\ Mark(s) = Put(x, n, r(s))
  BY ReadyMark
<1>3. {"approved", "failed", "revision_requested"} \subseteq Outcomes
  BY DEF Outcomes
<1> HIDE DEF Mark, r
<1>4. CASE result = "approve"
  <2>1. RobotResult(x, n, result) = Advance(Mark("approved"), x.run.at)
    BY <1>1, <1>4 DEF RobotResult, Mark
  <2> QED BY <1>2, <1>3, <2>1, MarkAdvance
<1>5. CASE result = "reject"
  <2>1. RobotResult(x, n, result) = Finish(Mark("failed"), "failed")
    BY <1>5 DEF RobotResult, Mark
  <2>2. "failed" \in Outcomes /\ "failed" \in {"failed", "cancelled"}
    BY <1>3
  <2>3. Good(x, Finish(Put(x, n, r("failed")), "failed"))
    BY <1>2, <2>2, MarkFinish
  <2> QED BY <1>2, <2>1, <2>2, <2>3
<1>6. CASE result = "invalid"
  <2>1. RobotResult(x, n, result) = ActivateHuman(Mark("failed"))
    BY <1>6 DEF RobotResult, Mark
  <2> QED BY <1>1, <1>2, <1>3, <2>1, MarkHuman
<1>7. CASE result = "revise"
  <2>1. \/ RobotResult(x, n, result) = ActivateHuman(Mark("revision_requested"))
        \/ RobotResult(x, n, result) = GoTo(Mark("revision_requested"), ReworkTarget(x.run.at))
    BY <1>7 DEF RobotResult, Mark
  <2>2. Good(x, ActivateHuman(Mark("revision_requested")))
    BY <1>1, <1>2, <1>3, MarkHuman
  <2>3. ReworkTarget(x.run.at) \in Nodes /\ ReworkTarget(x.run.at) <= x.run.at
    BY <1>1, ReworkTargetIs, FirstIsAgent DEF Agents
  <2>4. Good(x, GoTo(Mark("revision_requested"), ReworkTarget(x.run.at)))
    BY <1>2, <1>3, <2>3, MarkGoTo
  <2> QED BY <2>1, <2>2, <2>4
<1> QED BY <1>4, <1>5, <1>6, <1>7

LEMMA CompleteNodeGood ==
    ASSUME NEW x, Ready(x), x.run.parked = "no", x.nodes[Len(x.nodes)].by # "human"
    PROVE  Good(x, CompleteNode(x, Len(x.nodes)))
<1>1. CASE x.nodes[Len(x.nodes)].by = "robot"
  BY <1>1, RobotResultGood DEF CompleteNode
<1>2. CASE x.nodes[Len(x.nodes)].by # "robot"
  <2> DEFINE r == [x.nodes[Len(x.nodes)] EXCEPT !.status = "completed"]
  <2>1. x.run.at \in Agents /\ x.nodes[Len(x.nodes)].node = x.run.at
    BY <1>2, ReadyBy DEF Ready
  <2>2. "completed" \in Outcomes
    BY DEF Outcomes
  <2>3. /\ r \in NodeRun /\ r.node = x.run.at
        /\ r.by = x.nodes[Len(x.nodes)].by /\ Final(r.status)
        /\ [x EXCEPT !.nodes[Len(x.nodes)].status = "completed"] = Put(x, Len(x.nodes), r)
    BY <2>2, ReadyMark
  <2>4. CompleteNode(x, Len(x.nodes)) = Advance([x EXCEPT !.nodes[Len(x.nodes)].status = "completed"], x.run.at)
    BY <1>2, <2>1 DEF CompleteNode
  <2> HIDE DEF r
  <2> QED BY <2>1, <2>3, <2>4, MarkAdvance
<1> QED BY <1>1, <1>2

-----------------------------------------------------------------------------
(* Steps that leave the workflow where it is.                              *)

\* Node runs that differ in their tasks at most.
Alike(a, b) ==
    /\ Len(a) = Len(b)
    /\ \A i \in DOMAIN a : b[i].node = a[i].node /\ b[i].by = a[i].by /\ b[i].status = a[i].status

LEMMA AlikeClear ==
    ASSUME NEW a \in Seq(NodeRun), NEW b \in Seq(NodeRun), Alike(a, b)
    PROVE  /\ Kept(a, b) /\ DOMAIN a = DOMAIN b /\ (a = <<>> <=> b = <<>>)
           /\ ByInv(a) => ByInv(b)
           /\ NoneRunning(a) => NoneRunning(b)
           /\ LastIsRunning(a) => LastIsRunning(b)
           /\ \A n : Clear(a, n) => Clear(b, n)
<1>1. Marked(a, b)
  BY DEF Marked, Alike
<1>2. DOMAIN a = DOMAIN b /\ (a = <<>> <=> b = <<>>)
  BY DEF Alike
<1>3. (NoneRunning(a) => NoneRunning(b)) /\ (LastIsRunning(a) => LastIsRunning(b))
  BY <1>2 DEF Alike, NoneRunning, LastIsRunning
<1> QED BY <1>1, <1>2, <1>3, MarkedKeeps

SameRun(x, y) == y.run.status = x.run.status /\ y.run.at = x.run.at /\ y.run.parked = x.run.parked

LEMMA AlikeLive ==
    ASSUME NEW x \in States, NEW y \in States, SameRun(x, y), Alike(x.nodes, y.nodes), LiveInv(x)
    PROVE  LiveInv(y)
<1>1. x.nodes \in Seq(NodeRun) /\ y.nodes \in Seq(NodeRun)
  BY DEF States
<1>2. DOMAIN x.nodes = DOMAIN y.nodes /\ (x.nodes = <<>> <=> y.nodes = <<>>) /\ Clear(y.nodes, y.run.at)
  BY <1>1, AlikeClear DEF LiveInv, SameRun
<1>3. x.nodes # <<>> => Len(x.nodes) \in DOMAIN x.nodes
  BY <1>1
<1> QED BY <1>2, <1>3 DEF LiveInv, SameRun, Alike

\* The execution goes on, is over, or is aborted.
Goes(x, y) ==
    \/ y.slot = x.slot
    \/ y.slot = Idle
    \/ /\ x.slot.work # "idle"
       /\ y.slot.work = x.slot.work /\ y.slot.nodeRun = x.slot.nodeRun
       /\ y.slot.abort # "no"

LEMMA CalmCore ==
    ASSUME NEW x, CoreInv(x), NEW y \in States, Indexed(y), SameRun(x, y),
           Alike(x.nodes, y.nodes), Goes(x, y)
    PROVE  CoreInv(y) /\ Kept(x.nodes, y.nodes)
<1>1. x \in States /\ x.nodes \in Seq(NodeRun) /\ y.nodes \in Seq(NodeRun)
  BY DEF CoreInv, States
<1>2. /\ Kept(x.nodes, y.nodes) /\ DOMAIN x.nodes = DOMAIN y.nodes /\ (x.nodes = <<>> <=> y.nodes = <<>>)
      /\ ByInv(x.nodes) => ByInv(y.nodes)
      /\ NoneRunning(x.nodes) => NoneRunning(y.nodes)
      /\ LastIsRunning(x.nodes) => LastIsRunning(y.nodes)
      /\ \A n : Clear(x.nodes, n) => Clear(y.nodes, n)
  BY <1>1, AlikeClear
<1>3. Live(x) <=> Live(y)
  BY DEF Live, SameRun
<1>4. Live(y) => LiveInv(y)
  BY <1>1, <1>3, AlikeLive DEF CoreInv
<1>5. x.slot = Idle => y.slot = Idle
  BY DEF Goes, Idle
<1>6. EndInv(y)
  BY <1>2, <1>5 DEF CoreInv, EndInv, SameRun
<1>7. ParkInv(y)
  <2>1. x.nodes # <<>> => Len(x.nodes) \in DOMAIN x.nodes
    BY <1>1
  <2> QED BY <1>2, <1>5, <2>1 DEF CoreInv, ParkInv, SameRun, Alike
<1>8. SlotInv(y)
  BY <1>2, <1>3 DEF CoreInv, SlotInv, SameRun, Goes, Alike, Idle
<1> QED BY <1>2, <1>4, <1>6, <1>7, <1>8 DEF CoreInv, SameRun

\* Nothing executes, and nothing has to.
Resting(x) ==
    /\ x.slot = Idle
    /\ x.session.conflict = 0
    /\ ~(x.session.reworks > MaxReworks)
    /\ x.session.status # "WAIT_WORKFLOW_SELECT"
    /\ ~(x.session.status = "EXECUTING" /\ x.session.open)

LEMMA RestingSession ==
    ASSUME NEW x, Resting(x)
    PROVE  SessionInv(x)
BY DEF Resting, SessionInv, Idle

\* What an outcome leaves.
Handled(x, y) == CoreInv(y) /\ SessionInv(y) /\ Follows(x, y)

LEMMA GoodIsHandled ==
    ASSUME NEW x, NEW y, Good(x, y), x.session.status # "WAIT_WORKFLOW_SELECT"
    PROVE  Handled(x, y)
<1>1. y.session.status # "WAIT_WORKFLOW_SELECT"
  BY DEF Good, Follows, Projected
<1> QED BY <1>1, SettledSession DEF Good, Handled

LEMMA FollowsSelf ==
    ASSUME NEW x \in States
    PROVE  Follows(x, x)
BY DEF Follows, Kept, States, Sessions

\* Ready with a run that is not parked is part of CoreInv.
LEMMA ReadyCore ==
    ASSUME NEW x, Ready(x), x.run.parked = "no"
    PROVE  CoreInv(x)
<1>1. EndInv(x) /\ ParkInv(x) /\ SlotInv(x)
  BY DEF Ready, EndInv, ParkInv, SlotInv, Idle, Live
<1> QED BY <1>1 DEF Ready, CoreInv

LEMMA AlikeReady ==
    ASSUME NEW x, Ready(x), NEW y \in States, Indexed(y), SameRun(x, y),
           Alike(x.nodes, y.nodes), y.slot = Idle, y.session = x.session
    PROVE  Ready(y)
<1>1. x \in States /\ x.nodes \in Seq(NodeRun) /\ y.nodes \in Seq(NodeRun)
  BY DEF Ready, States
<1>2. /\ DOMAIN x.nodes = DOMAIN y.nodes /\ (x.nodes = <<>> <=> y.nodes = <<>>)
      /\ ByInv(x.nodes) => ByInv(y.nodes)
  BY <1>1, AlikeClear
<1>3. LiveInv(y)
  BY <1>1, AlikeLive DEF Ready
<1>4. Live(y)
  BY DEF Ready, Live, SameRun
<1>5. Len(x.nodes) \in DOMAIN x.nodes /\ Len(y.nodes) = Len(x.nodes)
  BY <1>1 DEF Ready, Alike
<1> QED BY <1>2, <1>3, <1>4, <1>5 DEF Ready, SameRun, Alike

-----------------------------------------------------------------------------
(* Starting, parking and checkpointing a node run.                         *)

LEMMA Launched ==
    ASSUME NEW x, Ready(x), x.run.parked = "no", LastIsRunning(x.nodes)
    PROVE  Good(x, Launch(x, Len(x.nodes)))
<1> DEFINE s == [ work |-> "node", nodeRun |-> Len(x.nodes), abort |-> "no" ]
           y == [x EXCEPT !.slot = s]
<1>1. x \in States /\ x.nodes \in Seq(NodeRun) /\ Len(x.nodes) \in DOMAIN x.nodes
  BY DEF Ready, States
<1>2. ~Busy(x)
  BY DEF Busy, Ready, Idle
<1>3. Launch(x, Len(x.nodes)) = y
  BY <1>2 DEF Launch
<1>4. s \in [ work : Work, nodeRun : Nat, abort : Aborts ]
  BY <1>1 DEF Work, Aborts
<1>5. /\ y \in States
      /\ y.run = x.run /\ y.nodes = x.nodes /\ y.context = x.context
      /\ y.slot = s /\ y.superseded = x.superseded /\ y.session = x.session
  BY <1>1, <1>4 DEF States
<1> HIDE DEF y
<1>6. Indexed(y) /\ ByInv(y.nodes) /\ Live(y) /\ LiveInv(y)
  BY <1>1, <1>5 DEF Ready, Indexed, Live, LiveInv
<1>7. EndInv(y) /\ ParkInv(y) /\ SlotInv(y)
  BY <1>1, <1>5, <1>6 DEF EndInv, ParkInv, SlotInv, Live
<1>8. CoreInv(y)
  BY <1>5, <1>6, <1>7 DEF CoreInv, Ready
<1>9. Settled(y) /\ Follows(x, y)
  BY <1>1, <1>5, FollowsSelf DEF Settled, Busy, Ready, Follows
<1> QED BY <1>3, <1>8, <1>9 DEF Good

\* Parking: the current node run is an Agent's and waits, or stays running.
LEMMA Parked ==
    ASSUME NEW x, Ready(x), NEW r \in NodeRun, NEW R \in Runs,
           r.node = x.run.at, r.by = "agent", x.nodes[Len(x.nodes)].by = "agent",
           R.status = "waiting_human", R.at = x.run.at, R.parked \in {"substitution", "upstream"},
           r.status = IF R.parked = "substitution" THEN "waiting" ELSE "running"
    PROVE  Good(x, Project([x EXCEPT !.nodes[Len(x.nodes)] = r, !.run = R]))
<1> DEFINE n == Len(x.nodes)
           v == Put(x, n, r)
           w == [v EXCEPT !.run = R]
           y == Project(w)
<1>0. [x EXCEPT !.nodes[n] = r, !.run = R] = w
  BY DEF Put
<1>1. x \in States /\ x.nodes \in Seq(NodeRun) /\ n \in DOMAIN x.nodes
  BY DEF Ready, States
<1>2. /\ v \in States
      /\ v.run = x.run /\ v.context = x.context /\ v.slot = x.slot
      /\ v.superseded = x.superseded /\ v.session = x.session
      /\ Marked(x.nodes, v.nodes)
      /\ Len(v.nodes) = n /\ DOMAIN v.nodes = DOMAIN x.nodes
      /\ v.nodes[n] = r /\ \A j \in DOMAIN x.nodes : j # n => v.nodes[j] = x.nodes[j]
  <2>1. r.node = x.nodes[n].node /\ r.by = x.nodes[n].by /\ ~Final(x.nodes[n].status)
    BY DEF Ready
  <2> QED BY <1>1, <2>1, MarkEffect
<1> HIDE DEF v
<1>3. /\ w \in States
      /\ w.run = R /\ w.nodes = v.nodes /\ w.context = x.context /\ w.slot = x.slot
      /\ w.superseded = x.superseded /\ w.session = x.session
  BY <1>2 DEF States
<1> HIDE DEF w
<1>4. w.nodes \in Seq(NodeRun) /\ w.nodes # <<>>
  BY <1>1, <1>2, <1>3 DEF States
<1>5. Kept(x.nodes, w.nodes) /\ ByInv(w.nodes) /\ Clear(w.nodes, x.run.at)
  BY <1>1, <1>2, <1>3, <1>4, MarkedKeeps DEF Ready, LiveInv
<1>6. Indexed(w) /\ Live(w)
  BY <1>2, <1>3 DEF Indexed, Ready, Live
<1>7. LiveInv(w)
  BY <1>2, <1>3, <1>4, <1>5 DEF LiveInv, Ready
<1>8. EndInv(w) /\ ParkInv(w) /\ SlotInv(w)
  BY <1>2, <1>3, <1>4 DEF EndInv, ParkInv, SlotInv, Ready, Idle
<1>9. CoreInv(w)
  BY <1>3, <1>4, <1>5, <1>6, <1>7, <1>8 DEF CoreInv
<1>10. Settled(w)
  BY <1>3 DEF Settled, Ready, Idle
<1>11. Restatus(w, y) /\ (y.session.status = w.session.status \/ y.session.status \in Projected)
  BY <1>3, ProjectEffect
<1> HIDE DEF y
<1>12. CoreInv(y) /\ Settled(y)
  BY <1>3, <1>9, <1>10, <1>11, RestatusCore
<1>13. Follows(x, y)
  BY <1>3, <1>5, <1>11 DEF Follows, Restatus
<1> QED BY <1>0, <1>12, <1>13 DEF Good, y

\* A live run that fails where it is.
LEMMA FailedCore ==
    ASSUME NEW x, CoreInv(x), Live(x), NEW y \in States, Indexed(y),
           y.run.status = "failed", y.run.at = x.run.at, y.run.parked = "no",
           Marked(x.nodes, y.nodes), NoneRunning(y.nodes),
           \/ y.slot = Idle
           \/ y.slot.work = "node" /\ x.slot.work = "node"
              /\ y.slot.nodeRun = x.slot.nodeRun /\ y.slot.abort # "no"
    PROVE  CoreInv(y) /\ Kept(x.nodes, y.nodes)
<1>1. x \in States /\ x.nodes \in Seq(NodeRun) /\ y.nodes \in Seq(NodeRun) /\ LiveInv(x)
  BY DEF CoreInv, States
<1>2. /\ Kept(x.nodes, y.nodes) /\ ByInv(y.nodes) /\ Clear(y.nodes, y.run.at)
      /\ DOMAIN x.nodes = DOMAIN y.nodes
  BY <1>1, MarkedKeeps DEF CoreInv, LiveInv
<1>3. ~Live(y)
  BY DEF Live
<1>4. EndInv(y) /\ ParkInv(y) /\ SlotInv(y)
  BY <1>1, <1>2, <1>3 DEF EndInv, ParkInv, SlotInv, LiveInv, CoreInv, Idle
<1>5. y.nodes = <<>> => y.run.at \in {0, 1}
  BY <1>1 DEF Marked, CoreInv
<1> QED BY <1>2, <1>3, <1>4, <1>5 DEF CoreInv

LEMMA CheckpointEffect ==
    ASSUME NEW x, CoreInv(x)
    PROVE  LET y == Checkpoint(x)
           IN  IF ~Live(x) \/ x.run.parked # "no" THEN y = x
               ELSE /\ y \in States
                    /\ y.run.status = "failed" /\ y.run.at = x.run.at /\ y.run.parked = "no"
                    /\ Marked(x.nodes, y.nodes) /\ NoneRunning(y.nodes)
                    /\ y.context = x.context /\ y.slot = x.slot /\ y.superseded = x.superseded
                    /\ y.session = [x.session EXCEPT !.status = y.session.status]
                    /\ y.session.status = x.session.status \/ y.session.status \in Projected \ {"EXECUTING"}
<1> DEFINE v == FailNode(x)
           i == LastRun(x, x.run.at)
           z == IF i = 0 \/ v.nodes[i].task = "none" THEN v ELSE [v EXCEPT !.nodes[i].task = "ended"]
           w == [z EXCEPT !.run.status = "failed", !.run.asked = FALSE]
           y == Project(w)
<1>1. x \in States /\ x.nodes \in Seq(NodeRun) /\ x.run \in Runs
  BY DEF CoreInv, States
<1>2. CASE ~Live(x) \/ x.run.parked # "no"
  <2>1. x.run.status \in Terminal \cup {"none"} \/ x.run.parked # "no"
    BY <1>1, <1>2 DEF Live, Runs
  <2>2. Checkpoint(x) = x
    BY <2>1 DEF Checkpoint, Ended
  <2> QED BY <1>2, <2>2
<1>3. CASE Live(x) /\ x.run.parked = "no"
  <2>1. Checkpoint(x) = y
    BY <1>3 DEF Checkpoint, Ended, Live, Terminal
  <2>2. /\ v \in States
        /\ v.run = x.run /\ v.context = x.context /\ v.slot = x.slot
        /\ v.superseded = x.superseded /\ v.session = x.session
        /\ Marked(x.nodes, v.nodes) /\ NoneRunning(v.nodes)
    BY <1>1, <1>3, FailNodeEffect DEF CoreInv, LiveInv
  <2> HIDE DEF v
  <2>3. v.nodes \in Seq(NodeRun) /\ DOMAIN v.nodes = DOMAIN x.nodes
    BY <1>1, <2>2, MarkedKeeps DEF States
  <2>4. i \in {0} \cup DOMAIN v.nodes
    <3>1. i \in 0 .. Len(x.nodes)
      BY <1>1, LastRunIs
    <3> QED BY <1>1, <2>3, <3>1
  <2> HIDE DEF i
  <2>5. /\ z \in States
        /\ z.run = x.run /\ z.context = x.context /\ z.slot = x.slot
        /\ z.superseded = x.superseded /\ z.session = x.session
        /\ Marked(x.nodes, z.nodes) /\ NoneRunning(z.nodes)
    <3>1. CASE z = v
      BY <2>2, <3>1
    <3>2. CASE z # v
      <4> DEFINE r == [v.nodes[i] EXCEPT !.task = "ended"]
      <4>1. i \in DOMAIN v.nodes /\ z = [v EXCEPT !.nodes[i].task = "ended"]
        BY <2>4, <3>2
      <4>2. z = Put(v, i, r)
        BY <2>2, <4>1, Remark
      <4>3. v.nodes[i] \in NodeRun
        BY <2>3, <4>1
      <4>4. r \in NodeRun /\ r.node = v.nodes[i].node /\ r.by = v.nodes[i].by /\ r.status = v.nodes[i].status
        BY <4>3 DEF NodeRun
      <4> HIDE DEF r, z
      <4>5. /\ z \in States
            /\ z.run = v.run /\ z.context = v.context /\ z.slot = v.slot
            /\ z.superseded = v.superseded /\ z.session = v.session
            /\ Marked(v.nodes, z.nodes)
            /\ DOMAIN z.nodes = DOMAIN v.nodes
            /\ z.nodes[i] = r /\ \A j \in DOMAIN v.nodes : j # i => z.nodes[j] = v.nodes[j]
        <5>1. v \in States /\ i \in DOMAIN v.nodes
          BY <2>2, <4>1
        <5>2. r.node = v.nodes[i].node /\ r.by = v.nodes[i].by
              /\ (Final(v.nodes[i].status) => r.status = v.nodes[i].status)
          BY <4>4
        <5> QED BY <4>2, <4>4, <5>1, <5>2, MarkEffect
      <4>6. NoneRunning(z.nodes)
        BY <2>2, <4>4, <4>5 DEF NoneRunning
      <4>7. Marked(x.nodes, z.nodes)
        BY <2>2, <2>3, <4>5 DEF Marked, Final
      <4> QED BY <2>2, <4>5, <4>6, <4>7
    <3> QED BY <3>1, <3>2
  <2> HIDE DEF z
  <2>6. /\ w \in States
        /\ w.run = [x.run EXCEPT !.status = "failed", !.asked = FALSE]
        /\ w.nodes = z.nodes /\ w.context = x.context /\ w.slot = x.slot
        /\ w.superseded = x.superseded /\ w.session = x.session
    BY <1>1, <2>5 DEF States, Runs, Terminal
  <2>7. w.run.status = "failed" /\ w.run.at = x.run.at /\ w.run.parked = "no"
    <3>1. x.run = [ status |-> x.run.status, at |-> x.run.at, parked |-> x.run.parked,
                    card |-> x.run.card, asked |-> x.run.asked ]
      BY <1>1 DEF Runs
    <3> HIDE DEF w
    <3> QED BY <1>3, <2>6, <3>1
  <2> HIDE DEF w
  <2>8. Restatus(w, y)
        /\ (y.session.status = w.session.status \/ y.session.status \in Projected)
        /\ (y.session.status = "EXECUTING" => w.session.status = "EXECUTING")
    BY <2>6, <2>7, ProjectEffect
  <2> HIDE DEF y
  <2> QED BY <1>3, <2>1, <2>5, <2>6, <2>7, <2>8 DEF Restatus
<1> QED BY <1>2, <1>3

-----------------------------------------------------------------------------
(* The outcome of the node run under way.                                  *)

Tasks == {"none", "open", "waiting", "blocked", "ended"}

LEMMA TaskEffect ==
    ASSUME NEW x \in States, NEW i \in DOMAIN x.nodes, NEW t \in Tasks
    PROVE  LET y == [x EXCEPT !.nodes[i].task = t]
           IN  /\ y \in States
               /\ y.run = x.run /\ y.context = x.context /\ y.slot = x.slot
               /\ y.superseded = x.superseded /\ y.session = x.session
               /\ Alike(x.nodes, y.nodes)
<1> DEFINE r == [x.nodes[i] EXCEPT !.task = t]
           y == Put(x, i, r)
<1>1. x.nodes \in Seq(NodeRun) /\ x.nodes[i] \in NodeRun
  BY DEF States
<1>2. r \in NodeRun /\ r.node = x.nodes[i].node /\ r.by = x.nodes[i].by /\ r.status = x.nodes[i].status
  BY <1>1 DEF NodeRun, Tasks
<1>3. [x EXCEPT !.nodes[i].task = t] = y
  BY Remark
<1> HIDE DEF r
<1>4. Final(x.nodes[i].status) => r.status = x.nodes[i].status
  BY <1>2
<1>5. /\ y \in States
      /\ y.run = x.run /\ y.context = x.context /\ y.slot = x.slot
      /\ y.superseded = x.superseded /\ y.session = x.session
      /\ Len(y.nodes) = Len(x.nodes) /\ DOMAIN y.nodes = DOMAIN x.nodes
      /\ y.nodes[i] = r /\ \A j \in DOMAIN x.nodes : j # i => y.nodes[j] = x.nodes[j]
  <2>1. x \in States /\ i \in DOMAIN x.nodes /\ r \in NodeRun
    BY <1>2
  <2>2. r.node = x.nodes[i].node /\ r.by = x.nodes[i].by
    BY <1>2
  <2> QED BY <1>4, <2>1, <2>2, MarkEffect
<1> HIDE DEF y
<1>6. Alike(x.nodes, y.nodes)
  BY <1>2, <1>5 DEF Alike
<1> QED BY <1>3, <1>5, <1>6

LEMMA CancelledOutcomeGood ==
    ASSUME NEW x, Ready(x), x.run.parked = "no", LastIsRunning(x.nodes)
    PROVE  Good(x, CancelledOutcome(x, Len(x.nodes)))
<1> DEFINE n == Len(x.nodes)
<1>1. x \in States /\ x.nodes \in Seq(NodeRun) /\ n \in DOMAIN x.nodes
  BY DEF Ready, States
<1>2. CASE n \notin x.superseded
  <2>1. CancelledOutcome(x, n) = Finish(x, "cancelled")
    BY <1>2 DEF CancelledOutcome
  <2> QED BY <2>1, FinishCancelsIdle DEF Good, Ready
<1>3. CASE n \in x.superseded
  <2> DEFINE v == [x EXCEPT !.nodes[n].task = "open"]
             w == [v EXCEPT !.superseded = @ \ {n}]
             u == [x EXCEPT !.superseded = @ \ {n}, !.nodes[n].task = "open"]
  <2>1. /\ v \in States
        /\ v.run = x.run /\ v.context = x.context /\ v.slot = x.slot
        /\ v.superseded = x.superseded /\ v.session = x.session
        /\ Alike(x.nodes, v.nodes)
    <3>1. "open" \in Tasks
      BY DEF Tasks
    <3> QED BY <1>1, <3>1, TaskEffect
  <2>2. u = w
    BY <1>1 DEF States
  <2> HIDE DEF v, u
  <2>3. /\ w \in States
        /\ w.run = x.run /\ w.context = x.context /\ w.slot = x.slot
        /\ w.superseded = x.superseded \ {n} /\ w.session = x.session
        /\ w.nodes = v.nodes
    BY <2>1 DEF States
  <2> HIDE DEF w
  <2>4. Alike(x.nodes, w.nodes) /\ SameRun(x, w) /\ w.slot = Idle
    BY <2>1, <2>3 DEF SameRun, Ready
  <2>5. Len(w.nodes) = n /\ DOMAIN w.nodes = DOMAIN x.nodes /\ LastIsRunning(w.nodes)
        /\ Kept(x.nodes, w.nodes)
    <3>1. w.nodes \in Seq(NodeRun)
      BY <2>3 DEF States
    <3> QED BY <1>1, <2>4, <3>1, AlikeClear DEF Alike
  <2>6. Indexed(w)
    BY <2>3, <2>5 DEF Indexed, Ready
  <2>7. Ready(w)
    BY <2>3, <2>4, <2>6, AlikeReady
  <2>8. Good(w, Launch(w, n))
    BY <2>3, <2>5, <2>7, Launched
  <2>9. CancelledOutcome(x, n) = Launch(u, n)
    BY <1>3 DEF CancelledOutcome, u
  <2>10. Follows(x, w)
    BY <1>1, <2>3, <2>5, FollowsSelf DEF Follows
  <2> QED BY <1>1, <2>2, <2>3, <2>8, <2>9, <2>10, GoodAfter
<1> QED BY <1>2, <1>3

\* A run that is ready may rest if its Session does not show that it works.
LEMMA ReadyRests ==
    ASSUME NEW x, Ready(x), x.run.parked = "no", x.session.status # "WAIT_WORKFLOW_SELECT",
           ~(x.session.status = "EXECUTING" /\ x.session.open)
    PROVE  Handled(x, x)
<1>1. CoreInv(x) /\ SessionInv(x)
  BY ReadyCore, RestingSession DEF Resting, Ready
<1> QED BY <1>1, FollowsSelf DEF Handled, Ready

\* The Session's status does not matter to a run that is ready.
LEMMA RestatusReady ==
    ASSUME NEW x, Ready(x), NEW s \in Statuses, s = x.session.status \/ s \in Projected
    PROVE  /\ Ready(SetStatus(x, s)) /\ SetStatus(x, s).nodes = x.nodes
           /\ SetStatus(x, s).run = x.run /\ SetStatus(x, s).session.status = s
           /\ SetStatus(x, s).session.open = x.session.open
           /\ SetStatus(x, s) \in States
           /\ Follows(x, SetStatus(x, s))
<1> DEFINE y == SetStatus(x, s)
<1>1. x \in States
  BY DEF Ready
<1>2. Restatus(x, y) /\ y.session.status = s
  BY <1>1, SetStatusEffect
<1> HIDE DEF y
<1>3. /\ y.session.conflict = x.session.conflict /\ y.session.reworks = x.session.reworks
      /\ y.session.open = x.session.open
  BY <1>1, <1>2 DEF Restatus, States, Sessions
<1>4. Ready(y)
  BY <1>2, <1>3 DEF Restatus, Ready, Indexed, Live, LiveInv
<1>5. Follows(x, y)
  BY <1>1, <1>2 DEF Restatus, Follows, Kept, States
<1> QED BY <1>2, <1>3, <1>4, <1>5 DEF y, Restatus

LEMMA CheckpointGood ==
    ASSUME NEW x, Ready(x), x.run.parked = "no"
    PROVE  Good(x, Checkpoint(x))
<1> DEFINE y == Checkpoint(x)
<1>1. x \in States /\ CoreInv(x) /\ Live(x)
  BY ReadyCore DEF Ready
<1>2. /\ y \in States
      /\ y.run.status = "failed" /\ y.run.at = x.run.at /\ y.run.parked = "no"
      /\ Marked(x.nodes, y.nodes) /\ NoneRunning(y.nodes)
      /\ y.context = x.context /\ y.slot = x.slot /\ y.superseded = x.superseded
      /\ y.session = [x.session EXCEPT !.status = y.session.status]
      /\ y.session.status = x.session.status \/ y.session.status \in Projected \ {"EXECUTING"}
  BY <1>1, CheckpointEffect
<1> HIDE DEF y
<1>3. y.session.conflict = x.session.conflict /\ y.session.reworks = x.session.reworks
  BY <1>1, <1>2 DEF States, Sessions
<1>4. Indexed(y)
  BY <1>1, <1>2, <1>3 DEF Indexed, Ready, Marked, States
<1>5. CoreInv(y) /\ Kept(x.nodes, y.nodes)
  BY <1>1, <1>2, <1>4, FailedCore DEF Ready
<1>6. Settled(y) /\ Follows(x, y)
  BY <1>2, <1>3, <1>5 DEF Settled, Follows, Ready, Idle
<1> QED BY <1>5, <1>6 DEF Good, y

LEMMA ParkForUpstreamGood ==
    ASSUME NEW x, Ready(x), x.run.parked = "no", LastIsRunning(x.nodes), x.nodes[Len(x.nodes)].by = "agent"
    PROVE  Good(x, ParkForUpstream(x))
<1> DEFINE n == Len(x.nodes)
           r == x.nodes[n]
           R == [x.run EXCEPT !.status = "waiting_human", !.parked = "upstream", !.card = TRUE]
<1>1. x \in States /\ x.nodes \in Seq(NodeRun) /\ n \in DOMAIN x.nodes /\ x.run \in Runs
  BY DEF Ready, States
<1>2. R \in Runs /\ R.status = "waiting_human" /\ R.at = x.run.at /\ R.parked = "upstream"
  BY <1>1 DEF Runs
<1>3. ParkForUpstream(x) = Project([x EXCEPT !.nodes[n] = r, !.run = R])
  <2> DEFINE w == [x EXCEPT !.nodes[n] = r]
  <2>1. [x.nodes EXCEPT ![n] = r] = x.nodes
    BY <1>1
  <2>2. w = [x EXCEPT !.nodes = [x.nodes EXCEPT ![n] = r]]
    BY <1>1 DEF States
  <2>3. w = x
    BY <1>1, <2>1, <2>2 DEF States
  <2>4. [x EXCEPT !.nodes[n] = r, !.run = R] = [w EXCEPT !.run = R]
    OBVIOUS
  <2> HIDE DEF w
  <2>5. [x EXCEPT !.run.status = "waiting_human", !.run.parked = "upstream", !.run.card = TRUE]
            = [x EXCEPT !.run = R]
    OBVIOUS
  <2> QED BY <2>3, <2>4, <2>5 DEF ParkForUpstream
<1>4. r \in NodeRun /\ r.node = x.run.at /\ r.by = "agent" /\ r.status = "running"
  BY <1>1 DEF Ready, LastIsRunning
<1> HIDE DEF R, r
<1>5. x.nodes[n].by = "agent"
  OBVIOUS
<1> QED BY <1>2, <1>3, <1>4, <1>5, Parked

LEMMA ParkForSubstitutionGood ==
    ASSUME NEW x, Ready(x), x.run.parked = "no", x.nodes[Len(x.nodes)].by = "agent"
    PROVE  Good(x, ParkForSubstitution(x, Len(x.nodes)))
<1> DEFINE n == Len(x.nodes)
           r == [x.nodes[n] EXCEPT !.status = "waiting"]
           R == [x.run EXCEPT !.status = "waiting_human", !.parked = "substitution",
                              !.card = ~x.run.asked, !.asked = TRUE]
<1>1. x \in States /\ x.nodes \in Seq(NodeRun) /\ n \in DOMAIN x.nodes /\ x.run \in Runs /\ x.nodes[n] \in NodeRun
  BY DEF Ready, States
<1>2. R \in Runs /\ R.status = "waiting_human" /\ R.at = x.run.at /\ R.parked = "substitution"
  BY <1>1 DEF Runs
<1>3. ParkForSubstitution(x, n) = Project([x EXCEPT !.nodes[n] = r, !.run = R])
  <2> DEFINE v == [x EXCEPT !.nodes[n].status = "waiting"]
             w == [x EXCEPT !.nodes[n] = r]
             c == ~x.run.asked
  <2>1. v = w
    BY <1>1 DEF States
  <2>2. w.run = x.run /\ w = [x EXCEPT !.nodes = w.nodes]
    BY <1>1 DEF States
  <2>3. ParkForSubstitution(x, n) = Project([v EXCEPT !.run.status = "waiting_human",
                !.run.parked = "substitution", !.run.card = c, !.run.asked = TRUE])
    BY DEF ParkForSubstitution
  <2>4. [x EXCEPT !.nodes[n] = r, !.run = R] = [w EXCEPT !.run = R]
    OBVIOUS
  <2>5. R = [x.run EXCEPT !.status = "waiting_human", !.parked = "substitution", !.card = c, !.asked = TRUE]
    OBVIOUS
  <2> HIDE DEF v, w, c, R
  <2>6. [w EXCEPT !.run.status = "waiting_human", !.run.parked = "substitution",
                  !.run.card = c, !.run.asked = TRUE]
            = [w EXCEPT !.run = [w.run EXCEPT !.status = "waiting_human", !.parked = "substitution",
                                              !.card = c, !.asked = TRUE]]
    OBVIOUS
  <2> QED BY <2>1, <2>2, <2>3, <2>4, <2>5, <2>6
<1>4. r \in NodeRun /\ r.node = x.nodes[n].node /\ r.by = x.nodes[n].by /\ r.status = "waiting"
  BY <1>1 DEF NodeRun
<1>5. x.nodes[n].by = "agent" /\ x.nodes[n].node = x.run.at
  BY DEF Ready
<1> HIDE DEF R, r
<1> QED BY <1>2, <1>3, <1>4, <1>5, Parked

LEMMA HandledAfter ==
    ASSUME NEW x \in States, NEW y \in States, NEW z, Follows(x, y), Handled(y, z)
    PROVE  Handled(x, z)
BY FollowsTransitive DEF Handled, CoreInv

\* The Session waits for a decision, and the run stays.
LEMMA DecisionHandled ==
    ASSUME NEW x, Ready(x), x.run.parked = "no"
    PROVE  Handled(x, SetStatus(x, "WAIT_USER_DECISION"))
<1> DEFINE y == SetStatus(x, "WAIT_USER_DECISION")
<1>1. "WAIT_USER_DECISION" \in Statuses /\ "WAIT_USER_DECISION" \in Projected
  BY DEF Statuses, Projected
<1>2. /\ Ready(y) /\ y.run = x.run /\ y.session.status = "WAIT_USER_DECISION"
      /\ y \in States /\ Follows(x, y)
  BY <1>1, RestatusReady
<1> HIDE DEF y
<1>3. Handled(y, y)
  BY <1>2, ReadyRests
<1> QED BY <1>2, <1>3, HandledAfter DEF Ready, y

LEMMA AskUserHandled ==
    ASSUME NEW x, Ready(x), x.run.parked = "no", x.session.status # "WAIT_WORKFLOW_SELECT"
    PROVE  Handled(x, AskUser(x))
<1>1. CASE ~Heeds(x)
  <2>1. AskUser(x) = x
    BY <1>1 DEF AskUser
  <2>2. ~(x.session.status = "EXECUTING" /\ x.session.open)
    BY <1>1 DEF Heeds
  <2> QED BY <2>1, <2>2, ReadyRests
<1>2. CASE Heeds(x)
  <2> DEFINE y == SetStatus(x, "WAIT_USER_DECISION")
  <2>1. AskUser(x) = Checkpoint(y)
    BY <1>2 DEF AskUser
  <2>2. "WAIT_USER_DECISION" \in Statuses /\ "WAIT_USER_DECISION" \in Projected
    BY DEF Statuses, Projected
  <2>3. /\ Ready(y) /\ y.run = x.run /\ y.session.status = "WAIT_USER_DECISION"
        /\ y \in States /\ Follows(x, y)
    BY <2>2, RestatusReady
  <2> HIDE DEF y
  <2>4. Handled(y, Checkpoint(y))
    BY <2>3, CheckpointGood, GoodIsHandled
  <2> QED BY <2>1, <2>3, <2>4, HandledAfter DEF Ready
<1> QED BY <1>1, <1>2

LEMMA DeclinedHandled ==
    ASSUME NEW x, Ready(x), x.run.parked = "no", x.session.status # "WAIT_WORKFLOW_SELECT"
    PROVE  Handled(x, Declined(x, Len(x.nodes)))
<1> DEFINE y == SetStatus(x, "WAIT_USER_DECISION")
<1>1. CASE ~Heeds(x)
  <2>1. Declined(x, Len(x.nodes)) = x
    BY <1>1 DEF Declined
  <2>2. ~(x.session.status = "EXECUTING" /\ x.session.open)
    BY <1>1 DEF Heeds
  <2> QED BY <2>1, <2>2, ReadyRests
<1>2. CASE Heeds(x) /\ x.nodes[Len(x.nodes)].by # "agent"
  <2>1. Declined(x, Len(x.nodes)) = y
    BY <1>2 DEF Declined
  <2> QED BY <2>1, DecisionHandled
<1>3. CASE Heeds(x) /\ x.nodes[Len(x.nodes)].by = "agent"
  <2>1. Declined(x, Len(x.nodes)) = ParkForSubstitution(y, Len(x.nodes))
    BY <1>3 DEF Declined
  <2>2. "WAIT_USER_DECISION" \in Statuses /\ "WAIT_USER_DECISION" \in Projected
    BY DEF Statuses, Projected
  <2>3. /\ Ready(y) /\ y.run = x.run /\ y.session.status = "WAIT_USER_DECISION"
        /\ y.nodes = x.nodes /\ y \in States /\ Follows(x, y)
    BY <2>2, RestatusReady
  <2> HIDE DEF y
  <2>4. Handled(y, ParkForSubstitution(y, Len(x.nodes)))
    BY <1>3, <2>3, ParkForSubstitutionGood, GoodIsHandled
  <2> QED BY <2>1, <2>3, <2>4, HandledAfter DEF Ready
<1> QED BY <1>1, <1>2, <1>3

LEMMA HandleOutcomeHandled ==
    ASSUME NEW x, Ready(x), x.run.parked = "no", LastIsRunning(x.nodes),
           x.session.status # "WAIT_WORKFLOW_SELECT",
           NEW end \in Ends(x.nodes[Len(x.nodes)].by), end # "conflict"
    PROVE  Handled(x, HandleOutcome(x, Len(x.nodes), end))
<1> DEFINE n == Len(x.nodes)
           y == HandleOutcome(x, n, end)
<1>0. x.nodes[n].by \in {"agent", "robot"} /\ x \in States /\ x.nodes \in Seq(NodeRun) /\ n \in DOMAIN x.nodes
  <2>1. x \in States /\ x.nodes \in Seq(NodeRun) /\ n \in DOMAIN x.nodes
    BY DEF Ready, States
  <2>2. x.nodes[n].by # "human"
    BY <2>1 DEF Ready, LiveInv, LastIsRunning
  <2> QED BY <2>1, <2>2, ReadyBy
<1>1. CASE end = "completed"
  <2>1. y = CompleteNode(x, n)
    BY <1>1 DEF HandleOutcome
  <2> QED BY <1>0, <2>1, CompleteNodeGood, GoodIsHandled
<1>2. CASE end \in {"approve", "revise", "reject", "invalid"}
  <2>1. y = RobotResult(x, n, end)
    BY <1>2 DEF HandleOutcome
  <2>2. x.nodes[n].by = "robot"
    BY <1>0, <1>2 DEF Ends
  <2> QED BY <1>2, <2>1, <2>2, RobotResultGood, GoodIsHandled
<1>3. CASE end = "switched"
  <2>1. y = CancelledOutcome(x, n)
    BY <1>3 DEF HandleOutcome
  <2> QED BY <2>1, CancelledOutcomeGood, GoodIsHandled
<1>4. CASE end = "upstream"
  <2>1. y = UpstreamIncomplete(x, n)
    BY <1>4 DEF HandleOutcome
  <2>2. x.nodes[n].by = "agent"
    BY <1>0, <1>4 DEF Ends
  <2>3. y = ParkForUpstream(x) \/ y = AskUser(x)
    BY <2>1 DEF UpstreamIncomplete
  <2> QED BY <2>2, <2>3, ParkForUpstreamGood, GoodIsHandled, AskUserHandled
<1>5. CASE end = "declined"
  <2>1. y = Declined(x, n)
    BY <1>5 DEF HandleOutcome
  <2> QED BY <2>1, DeclinedHandled
<1>6. CASE end = "askUser"
  <2>1. y = AskUser(x)
    BY <1>6 DEF HandleOutcome
  <2> QED BY <2>1, AskUserHandled
<1>7. CASE end = "approval"
  <2>1. y = IF Heeds(x) THEN SetStatus(x, "WAIT_USER_DECISION") ELSE x
    BY <1>7 DEF HandleOutcome
  <2>2. ~Heeds(x) => ~(x.session.status = "EXECUTING" /\ x.session.open)
    BY DEF Heeds
  <2>3. CASE Heeds(x)
    <3>1. y = SetStatus(x, "WAIT_USER_DECISION")
      BY <2>1, <2>3
    <3>2. Handled(x, SetStatus(x, "WAIT_USER_DECISION"))
      BY DecisionHandled
    <3> QED BY <3>1, <3>2
  <2>4. CASE ~Heeds(x)
    <3>1. y = x
      BY <2>1, <2>4
    <3>2. Handled(x, x)
      BY <2>2, <2>4, ReadyRests
    <3> QED BY <3>1, <3>2
  <2> QED BY <2>3, <2>4
<1>8. CASE end \in {"failed", "crashed"}
  <2>1. y = Finish(x, "failed")
    BY <1>8 DEF HandleOutcome
  <2>2. Good(x, y)
    BY <2>1, FinishFails DEF Good, Ready
  <2> QED BY <2>2, GoodIsHandled
<1>9. end \in {"completed", "approve", "revise", "reject", "invalid", "switched", "upstream", "declined",
               "askUser", "approval", "failed", "crashed"}
  BY DEF Ends
<1> HIDE DEF y
<1> QED BY <1>1, <1>2, <1>3, <1>4, <1>5, <1>6, <1>7, <1>8, <1>9 DEF y

-----------------------------------------------------------------------------
(* The end of the pipeline of a node run.                                  *)

\* A live run under way, once its pipeline is over.
LEMMA OutcomeReady ==
    ASSUME NEW x, CoreInv(x), SessionInv(x), x.slot.work = "node", Live(x), NEW t \in Tasks
    PROVE  LET y == [x EXCEPT !.slot = Idle, !.nodes[x.slot.nodeRun].task = t]
           IN  /\ Ready(y) /\ y.run.parked = "no" /\ LastIsRunning(y.nodes)
               /\ x.slot.nodeRun = Len(y.nodes)
               /\ y.nodes[Len(y.nodes)].by = x.nodes[Len(y.nodes)].by
               /\ y.session = x.session /\ y.session.status # "WAIT_WORKFLOW_SELECT"
               /\ y \in States /\ Follows(x, y)
<1> DEFINE n == Len(x.nodes)
           v == [x EXCEPT !.nodes[n].task = t]
           y == [v EXCEPT !.slot = Idle]
<1>1. x \in States /\ x.nodes \in Seq(NodeRun)
  BY DEF CoreInv, States
<1>2. x.slot.nodeRun = n /\ LastIsRunning(x.nodes) /\ n \in DOMAIN x.nodes
  BY DEF CoreInv, SlotInv
<1>3. [x EXCEPT !.slot = Idle, !.nodes[x.slot.nodeRun].task = t] = y
  BY <1>1, <1>2 DEF States
<1>4. /\ v \in States
      /\ v.run = x.run /\ v.context = x.context /\ v.slot = x.slot
      /\ v.superseded = x.superseded /\ v.session = x.session
      /\ Alike(x.nodes, v.nodes)
  BY <1>1, <1>2, TaskEffect
<1> HIDE DEF v
<1>5. /\ y \in States
      /\ y.run = x.run /\ y.nodes = v.nodes /\ y.context = x.context /\ y.slot = Idle
      /\ y.superseded = x.superseded /\ y.session = x.session
  BY <1>4 DEF States, Idle, Work, Aborts
<1> HIDE DEF y
<1>6. SameRun(x, y) /\ Alike(x.nodes, y.nodes)
  BY <1>4, <1>5 DEF SameRun
<1>7. y.nodes \in Seq(NodeRun)
  BY <1>5 DEF States
<1>8. /\ Kept(x.nodes, y.nodes) /\ ByInv(y.nodes) /\ LastIsRunning(y.nodes)
      /\ DOMAIN x.nodes = DOMAIN y.nodes /\ Len(y.nodes) = n
  BY <1>1, <1>2, <1>6, <1>7, AlikeClear DEF CoreInv, Alike
<1>9. Live(y) /\ LiveInv(y)
  BY <1>1, <1>5, <1>6, AlikeLive DEF CoreInv, Live
<1>10. /\ x.session.conflict = 0 /\ ~(x.session.reworks > MaxReworks)
       /\ x.session.status # "WAIT_WORKFLOW_SELECT" /\ x.run.parked = "no"
  BY DEF SessionInv, CoreInv, ParkInv, Idle, Live
<1>11. Indexed(y)
  BY <1>5, <1>8 DEF CoreInv, Indexed, Idle
<1>12. ~Final(y.nodes[n].status) /\ y.nodes[n].node = y.run.at /\ y.nodes # <<>>
  <2>1. y.nodes # <<>> /\ y.nodes[n].status = "running" /\ n \in DOMAIN y.nodes
    BY <1>2, <1>8 DEF LastIsRunning
  <2> QED BY <1>9, <2>1 DEF LiveInv, Final
<1>13. Ready(y)
  BY <1>5, <1>8, <1>9, <1>10, <1>11, <1>12 DEF Ready
<1>14. Follows(x, y)
  BY <1>1, <1>5, <1>8, FollowsSelf DEF Follows
<1> QED BY <1>2, <1>3, <1>5, <1>6, <1>8, <1>10, <1>13, <1>14 DEF Alike

\* A conflicted writeback holds the Session, and the node run stays under way.
LEMMA HeldCore ==
    ASSUME NEW x, Ready(x), x.run.parked = "no", LastIsRunning(x.nodes)
    PROVE  LET y == SetStatus([x EXCEPT !.session.conflict = Len(x.nodes)], "WAIT_WORKSPACE_CONFLICT_RESOLUTION")
           IN  /\ CoreInv(y) /\ SessionInv(y) /\ y.nodes = x.nodes
               /\ y.session.status = "WAIT_WORKSPACE_CONFLICT_RESOLUTION"
<1> DEFINE n == Len(x.nodes)
           y == SetStatus([x EXCEPT !.session.conflict = n], "WAIT_WORKSPACE_CONFLICT_RESOLUTION")
           S == [x.session EXCEPT !.conflict = n, !.status = "WAIT_WORKSPACE_CONFLICT_RESOLUTION"]
<1>1. x \in States /\ x.nodes \in Seq(NodeRun) /\ n \in DOMAIN x.nodes /\ x.session \in Sessions
  BY DEF Ready, States
<1>2. y = [x EXCEPT !.session = S]
  BY <1>1 DEF SetStatus, States
<1>3. /\ S \in Sessions /\ S.conflict = n /\ S.status = "WAIT_WORKSPACE_CONFLICT_RESOLUTION"
      /\ S.reworks = x.session.reworks
  <2>1. n \in Nat /\ "WAIT_WORKSPACE_CONFLICT_RESOLUTION" \in Statuses
    BY <1>1 DEF Statuses
  <2> HIDE DEF n
  <2> QED BY <1>1, <2>1 DEF Sessions
<1> HIDE DEF S, y
<1>4. /\ y \in States
      /\ y.run = x.run /\ y.nodes = x.nodes /\ y.context = x.context /\ y.slot = x.slot
      /\ y.superseded = x.superseded /\ y.session = S
  BY <1>1, <1>2, <1>3 DEF States
<1>5. CoreInv(x)
  BY ReadyCore
<1>6. CoreInv(y)
  <2>1. Indexed(y) /\ SameRun(x, y) /\ Alike(x.nodes, y.nodes) /\ Goes(x, y)
    BY <1>1, <1>3, <1>4 DEF Ready, Indexed, SameRun, Alike, Goes
  <2> QED BY <1>4, <1>5, <2>1, CalmCore
<1>7. SessionInv(y)
  BY <1>3, <1>4 DEF SessionInv, Ready, Live
<1> QED BY <1>3, <1>4, <1>6, <1>7 DEF y

\* What is known of the state after a step that leaves starting and pausing alone.
Driven(x, y) ==
    /\ CoreInv(y) /\ SessionInv(y) /\ Kept(x.nodes, y.nodes)
    /\ y.session.status = x.session.status \/ y.session.status \notin {"WAIT_WORKFLOW_SELECT", "PAUSED"}

LEMMA HandledIsDriven ==
    ASSUME NEW x, NEW y, Handled(x, y)
    PROVE  Driven(x, y)
BY DEF Handled, Driven, Follows, Projected

\* A record with the Session's status is what Driven looks at.
LEMMA DrivenAfter ==
    ASSUME NEW x \in States, NEW y \in States, NEW z, Follows(x, y), Driven(y, z)
    PROVE  Driven(x, z)
<1>1. Kept(x.nodes, z.nodes)
  BY KeptTransitive DEF Follows, Driven, CoreInv, States
<1> QED BY <1>1 DEF Driven, Follows, Projected

LEMMA TaskAfterIs ==
    ASSUME NEW end
    PROVE  TaskAfter(end) \in Tasks
BY DEF TaskAfter, Tasks

LEMMA NodeOutcomeDriven ==
    ASSUME NEW x, CoreInv(x), SessionInv(x), x.slot.work = "node", x.slot.abort = "no",
           NEW end \in Ends(x.nodes[x.slot.nodeRun].by)
    PROVE  LET i == x.slot.nodeRun
               y == Hold([x EXCEPT !.slot = Idle, !.nodes[i].task = TaskAfter(end)], i, end)
           IN  Driven(x, IF Accepts(y, i) THEN HandleOutcome(y, i, end) ELSE y)
<1> DEFINE i == x.slot.nodeRun
           v == [x EXCEPT !.slot = Idle, !.nodes[i].task = TaskAfter(end)]
           y == Hold(v, i, end)
           z == IF Accepts(y, i) THEN HandleOutcome(y, i, end) ELSE y
<1>1. Live(x) /\ x \in States
  BY DEF CoreInv, SlotInv
<1>2. /\ Ready(v) /\ v.run.parked = "no" /\ LastIsRunning(v.nodes)
      /\ i = Len(v.nodes)
      /\ v.nodes[Len(v.nodes)].by = x.nodes[Len(v.nodes)].by
      /\ v.session = x.session /\ v.session.status # "WAIT_WORKFLOW_SELECT"
      /\ v \in States /\ Follows(x, v)
  BY <1>1, TaskAfterIs, OutcomeReady
<1> HIDE DEF v, i
<1>3. end \in Ends(v.nodes[Len(v.nodes)].by)
  BY <1>2 DEF i
<1>4. CASE end = "conflict"
  <2>1. y = SetStatus([v EXCEPT !.session.conflict = Len(v.nodes)], "WAIT_WORKSPACE_CONFLICT_RESOLUTION")
    BY <1>2, <1>4 DEF Hold
  <2>2. z = y
    BY <1>4 DEF HandleOutcome
  <2>3. Driven(v, y)
    <3>1. /\ CoreInv(y) /\ SessionInv(y) /\ y.nodes = v.nodes
          /\ y.session.status = "WAIT_WORKSPACE_CONFLICT_RESOLUTION"
      BY <1>2, <2>1, HeldCore
    <3> HIDE DEF y
    <3> QED BY <1>2, <3>1 DEF Driven, Kept, States
  <2> QED BY <1>1, <1>2, <2>2, <2>3, DrivenAfter DEF v, i
<1>5. CASE end # "conflict"
  <2>1. y = v
    BY <1>5 DEF Hold
  <2>2. Handled(v, z)
    <3>1. CASE Accepts(v, i)
      BY <1>2, <1>3, <1>5, <2>1, <3>1, HandleOutcomeHandled
    <3>2. CASE ~Accepts(v, i)
      <4>1. ~v.session.open
        BY <1>2, <3>2 DEF Accepts, Ready, Live, Ended, Terminal, LastIsRunning
      <4>2. Handled(v, v)
        BY <1>2, <4>1, ReadyRests
      <4> QED BY <2>1, <3>2, <4>2
    <3> QED BY <3>1, <3>2
  <2> HIDE DEF z
  <2>3. Driven(x, z)
    BY <1>1, <1>2, <2>2, HandledIsDriven, DrivenAfter
  <2> QED BY <2>3 DEF z, y, v, i
<1> QED BY <1>4, <1>5

\* What is not live has nothing to drive.
LEMMA DeadSession ==
    ASSUME NEW x, SessionInv(x), ~Live(x), NEW y, SameRun(x, y), ~Live(y),
           y.session.conflict = x.session.conflict \/ y.session.conflict = 0,
           y.session.reworks = x.session.reworks,
           y.session.reworks > MaxReworks => y.slot = Idle,
           y.session.status # "WAIT_WORKFLOW_SELECT"
    PROVE  SessionInv(y)
BY DEF SessionInv, SameRun

LEMMA NodeAbortedDriven ==
    ASSUME NEW x, CoreInv(x), SessionInv(x), x.slot.work = "node", x.slot.abort # "no",
           NEW t \in {x.nodes[x.slot.nodeRun].task, "ended"}
    PROVE  LET i == x.slot.nodeRun
               y == [x EXCEPT !.slot = Idle, !.nodes[i].task = t]
           IN  Driven(x, IF Accepts(y, i) /\ x.slot.abort # "pause" THEN CancelledOutcome(y, i) ELSE y)
<1> DEFINE i == x.slot.nodeRun
           y == [x EXCEPT !.slot = Idle, !.nodes[i].task = t]
           z == IF Accepts(y, i) /\ x.slot.abort # "pause" THEN CancelledOutcome(y, i) ELSE y
<1>1. x \in States /\ x.nodes \in Seq(NodeRun) /\ i \in DOMAIN x.nodes
  BY DEF CoreInv, SlotInv, States
<1>2. t \in Tasks
  <2>1. x.nodes[i] \in NodeRun
    BY <1>1
  <2> QED BY <2>1 DEF NodeRun, Tasks
<1>3. CASE Live(x)
  <2>1. /\ Ready(y) /\ y.run.parked = "no" /\ LastIsRunning(y.nodes)
        /\ i = Len(y.nodes)
        /\ y.session = x.session /\ y.session.status # "WAIT_WORKFLOW_SELECT"
        /\ y \in States /\ Follows(x, y)
    BY <1>2, <1>3, OutcomeReady
  <2> HIDE DEF y
  <2>2. Handled(y, z)
    <3>1. CASE Accepts(y, i) /\ x.slot.abort # "pause"
      <4>1. z = CancelledOutcome(y, Len(y.nodes))
        BY <2>1, <3>1
      <4> QED BY <2>1, <4>1, CancelledOutcomeGood, GoodIsHandled
    <3>2. CASE ~(Accepts(y, i) /\ x.slot.abort # "pause")
      <4>1. CASE ~Accepts(y, i)
        <5>1. ~y.session.open
          BY <2>1, <4>1 DEF Accepts, Ready, Live, Ended, Terminal, LastIsRunning
        <5>2. Handled(y, y)
          BY <2>1, <5>1, ReadyRests
        <5> QED BY <4>1, <5>2
      <4>2. CASE x.slot.abort = "pause"
        <5>1. ~(y.session.status = "EXECUTING" /\ y.session.open)
          BY <1>3, <2>1, <4>2 DEF SessionInv
        <5>2. Handled(y, y)
          BY <2>1, <5>1, ReadyRests
        <5> QED BY <4>2, <5>2
      <4> QED BY <3>2, <4>1, <4>2
    <3> QED BY <3>1, <3>2
  <2> HIDE DEF z
  <2>3. Driven(x, z)
    BY <1>1, <2>1, <2>2, HandledIsDriven, DrivenAfter
  <2> QED BY <2>3 DEF z, y
<1>4. CASE ~Live(x)
  <2> DEFINE v == [x EXCEPT !.nodes[i].task = t]
  <2>1. y = [v EXCEPT !.slot = Idle]
    BY <1>1 DEF States
  <2>2. /\ v \in States
        /\ v.run = x.run /\ v.context = x.context /\ v.slot = x.slot
        /\ v.superseded = x.superseded /\ v.session = x.session
        /\ Alike(x.nodes, v.nodes)
    BY <1>1, <1>2, TaskEffect
  <2> HIDE DEF v, y
  <2>3. /\ y \in States
        /\ y.run = x.run /\ y.nodes = v.nodes /\ y.context = x.context /\ y.slot = Idle
        /\ y.superseded = x.superseded /\ y.session = x.session
    BY <2>1, <2>2 DEF States, Idle, Work, Aborts
  <2>4. SameRun(x, y) /\ Alike(x.nodes, y.nodes) /\ Goes(x, y) /\ ~Live(y)
    BY <1>4, <2>2, <2>3 DEF SameRun, Goes, Live
  <2>5. Indexed(y)
    <3>1. y.nodes \in Seq(NodeRun)
      BY <2>3 DEF States
    <3> QED BY <1>1, <2>3, <2>4, <3>1, AlikeClear DEF CoreInv, Indexed, Idle, Alike
  <2>6. CoreInv(y) /\ Kept(x.nodes, y.nodes)
    BY <2>3, <2>4, <2>5, CalmCore
  <2>7. x.session.status # "WAIT_WORKFLOW_SELECT"
    BY DEF SessionInv, Idle
  <2>8. SessionInv(y)
    BY <1>4, <2>3, <2>4, <2>7, DeadSession
  <2>9. Ended(y)
    <3>1. x.run.status # "none"
      BY DEF CoreInv, EndInv, Idle
    <3> QED BY <1>1, <1>4, <2>3, <3>1 DEF States, Runs, Live, Ended
  <2>10. z = y
    BY <2>9 DEF Accepts
  <2>11. Driven(x, y)
    BY <2>3, <2>6, <2>8 DEF Driven
  <2> QED BY <2>10, <2>11 DEF y
<1> QED BY <1>3, <1>4

-----------------------------------------------------------------------------
(* The Post Review.                                                        *)

\* A completed run whose Session asks nothing more of it.
Reviewed(x) ==
    /\ CoreInv(x)
    /\ x.run.status = "completed"
    /\ x.slot = Idle
    /\ x.session.conflict = 0
    /\ ~(x.session.reworks > MaxReworks)

LEMMA ReviewedIdle ==
    ASSUME NEW x, CoreInv(x), SessionInv(x), x.slot.work = "review"
    PROVE  LET y == [x EXCEPT !.slot = Idle]
           IN  /\ Reviewed(y) /\ y.nodes = x.nodes /\ y.session = x.session
               /\ x.session.status # "WAIT_WORKFLOW_SELECT"
<1> DEFINE y == [x EXCEPT !.slot = Idle]
<1>1. x \in States /\ x.run.status = "completed"
  BY DEF CoreInv, SlotInv
<1>2. /\ y \in States
      /\ y.run = x.run /\ y.nodes = x.nodes /\ y.context = x.context /\ y.slot = Idle
      /\ y.superseded = x.superseded /\ y.session = x.session
  BY <1>1 DEF States, Idle, Work, Aborts
<1> HIDE DEF y
<1>3. /\ x.session.conflict = 0 /\ ~(x.session.reworks > MaxReworks)
      /\ x.session.status # "WAIT_WORKFLOW_SELECT"
  BY <1>1 DEF SessionInv, Idle, Live
<1>4. CoreInv(y)
  <2>1. Indexed(y) /\ SameRun(x, y) /\ Alike(x.nodes, y.nodes) /\ Goes(x, y)
    BY <1>1, <1>2 DEF CoreInv, Indexed, SameRun, Alike, Goes, Idle, States
  <2> QED BY <1>2, <2>1, CalmCore
<1> QED BY <1>1, <1>2, <1>3, <1>4 DEF Reviewed, y

\* It may end in any status but the first and the paused one.
LEMMA ReviewedDriven ==
    ASSUME NEW x, Reviewed(x), NEW y \in States, y.run = x.run, Alike(x.nodes, y.nodes),
           y.slot = Idle, y.superseded = x.superseded, y.session.conflict = 0,
           y.session.status = x.session.status \/ y.session.status \notin {"WAIT_WORKFLOW_SELECT", "PAUSED"},
           y.session.status # "WAIT_WORKFLOW_SELECT"
    PROVE  Driven(x, y)
<1>1. x \in States /\ x.nodes \in Seq(NodeRun) /\ y.nodes \in Seq(NodeRun)
  BY DEF Reviewed, CoreInv, States
<1>2. DOMAIN x.nodes = DOMAIN y.nodes /\ Len(y.nodes) = Len(x.nodes) /\ Len(y.nodes) \in Nat
  BY <1>1, AlikeClear DEF Alike
<1>3. Indexed(y)
  BY <1>2 DEF Reviewed, CoreInv, Indexed, Idle
<1>4. SameRun(x, y) /\ Goes(x, y)
  BY DEF SameRun, Goes
<1>5. CoreInv(y) /\ Kept(x.nodes, y.nodes)
  BY <1>3, <1>4, CalmCore DEF Reviewed
<1>6. SessionInv(y)
  BY DEF SessionInv, Reviewed, Live
<1> QED BY <1>5, <1>6 DEF Driven

LEMMA SetUnfinishedEffect ==
    ASSUME NEW x \in States, NEW t \in Tasks
    PROVE  LET y == SetUnfinished(x, t)
           IN  /\ y \in States
               /\ y.run = x.run /\ y.context = x.context /\ y.slot = x.slot
               /\ y.superseded = x.superseded /\ y.session = x.session
               /\ Alike(x.nodes, y.nodes)
<1> DEFINE r(i) == IF EndedTask(x.nodes[i].task) THEN x.nodes[i] ELSE [x.nodes[i] EXCEPT !.task = t]
           b == [i \in DOMAIN x.nodes |-> r(i)]
           y == SetUnfinished(x, t)
<1>1. x.nodes \in Seq(NodeRun)
  BY DEF States
<1>2. y = [x EXCEPT !.nodes = b]
  BY DEF SetUnfinished
<1>3. \A i \in DOMAIN x.nodes :
          r(i) \in NodeRun /\ r(i).node = x.nodes[i].node /\ r(i).by = x.nodes[i].by
          /\ r(i).status = x.nodes[i].status
  <2> SUFFICES ASSUME NEW i \in DOMAIN x.nodes
               PROVE  r(i) \in NodeRun /\ r(i).node = x.nodes[i].node /\ r(i).by = x.nodes[i].by
                      /\ r(i).status = x.nodes[i].status
    OBVIOUS
  <2> DEFINE last == x.nodes[i]
  <2>1. last \in NodeRun
    BY <1>1
  <2>2. r(i) = last \/ r(i) = [last EXCEPT !.task = t]
    OBVIOUS
  <2> HIDE DEF last, r
  <2>3. r(i) \in NodeRun /\ r(i).node = last.node /\ r(i).by = last.by /\ r(i).status = last.status
    BY <2>1, <2>2 DEF NodeRun, Tasks
  <2> QED BY <2>3 DEF last
<1> HIDE DEF r
<1>4. b \in Seq(NodeRun) /\ Len(b) = Len(x.nodes) /\ \A i \in DOMAIN x.nodes : b[i] = r(i)
  <2>1. DOMAIN x.nodes = 1 .. Len(x.nodes) /\ Len(x.nodes) \in Nat
    BY <1>1
  <2>2. b \in [1 .. Len(x.nodes) -> NodeRun]
    BY <1>3, <2>1
  <2> QED BY <2>1, <2>2
<1> HIDE DEF b, y
<1>5. Alike(x.nodes, b)
  BY <1>3, <1>4 DEF Alike
<1> QED BY <1>2, <1>4, <1>5 DEF States, y

\* A rework goes back to the last Agent that ran.
LEMMA ReworkLastAgentCore ==
    ASSUME NEW x, Reviewed(x), x.session.status # "WAIT_WORKFLOW_SELECT"
    PROVE  Driven(x, ReworkLastAgent(x))
<1> DEFINE S == {i \in DOMAIN x.nodes : x.nodes[i].by = "agent"}
           last == Max(S)
           v == [x EXCEPT !.context = TRUE]
           y == ReworkLastAgent(x)
<1>1. /\ x \in States /\ x.nodes \in Seq(NodeRun) /\ x.nodes # <<>> /\ NoneRunning(x.nodes)
      /\ Clear(x.nodes, Len(Kinds) + 1) /\ ByInv(x.nodes) /\ Indexed(x)
  BY DEF Reviewed, CoreInv, EndInv, States
<1>2. last \in S
  <2>1. S # {} /\ S \subseteq 0 .. Len(x.nodes) /\ Len(x.nodes) \in Nat
    BY <1>1 DEF ByInv
  <2> HIDE DEF S
  <2> QED BY <2>1, MaxIn
<1>3. y = GoTo(v, x.nodes[last].node)
  BY DEF ReworkLastAgent
<1> HIDE DEF last, y
<1>4. x.nodes[last].node \in Nodes
  <2>1. x.nodes[last] \in NodeRun
    BY <1>1, <1>2
  <2> QED BY <2>1 DEF NodeRun
<1>5. /\ v \in States
      /\ v.run = x.run /\ v.nodes = x.nodes /\ v.context = TRUE /\ v.slot = x.slot
      /\ v.superseded = x.superseded /\ v.session = x.session
  BY <1>1 DEF States
<1> HIDE DEF v
<1>6. Fresh(v)
  BY <1>1, <1>5 DEF Fresh, Reviewed, Indexed
<1>7. Clear(v.nodes, x.nodes[last].node)
  <2>1. x.nodes[last].node \in Nat /\ Len(Kinds) + 1 \in Nat /\ x.nodes[last].node <= Len(Kinds) + 1
    BY <1>4, FirstIsAgent
  <2> QED BY <1>1, <1>5, <2>1, ClearBefore
<1>8. Good(v, y)
  BY <1>1, <1>3, <1>4, <1>5, <1>6, <1>7, GoToCore DEF Good
<1>9. Handled(v, y)
  BY <1>5, <1>8, GoodIsHandled
<1>10. Driven(v, y)
  BY <1>9, HandledIsDriven
<1> QED BY <1>5, <1>10 DEF Driven, y

LEMMA ReworkDriven ==
    ASSUME NEW x, Reviewed(x), x.session.status # "WAIT_WORKFLOW_SELECT"
    PROVE  Driven(x, Rework(x))
<1> DEFINE S == [x.session EXCEPT !.status = "REWORKING", !.reworks = @ + 1]
           y == [SetStatus(x, "REWORKING") EXCEPT !.session.reworks = @ + 1]
<1>1. x \in States /\ x.session \in Sessions /\ MaxReworks \in Nat /\ x.nodes \in Seq(NodeRun)
  BY WorkflowAssumption DEF Reviewed, CoreInv, States
<1>2. y = [x EXCEPT !.session = S]
  BY <1>1 DEF SetStatus, States, Sessions
<1>3. /\ S \in Sessions /\ S.conflict = 0 /\ S.status = "REWORKING"
  <2>1. x.session.reworks \in 0 .. MaxReworks + 1 /\ ~(x.session.reworks > MaxReworks)
    BY <1>1 DEF Sessions, Reviewed
  <2>2. x.session.reworks + 1 \in 0 .. MaxReworks + 1 /\ "REWORKING" \in Statuses
    BY <1>1, <2>1 DEF Statuses
  <2>3. S.conflict = x.session.conflict
    BY <1>1 DEF Sessions
  <2> QED BY <1>1, <2>2, <2>3 DEF Sessions, Reviewed
<1> HIDE DEF S, y
<1>4. /\ y \in States
      /\ y.run = x.run /\ y.nodes = x.nodes /\ y.context = x.context /\ y.slot = x.slot
      /\ y.superseded = x.superseded /\ y.session = S
  BY <1>1, <1>2, <1>3 DEF States
<1>5. Rework(x) = IF y.session.reworks > MaxReworks THEN SetStatus(y, "WAIT_USER_DECISION") ELSE ReworkLastAgent(y)
  BY DEF Rework, y
<1>6. Alike(x.nodes, y.nodes)
  BY <1>1, <1>4 DEF Alike
<1>7. Driven(x, y)
  BY <1>3, <1>4, <1>6, ReviewedDriven DEF Reviewed
<1>8. CASE y.session.reworks > MaxReworks
  <2> DEFINE z == SetStatus(y, "WAIT_USER_DECISION")
  <2>1. Restatus(y, z) /\ z.session.status = "WAIT_USER_DECISION"
    BY <1>4, SetStatusEffect, "WAIT_USER_DECISION" \in Statuses DEF Statuses
  <2> HIDE DEF z
  <2>2. z.session.conflict = 0
    BY <1>3, <1>4, <2>1 DEF Restatus, Sessions
  <2>3. Driven(x, z)
    BY <1>4, <1>6, <2>1, <2>2, ReviewedDriven DEF Restatus, Reviewed
  <2> QED BY <1>5, <1>8, <2>3 DEF z
<1>9. CASE ~(y.session.reworks > MaxReworks)
  <2>1. Reviewed(y)
    BY <1>3, <1>4, <1>7, <1>9 DEF Reviewed, Driven
  <2>2. Driven(y, ReworkLastAgent(y))
    BY <1>3, <1>4, <2>1, ReworkLastAgentCore
  <2>3. Driven(x, ReworkLastAgent(y))
    BY <1>3, <1>4, <2>2 DEF Driven
  <2> QED BY <1>5, <1>9, <2>3
<1> QED BY <1>8, <1>9

\* Every step of a Session that the review may take.
LEMMA ReviewedStatus ==
    ASSUME NEW x, Reviewed(x), x.session.status # "WAIT_WORKFLOW_SELECT",
           NEW s \in {"WAIT_USER_DECISION", "COMPLETED", "FAILED"}
    PROVE  /\ Driven(x, x)
           /\ Driven(x, SetStatus(x, s))
<1>1. x \in States /\ x.nodes \in Seq(NodeRun) /\ s \in Statuses
  BY DEF Reviewed, CoreInv, States, Statuses
<1>2. Alike(x.nodes, x.nodes)
  BY DEF Alike
<1>3. Driven(x, x)
  BY <1>1, <1>2, ReviewedDriven DEF Reviewed
<1> DEFINE y == SetStatus(x, s)
<1>4. Restatus(x, y) /\ y.session.status = s
  BY <1>1, SetStatusEffect
<1> HIDE DEF y
<1>5. y.session.conflict = 0 /\ s \notin {"WAIT_WORKFLOW_SELECT", "PAUSED"}
  BY <1>1, <1>4 DEF Restatus, States, Sessions, Reviewed
<1>6. Driven(x, y)
  BY <1>1, <1>2, <1>4, <1>5, ReviewedDriven DEF Restatus, Reviewed
<1> QED BY <1>3, <1>6 DEF y

-----------------------------------------------------------------------------
(* Decisions of the user.                                                  *)

\* A run that waits has its last node run to wait for.
LEMMA WaitingReady ==
    ASSUME NEW x, CoreInv(x), SessionInv(x), x.run.status = "waiting_human", x.slot = Idle,
           x.session.conflict = 0, x.nodes # <<>>, ~Final(x.nodes[Len(x.nodes)].status)
    PROVE  Ready(x) /\ x.session.status # "WAIT_WORKFLOW_SELECT"
<1>1. x \in States /\ x.nodes \in Seq(NodeRun) /\ Len(x.nodes) \in DOMAIN x.nodes /\ Live(x)
  BY DEF CoreInv, States, Live
<1>2. ~(x.session.reworks > MaxReworks) /\ x.session.status # "WAIT_WORKFLOW_SELECT"
  BY DEF SessionInv
<1>3. x.nodes[Len(x.nodes)].node = x.run.at
  BY <1>1 DEF CoreInv, LiveInv, Final
<1> QED BY <1>1, <1>2, <1>3 DEF Ready, CoreInv

LEMMA GateReady ==
    ASSUME NEW x, CoreInv(x), SessionInv(x), x.run.status = "waiting_human", x.run.parked # "upstream",
           x.nodes[Len(x.nodes)].by = "human", x.nodes[Len(x.nodes)].status = "waiting"
    PROVE  /\ Ready(x) /\ x.run.parked = "no" /\ x.run.at \in Nodes \ Agents
           /\ x.nodes[Len(x.nodes)].node = x.run.at
           /\ x.session.status # "WAIT_WORKFLOW_SELECT"
<1>1. Live(x) /\ LiveInv(x) /\ x.nodes # <<>> /\ x \in States /\ x.nodes \in Seq(NodeRun)
  BY DEF Live, CoreInv, LiveInv, States
<1>2. x.run.parked = "no"
  BY <1>1 DEF CoreInv, ParkInv, States, Runs
<1>3. x.slot = Idle
  BY <1>1 DEF CoreInv, SlotInv, LastIsRunning, States, Work
<1>4. x.session.conflict = 0
  BY <1>1 DEF SessionInv, LastIsRunning, Live
<1>5. Ready(x) /\ x.session.status # "WAIT_WORKFLOW_SELECT"
  BY <1>1, <1>3, <1>4, WaitingReady DEF Final
<1>6. x.run.at \in Nodes \ Agents
  BY <1>5, ReadyBy
<1> QED BY <1>2, <1>5, <1>6 DEF Ready

LEMMA DecideHumanDriven ==
    ASSUME NEW x, CoreInv(x), SessionInv(x), x.run.status = "waiting_human", x.run.parked # "upstream",
           x.nodes[Len(x.nodes)].by = "human", x.nodes[Len(x.nodes)].status = "waiting"
    PROVE  LET i == Len(x.nodes)
               Mark(status) == [x EXCEPT !.nodes[i].status = status]
           IN  /\ Driven(x, Advance(Mark("approved"), x.nodes[i].node))
               /\ Driven(x, GoTo(Mark("revision_requested"), ReworkTarget(x.run.at)))
               /\ Driven(x, Finish(Mark("completed"), "cancelled"))
<1> DEFINE i == Len(x.nodes)
           r(s) == [x.nodes[i] EXCEPT !.status = s]
           Mark(s) == [x EXCEPT !.nodes[i].status = s]
<1>1. /\ Ready(x) /\ x.run.parked = "no" /\ x.run.at \in Nodes \ Agents
      /\ x.nodes[i].node = x.run.at
      /\ x.session.status # "WAIT_WORKFLOW_SELECT"
  BY GateReady
<1>2. \A s \in Outcomes : /\ r(s) \in NodeRun /\ r(s).node = x.run.at
                          /\ r(s).by = x.nodes[i].by /\ Final(r(s).status) /\ r(s).status = s
                          /\ Mark(s) = Put(x, i, r(s))
  BY <1>1, ReadyMark
<1>3. {"approved", "completed", "revision_requested"} \subseteq Outcomes
  BY DEF Outcomes
<1> HIDE DEF Mark, r
<1>4. Driven(x, Advance(Mark("approved"), x.nodes[i].node))
  BY <1>1, <1>2, <1>3, MarkAdvance, GoodIsHandled, HandledIsDriven
<1>5. Driven(x, GoTo(Mark("revision_requested"), ReworkTarget(x.run.at)))
  <2>1. ReworkTarget(x.run.at) \in Nodes /\ ReworkTarget(x.run.at) <= x.run.at
    BY <1>1, ReworkTargetIs, FirstIsAgent DEF Agents
  <2>2. Good(x, GoTo(Mark("revision_requested"), ReworkTarget(x.run.at)))
    BY <1>1, <1>2, <1>3, <2>1, MarkGoTo
  <2> QED BY <1>1, <2>2, GoodIsHandled, HandledIsDriven
<1>6. Driven(x, Finish(Mark("completed"), "cancelled"))
  <2>1. Mark("completed") = Put(x, i, r("completed")) /\ "cancelled" \in {"failed", "cancelled"}
    BY <1>2, <1>3
  <2>2. Good(x, Finish(Put(x, i, r("completed")), "cancelled"))
    BY <1>1, <1>2, <1>3, <2>1, MarkFinish
  <2> QED BY <1>1, <2>1, <2>2, GoodIsHandled, HandledIsDriven
<1> QED BY <1>4, <1>5, <1>6 DEF Mark

\* A parked run waits for its current node run, an Agent's.
LEMMA ParkedReady ==
    ASSUME NEW x, CoreInv(x), SessionInv(x), x.run.parked # "no"
    PROVE  /\ Ready(x) /\ x.session.status # "WAIT_WORKFLOW_SELECT"
           /\ x.run.at \in Agents /\ x.nodes # <<>>
           /\ LastRun(x, x.run.at) = Len(x.nodes)
           /\ Len(x.nodes) \in DOMAIN x.nodes
           /\ x.nodes[Len(x.nodes)] \in NodeRun
           /\ x.nodes[Len(x.nodes)].by = "agent"
           /\ x.nodes[Len(x.nodes)].node = x.run.at
<1>1. /\ x.run.status = "waiting_human" /\ x.slot = Idle /\ x.nodes # <<>>
      /\ x.nodes[Len(x.nodes)].node = x.run.at /\ x.nodes[Len(x.nodes)].by = "agent"
      /\ x.nodes[Len(x.nodes)].status \in {"waiting", "running"}
  BY DEF CoreInv, ParkInv
<1>2. x \in States /\ x.nodes \in Seq(NodeRun) /\ Len(x.nodes) \in DOMAIN x.nodes
  BY <1>1 DEF CoreInv, States
<1>3. x.session.conflict = 0
  BY <1>1 DEF SessionInv
<1>4. Ready(x) /\ x.session.status # "WAIT_WORKFLOW_SELECT"
  BY <1>1, <1>3, WaitingReady DEF Final
<1>5. LastRun(x, x.run.at) = Len(x.nodes)
  BY <1>1, <1>2, LastRunIsLast
<1>6. x.run.at \in Agents
  BY <1>1, <1>4, ReadyBy
<1> QED BY <1>1, <1>2, <1>4, <1>5, <1>6

\* EXECUTING is what a settled state shows.
LEMMA GoodExecuting ==
    ASSUME NEW x \in States, NEW y, Good(x, y)
    PROVE  Driven(x, SetStatus(y, "EXECUTING"))
<1> DEFINE z == SetStatus(y, "EXECUTING")
<1>1. y \in States /\ "EXECUTING" \in Statuses
  BY DEF Good, CoreInv, Statuses
<1>2. Restatus(y, z) /\ z.session.status = "EXECUTING"
  BY <1>1, SetStatusEffect
<1> HIDE DEF z
<1>3. CoreInv(z) /\ Settled(z)
  BY <1>1, <1>2, RestatusCore DEF Good
<1>4. SessionInv(z)
  BY <1>2, <1>3, SettledSession
<1>5. Kept(x.nodes, z.nodes)
  BY <1>2 DEF Restatus, Good, Follows
<1> QED BY <1>2, <1>3, <1>4, <1>5 DEF Driven, z

\* Another state of the run, at the same node.
LEMMA RerunReady ==
    ASSUME NEW x, Ready(x), NEW R \in Runs, R.status = "running", R.at = x.run.at
    PROVE  LET y == [x EXCEPT !.run = R]
           IN  Ready(y) /\ y.run = R /\ y.nodes = x.nodes /\ y \in States /\ Follows(x, y)
<1> DEFINE y == [x EXCEPT !.run = R]
<1>1. x \in States
  BY DEF Ready
<1>2. /\ y \in States
      /\ y.run = R /\ y.nodes = x.nodes /\ y.context = x.context /\ y.slot = x.slot
      /\ y.superseded = x.superseded /\ y.session = x.session
  BY <1>1 DEF States
<1> HIDE DEF y
<1>3. Live(y) /\ LiveInv(y)
  BY <1>2 DEF Live, LiveInv, Ready
<1>4. Ready(y)
  BY <1>2, <1>3 DEF Ready, Indexed
<1>5. Follows(x, y)
  BY <1>1, <1>2, FollowsSelf DEF Follows
<1> QED BY <1>2, <1>4, <1>5 DEF y

\* The node run is used again.
LEMMA ReusedReady ==
    ASSUME NEW x, Ready(x), NEW r \in NodeRun, r.node = x.run.at,
           r.by = x.nodes[Len(x.nodes)].by, r.by # "human", r.status = "running"
    PROVE  LET y == Put(x, Len(x.nodes), r)
           IN  /\ Ready(y) /\ y.run = x.run /\ LastIsRunning(y.nodes) /\ Len(y.nodes) = Len(x.nodes)
               /\ y \in States /\ Follows(x, y)
<1> DEFINE n == Len(x.nodes)
           y == Put(x, n, r)
<1>1. x \in States /\ x.nodes \in Seq(NodeRun) /\ n \in DOMAIN x.nodes
  BY DEF Ready, States
<1>2. /\ y \in States
      /\ y.run = x.run /\ y.context = x.context /\ y.slot = x.slot
      /\ y.superseded = x.superseded /\ y.session = x.session
      /\ Marked(x.nodes, y.nodes)
      /\ Len(y.nodes) = n /\ DOMAIN y.nodes = DOMAIN x.nodes
      /\ y.nodes[n] = r /\ \A j \in DOMAIN x.nodes : j # n => y.nodes[j] = x.nodes[j]
  <2>1. r.node = x.nodes[n].node /\ r.by = x.nodes[n].by /\ ~Final(x.nodes[n].status)
    BY DEF Ready
  <2> QED BY <1>1, <2>1, MarkEffect
<1> HIDE DEF y
<1>3. y.nodes \in Seq(NodeRun) /\ y.nodes # <<>>
  BY <1>1, <1>2 DEF States
<1>4. Kept(x.nodes, y.nodes) /\ ByInv(y.nodes) /\ Clear(y.nodes, x.run.at)
  BY <1>1, <1>2, <1>3, MarkedKeeps DEF Ready, LiveInv
<1>5. Live(y) /\ LiveInv(y) /\ LastIsRunning(y.nodes)
  BY <1>2, <1>3, <1>4 DEF Live, LiveInv, Ready, LastIsRunning
<1>6. Ready(y)
  BY <1>2, <1>3, <1>4, <1>5 DEF Ready, Indexed, Final
<1>7. Follows(x, y)
  BY <1>1, <1>2, <1>4, FollowsSelf DEF Follows
<1> QED BY <1>2, <1>5, <1>6, <1>7 DEF y

LEMMA SubstituteDriven ==
    ASSUME NEW x, CoreInv(x), SessionInv(x), x.run.parked = "substitution"
    PROVE  LET i == LastRun(x, x.run.at)
           IN  Driven(x, SetStatus(Launch([x EXCEPT !.run.status = "running", !.run.parked = "no",
                                                    !.run.card = FALSE, !.nodes[i].status = "running",
                                                    !.nodes[i].task = "open"], i), "EXECUTING"))
<1> DEFINE n == Len(x.nodes)
           r == [x.nodes[n] EXCEPT !.status = "running", !.task = "open"]
           R == [x.run EXCEPT !.status = "running", !.parked = "no", !.card = FALSE]
           v == [x EXCEPT !.run = R]
           w == Put(v, n, r)
           u == [x EXCEPT !.run.status = "running", !.run.parked = "no", !.run.card = FALSE,
                          !.nodes[n].status = "running", !.nodes[n].task = "open"]
<1>1. /\ Ready(x) /\ x.session.status # "WAIT_WORKFLOW_SELECT"
      /\ LastRun(x, x.run.at) = n /\ n \in DOMAIN x.nodes /\ x.nodes[n] \in NodeRun
      /\ x.nodes[n].by = "agent" /\ x.nodes[n].node = x.run.at
  BY ParkedReady
<1>2. x \in States /\ x.nodes \in Seq(NodeRun) /\ x.run \in Runs
  BY <1>1 DEF Ready, States
<1>3. R \in Runs /\ R.status = "running" /\ R.at = x.run.at /\ R.parked = "no"
  BY <1>2 DEF Runs
<1>4. r \in NodeRun /\ r.node = x.nodes[n].node /\ r.by = x.nodes[n].by /\ r.status = "running"
  <2> DEFINE last == x.nodes[n]
  <2>1. last \in NodeRun /\ r = [last EXCEPT !.status = "running", !.task = "open"]
    BY <1>1
  <2> HIDE DEF last, r
  <2>2. r \in NodeRun /\ r.node = last.node /\ r.by = last.by /\ r.status = "running"
    BY <2>1 DEF NodeRun
  <2> QED BY <2>2 DEF last
<1>5. u = w
  <2>1. u = [v EXCEPT !.nodes[n].status = "running", !.nodes[n].task = "open"]
    BY <1>2 DEF States
  <2>2. v.nodes = x.nodes /\ v \in States
    BY <1>2, <1>3 DEF States
  <2> HIDE DEF v, u
  <2>3. [v EXCEPT !.nodes[n].status = "running", !.nodes[n].task = "open"]
            = [v EXCEPT !.nodes[n] = [v.nodes[n] EXCEPT !.status = "running", !.task = "open"]]
    BY <1>1, <2>2 DEF States
  <2> QED BY <2>1, <2>2, <2>3 DEF Put
<1> HIDE DEF R, r, u
<1>6. Ready(v) /\ v.run = R /\ v.nodes = x.nodes /\ v \in States /\ Follows(x, v)
  BY <1>1, <1>3, RerunReady
<1> HIDE DEF v
<1>7. /\ Ready(w) /\ w.run = v.run /\ LastIsRunning(w.nodes) /\ Len(w.nodes) = n
      /\ w \in States /\ Follows(v, w)
  BY <1>1, <1>3, <1>4, <1>6, ReusedReady
<1> HIDE DEF w
<1>8. Good(w, Launch(w, n))
  BY <1>3, <1>6, <1>7, Launched
<1>9. Driven(w, SetStatus(Launch(w, n), "EXECUTING"))
  BY <1>7, <1>8, GoodExecuting
<1>10. Driven(x, SetStatus(Launch(w, n), "EXECUTING"))
  BY <1>2, <1>6, <1>7, <1>9, DrivenAfter
<1> QED BY <1>1, <1>5, <1>10 DEF u

LEMMA SkipDriven ==
    ASSUME NEW x, CoreInv(x), SessionInv(x), x.run.parked = "substitution"
    PROVE  LET i == LastRun(x, x.run.at)
               y == Advance([x EXCEPT !.run = [ NoRun EXCEPT !.status = "running", !.at = x.run.at ],
                                      !.nodes[i].status = "skipped", !.nodes[i].task = "ended"], x.run.at)
           IN  Driven(x, y) /\ Driven(x, SetStatus(y, "EXECUTING"))
<1> DEFINE n == Len(x.nodes)
           r == [x.nodes[n] EXCEPT !.status = "skipped", !.task = "ended"]
           R == [ NoRun EXCEPT !.status = "running", !.at = x.run.at ]
           v == [x EXCEPT !.run = R]
           w == Put(v, n, r)
           u == [x EXCEPT !.run = R, !.nodes[n].status = "skipped", !.nodes[n].task = "ended"]
           y == Advance(w, x.run.at)
<1>1. /\ Ready(x) /\ x.session.status # "WAIT_WORKFLOW_SELECT" /\ x.run.at \in Agents
      /\ LastRun(x, x.run.at) = n /\ n \in DOMAIN x.nodes /\ x.nodes[n] \in NodeRun
      /\ x.nodes[n].by = "agent" /\ x.nodes[n].node = x.run.at
  BY ParkedReady
<1>2. x \in States /\ x.nodes \in Seq(NodeRun) /\ x.run \in Runs
  BY <1>1 DEF Ready, States
<1>3. R \in Runs /\ R.status = "running" /\ R.at = x.run.at /\ R.parked = "no"
  BY <1>2 DEF Runs, NoRun
<1>4. r \in NodeRun /\ r.node = x.nodes[n].node /\ r.by = x.nodes[n].by /\ r.status = "skipped"
  <2> DEFINE last == x.nodes[n]
  <2>1. last \in NodeRun /\ r = [last EXCEPT !.status = "skipped", !.task = "ended"]
    BY <1>1
  <2> HIDE DEF last, r
  <2>2. r \in NodeRun /\ r.node = last.node /\ r.by = last.by /\ r.status = "skipped"
    BY <2>1 DEF NodeRun
  <2> QED BY <2>2 DEF last
<1> HIDE DEF R
<1>5. u = w
  <2>1. u = [v EXCEPT !.nodes[n].status = "skipped", !.nodes[n].task = "ended"]
    BY <1>2 DEF States
  <2>2. v.nodes = x.nodes /\ v \in States
    BY <1>2, <1>3 DEF States
  <2> HIDE DEF v, u
  <2>3. [v EXCEPT !.nodes[n].status = "skipped", !.nodes[n].task = "ended"]
            = [v EXCEPT !.nodes[n] = [v.nodes[n] EXCEPT !.status = "skipped", !.task = "ended"]]
    BY <1>1, <2>2 DEF States
  <2> QED BY <2>1, <2>2, <2>3 DEF Put
<1> HIDE DEF r, u
<1>6. Ready(v) /\ v.run = R /\ v.nodes = x.nodes /\ v \in States /\ Follows(x, v)
  BY <1>1, <1>3, RerunReady
<1> HIDE DEF v
<1>7. Good(v, y)
  <2>1. r.node = v.run.at /\ r.by = v.nodes[Len(v.nodes)].by /\ Final(r.status) /\ v.run.at \in Agents
        /\ n = Len(v.nodes) /\ x.run.at = v.run.at
    BY <1>1, <1>3, <1>4, <1>6 DEF Final
  <2> QED BY <1>4, <1>6, <2>1, MarkAdvance
<1>8. Good(x, y)
  BY <1>2, <1>6, <1>7, GoodAfter
<1> HIDE DEF y
<1>9. Driven(x, y) /\ Driven(x, SetStatus(y, "EXECUTING"))
  BY <1>1, <1>2, <1>8, GoodExecuting, GoodIsHandled, HandledIsDriven
<1> QED BY <1>1, <1>5, <1>9 DEF u, y, R

LEMMA AnswerUpstreamDriven ==
    ASSUME NEW x, CoreInv(x), SessionInv(x), x.run.parked = "upstream",
           NEW m \in {a \in Agents : a < x.run.at} \cup {x.run.at}
    PROVE  LET y == GoTo(CloseParked(x, LastRun(x, x.run.at)), m)
           IN  Driven(x, y) /\ Driven(x, SetStatus(y, "EXECUTING"))
<1> DEFINE n == Len(x.nodes)
           r == [x.nodes[n] EXCEPT !.status = "revision_requested", !.task = "ended"]
           y == GoTo(Put(x, n, r), m)
<1>1. /\ Ready(x) /\ x.session.status # "WAIT_WORKFLOW_SELECT" /\ x.run.at \in Agents
      /\ LastRun(x, x.run.at) = n /\ n \in DOMAIN x.nodes /\ x.nodes[n] \in NodeRun
      /\ x.nodes[n].node = x.run.at
  BY ParkedReady
<1>2. x \in States /\ x.nodes \in Seq(NodeRun)
  BY <1>1 DEF Ready, States
<1>3. r \in NodeRun /\ r.node = x.nodes[n].node /\ r.by = x.nodes[n].by /\ r.status = "revision_requested"
  <2> DEFINE last == x.nodes[n]
  <2>1. last \in NodeRun /\ r = [last EXCEPT !.status = "revision_requested", !.task = "ended"]
    BY <1>1
  <2> HIDE DEF last, r
  <2>2. r \in NodeRun /\ r.node = last.node /\ r.by = last.by /\ r.status = "revision_requested"
    BY <2>1 DEF NodeRun
  <2> QED BY <2>2 DEF last
<1>4. CloseParked(x, n) = Put(x, n, r)
  <2>1. CloseParked(x, n) = [x EXCEPT !.nodes[n].status = "revision_requested", !.nodes[n].task = "ended"]
    BY DEF CloseParked
  <2> QED BY <1>1, <1>2, <2>1 DEF Put, States
<1> HIDE DEF r
<1>5. m \in Nodes /\ m <= x.run.at
  BY <1>1, FirstIsAgent DEF Agents
<1>6. Good(x, y)
  BY <1>1, <1>3, <1>5, MarkGoTo DEF Final
<1> HIDE DEF y
<1>7. Driven(x, y) /\ Driven(x, SetStatus(y, "EXECUTING"))
  BY <1>1, <1>2, <1>6, GoodExecuting, GoodIsHandled, HandledIsDriven
<1> QED BY <1>1, <1>4, <1>7 DEF y

-----------------------------------------------------------------------------
(* A resume of the Session.                                                *)

\* A command that only changes the status of the Session, to one that is not EXECUTING.
LEMMA StatusDriven ==
    ASSUME NEW x, CoreInv(x), NEW s \in Statuses \ {"WAIT_WORKFLOW_SELECT", "PAUSED", "EXECUTING"},
           x.session.conflict # 0 => x.run.status = "cancelled",
           x.session.reworks > MaxReworks => x.run.status = "completed" /\ x.slot = Idle
    PROVE  Driven(x, SetStatus(x, s))
<1> DEFINE y == SetStatus(x, s)
<1>1. x \in States
  BY DEF CoreInv
<1>2. Restatus(x, y) /\ y.session.status = s
  BY <1>1, SetStatusEffect
<1> HIDE DEF y
<1>3. y.session.conflict = x.session.conflict /\ y.session.reworks = x.session.reworks
  BY <1>1, <1>2 DEF Restatus, States, Sessions
<1>4. CoreInv(y) /\ Kept(x.nodes, y.nodes)
  BY <1>1, <1>2, RestatusCore
<1>5. SessionInv(y)
  BY <1>2, <1>3 DEF SessionInv, Restatus
<1> QED BY <1>2, <1>4, <1>5 DEF Driven, y

LEMMA RedriveDriven ==
    ASSUME NEW x, CoreInv(x), x.session.status = "EXECUTING",
           x.session.conflict # 0 => x.run.status = "cancelled",
           x.session.reworks > MaxReworks => x.run.status = "completed" /\ x.slot = Idle
    PROVE  /\ Driven(x, Redrive(x))
           /\ Redrive(x).session.status \notin {"WAIT_WORKFLOW_SELECT", "PAUSED"}
<1> DEFINE y == [x EXCEPT !.context = TRUE]
           i == LastRun(y, y.run.at)
           Fail(z) == SetStatus(z, "FAILED")
<1> SUFFICES Driven(x, Redrive(x))
  BY DEF Driven
<1>1. x \in States /\ x.nodes \in Seq(NodeRun) /\ x.run \in Runs
      /\ "FAILED" \in Statuses \ {"WAIT_WORKFLOW_SELECT", "PAUSED", "EXECUTING"}
  BY DEF CoreInv, States, Statuses
<1>2. /\ y \in States
      /\ y.run = x.run /\ y.nodes = x.nodes /\ y.context = TRUE /\ y.slot = x.slot
      /\ y.superseded = x.superseded /\ y.session = x.session
  BY <1>1 DEF States
<1>3. CoreInv(y) /\ Kept(x.nodes, y.nodes)
  <2>1. Indexed(y) /\ SameRun(x, y) /\ Alike(x.nodes, y.nodes) /\ Goes(x, y)
    BY <1>1, <1>2 DEF CoreInv, Indexed, SameRun, Alike, Goes
  <2> QED BY <1>2, <2>1, CalmCore
<1> HIDE DEF y
<1>4. \A z : Driven(y, z) => Driven(x, z)
  BY <1>2 DEF Driven
<1>5. Driven(x, Fail(x)) /\ Driven(x, Fail(y))
  <2>1. Driven(x, Fail(x))
    BY <1>1, StatusDriven
  <2>2. Driven(y, Fail(y))
    BY <1>1, <1>2, <1>3, StatusDriven
  <2> QED BY <1>4, <2>1, <2>2
<1>6. Redrive(x) = IF ~x.session.open THEN x
                   ELSE IF Busy(x) \/ AwaitsDecision(x) THEN Fail(x)
                   ELSE IF y.run.status = "failed" THEN GoTo(FailNode(y), y.run.at)
                   ELSE IF Ended(y) \/ i = 0 THEN Fail(y)
                   ELSE IF y.nodes[i].status # "running" \/ y.nodes[i].task = "none" THEN Fail(y)
                   ELSE Launch([y EXCEPT !.nodes[i].task = "open"], i)
  BY DEF Redrive, y
<1> HIDE DEF i
<1>7. CASE ~x.session.open
  <2>1. SessionInv(x)
    BY <1>7 DEF SessionInv
  <2>2. Driven(x, x)
    BY <1>1, <2>1 DEF Driven, Kept
  <2> QED BY <1>6, <1>7, <2>2
<1>8. CASE x.session.open /\ (Busy(x) \/ AwaitsDecision(x))
  BY <1>5, <1>6, <1>8
<1>9. CASE x.session.open /\ ~Busy(x) /\ ~AwaitsDecision(x) /\ y.run.status = "failed"
  <2> DEFINE v == FailNode(y)
             z == GoTo(v, y.run.at)
  <2>1. x.slot = Idle /\ ~(x.session.reworks > MaxReworks) /\ x.session.conflict = 0
    BY <1>2, <1>9 DEF Busy, CoreInv, SlotInv
  <2>2. NoneRunning(y.nodes) /\ y.run.at \in Nodes /\ Clear(y.nodes, y.run.at)
        /\ (y.nodes = <<>> => y.run.at = 1)
    BY <1>3, <1>9, FirstIsAgent DEF CoreInv, EndInv
  <2>3. /\ v \in States
        /\ v.run = y.run /\ v.context = y.context /\ v.slot = y.slot
        /\ v.superseded = y.superseded /\ v.session = y.session
        /\ Marked(y.nodes, v.nodes) /\ NoneRunning(v.nodes)
    BY <1>2, <2>2, FailNodeEffect DEF NoneRunning
  <2> HIDE DEF v
  <2>4. v.nodes \in Seq(NodeRun)
    BY <2>3 DEF States
  <2>5. Kept(y.nodes, v.nodes) /\ ByInv(v.nodes) /\ Clear(v.nodes, y.run.at)
        /\ DOMAIN y.nodes = DOMAIN v.nodes /\ Len(v.nodes) = Len(y.nodes)
    BY <1>1, <1>2, <1>3, <2>2, <2>3, <2>4, MarkedKeeps DEF CoreInv, Marked
  <2>6. Fresh(v)
    BY <1>2, <1>3, <2>1, <2>3, <2>5 DEF Fresh, Indexed, CoreInv
  <2>7. v.nodes = <<>> => y.run.at = 1
    BY <1>1, <1>2, <2>2, <2>4, <2>5
  <2>8. Good(v, z)
    BY <1>2, <2>2, <2>3, <2>5, <2>6, <2>7, GoToCore DEF Good
  <2>9. Follows(y, v)
    BY <1>2, <2>3, <2>5, FollowsSelf DEF Follows
  <2>10. v.session.status # "WAIT_WORKFLOW_SELECT"
    BY <1>2, <2>3
  <2>11. Driven(v, z)
    BY <2>8, <2>10, GoodIsHandled, HandledIsDriven
  <2>12. Driven(x, z)
    BY <1>2, <1>4, <2>3, <2>9, <2>11, DrivenAfter
  <2>13. Redrive(x) = z
    BY <1>6, <1>9 DEF v
  <2> QED BY <2>12, <2>13
<1>10. CASE /\ x.session.open /\ ~Busy(x) /\ ~AwaitsDecision(x) /\ y.run.status # "failed"
            /\ Ended(y) \/ i = 0 \/ y.nodes[i].status # "running" \/ y.nodes[i].task = "none"
  BY <1>5, <1>6, <1>10
<1>11. CASE /\ x.session.open /\ ~Busy(x) /\ ~AwaitsDecision(x) /\ y.run.status # "failed"
            /\ ~(Ended(y) \/ i = 0 \/ y.nodes[i].status # "running" \/ y.nodes[i].task = "none")
  <2> DEFINE v == [y EXCEPT !.nodes[i].task = "open"]
             z == Launch(v, i)
  <2>1. x.slot = Idle
    BY <1>11 DEF Busy, CoreInv, SlotInv
  <2>2. i \in DOMAIN y.nodes
    <3>1. i \in 0 .. Len(y.nodes)
      BY <1>2, LastRunIs DEF i
    <3> QED BY <1>1, <1>2, <1>11, <3>1
  <2>3. Live(y)
    <3>1. y.run.status # "none"
      BY <1>3, <2>2 DEF CoreInv, EndInv
    <3> QED BY <1>1, <1>2, <1>11, <3>1 DEF Runs, Live, Ended
  <2>4. i = Len(y.nodes) /\ y.nodes[i].node = y.run.at /\ y.nodes # <<>> /\ ~Final(y.nodes[i].status)
    BY <1>3, <1>11, <2>2, <2>3 DEF CoreInv, LiveInv, Final
  <2>5. y.run.parked = "no"
    BY <1>2, <1>11, <2>3 DEF AwaitsDecision, Live
  <2>6. Ready(y)
    BY <1>2, <1>3, <2>1, <2>3, <2>4 DEF Ready, CoreInv, Live
  <2>7. /\ v \in States
        /\ v.run = y.run /\ v.context = y.context /\ v.slot = y.slot
        /\ v.superseded = y.superseded /\ v.session = y.session
        /\ Alike(y.nodes, v.nodes)
    BY <1>2, <2>2, TaskEffect DEF Tasks
  <2> HIDE DEF v
  <2>8. v.nodes \in Seq(NodeRun) /\ SameRun(y, v)
    BY <2>7 DEF States, SameRun
  <2>9. Indexed(v) /\ Len(v.nodes) = i /\ LastIsRunning(y.nodes) /\ LastIsRunning(v.nodes) /\ Kept(y.nodes, v.nodes)
    BY <1>1, <1>2, <1>3, <1>11, <2>4, <2>7, <2>8, AlikeClear DEF LastIsRunning, CoreInv, Indexed, Alike
  <2>10. Ready(v)
    BY <1>2, <2>1, <2>6, <2>7, <2>8, <2>9, AlikeReady
  <2>11. Good(v, z)
    BY <2>5, <2>7, <2>9, <2>10, Launched
  <2>12. Follows(y, v)
    BY <1>2, <2>7, <2>9, FollowsSelf DEF Follows
  <2>13. Driven(v, z)
    BY <1>2, <2>7, <2>11, GoodIsHandled, HandledIsDriven
  <2>14. Driven(x, z)
    BY <1>2, <1>4, <2>7, <2>12, <2>13, DrivenAfter
  <2>15. Redrive(x) = z
    <3>1. /\ x.session.open /\ ~(Busy(x) \/ AwaitsDecision(x)) /\ y.run.status # "failed"
          /\ ~(Ended(y) \/ i = 0) /\ ~(y.nodes[i].status # "running" \/ y.nodes[i].task = "none")
      BY <1>11
    <3>2. Redrive(x) = Launch([y EXCEPT !.nodes[i].task = "open"], i)
      BY ONLY <1>6, <3>1, Zenon
    <3> QED BY <3>2 DEF v
  <2> QED BY <2>14, <2>15
<1> QED BY <1>7, <1>8, <1>9, <1>10, <1>11

-----------------------------------------------------------------------------
(* A held writeback.                                                       *)

\* A run under way whose writeback is no longer held.
LEMMA ReleasedReady ==
    ASSUME NEW x, CoreInv(x), SessionInv(x), x.session.conflict # 0, Live(x)
    PROVE  LET y == SetStatus([x EXCEPT !.session.conflict = 0], "EXECUTING")
           IN  /\ Ready(y) /\ y.run.parked = "no" /\ LastIsRunning(y.nodes)
               /\ x.session.conflict = Len(y.nodes)
<1> DEFINE S == [x.session EXCEPT !.conflict = 0, !.status = "EXECUTING"]
           y == SetStatus([x EXCEPT !.session.conflict = 0], "EXECUTING")
<1>1. x \in States /\ x.nodes \in Seq(NodeRun) /\ x.session \in Sessions
  BY DEF CoreInv, States
<1>2. y = [x EXCEPT !.session = S]
  BY <1>1 DEF SetStatus, States
<1>3. S \in Sessions /\ S.conflict = 0 /\ S.reworks = x.session.reworks
  BY <1>1 DEF Sessions, Statuses
<1> HIDE DEF S, y
<1>4. /\ y \in States
      /\ y.run = x.run /\ y.nodes = x.nodes /\ y.slot = x.slot
      /\ y.superseded = x.superseded /\ y.session = S
  BY <1>1, <1>2, <1>3 DEF States
<1>5. /\ x.run.parked = "no" /\ x.slot = Idle /\ x.session.conflict = Len(x.nodes)
      /\ LastIsRunning(x.nodes) /\ ~(x.session.reworks > MaxReworks)
  BY DEF SessionInv, Live
<1>6. Live(y) /\ LiveInv(y) /\ Indexed(y) /\ ByInv(y.nodes)
  BY <1>3, <1>4 DEF CoreInv, Live, LiveInv, Indexed
<1>7. /\ y.nodes # <<>> /\ ~Final(y.nodes[Len(y.nodes)].status)
      /\ y.nodes[Len(y.nodes)].node = y.run.at
  <2>1. Len(y.nodes) \in DOMAIN y.nodes /\ y.nodes # <<>> /\ y.nodes[Len(y.nodes)].status = "running"
    BY <1>1, <1>4, <1>5 DEF LastIsRunning
  <2> QED BY <1>6, <2>1 DEF LiveInv, Final
<1>8. Ready(y)
  BY <1>3, <1>4, <1>5, <1>6, <1>7 DEF Ready
<1> QED BY <1>4, <1>5, <1>8 DEF y

\* The effect of releasing it, whatever the run is.
LEMMA ReleasedCore ==
    ASSUME NEW x, CoreInv(x), SessionInv(x), x.session.conflict # 0
    PROVE  LET y == SetStatus([x EXCEPT !.session.conflict = 0], "EXECUTING")
           IN  /\ y \in States /\ CoreInv(y) /\ y.nodes = x.nodes /\ y.run = x.run /\ y.slot = x.slot
               /\ y.session.status = "EXECUTING" /\ y.session.conflict = 0
               /\ ~(y.session.reworks > MaxReworks)
               /\ x.session.conflict \in DOMAIN x.nodes
<1> DEFINE S == [x.session EXCEPT !.conflict = 0, !.status = "EXECUTING"]
           y == SetStatus([x EXCEPT !.session.conflict = 0], "EXECUTING")
<1>1. x \in States /\ x.nodes \in Seq(NodeRun) /\ x.session \in Sessions
  BY DEF CoreInv, States
<1>2. y = [x EXCEPT !.session = S]
  BY <1>1 DEF SetStatus, States
<1>3. S \in Sessions /\ S.conflict = 0 /\ S.reworks = x.session.reworks /\ S.status = "EXECUTING"
  BY <1>1 DEF Sessions, Statuses
<1> HIDE DEF S, y
<1>4. /\ y \in States
      /\ y.run = x.run /\ y.nodes = x.nodes /\ y.context = x.context /\ y.slot = x.slot
      /\ y.superseded = x.superseded /\ y.session = S
  BY <1>1, <1>2, <1>3 DEF States
<1>5. CoreInv(y)
  <2>1. Indexed(y) /\ SameRun(x, y) /\ Alike(x.nodes, y.nodes) /\ Goes(x, y)
    BY <1>1, <1>3, <1>4 DEF CoreInv, Indexed, SameRun, Alike, Goes
  <2> QED BY <1>4, <2>1, CalmCore
<1>6. ~(x.session.reworks > MaxReworks)
  BY DEF SessionInv, Live
<1>7. x.session.conflict \in DOMAIN x.nodes
  BY <1>1 DEF CoreInv, Indexed, Sessions
<1> QED BY <1>3, <1>4, <1>5, <1>6, <1>7 DEF y

LEMMA AcceptOutcomeDriven ==
    ASSUME NEW x, Ready(x), x.run.parked = "no", LastIsRunning(x.nodes),
           x.session.status # "WAIT_WORKFLOW_SELECT"
    PROVE  Driven(x, AcceptOutcome(x))
<1> DEFINE running == {i \in DOMAIN x.nodes : x.nodes[i].status = "running"}
           n == Len(x.nodes)
<1>1. x.nodes \in Seq(NodeRun) /\ n \in DOMAIN x.nodes /\ n \in Nat
  BY DEF Ready, States
<1>2. running = {n} /\ x.nodes[n].by # "human"
  BY <1>1 DEF Ready, LiveInv, LastIsRunning
<1>3. Max(running) = n
  BY <1>1, <1>2, MaxOne
<1>4. ~Ended(x)
  BY DEF Ready, Live, Ended, Terminal
<1>5. AcceptOutcome(x) = IF Accepts(x, n) THEN CompleteNode(x, n) ELSE x
  <2>1. AcceptOutcome(x) = IF Ended(x) \/ running = {} THEN x
                           ELSE IF Accepts(x, Max(running)) THEN CompleteNode(x, Max(running)) ELSE x
    BY DEF AcceptOutcome
  <2> QED BY <1>2, <1>3, <1>4, <2>1
<1>6. CASE Accepts(x, n)
  <2>1. Good(x, CompleteNode(x, n))
    BY <1>2, CompleteNodeGood
  <2> QED BY <1>5, <1>6, <2>1, GoodIsHandled, HandledIsDriven
<1>7. CASE ~Accepts(x, n)
  <2>1. ~x.session.open
    BY <1>4, <1>7 DEF Accepts, LastIsRunning
  <2>2. Driven(x, x)
    BY <2>1, ReadyRests, HandledIsDriven
  <2> QED BY <1>5, <1>7, <2>2
<1> QED BY <1>6, <1>7

LEMMA ResolveConflictDriven ==
    ASSUME NEW x, CoreInv(x), SessionInv(x), x.session.conflict # 0
    PROVE  LET i == x.session.conflict
               y == SetStatus([x EXCEPT !.session.conflict = 0], "EXECUTING")
           IN  /\ Driven(x, AcceptOutcome([y EXCEPT !.nodes[i].task = "ended"]))
               /\ Driven(x, Redrive(y))
               /\ Driven(x, Redrive([y EXCEPT !.nodes[i].task = "open"]))
<1> DEFINE i == x.session.conflict
           y == SetStatus([x EXCEPT !.session.conflict = 0], "EXECUTING")
           v(t) == [y EXCEPT !.nodes[i].task = t]
<1>1. /\ y \in States /\ CoreInv(y) /\ y.nodes = x.nodes /\ y.run = x.run /\ y.slot = x.slot
      /\ y.session.status = "EXECUTING" /\ y.session.conflict = 0
      /\ ~(y.session.reworks > MaxReworks)
      /\ i \in DOMAIN x.nodes
  BY ReleasedCore
<1>2. x.nodes \in Seq(NodeRun)
  BY DEF CoreInv, States
<1>3. Live(x) => Ready(y) /\ y.run.parked = "no" /\ LastIsRunning(y.nodes)
  BY ReleasedReady
<1>4. ~Live(x) => x.run.status = "cancelled"
  BY DEF SessionInv
<1> HIDE DEF y, i
<1>5. \A z : Driven(y, z) => Driven(x, z)
  BY <1>1 DEF Driven
<1>6. ASSUME NEW t \in Tasks
      PROVE  /\ v(t) \in States /\ v(t).run = y.run /\ v(t).session = y.session /\ v(t).slot = y.slot
             /\ v(t).context = y.context /\ v(t).superseded = y.superseded
             /\ Alike(y.nodes, v(t).nodes)
             /\ CoreInv(v(t)) /\ Kept(y.nodes, v(t).nodes)
             /\ Follows(y, v(t))
  <2> DEFINE w == v(t)
  <2>1. /\ w \in States
        /\ w.run = y.run /\ w.context = y.context /\ w.slot = y.slot
        /\ w.superseded = y.superseded /\ w.session = y.session
        /\ Alike(y.nodes, w.nodes)
    BY <1>1, TaskEffect
  <2> HIDE DEF v
  <2>2. w.nodes \in Seq(NodeRun) /\ SameRun(y, w) /\ Goes(y, w)
    BY <2>1 DEF States, SameRun, Goes
  <2>3. DOMAIN w.nodes = DOMAIN y.nodes /\ Len(w.nodes) = Len(y.nodes)
    BY <1>1, <1>2, <2>1, <2>2, AlikeClear DEF Alike
  <2>4. Indexed(w)
    BY <1>1, <2>1, <2>3 DEF CoreInv, Indexed
  <2>5. CoreInv(w) /\ Kept(y.nodes, w.nodes)
    BY <1>1, <2>1, <2>2, <2>4, CalmCore
  <2>6. Follows(y, w)
    BY <1>1, <2>1, <2>5, FollowsSelf DEF Follows
  <2> QED BY <2>1, <2>5, <2>6
<1>7. "ended" \in Tasks /\ "open" \in Tasks
  BY DEF Tasks
<1> HIDE DEF v
<1>8. Driven(x, Redrive(y))
  BY <1>1, <1>5, RedriveDriven
<1>9. Driven(x, Redrive(v("open")))
  <2>1. Driven(v("open"), Redrive(v("open")))
    BY <1>1, <1>6, <1>7, RedriveDriven
  <2> QED BY <1>1, <1>5, <1>6, <1>7, <2>1, DrivenAfter
<1>10. Driven(x, AcceptOutcome(v("ended")))
  <2> DEFINE w == v("ended")
  <2>1. /\ w \in States /\ w.run = y.run /\ w.session = y.session /\ w.slot = y.slot
        /\ Alike(y.nodes, w.nodes) /\ CoreInv(w) /\ Follows(y, w)
    BY <1>6, <1>7
  <2>2. w.nodes \in Seq(NodeRun) /\ SameRun(y, w)
    BY <2>1 DEF States, SameRun
  <2>3. Driven(w, AcceptOutcome(w))
    <3>1. CASE Live(x)
      <4>1. Ready(y) /\ y.run.parked = "no" /\ LastIsRunning(y.nodes) /\ y.slot = Idle
        BY <1>3, <3>1 DEF Ready
      <4>2. Ready(w)
        BY <2>1, <2>2, <4>1, AlikeReady DEF CoreInv
      <4>3. LastIsRunning(w.nodes)
        BY <1>1, <1>2, <2>1, <2>2, <4>1, AlikeClear
      <4> QED BY <1>1, <2>1, <4>1, <4>2, <4>3, AcceptOutcomeDriven
    <3>2. CASE ~Live(x)
      <4>1. w.run.status = "cancelled"
        BY <1>1, <1>4, <2>1, <3>2
      <4>2. AcceptOutcome(w) = w
        BY <4>1 DEF AcceptOutcome, Ended, Terminal
      <4>3. SessionInv(w)
        BY <1>1, <2>1, <4>1 DEF SessionInv, Live
      <4> QED BY <2>1, <4>2, <4>3, FollowsSelf DEF Driven, Follows
    <3> QED BY <3>1, <3>2
  <2> QED BY <1>1, <1>5, <2>1, <2>3, DrivenAfter
<1> QED BY <1>8, <1>9, <1>10 DEF v, y, i

-----------------------------------------------------------------------------
(* Controls of the Session.                                                *)

LEMMA AbortEffect ==
    ASSUME NEW x \in States, NEW why \in Aborts \ {"no"}
    PROVE  LET y == Abort(x, why)
           IN  /\ y \in States
               /\ y.run = x.run /\ y.nodes = x.nodes /\ y.context = x.context
               /\ y.superseded = x.superseded /\ y.session = x.session
               /\ y.slot.work = x.slot.work /\ y.slot.nodeRun = x.slot.nodeRun
               /\ x.slot.work # "idle" => y.slot.abort # "no"
               /\ x.slot = Idle => y.slot = Idle
               /\ y.slot.abort \in {x.slot.abort, why}
               /\ Goes(x, y)
<1> DEFINE s == [x.slot EXCEPT !.abort = why]
           v == [x EXCEPT !.slot = s]
           y == Abort(x, why)
<1>1. x.slot \in [ work : Work, nodeRun : Nat, abort : Aborts ]
  BY DEF States
<1>2. s \in [ work : Work, nodeRun : Nat, abort : Aborts ]
      /\ s.work = x.slot.work /\ s.nodeRun = x.slot.nodeRun /\ s.abort = why
  BY <1>1
<1>3. CASE Busy(x) /\ x.slot.abort = "no"
  <2>1. y = v
    BY <1>3 DEF Abort, States
  <2> HIDE DEF y, s
  <2>2. /\ y \in States
        /\ y.run = x.run /\ y.nodes = x.nodes /\ y.context = x.context /\ y.slot = s
        /\ y.superseded = x.superseded /\ y.session = x.session
    BY <1>2, <2>1 DEF States
  <2> QED BY <1>2, <1>3, <2>2 DEF Busy, Goes, Idle, y
<1>4. CASE ~(Busy(x) /\ x.slot.abort = "no")
  <2>1. y = x
    BY <1>4 DEF Abort
  <2> HIDE DEF y
  <2> QED BY <1>4, <2>1 DEF Busy, Goes, y
<1> QED BY <1>3, <1>4

LEMMA RescheduleDriven ==
    ASSUME NEW x, CoreInv(x), SessionInv(x), Busy(x), Live(x), x.session.status = "EXECUTING",
           LastRun(x, x.run.at) # 0
    PROVE  Driven(x, [Abort(x, "superseded") EXCEPT !.superseded = @ \cup {LastRun(x, x.run.at)}])
<1> DEFINE i == LastRun(x, x.run.at)
           v == Abort(x, "superseded")
           y == [v EXCEPT !.superseded = @ \cup {i}]
<1>1. x \in States /\ x.nodes \in Seq(NodeRun) /\ i \in DOMAIN x.nodes
  <2>1. x \in States /\ x.nodes \in Seq(NodeRun)
    BY DEF CoreInv, States
  <2>2. i \in 0 .. Len(x.nodes)
    BY <2>1, LastRunIs
  <2> QED BY <2>1, <2>2
<1> HIDE DEF i
<1>2. "superseded" \in Aborts \ {"no"}
  BY DEF Aborts
<1>3. /\ v \in States
      /\ v.run = x.run /\ v.nodes = x.nodes /\ v.context = x.context
      /\ v.superseded = x.superseded /\ v.session = x.session
      /\ v.slot.work = x.slot.work /\ v.slot.nodeRun = x.slot.nodeRun
      /\ v.slot.abort \in {x.slot.abort, "superseded"}
      /\ Goes(x, v)
  BY <1>1, <1>2, AbortEffect
<1> HIDE DEF v
<1>4. /\ y \in States
      /\ y.run = x.run /\ y.nodes = x.nodes /\ y.context = x.context
      /\ y.slot = v.slot /\ y.superseded = x.superseded \cup {i} /\ y.session = x.session
  BY <1>1, <1>3 DEF States
<1> HIDE DEF y
<1>5. Indexed(y) /\ SameRun(x, y) /\ Alike(x.nodes, y.nodes) /\ Goes(x, y)
  BY <1>1, <1>3, <1>4 DEF CoreInv, Indexed, SameRun, Alike, Goes
<1>6. CoreInv(y) /\ Kept(x.nodes, y.nodes)
  BY <1>4, <1>5, CalmCore
<1>7. SessionInv(y)
  <2>1. x.session.conflict = 0 /\ ~(x.session.reworks > MaxReworks)
    BY DEF SessionInv, Busy, Idle, Live
  <2> QED BY <1>3, <1>4, <2>1 DEF SessionInv, Busy, Live
<1> QED BY <1>4, <1>6, <1>7 DEF Driven, y, v, i

\* A pause closes the admission and remembers what the Session showed.
LEMMA PauseCore ==
    ASSUME NEW x, CoreInv(x), SessionInv(x), x.session.status # "PAUSED",
           x.session.status # "WAIT_WORKFLOW_SELECT"
    PROVE  LET y == Abort([x EXCEPT !.session.open = FALSE, !.session.previous = x.session.status,
                                    !.session.status = "PAUSED"], "pause")
           IN  CoreInv(y) /\ SessionInv(y) /\ Kept(x.nodes, y.nodes) /\ y.session.status = "PAUSED"
<1> DEFINE S == [x.session EXCEPT !.open = FALSE, !.previous = x.session.status, !.status = "PAUSED"]
           v == [x EXCEPT !.session.open = FALSE, !.session.previous = x.session.status,
                          !.session.status = "PAUSED"]
           y == Abort(v, "pause")
<1>1. x \in States /\ x.nodes \in Seq(NodeRun) /\ x.session \in Sessions
  BY DEF CoreInv, States
<1>2. v = [x EXCEPT !.session = S]
  BY <1>1 DEF States
<1>3. /\ S \in Sessions /\ S.conflict = x.session.conflict /\ S.reworks = x.session.reworks
      /\ S.status = "PAUSED" /\ S.previous = x.session.status /\ S.open = FALSE
  BY <1>1 DEF Sessions, Statuses
<1> HIDE DEF S, v
<1>4. /\ v \in States
      /\ v.run = x.run /\ v.nodes = x.nodes /\ v.context = x.context /\ v.slot = x.slot
      /\ v.superseded = x.superseded /\ v.session = S
  BY <1>1, <1>2, <1>3 DEF States
<1>5. "pause" \in Aborts \ {"no"}
  BY DEF Aborts
<1>6. /\ y \in States
      /\ y.run = v.run /\ y.nodes = v.nodes /\ y.context = v.context
      /\ y.superseded = v.superseded /\ y.session = v.session
      /\ y.slot.work = v.slot.work /\ y.slot.nodeRun = v.slot.nodeRun
      /\ v.slot = Idle => y.slot = Idle
      /\ Goes(v, y)
  BY <1>4, <1>5, AbortEffect
<1> HIDE DEF y
<1>7. Indexed(y) /\ SameRun(x, y) /\ Alike(x.nodes, y.nodes) /\ Goes(x, y)
  BY <1>1, <1>3, <1>4, <1>6 DEF CoreInv, Indexed, SameRun, Alike, Goes
<1>8. CoreInv(y) /\ Kept(x.nodes, y.nodes)
  BY <1>6, <1>7, CalmCore
<1>9. SessionInv(y)
  <2>1. Live(y) <=> Live(x)
    BY <1>4, <1>6 DEF Live
  <2>2. y.session = S /\ y.run = x.run /\ y.nodes = x.nodes /\ (x.slot = Idle => y.slot = Idle)
    BY <1>4, <1>6
  <2> QED BY <1>3, <2>1, <2>2 DEF SessionInv
<1> QED BY <1>3, <1>4, <1>6, <1>8, <1>9 DEF y, v

LEMMA CancelDriven ==
    ASSUME NEW x, CoreInv(x), SessionInv(x)
    PROVE  LET v == Abort(SetStatus(x, "CANCELLED"), "cancel")
               y == IF ~Live(v) THEN v ELSE Finish(SetUnfinished(v, "ended"), "cancelled")
           IN  /\ Driven(x, y)
               /\ y.session.status = "CANCELLED"
               /\ Live(x) => y.run.status = "cancelled"
               /\ y.slot = Idle <=> x.slot = Idle
               /\ Len(y.nodes) = Len(x.nodes)
<1> DEFINE u == SetStatus(x, "CANCELLED")
           v == Abort(u, "cancel")
           w == SetUnfinished(v, "ended")
           z == Finish(w, "cancelled")
           y == IF ~Live(v) THEN v ELSE z
<1>1. x \in States /\ x.nodes \in Seq(NodeRun) /\ "CANCELLED" \in Statuses
      /\ "cancel" \in Aborts \ {"no"} /\ "ended" \in Tasks
  BY DEF CoreInv, States, Statuses, Aborts, Tasks
<1>2. Restatus(x, u) /\ u.session.status = "CANCELLED"
  BY <1>1, SetStatusEffect
<1> HIDE DEF u
<1>3. CoreInv(u) /\ u.session.conflict = x.session.conflict /\ u.session.reworks = x.session.reworks
  BY <1>1, <1>2, RestatusCore DEF Restatus, States, Sessions
<1>4. /\ v \in States
      /\ v.run = u.run /\ v.nodes = u.nodes /\ v.context = u.context
      /\ v.superseded = u.superseded /\ v.session = u.session
      /\ v.slot.work = u.slot.work /\ v.slot.nodeRun = u.slot.nodeRun
      /\ u.slot.work # "idle" => v.slot.abort # "no"
      /\ u.slot = Idle => v.slot = Idle
      /\ Goes(u, v)
  BY <1>1, <1>3, AbortEffect DEF CoreInv
<1> HIDE DEF v
<1>5. CoreInv(v) /\ Kept(x.nodes, v.nodes)
  <2>1. Indexed(v) /\ SameRun(u, v) /\ Alike(u.nodes, v.nodes)
    BY <1>3, <1>4 DEF CoreInv, Indexed, SameRun, Alike, States
  <2>2. u.nodes = x.nodes
    BY <1>2 DEF Restatus
  <2> QED BY <1>3, <1>4, <2>1, <2>2, CalmCore
<1>6. (Live(v) <=> Live(x)) /\ (v.slot = Idle <=> x.slot = Idle) /\ v.nodes = x.nodes
  BY <1>2, <1>4, <1>5 DEF Live, Restatus, CoreInv, SlotInv, Idle
<1>7. v.session.conflict = x.session.conflict /\ v.session.reworks = x.session.reworks
      /\ v.session.status = "CANCELLED"
  BY <1>2, <1>3, <1>4
<1>8. CASE ~Live(v)
  <2>1. SessionInv(v)
    <3>1. SameRun(x, v)
      BY <1>2, <1>4 DEF SameRun, Restatus
    <3>2. v.session.reworks > MaxReworks => v.slot = Idle
      BY <1>6, <1>7 DEF SessionInv
    <3> QED BY <1>6, <1>7, <1>8, <3>1, <3>2, DeadSession
  <2>2. y = v
    BY <1>8
  <2> HIDE DEF y
  <2> QED BY <1>5, <1>6, <1>7, <1>8, <2>1, <2>2 DEF Driven, y, v, u
<1>9. CASE Live(v)
  <2>1. /\ w \in States
        /\ w.run = v.run /\ w.context = v.context /\ w.slot = v.slot
        /\ w.superseded = v.superseded /\ w.session = v.session
        /\ Alike(v.nodes, w.nodes)
    BY <1>1, <1>4, SetUnfinishedEffect
  <2> HIDE DEF w
  <2>2. w.nodes \in Seq(NodeRun) /\ SameRun(v, w) /\ Goes(v, w)
    BY <2>1 DEF States, SameRun, Goes
  <2>3. DOMAIN w.nodes = DOMAIN v.nodes /\ Len(w.nodes) = Len(v.nodes) /\ Kept(v.nodes, w.nodes) /\ ByInv(w.nodes)
    BY <1>1, <1>5, <1>6, <2>1, <2>2, AlikeClear DEF Alike, CoreInv
  <2>4. Indexed(w) /\ Live(w)
    BY <1>5, <1>9, <2>1, <2>3 DEF CoreInv, Indexed, Live
  <2>5. /\ w.slot.work = "idle" => w.slot = Idle
        /\ w.slot.work = "node" => w.slot.nodeRun \in DOMAIN w.nodes /\ w.slot.abort # "no"
        /\ w.slot.work # "review"
    BY <1>4, <1>5, <1>9, <2>1, <2>3 DEF CoreInv, SlotInv, Live
  <2>6. /\ CoreInv(z)
        /\ z.run.status = "cancelled" /\ z.nodes = w.nodes /\ z.slot = w.slot
        /\ z.session = [w.session EXCEPT !.status = z.session.status]
    BY <2>1, <2>3, <2>4, <2>5, FinishCancels
  <2>7. z.session.status = "CANCELLED"
    <3> DEFINE q == [w EXCEPT !.run = [ NoRun EXCEPT !.status = "cancelled" ]]
    <3>1. z = Project(q)
      BY <2>4 DEF Finish, Ended, Live, Terminal
    <3>2. q.session = w.session
      BY <2>1 DEF States
    <3> HIDE DEF q
    <3>3. Project(q) = q
      BY <1>7, <2>1, <3>2 DEF Project
    <3> QED BY <1>7, <2>1, <3>1, <3>2, <3>3
  <2> HIDE DEF z
  <2>8. z.session.conflict = x.session.conflict /\ z.session.reworks = x.session.reworks
    BY <1>7, <2>1, <2>6 DEF States, Sessions
  <2>9. SessionInv(z)
    <3>1. ~Live(z) /\ Live(x)
      BY <1>6, <1>9, <2>6 DEF Live
    <3>2. ~(z.session.reworks > MaxReworks)
      BY <2>8, <3>1 DEF SessionInv, Live
    <3> QED BY <2>6, <2>7, <3>1, <3>2 DEF SessionInv
  <2>10. y = z
    BY <1>9 DEF z
  <2> HIDE DEF y
  <2> QED BY <1>6, <2>1, <2>3, <2>6, <2>7, <2>9, <2>10 DEF Driven, y, z, w, v, u
<1> QED BY <1>8, <1>9

-----------------------------------------------------------------------------
(* Interruptions: a disconnect, and a restart.                             *)

\* An interruption checkpoints the run, unless it is parked or has ended, and aborts its execution.
LEMMA InterruptCore ==
    ASSUME NEW x, CoreInv(x), SessionInv(x), x.session.status \in {"EXECUTING", "REWORKING"},
           NEW y \in States, y.run = Interrupt(x).run, y.nodes = Interrupt(x).nodes,
           y.superseded = x.superseded, y.session = Interrupt(x).session,
           y.slot = Idle \/ (x.slot.work # "idle" /\ y.slot.work = x.slot.work
                             /\ y.slot.nodeRun = x.slot.nodeRun /\ y.slot.abort # "no"),
           x.slot = Idle => y.slot = Idle
    PROVE  Driven(x, y) /\ y.session.status = "INTERRUPTED"
<1> DEFINE v == Checkpoint(x)
           w == SetUnfinished(v, "waiting")
           z == SetStatus(w, "INTERRUPTED")
<1>1. x \in States /\ x.nodes \in Seq(NodeRun) /\ "waiting" \in Tasks /\ "INTERRUPTED" \in Statuses
  BY DEF CoreInv, States, Tasks, Statuses
<1>2. IF ~Live(x) \/ x.run.parked # "no" THEN v = x
      ELSE /\ v \in States
           /\ v.run.status = "failed" /\ v.run.at = x.run.at /\ v.run.parked = "no"
           /\ Marked(x.nodes, v.nodes) /\ NoneRunning(v.nodes)
           /\ v.context = x.context /\ v.slot = x.slot /\ v.superseded = x.superseded
           /\ v.session = [x.session EXCEPT !.status = v.session.status]
  BY CheckpointEffect
<1> HIDE DEF v
<1>3. v \in States /\ v.nodes \in Seq(NodeRun)
      /\ v.session = [x.session EXCEPT !.status = v.session.status]
  BY <1>1, <1>2 DEF States, Sessions
<1>4. /\ w \in States
      /\ w.run = v.run /\ w.context = v.context /\ w.slot = v.slot
      /\ w.superseded = v.superseded /\ w.session = v.session
      /\ Alike(v.nodes, w.nodes)
  BY <1>1, <1>3, SetUnfinishedEffect
<1> HIDE DEF w
<1>5. Restatus(w, z) /\ z.session.status = "INTERRUPTED"
  BY <1>1, <1>4, SetStatusEffect
<1>6. Interrupt(x) = z
  BY DEF Interrupt, v, w
<1> HIDE DEF z
<1>7. /\ y.run = v.run /\ y.nodes = w.nodes /\ y.session.status = "INTERRUPTED"
      /\ y.session = [x.session EXCEPT !.status = "INTERRUPTED"]
      /\ y.nodes \in Seq(NodeRun)
  BY <1>3, <1>4, <1>5, <1>6 DEF Restatus, States, Sessions
<1>8. y.session.conflict = x.session.conflict /\ y.session.reworks = x.session.reworks
  BY <1>1, <1>7 DEF States, Sessions
<1>9. DOMAIN v.nodes = DOMAIN y.nodes /\ Len(v.nodes) = Len(y.nodes)
  BY <1>3, <1>4, <1>7, AlikeClear DEF Alike
<1>10. Live(x) => x.session.conflict = 0
  BY DEF SessionInv, Live
<1>11. CASE Live(x) /\ x.run.parked = "no"
  <2>1. Marked(x.nodes, y.nodes) /\ NoneRunning(y.nodes)
    BY <1>2, <1>4, <1>7, <1>9, <1>11 DEF Marked, Alike, NoneRunning
  <2>2. Indexed(y)
    BY <1>8, <2>1 DEF CoreInv, Indexed, Idle, Marked, States
  <2>3. x.slot.work # "review"
    BY <1>11 DEF CoreInv, SlotInv, Live
  <2>4. CoreInv(y) /\ Kept(x.nodes, y.nodes)
    <3>1. \/ y.slot = Idle
          \/ y.slot.work = "node" /\ x.slot.work = "node"
             /\ y.slot.nodeRun = x.slot.nodeRun /\ y.slot.abort # "no"
      BY <1>1, <2>3 DEF States, Work
    <3> QED BY <1>2, <1>7, <1>11, <2>1, <2>2, <3>1, FailedCore
  <2>5. ~(x.session.reworks > MaxReworks)
    BY <1>11 DEF SessionInv, Live
  <2>6. SessionInv(y)
    BY <1>7, <1>8, <1>10, <1>11, <2>5 DEF SessionInv
  <2> QED BY <1>7, <2>4, <2>6 DEF Driven
<1>12. CASE ~(Live(x) /\ x.run.parked = "no")
  <2>1. v = x
    BY <1>2, <1>12
  <2>2. SameRun(x, y) /\ Alike(x.nodes, y.nodes) /\ Goes(x, y)
    BY <1>4, <1>7, <2>1 DEF SameRun, Goes
  <2>3. Indexed(y)
    BY <1>8, <1>9, <2>1 DEF CoreInv, Indexed, Idle
  <2>4. CoreInv(y) /\ Kept(x.nodes, y.nodes)
    BY <2>2, <2>3, CalmCore
  <2>5. SessionInv(y)
    <3>1. x.session.conflict # 0 => x.run.status = "cancelled"
      BY <1>10 DEF SessionInv
    <3> QED BY <1>7, <1>8, <2>1, <3>1 DEF SessionInv
  <2> QED BY <1>7, <2>4, <2>5 DEF Driven
<1> QED BY <1>11, <1>12

\* The records an interruption goes through.
LEMMA InterruptEffect ==
    ASSUME NEW x, CoreInv(x)
    PROVE  LET y == Interrupt(x)
           IN  y \in States /\ y.slot = x.slot /\ y.superseded = x.superseded /\ y.context = x.context
<1> DEFINE v == Checkpoint(x)
           w == SetUnfinished(v, "waiting")
<1>1. x \in States /\ "waiting" \in Tasks /\ "INTERRUPTED" \in Statuses
  BY DEF CoreInv, Tasks, Statuses
<1>2. /\ v \in States /\ v.context = x.context /\ v.slot = x.slot /\ v.superseded = x.superseded
  BY <1>1, CheckpointEffect
<1> HIDE DEF v
<1>3. /\ w \in States /\ w.context = v.context /\ w.slot = v.slot /\ w.superseded = v.superseded
  BY <1>1, <1>2, SetUnfinishedEffect
<1> HIDE DEF w
<1>4. Restatus(w, SetStatus(w, "INTERRUPTED"))
  BY <1>1, <1>3, SetStatusEffect
<1> QED BY <1>2, <1>3, <1>4 DEF Interrupt, Restatus, v, w

LEMMA DisconnectDriven ==
    ASSUME NEW x, CoreInv(x), SessionInv(x), x.session.status \in {"EXECUTING", "REWORKING"}
    PROVE  Driven(x, Abort(Interrupt(x), "disconnect"))
<1> DEFINE v == Interrupt(x)
           y == Abort(v, "disconnect")
<1>1. v \in States /\ v.slot = x.slot /\ v.superseded = x.superseded /\ v.context = x.context
  BY InterruptEffect
<1> HIDE DEF v
<1>2. "disconnect" \in Aborts \ {"no"}
  BY DEF Aborts
<1>3. /\ y \in States
      /\ y.run = v.run /\ y.nodes = v.nodes
      /\ y.superseded = v.superseded /\ y.session = v.session
      /\ y.slot.work = v.slot.work /\ y.slot.nodeRun = v.slot.nodeRun
      /\ v.slot.work # "idle" => y.slot.abort # "no"
      /\ v.slot = Idle => y.slot = Idle
  BY <1>1, <1>2, AbortEffect
<1> HIDE DEF y
<1>4. y.slot = Idle \/ (x.slot.work # "idle" /\ y.slot.work = x.slot.work
                        /\ y.slot.nodeRun = x.slot.nodeRun /\ y.slot.abort # "no")
  BY <1>1, <1>3 DEF CoreInv, SlotInv
<1>5. Driven(x, y)
  BY <1>1, <1>3, <1>4, InterruptCore DEF v
<1> QED BY <1>5 DEF y, v

\* A crash: what is in memory is lost.
LEMMA CrashCore ==
    ASSUME NEW x, CoreInv(x), SessionInv(x)
    PROVE  LET y == [x EXCEPT !.context = FALSE, !.slot = Idle, !.superseded = {}]
           IN  /\ CoreInv(y) /\ SessionInv(y) /\ y.slot = Idle /\ y.context = FALSE
               /\ y.run = x.run /\ y.nodes = x.nodes /\ y.session = x.session
<1> DEFINE y == [x EXCEPT !.context = FALSE, !.slot = Idle, !.superseded = {}]
<1>1. x \in States /\ x.nodes \in Seq(NodeRun)
  BY DEF CoreInv, States
<1>2. /\ y \in States
      /\ y.run = x.run /\ y.nodes = x.nodes /\ y.context = FALSE /\ y.slot = Idle
      /\ y.superseded = {} /\ y.session = x.session
  BY <1>1 DEF States, Idle, Work, Aborts
<1> HIDE DEF y
<1>3. Indexed(y) /\ SameRun(x, y) /\ Alike(x.nodes, y.nodes) /\ Goes(x, y)
  BY <1>1, <1>2 DEF CoreInv, Indexed, SameRun, Alike, Goes, Idle
<1>4. CoreInv(y)
  BY <1>2, <1>3, CalmCore
<1>5. SessionInv(y)
  BY <1>2 DEF SessionInv, Live, Idle
<1> QED BY <1>2, <1>4, <1>5 DEF y

LEMMA CardCore ==
    ASSUME NEW x, CoreInv(x), SessionInv(x)
    PROVE  LET y == [x EXCEPT !.run.card = FALSE]
           IN  /\ CoreInv(y) /\ SessionInv(y) /\ y.nodes = x.nodes
               /\ y.slot = x.slot /\ y.session = x.session /\ SameRun(x, y)
               /\ Driven(x, y)
<1> DEFINE y == [x EXCEPT !.run.card = FALSE]
           R == [x.run EXCEPT !.card = FALSE]
<1>1. x \in States /\ x.nodes \in Seq(NodeRun) /\ x.run \in Runs
  BY DEF CoreInv, States
<1>2. R \in Runs /\ R.status = x.run.status /\ R.at = x.run.at /\ R.parked = x.run.parked
  BY <1>1 DEF Runs
<1>3. y = [x EXCEPT !.run = R]
  OBVIOUS
<1> HIDE DEF R, y
<1>4. /\ y \in States
      /\ y.run = R /\ y.nodes = x.nodes /\ y.context = x.context /\ y.slot = x.slot
      /\ y.superseded = x.superseded /\ y.session = x.session
  BY <1>1, <1>2, <1>3 DEF States
<1>5. Indexed(y) /\ SameRun(x, y) /\ Alike(x.nodes, y.nodes) /\ Goes(x, y)
  BY <1>1, <1>2, <1>4 DEF CoreInv, Indexed, SameRun, Alike, Goes
<1>6. CoreInv(y) /\ Kept(x.nodes, y.nodes)
  BY <1>4, <1>5, CalmCore
<1>7. SessionInv(y)
  BY <1>2, <1>4 DEF SessionInv, Live, Busy
<1> QED BY <1>4, <1>5, <1>6, <1>7 DEF Driven, y

LEMMA ReconcileDriven ==
    ASSUME NEW x, CoreInv(x), SessionInv(x), x.slot = Idle
    PROVE  /\ Driven(x, Reconcile(x))
           /\ x.session.status \notin {"FAILED", "INTERRUPTED", "WAIT_USER_DECISION"} => Reconcile(x) = x
<1> DEFINE v == [x EXCEPT !.run.card = FALSE]
           y == Checkpoint(v)
<1>1. x \in States /\ x.nodes \in Seq(NodeRun)
  BY DEF CoreInv, States
<1>2. /\ Reconcile(x) \in {v, y, x}
      /\ Reconcile(x) # v /\ Reconcile(x) # x => x.session.status = "WAIT_USER_DECISION"
      /\ x.session.status \notin {"FAILED", "INTERRUPTED", "WAIT_USER_DECISION"} => Reconcile(x) = x
  BY DEF Reconcile
<1>3. /\ CoreInv(v) /\ SessionInv(v) /\ v.nodes = x.nodes
      /\ v.slot = x.slot /\ v.session = x.session /\ SameRun(x, v)
      /\ Driven(x, v)
  BY CardCore
<1> HIDE DEF v
<1>4. Driven(x, x)
  BY <1>1 DEF Driven, Kept
<1>5. ASSUME x.session.status = "WAIT_USER_DECISION" PROVE Driven(x, y)
  <2>1. IF ~Live(v) \/ v.run.parked # "no" THEN y = v
        ELSE /\ y \in States
             /\ y.run.status = "failed" /\ y.run.at = v.run.at /\ y.run.parked = "no"
             /\ Marked(v.nodes, y.nodes) /\ NoneRunning(y.nodes)
             /\ y.context = v.context /\ y.slot = v.slot /\ y.superseded = v.superseded
             /\ y.session = [v.session EXCEPT !.status = y.session.status]
             /\ y.session.status = v.session.status \/ y.session.status \in Projected \ {"EXECUTING"}
    BY <1>3, CheckpointEffect
  <2> HIDE DEF y
  <2>2. CASE ~Live(v) \/ v.run.parked # "no"
    BY <1>3, <2>1, <2>2
  <2>3. CASE ~(~Live(v) \/ v.run.parked # "no")
    <3>1. y.session.conflict = v.session.conflict /\ y.session.reworks = v.session.reworks
      BY <1>3, <2>1, <2>3 DEF CoreInv, States, Sessions
    <3>2. Indexed(y)
      BY <1>3, <2>1, <2>3, <3>1 DEF CoreInv, Indexed, Marked, States
    <3>3. CoreInv(y) /\ Kept(v.nodes, y.nodes)
      BY <1>3, <2>1, <2>3, <3>2, FailedCore
    <3>4. v.session.conflict = 0 /\ ~(v.session.reworks > MaxReworks)
      BY <1>3, <1>5, <2>3 DEF SessionInv, Live
    <3>5. y.session.status \notin {"WAIT_WORKFLOW_SELECT", "PAUSED", "EXECUTING"}
      BY <1>3, <1>5, <2>1, <2>3 DEF Projected
    <3>6. SessionInv(y)
      BY <3>1, <3>4, <3>5 DEF SessionInv
    <3> QED BY <1>3, <3>3, <3>5, <3>6 DEF Driven
  <2> QED BY <2>2, <2>3
<1> QED BY <1>2, <1>3, <1>4, <1>5

LEMMA RestartDriven ==
    ASSUME NEW x, CoreInv(x), SessionInv(x)
    PROVE  LET v == [x EXCEPT !.context = FALSE, !.slot = Idle, !.superseded = {}]
               y == Reconcile(IF x.session.status \in {"EXECUTING", "REWORKING"} THEN Interrupt(v) ELSE v)
           IN  /\ Driven(x, y)
               /\ x.session.status = "WAIT_WORKFLOW_SELECT" => y.run = x.run /\ y.context = FALSE
<1> DEFINE v == [x EXCEPT !.context = FALSE, !.slot = Idle, !.superseded = {}]
           w == IF x.session.status \in {"EXECUTING", "REWORKING"} THEN Interrupt(v) ELSE v
           y == Reconcile(w)
<1>1. /\ CoreInv(v) /\ SessionInv(v) /\ v.slot = Idle /\ v.context = FALSE
      /\ v.run = x.run /\ v.nodes = x.nodes /\ v.session = x.session
  BY CrashCore
<1> HIDE DEF v
<1>2. x \in States /\ x.nodes \in Seq(NodeRun) /\ v \in States
  BY <1>1 DEF CoreInv, States
<1>3. CASE x.session.status \in {"EXECUTING", "REWORKING"}
  <2>1. w = Interrupt(v)
    BY <1>3
  <2>2. w \in States /\ w.slot = v.slot /\ w.superseded = v.superseded
    BY <1>1, <2>1, InterruptEffect
  <2> HIDE DEF w
  <2>3. Driven(v, w) /\ w.session.status = "INTERRUPTED"
    BY <1>1, <1>3, <2>1, <2>2, InterruptCore
  <2>4. Driven(w, y)
    BY <1>1, <2>2, <2>3, ReconcileDriven DEF Driven
  <2>5. Driven(x, y)
    <3>1. x.nodes \in Seq(NodeRun) /\ w.nodes \in Seq(NodeRun) /\ y.nodes \in Seq(NodeRun)
      BY <1>2, <2>2, <2>4 DEF Driven, CoreInv, States
    <3>2. Kept(x.nodes, y.nodes)
      BY <1>1, <2>3, <2>4, <3>1, KeptTransitive DEF Driven
    <3> QED BY <1>1, <2>3, <2>4, <3>2 DEF Driven
  <2> QED BY <1>3, <2>5 DEF y, w, v
<1>4. CASE x.session.status \notin {"EXECUTING", "REWORKING"}
  <2>1. w = v
    BY <1>4
  <2> HIDE DEF w
  <2>2. Driven(v, y) /\ (v.session.status \notin {"FAILED", "INTERRUPTED", "WAIT_USER_DECISION"} => y = v)
    BY <1>1, <2>1, ReconcileDriven
  <2>3. Driven(x, y)
    BY <1>1, <2>2 DEF Driven
  <2> QED BY <1>1, <2>2, <2>3 DEF y, w, v
<1> QED BY <1>3, <1>4

-----------------------------------------------------------------------------
(* Resuming by the status of the Session.                                  *)

Reopen(x) == [x EXCEPT !.session.open = TRUE]

LEMMA ReopenEffect ==
    ASSUME NEW x, CoreInv(x), NEW s \in Statuses
    PROVE  LET y == SetStatus(Reopen(x), s)
           IN  /\ CoreInv(y) /\ y.nodes = x.nodes /\ Kept(x.nodes, y.nodes)
               /\ y.run = x.run /\ y.slot = x.slot /\ y.context = x.context
               /\ y.session.conflict = x.session.conflict /\ y.session.reworks = x.session.reworks
               /\ y.session.status = s /\ y.session.previous = x.session.previous
<1> DEFINE S == [x.session EXCEPT !.open = TRUE, !.status = s]
           y == SetStatus(Reopen(x), s)
<1>1. x \in States /\ x.nodes \in Seq(NodeRun) /\ x.session \in Sessions
  BY DEF CoreInv, States
<1>2. y = [x EXCEPT !.session = S]
  BY <1>1 DEF SetStatus, Reopen, States
<1>3. /\ S \in Sessions /\ S.conflict = x.session.conflict /\ S.reworks = x.session.reworks
      /\ S.status = s /\ S.previous = x.session.previous
  BY <1>1 DEF Sessions
<1> HIDE DEF S, y
<1>4. /\ y \in States
      /\ y.run = x.run /\ y.nodes = x.nodes /\ y.context = x.context /\ y.slot = x.slot
      /\ y.superseded = x.superseded /\ y.session = S
  BY <1>1, <1>2, <1>3 DEF States
<1>5. Indexed(y) /\ SameRun(x, y) /\ Alike(x.nodes, y.nodes) /\ Goes(x, y)
  BY <1>1, <1>3, <1>4 DEF CoreInv, Indexed, SameRun, Alike, Goes
<1>6. CoreInv(y) /\ Kept(x.nodes, y.nodes)
  BY <1>4, <1>5, CalmCore
<1> QED BY <1>3, <1>4, <1>6 DEF y

\* Back to a status that does not work.
LEMMA ResumedAs ==
    ASSUME NEW x, CoreInv(x), SessionInv(x), x.session.status # "WAIT_WORKFLOW_SELECT",
           NEW s \in Statuses \ {"WAIT_WORKFLOW_SELECT", "PAUSED", "EXECUTING"},
           x.session.conflict # 0 /\ x.run.status # "cancelled" =>
               s \in {"WAIT_WORKSPACE_CONFLICT_RESOLUTION", "COMPLETED"}
    PROVE  Driven(x, SetStatus(Reopen(x), s))
<1> DEFINE y == SetStatus(Reopen(x), s)
<1>1. /\ CoreInv(y) /\ y.nodes = x.nodes /\ Kept(x.nodes, y.nodes)
      /\ y.run = x.run /\ y.slot = x.slot
      /\ y.session.conflict = x.session.conflict /\ y.session.reworks = x.session.reworks
      /\ y.session.status = s
  BY ReopenEffect
<1> HIDE DEF y
<1>2. SessionInv(y)
  BY <1>1 DEF SessionInv, Live
<1> QED BY <1>1, <1>2 DEF Driven, y

LEMMA ResumedExecuting ==
    ASSUME NEW x, CoreInv(x), SessionInv(x),
           x.session.conflict # 0 => x.run.status = "cancelled"
    PROVE  /\ Driven(x, Redrive(SetStatus(Reopen(x), "EXECUTING")))
           /\ Redrive(SetStatus(Reopen(x), "EXECUTING")).session.status \notin {"WAIT_WORKFLOW_SELECT", "PAUSED"}
<1> DEFINE y == SetStatus(Reopen(x), "EXECUTING")
<1>1. "EXECUTING" \in Statuses
  BY DEF Statuses
<1>2. /\ CoreInv(y) /\ y.nodes = x.nodes
      /\ y.run = x.run /\ y.slot = x.slot
      /\ y.session.conflict = x.session.conflict /\ y.session.reworks = x.session.reworks
      /\ y.session.status = "EXECUTING"
  BY <1>1, ReopenEffect
<1> HIDE DEF y
<1>3. Driven(y, Redrive(y)) /\ Redrive(y).session.status \notin {"WAIT_WORKFLOW_SELECT", "PAUSED"}
  BY <1>2, RedriveDriven DEF SessionInv
<1>4. Driven(x, Redrive(y))
  BY <1>2, <1>3 DEF Driven
<1> QED BY <1>3, <1>4 DEF y

\* What was paused is forgotten.
LEMMA PreviousForgotten ==
    ASSUME NEW x, NEW y, Driven(x, y), y.session.status \notin {"WAIT_WORKFLOW_SELECT", "PAUSED"}
    PROVE  Driven(x, [y EXCEPT !.session.previous = "EXECUTING"])
<1> DEFINE S == [y.session EXCEPT !.previous = "EXECUTING"]
           z == [y EXCEPT !.session.previous = "EXECUTING"]
<1>1. y \in States /\ y.nodes \in Seq(NodeRun) /\ y.session \in Sessions /\ CoreInv(y) /\ SessionInv(y)
  BY DEF Driven, CoreInv, States
<1>2. /\ S \in Sessions /\ S.conflict = y.session.conflict /\ S.reworks = y.session.reworks
      /\ S.status = y.session.status /\ S.open = y.session.open
  BY <1>1 DEF Sessions, Statuses
<1>3. z = [y EXCEPT !.session = S]
  BY <1>1 DEF States
<1> HIDE DEF S, z
<1>4. /\ z \in States
      /\ z.run = y.run /\ z.nodes = y.nodes /\ z.context = y.context /\ z.slot = y.slot
      /\ z.superseded = y.superseded /\ z.session = S
  BY <1>1, <1>2, <1>3 DEF States
<1>5. Indexed(z) /\ SameRun(y, z) /\ Alike(y.nodes, z.nodes) /\ Goes(y, z)
  BY <1>1, <1>2, <1>4 DEF CoreInv, Indexed, SameRun, Alike, Goes
<1>6. CoreInv(z)
  BY <1>1, <1>4, <1>5, CalmCore
<1>7. SessionInv(z)
  BY <1>1, <1>2, <1>4 DEF SessionInv, Live, Busy
<1> QED BY <1>2, <1>4, <1>6, <1>7 DEF Driven, z

LEMMA ResumeDriven ==
    ASSUME NEW x, CoreInv(x), SessionInv(x),
           x.session.status \notin {"EXECUTING", "REWORKING", "COMPLETED", "WAIT_WORKFLOW_SELECT"}
    PROVE  LET y == Reopen(x)
               Execute == IF x.session.delivered THEN SetStatus(y, "COMPLETED") ELSE Redrive(SetStatus(y, "EXECUTING"))
               Back == IF ~x.session.delivered /\ x.session.previous \in
                              {"WAIT_WORKFLOW_STEP_CONFIRM", "WAIT_USER_DECISION", "COMPLETED", "FAILED",
                               "WAIT_WORKSPACE_CONFLICT_RESOLUTION"}
                       THEN SetStatus(y, x.session.previous) ELSE Execute
           IN  /\ x.session.status # "PAUSED" => Driven(x, y)
               /\ x.session.status \in {"WAIT_USER_DECISION", "WAIT_WORKFLOW_STEP_CONFIRM"} => Driven(x, Execute)
               /\ x.session.status \in {"FAILED", "INTERRUPTED"} => Driven(x, Redrive(SetStatus(y, "EXECUTING")))
               /\ x.session.status = "PAUSED" => Driven(x, [Back EXCEPT !.session.previous = "EXECUTING"])
<1> DEFINE y == Reopen(x)
           Execute == IF x.session.delivered THEN SetStatus(y, "COMPLETED") ELSE Redrive(SetStatus(y, "EXECUTING"))
           Named == {"WAIT_WORKFLOW_STEP_CONFIRM", "WAIT_USER_DECISION", "COMPLETED", "FAILED",
                     "WAIT_WORKSPACE_CONFLICT_RESOLUTION"}
           Back == IF ~x.session.delivered /\ x.session.previous \in Named
                   THEN SetStatus(y, x.session.previous) ELSE Execute
<1>1. x \in States /\ x.session \in Sessions
  BY DEF CoreInv, States
<1>2. /\ "COMPLETED" \in Statuses \ {"WAIT_WORKFLOW_SELECT", "PAUSED", "EXECUTING"}
      /\ Named \subseteq Statuses \ {"WAIT_WORKFLOW_SELECT", "PAUSED", "EXECUTING"}
  BY DEF Statuses
<1>3. Driven(x, SetStatus(y, "COMPLETED")) /\ SetStatus(y, "COMPLETED").session.status = "COMPLETED"
  BY <1>2, ResumedAs, ReopenEffect
<1>4. ASSUME x.session.status # "PAUSED" PROVE Driven(x, y)
  <2>1. SetStatus(y, x.session.status) = y
    <3>1. y.session.status = x.session.status /\ y \in States
      BY <1>1 DEF Reopen, States, Sessions
    <3> HIDE DEF y
    <3> QED BY <3>1 DEF SetStatus, States, Sessions
  <2>2. x.session.status \in Statuses \ {"WAIT_WORKFLOW_SELECT", "PAUSED", "EXECUTING"}
    BY <1>1, <1>4 DEF Sessions
  <2>3. x.session.conflict # 0 /\ x.run.status # "cancelled" =>
            x.session.status \in {"WAIT_WORKSPACE_CONFLICT_RESOLUTION", "COMPLETED"}
    BY <1>4 DEF SessionInv
  <2>4. Driven(x, SetStatus(y, x.session.status))
    BY <2>2, <2>3, ResumedAs
  <2> QED BY <2>1, <2>4
<1>5. ASSUME x.session.conflict # 0 => x.run.status = "cancelled"
      PROVE  /\ Driven(x, Redrive(SetStatus(y, "EXECUTING")))
             /\ Redrive(SetStatus(y, "EXECUTING")).session.status \notin {"WAIT_WORKFLOW_SELECT", "PAUSED"}
             /\ Driven(x, Execute)
             /\ Execute.session.status \notin {"WAIT_WORKFLOW_SELECT", "PAUSED"}
  <2>1. /\ Driven(x, Redrive(SetStatus(y, "EXECUTING")))
        /\ Redrive(SetStatus(y, "EXECUTING")).session.status \notin {"WAIT_WORKFLOW_SELECT", "PAUSED"}
    BY <1>5, ResumedExecuting
  <2> QED BY <1>3, <2>1
<1>6. ASSUME x.session.status \in {"WAIT_USER_DECISION", "WAIT_WORKFLOW_STEP_CONFIRM", "FAILED", "INTERRUPTED"}
      PROVE  x.session.conflict # 0 => x.run.status = "cancelled"
  BY <1>6 DEF SessionInv
<1>7. ASSUME x.session.status = "PAUSED"
      PROVE  Driven(x, [Back EXCEPT !.session.previous = "EXECUTING"])
  <2>1. x.session.conflict # 0 /\ x.run.status # "cancelled" =>
            x.session.previous \in {"WAIT_WORKSPACE_CONFLICT_RESOLUTION", "COMPLETED"}
    BY <1>7 DEF SessionInv
  <2>2. CASE x.session.delivered
    <3>1. Back = SetStatus(y, "COMPLETED")
      BY <2>2
    <3> HIDE DEF Back, Execute
    <3>2. Driven(x, Back) /\ Back.session.status = "COMPLETED"
      BY <1>3, <3>1
    <3> QED BY <3>2, PreviousForgotten
  <2>3. CASE ~x.session.delivered /\ x.session.previous \in Named
    <3>1. Back = SetStatus(y, x.session.previous)
      BY <2>3
    <3>2. Driven(x, SetStatus(y, x.session.previous))
      BY <1>2, <2>1, <2>3, ResumedAs
    <3>3. SetStatus(y, x.session.previous).session.status = x.session.previous
      BY <1>2, <2>3, ReopenEffect
    <3> HIDE DEF Back, y
    <3> QED BY <2>3, <3>1, <3>2, <3>3, PreviousForgotten
  <2>4. CASE ~x.session.delivered /\ x.session.previous \notin Named
    <3>1. Back = Execute
      BY <2>4
    <3>2. x.session.conflict # 0 => x.run.status = "cancelled"
      BY <2>1, <2>4
    <3>3. Driven(x, Execute) /\ Execute.session.status \notin {"WAIT_WORKFLOW_SELECT", "PAUSED"}
      BY <1>5, <3>2
    <3> HIDE DEF Back, Execute
    <3> QED BY <3>1, <3>3, PreviousForgotten
  <2> QED BY <2>2, <2>3, <2>4
<1> HIDE DEF y, Execute, Back
<1> QED BY <1>4, <1>5, <1>6, <1>7 DEF Back, Named, Execute, y

-----------------------------------------------------------------------------
(* Starting a run.                                                         *)

\* The first node is started once the baseline is captured, unless the run was cancelled.
LEMMA StartedDriven ==
    ASSUME NEW x, CoreInv(x), SessionInv(x), x.nodes = <<>>, x.slot = Idle,
           \/ x.run.status = "running" /\ x.run.parked = "no"
           \/ x.run.status = "cancelled"
    PROVE  LET y == SetStatus(Activate(Project(x)), "EXECUTING")
           IN  Driven(x, y) /\ y.session.status = "EXECUTING"
<1> DEFINE v == Project(x)
<1>1. x \in States /\ x.nodes \in Seq(NodeRun)
  BY DEF CoreInv, States
<1>2. Restatus(x, v) /\ (v.session.status = x.session.status \/ v.session.status \in Projected)
  BY <1>1, ProjectEffect
<1> HIDE DEF v
<1>3. /\ v \in States /\ CoreInv(v)
      /\ v.run = x.run /\ v.nodes = x.nodes /\ v.slot = x.slot /\ v.context = x.context
      /\ v.session.conflict = x.session.conflict /\ v.session.reworks = x.session.reworks
  BY <1>1, <1>2, RestatusCore DEF Restatus, States, Sessions
<1>4. x.session.conflict = 0
  BY <1>1 DEF CoreInv, Indexed, States, Sessions
<1>5. ~(x.session.reworks > MaxReworks)
  BY DEF SessionInv
<1>6. CASE x.run.status = "running" /\ x.run.parked = "no"
  <2>1. v.run.at = 1 /\ v.run.at \in Nodes /\ Clear(v.nodes, v.run.at)
    BY <1>3, <1>6, FirstIsAgent DEF CoreInv, Live, LiveInv
  <2>2. Fresh(v)
    BY <1>3, <1>4, <1>5 DEF Fresh, CoreInv, NoneRunning
  <2>3. Good(v, Activate(v))
    BY <1>3, <1>6, <2>1, <2>2, ActivateCore DEF Good
  <2>4. Driven(v, SetStatus(Activate(v), "EXECUTING"))
    BY <1>3, <2>3, GoodExecuting
  <2>5. SetStatus(Activate(v), "EXECUTING").session.status = "EXECUTING"
    BY <2>3, SetStatusEffect, "EXECUTING" \in Statuses DEF Good, CoreInv, Statuses
  <2> QED BY <1>3, <2>4, <2>5 DEF Driven, v
<1>7. CASE x.run.status = "cancelled"
  <2> DEFINE y == SetStatus(v, "EXECUTING")
  <2>1. Activate(v) = v
    BY <1>3, <1>7 DEF Activate, Ended, Terminal
  <2>2. Restatus(v, y) /\ y.session.status = "EXECUTING"
    BY <1>3, SetStatusEffect, "EXECUTING" \in Statuses DEF Statuses
  <2> HIDE DEF y
  <2>3. CoreInv(y) /\ Kept(x.nodes, y.nodes)
    BY <1>3, <2>2, RestatusCore
  <2>4. y.session.reworks = x.session.reworks /\ y.run = x.run
    BY <1>3, <2>2 DEF Restatus, States, Sessions
  <2>5. SessionInv(y)
    BY <1>5, <1>7, <2>2, <2>4 DEF SessionInv, Live
  <2> QED BY <2>1, <2>2, <2>3, <2>5 DEF Driven, y, v
<1> QED BY <1>6, <1>7

\* A new run of the workflow.
LEMMA NewRunCore ==
    ASSUME NEW x, CoreInv(x), SessionInv(x), x.run.status = "none",
           x.session.status = "WAIT_WORKFLOW_SELECT"
    PROVE  LET y == [x EXCEPT !.run = [ NoRun EXCEPT !.status = "running", !.at = 1 ], !.context = TRUE]
           IN  CoreInv(y) /\ SessionInv(y) /\ y.nodes = <<>> /\ y.slot = Idle
<1> DEFINE R == [ NoRun EXCEPT !.status = "running", !.at = 1 ]
           y == [x EXCEPT !.run = R, !.context = TRUE]
<1>1. x \in States /\ x.nodes = <<>> /\ x.slot = Idle
  BY DEF CoreInv, EndInv
<1>2. R \in Runs /\ R.status = "running" /\ R.at = 1 /\ R.parked = "no" /\ 1 \in Nodes
  BY FirstIsAgent DEF NoRun, Runs, Agents
<1> HIDE DEF R
<1>3. /\ y \in States
      /\ y.run = R /\ y.nodes = <<>> /\ y.context = TRUE /\ y.slot = Idle
      /\ y.superseded = x.superseded /\ y.session = x.session
  BY <1>1, <1>2 DEF States
<1> HIDE DEF y
<1>4. LiveInv(y)
  <2>1. Clear(<<>>, 1)
    BY FirstIsAgent DEF Clear
  <2> QED BY <1>2, <1>3, <2>1 DEF LiveInv
<1>5. Indexed(y) /\ ByInv(y.nodes) /\ EndInv(y) /\ ParkInv(y) /\ SlotInv(y)
  BY <1>1, <1>2, <1>3 DEF CoreInv, Indexed, ByInv, EndInv, ParkInv, SlotInv, Idle
<1>6. CoreInv(y)
  BY <1>2, <1>3, <1>4, <1>5 DEF CoreInv
<1>7. SessionInv(y)
  <2>1. x.session.conflict = 0
    BY <1>1 DEF CoreInv, Indexed, States, Sessions
  <2> QED BY <1>1, <1>3, <2>1 DEF SessionInv
<1> QED BY <1>3, <1>6, <1>7 DEF y, R

-----------------------------------------------------------------------------
(* The invariant. *)

\* Become makes the record the state.
LEMMA BecomeIs ==
    ASSUME NEW y \in States, Become(y)
    PROVE  State' = y
<1>1. y = [ run |-> y.run, nodes |-> y.nodes, context |-> y.context, slot |-> y.slot,
            superseded |-> y.superseded, session |-> y.session ]
  BY DEF States
<1>2. State' = [ run |-> run', nodes |-> nodeRuns', context |-> context', slot |-> slot',
                 superseded |-> superseded', session |-> session' ]
  BY DEF State
<1>3. /\ run' = y.run /\ nodeRuns' = y.nodes /\ context' = y.context /\ slot' = y.slot
      /\ superseded' = y.superseded /\ session' = y.session
  BY DEF Become
<1> QED BY ONLY <1>1, <1>2, <1>3

LEMMA StateIs ==
    /\ State.run = run /\ State.nodes = nodeRuns /\ State.context = context
    /\ State.slot = slot /\ State.superseded = superseded /\ State.session = session
BY DEF State

LEMMA InitInvariant ==
    ASSUME Init
    PROVE  IInv
<1> DEFINE x == State
<1>1. /\ x.run = NoRun /\ x.nodes = <<>> /\ x.context = FALSE /\ x.slot = Idle /\ x.superseded = {}
      /\ x.session = [ status |-> "WAIT_WORKFLOW_SELECT", open |-> TRUE, previous |-> "EXECUTING",
                       delivered |-> FALSE, reworks |-> 0, conflict |-> 0 ]
  BY DEF Init, State
<1>2. x \in States
  <2>1. NoRun \in Runs /\ Idle \in [ work : Work, nodeRun : Nat, abort : Aborts ]
    BY DEF NoRun, Runs, Idle, Work, Aborts
  <2>2. x.session \in Sessions
    BY <1>1, WorkflowAssumption DEF Sessions, Statuses
  <2>3. x = [ run |-> NoRun, nodes |-> <<>>, context |-> FALSE, slot |-> Idle, superseded |-> {},
              session |-> session ]
    BY DEF Init, State
  <2>4. session \in Sessions
    BY <2>2 DEF State
  <2> HIDE DEF x
  <2> QED BY <2>1, <2>3, <2>4 DEF States
<1> HIDE DEF x
<1>3. CoreInv(x)
  BY <1>1, <1>2 DEF CoreInv, Indexed, ByInv, Live, EndInv, NoneRunning, ParkInv, SlotInv, NoRun, Idle, Terminal
<1>4. SessionInv(x)
  BY <1>1, WorkflowAssumption DEF SessionInv, Live, NoRun
<1>5. AwaitInv
  BY DEF Init, AwaitInv, NoRun
<1> QED BY <1>3, <1>4, <1>5 DEF IInv, x

\* A step of a Session whose workflow was chosen, that leaves the two controls alone.
LEMMA StepKept ==
    ASSUME IInv, NEW y, Become(y), UNCHANGED <<starting, pausing>>, ~starting,
           session.status # "WAIT_WORKFLOW_SELECT", Driven(State, y)
    PROVE  IInv' /\ Kept(nodeRuns, nodeRuns')
<1>1. y \in States
  BY DEF Driven, CoreInv
<1>2. State' = y
  BY <1>1, BecomeIs
<1>3. CoreInv(State') /\ SessionInv(State')
  BY <1>2 DEF Driven
<1>4. nodeRuns' = y.nodes /\ session' = y.session
  BY DEF Become
<1>5. AwaitInv'
  <2>1. session'.status # "WAIT_WORKFLOW_SELECT" /\ (session'.status = "PAUSED" => session.status = "PAUSED")
    BY <1>4, StateIs DEF Driven
  <2> QED BY <2>1 DEF IInv, AwaitInv
<1>6. Kept(nodeRuns, nodeRuns')
  BY <1>4, StateIs DEF Driven
<1> QED BY <1>3, <1>5, <1>6 DEF IInv

\* The guards that say that the workflow was chosen and its first node started.
LEMMA Chosen ==
    ASSUME IInv, nodeRuns # <<>> \/ slot # Idle \/ session.status \in {"EXECUTING", "REWORKING"}
    PROVE  ~starting /\ session.status # "WAIT_WORKFLOW_SELECT"
BY StateIs DEF IInv, AwaitInv, SessionInv

-----------------------------------------------------------------------------
(* Every action keeps the invariant and the history. *)

Keeps == IInv' /\ Kept(nodeRuns, nodeRuns')

LEMMA StartKeeps ==
    ASSUME IInv, Start
    PROVE  Keeps
<1> DEFINE y == [State EXCEPT !.run = [ NoRun EXCEPT !.status = "running", !.at = 1 ], !.context = TRUE]
<1>1. /\ session.status = "WAIT_WORKFLOW_SELECT" /\ run.status = "none"
      /\ starting' = TRUE /\ context' = TRUE
      /\ run' = [ NoRun EXCEPT !.status = "running", !.at = 1 ]
      /\ UNCHANGED <<nodeRuns, slot, superseded, session, pausing>>
  BY DEF Start
<1>2. CoreInv(y) /\ SessionInv(y) /\ y.nodes = <<>> /\ y.slot = Idle
  BY <1>1, StateIs, NewRunCore DEF IInv
<1>3. State' = y
  <2>1. State \in States
    BY DEF IInv, CoreInv
  <2>2. /\ y.run = [ NoRun EXCEPT !.status = "running", !.at = 1 ] /\ y.context = TRUE
        /\ y.nodes = State.nodes /\ y.slot = State.slot
        /\ y.superseded = State.superseded /\ y.session = State.session
    BY <2>1 DEF States
  <2> HIDE DEF y
  <2>3. Become(y)
    BY <1>1, <2>2, StateIs DEF Become
  <2> QED BY <1>2, <2>3, BecomeIs DEF CoreInv
<1>4. nodeRuns = <<>> /\ slot = Idle
  BY <1>1, StateIs DEF IInv, CoreInv, EndInv
<1>5. CoreInv(State') /\ SessionInv(State')
  <2> HIDE DEF y
  <2> QED BY <1>2, <1>3
<1>6. AwaitInv'
  BY <1>1, <1>4 DEF AwaitInv, IInv, NoRun
<1>7. Kept(nodeRuns, nodeRuns')
  BY <1>1, <1>4 DEF Kept
<1> QED BY <1>5, <1>6, <1>7 DEF IInv, Keeps

LEMMA StartDoneKeeps ==
    ASSUME IInv, StartDone
    PROVE  Keeps
<1> DEFINE y == SetStatus(Activate(Project(State)), "EXECUTING")
<1>1. starting /\ starting' = FALSE /\ pausing' = pausing /\ Become(y)
  BY DEF StartDone
<1>2. /\ nodeRuns = <<>> /\ slot = Idle
      /\ (run.status = "running" /\ run.parked = "no") \/ run.status = "cancelled"
  BY <1>1 DEF IInv, AwaitInv
<1>3. Driven(State, y) /\ y.session.status = "EXECUTING"
  BY <1>2, StateIs, StartedDriven DEF IInv
<1> HIDE DEF y
<1>4. State' = y
  BY <1>1, <1>3, BecomeIs DEF Driven, CoreInv
<1>5. CoreInv(State') /\ SessionInv(State')
  BY <1>3, <1>4 DEF Driven
<1>6. session' = y.session /\ nodeRuns' = y.nodes
  BY <1>1 DEF Become
<1>7. AwaitInv'
  BY <1>1, <1>3, <1>6 DEF AwaitInv, IInv
<1>8. Kept(nodeRuns, nodeRuns')
  BY <1>3, <1>6, StateIs DEF Driven
<1> QED BY <1>5, <1>7, <1>8 DEF IInv, Keeps

\* Nothing of a run that is found again but the Session's status changes; without
\* a context nothing is expected to drive it.
LEMMA StartAgainKeeps ==
    ASSUME IInv, StartAgain
    PROVE  Keeps
<1> DEFINE y == SetStatus(State, "EXECUTING")
<1>1. /\ session.status = "WAIT_WORKFLOW_SELECT" /\ run.status # "none" /\ ~starting
      /\ Become(y) /\ starting' = starting /\ pausing' = pausing
  BY DEF StartAgain
<1>2. State \in States /\ CoreInv(State) /\ SessionInv(State)
  BY DEF IInv, CoreInv
<1>3. Restatus(State, y) /\ y.session.status = "EXECUTING"
  BY <1>2, SetStatusEffect, "EXECUTING" \in Statuses DEF Statuses
<1> HIDE DEF y
<1>4. State' = y
  BY <1>1, <1>3, BecomeIs DEF Restatus
<1>5. CoreInv(y) /\ Kept(State.nodes, y.nodes)
  BY <1>2, <1>3, RestatusCore
<1>6. SessionInv(y)
  <2>1. run.status = "running" /\ ~context
    BY <1>1 DEF IInv, AwaitInv
  <2>2. State.nodes = <<>> /\ State.slot = Idle
    BY <1>1, <1>2, StateIs DEF SessionInv
  <2>3. /\ y.run = State.run /\ y.nodes = State.nodes /\ y.context = State.context /\ y.slot = State.slot
        /\ y.session.conflict = State.session.conflict /\ y.session.reworks = State.session.reworks
    BY <1>2, <1>3 DEF Restatus, States, Sessions
  <2>4. State.session.conflict = 0
    BY <1>2, <2>2 DEF CoreInv, Indexed, States, Sessions
  <2>5. ~y.context /\ y.slot.abort = "no"
    BY <2>1, <2>2, <2>3, StateIs DEF Idle
  <2>6. ~(y.session.reworks > MaxReworks)
    BY <1>2, <2>1, <2>3, StateIs DEF SessionInv
  <2> QED BY <1>3, <2>3, <2>4, <2>5, <2>6 DEF SessionInv
<1>7. session' = y.session /\ nodeRuns' = y.nodes
  BY <1>1 DEF Become
<1>8. AwaitInv'
  BY <1>1, <1>3, <1>7 DEF AwaitInv, IInv
<1>9. Kept(nodeRuns, nodeRuns')
  BY <1>5, <1>7, StateIs
<1> QED BY <1>4, <1>5, <1>6, <1>8, <1>9 DEF IInv, Keeps

LEMMA NodeOutcomeKeeps ==
    ASSUME IInv, NodeOutcome
    PROVE  Keeps
<1> DEFINE i == State.slot.nodeRun
           y(end) == Hold([State EXCEPT !.slot = Idle, !.nodes[i].task = TaskAfter(end)], i, end)
           z(end) == IF Accepts(y(end), i) THEN HandleOutcome(y(end), i, end) ELSE y(end)
<1>1. State.slot.work = "node" /\ State.slot.abort = "no" /\ UNCHANGED <<starting, pausing>>
  BY StateIs DEF NodeOutcome
<1>2. PICK end \in Ends(State.nodes[i].by) : Become(z(end))
  BY StateIs DEF NodeOutcome
<1>3. Driven(State, z(end))
  BY <1>1, NodeOutcomeDriven DEF IInv
<1>4. slot # Idle
  BY <1>1, StateIs DEF Idle
<1> HIDE DEF z
<1> QED BY <1>1, <1>2, <1>3, <1>4, Chosen, StepKept DEF Keeps

LEMMA NodeAbortedKeeps ==
    ASSUME IInv, NodeAborted
    PROVE  Keeps
<1> DEFINE i == State.slot.nodeRun
           y(t) == [State EXCEPT !.slot = Idle, !.nodes[i].task = t]
           z(t) == IF Accepts(y(t), i) /\ State.slot.abort # "pause" THEN CancelledOutcome(y(t), i) ELSE y(t)
<1>1. State.slot.work = "node" /\ State.slot.abort # "no" /\ UNCHANGED <<starting, pausing>>
  BY StateIs DEF NodeAborted
<1>2. PICK t \in {State.nodes[i].task, "ended"} : Become(z(t))
  BY StateIs DEF NodeAborted
<1>3. Driven(State, z(t))
  BY <1>1, NodeAbortedDriven DEF IInv
<1>4. slot # Idle
  BY <1>1, StateIs DEF Idle
<1> HIDE DEF z
<1> QED BY <1>1, <1>2, <1>3, <1>4, Chosen, StepKept DEF Keeps

\* Whatever the review says, the Session goes on from a completed run without an execution.
LEMMA ReviewOutcomeKeeps ==
    ASSUME IInv, ReviewOutcome
    PROVE  Keeps
<1> DEFINE x == [State EXCEPT !.slot = Idle]
           ended == SetUnfinished(x, "ended")
           delivered == [x EXCEPT !.session.delivered = TRUE]
           Results == {x, ended, delivered, SetStatus(x, "WAIT_USER_DECISION"), SetStatus(x, "FAILED"),
                       SetStatus(ended, "WAIT_USER_DECISION"), SetStatus(delivered, "COMPLETED"), Rework(x)}
<1>1. State.slot.work = "review" /\ UNCHANGED <<starting, pausing>>
  BY StateIs DEF ReviewOutcome
<1>2. PICK y \in Results : Become(y)
  <2> HIDE DEF x, ended, delivered
  <2>1. ReviewOutcome => \E y \in Results : Become(y)
    BY DEF ReviewOutcome, x, ended, delivered
  <2> QED BY <2>1
<1>3. Reviewed(x) /\ x.nodes = State.nodes /\ x.session = State.session /\ State.session.status # "WAIT_WORKFLOW_SELECT"
  BY <1>1, ReviewedIdle DEF IInv
<1> HIDE DEF x
<1>4. x \in States
  BY <1>3 DEF Reviewed, CoreInv
<1>5. Driven(x, x) /\ Driven(x, SetStatus(x, "WAIT_USER_DECISION")) /\ Driven(x, SetStatus(x, "FAILED"))
  BY <1>3, ReviewedStatus
<1>6. Driven(x, Rework(x))
  BY <1>3, ReworkDriven
<1>7. Driven(x, ended) /\ Driven(x, SetStatus(ended, "WAIT_USER_DECISION"))
  <2>1. /\ ended \in States /\ ended.run = x.run /\ ended.slot = x.slot
        /\ ended.superseded = x.superseded /\ ended.session = x.session /\ Alike(x.nodes, ended.nodes)
    BY <1>4, SetUnfinishedEffect, "ended" \in Tasks DEF Tasks
  <2> HIDE DEF ended
  <2>2. Restatus(ended, SetStatus(ended, "WAIT_USER_DECISION"))
        /\ SetStatus(ended, "WAIT_USER_DECISION").session.status = "WAIT_USER_DECISION"
    BY <2>1, SetStatusEffect, "WAIT_USER_DECISION" \in Statuses DEF Statuses
  <2> DEFINE asked == SetStatus(ended, "WAIT_USER_DECISION")
  <2>3. /\ asked \in States /\ asked.run = x.run /\ asked.slot = x.slot /\ asked.superseded = x.superseded
        /\ asked.session.conflict = x.session.conflict /\ Alike(x.nodes, asked.nodes)
        /\ asked.session.status = "WAIT_USER_DECISION"
    BY <1>4, <2>1, <2>2 DEF Restatus, States, Sessions
  <2> HIDE DEF asked
  <2>4. Driven(x, ended)
    BY <1>3, <2>1, ReviewedDriven DEF Reviewed
  <2>5. Driven(x, asked)
    BY <1>3, <2>3, ReviewedDriven DEF Reviewed
  <2> QED BY <2>4, <2>5 DEF asked
<1>8. Driven(x, delivered) /\ Driven(x, SetStatus(delivered, "COMPLETED"))
  <2>1. /\ delivered \in States /\ delivered.run = x.run /\ delivered.slot = x.slot
        /\ delivered.superseded = x.superseded /\ delivered.nodes = x.nodes
        /\ delivered.session.conflict = x.session.conflict /\ delivered.session.status = x.session.status
    BY <1>4 DEF States, Sessions
  <2> HIDE DEF delivered
  <2> DEFINE done == SetStatus(delivered, "COMPLETED")
  <2>2. Restatus(delivered, done) /\ done.session.status = "COMPLETED"
    BY <2>1, SetStatusEffect, "COMPLETED" \in Statuses DEF Statuses
  <2> HIDE DEF done
  <2>3. /\ done \in States /\ done.run = x.run /\ done.slot = x.slot /\ done.superseded = x.superseded
        /\ done.session.conflict = x.session.conflict /\ done.nodes = x.nodes
    BY <1>4, <2>1, <2>2 DEF Restatus, States, Sessions
  <2>4. Alike(x.nodes, x.nodes)
    BY DEF Alike
  <2>5. Driven(x, delivered)
    BY <1>3, <2>1, <2>4, ReviewedDriven DEF Reviewed
  <2>6. Driven(x, done)
    BY <1>3, <2>2, <2>3, <2>4, ReviewedDriven DEF Reviewed
  <2> QED BY <2>5, <2>6 DEF done
<1>9. Driven(x, y)
  <2> HIDE DEF ended, delivered
  <2> QED BY <1>2, <1>5, <1>6, <1>7, <1>8
<1>10. Driven(State, y)
  BY <1>3, <1>9 DEF Driven
<1>11. slot # Idle
  BY <1>1, StateIs DEF Idle
<1> HIDE DEF Results
<1> QED BY <1>1, <1>2, <1>10, <1>11, Chosen, StepKept DEF Keeps

LEMMA DecideHumanKeeps ==
    ASSUME IInv, DecideHuman
    PROVE  Keeps
<1> DEFINE i == Len(State.nodes)
           Mark(status) == [State EXCEPT !.nodes[i].status = status]
           Results == {Advance(Mark("approved"), State.nodes[i].node),
                       GoTo(Mark("revision_requested"), ReworkTarget(State.run.at)),
                       Finish(Mark("completed"), "cancelled")}
<1>1. /\ State.run.status = "waiting_human" /\ State.run.parked # "upstream"
      /\ State.nodes[i].by = "human" /\ State.nodes[i].status = "waiting"
      /\ UNCHANGED <<starting, pausing>>
  BY StateIs DEF DecideHuman
<1>2. PICK y \in Results : Become(y)
  BY StateIs DEF DecideHuman
<1>3. Driven(State, y)
  BY <1>1, DecideHumanDriven DEF IInv
<1>4. nodeRuns # <<>>
  BY <1>1, StateIs DEF IInv, CoreInv, Live, LiveInv
<1> HIDE DEF Results
<1> QED BY <1>1, <1>2, <1>3, <1>4, Chosen, StepKept DEF Keeps

LEMMA SubstituteKeeps ==
    ASSUME IInv, Substitute
    PROVE  Keeps
<1> DEFINE i == LastRun(State, State.run.at)
           y == SetStatus(Launch([State EXCEPT !.run.status = "running", !.run.parked = "no",
                                               !.run.card = FALSE, !.nodes[i].status = "running",
                                               !.nodes[i].task = "open"], i), "EXECUTING")
<1>1. State.run.parked = "substitution" /\ Become(y) /\ UNCHANGED <<starting, pausing>>
  BY StateIs DEF Substitute, CanSubstitute
<1>2. Driven(State, y)
  BY <1>1, SubstituteDriven DEF IInv
<1>3. nodeRuns # <<>>
  BY <1>1, StateIs, ParkedReady DEF IInv
<1> HIDE DEF y
<1> QED BY <1>1, <1>2, <1>3, Chosen, StepKept DEF Keeps

LEMMA SkipKeeps ==
    ASSUME IInv, Skip
    PROVE  Keeps
<1> DEFINE i == LastRun(State, State.run.at)
           y == Advance([State EXCEPT !.run = [ NoRun EXCEPT !.status = "running", !.at = State.run.at ],
                                      !.nodes[i].status = "skipped", !.nodes[i].task = "ended"], State.run.at)
<1>1. State.run.parked = "substitution" /\ UNCHANGED <<starting, pausing>>
  BY StateIs DEF Skip, CanSubstitute
<1>2. Become(y) \/ Become(SetStatus(y, "EXECUTING"))
  BY StateIs DEF Skip, ThenExecuting
<1>3. Driven(State, y) /\ Driven(State, SetStatus(y, "EXECUTING"))
  BY <1>1, SkipDriven DEF IInv
<1>4. nodeRuns # <<>>
  BY <1>1, StateIs, ParkedReady DEF IInv
<1> HIDE DEF y
<1> QED BY <1>1, <1>2, <1>3, <1>4, Chosen, StepKept DEF Keeps

LEMMA AnswerUpstreamKeeps ==
    ASSUME IInv, AnswerUpstream
    PROVE  Keeps
<1> DEFINE i == LastRun(State, State.run.at)
           y(m) == GoTo(CloseParked(State, i), m)
<1>1. State.run.parked = "upstream" /\ UNCHANGED <<starting, pausing>>
  BY StateIs DEF AnswerUpstream
<1>2. PICK m \in {a \in Agents : a < State.run.at} \cup {State.run.at} :
          Become(y(m)) \/ Become(SetStatus(y(m), "EXECUTING"))
  BY StateIs DEF AnswerUpstream, ThenExecuting
<1>3. Driven(State, y(m)) /\ Driven(State, SetStatus(y(m), "EXECUTING"))
  BY <1>1, AnswerUpstreamDriven DEF IInv
<1>4. nodeRuns # <<>>
  BY <1>1, StateIs, ParkedReady DEF IInv
<1> HIDE DEF y
<1> QED BY <1>1, <1>2, <1>3, <1>4, Chosen, StepKept DEF Keeps

LEMMA ResolveConflictKeeps ==
    ASSUME IInv, ResolveConflict
    PROVE  Keeps
<1> DEFINE i == State.session.conflict
           x == SetStatus([State EXCEPT !.session.conflict = 0], "EXECUTING")
           Results == {AcceptOutcome([x EXCEPT !.nodes[i].task = "ended"]), Redrive(x),
                       Redrive([x EXCEPT !.nodes[i].task = "open"])}
<1>1. i # 0 /\ UNCHANGED <<starting, pausing>>
  BY StateIs DEF ResolveConflict
<1>2. PICK y \in Results : Become(y)
  BY StateIs DEF ResolveConflict
<1>3. Driven(State, y)
  BY <1>1, <1>2, ResolveConflictDriven DEF IInv
<1>4. nodeRuns # <<>>
  BY <1>1, StateIs DEF IInv, CoreInv, Indexed, States, Sessions
<1> HIDE DEF Results
<1> QED BY <1>1, <1>2, <1>3, <1>4, Chosen, StepKept DEF Keeps

LEMMA RescheduleKeeps ==
    ASSUME IInv, Reschedule
    PROVE  Keeps
<1> DEFINE i == LastRun(State, State.run.at)
           y == [Abort(State, "superseded") EXCEPT !.superseded = @ \cup {i}]
<1>1. /\ State.session.status = "EXECUTING" /\ Busy(State) /\ Live(State) /\ i # 0
      /\ Become(y) /\ UNCHANGED <<starting, pausing>>
  BY StateIs DEF Reschedule
<1>2. Driven(State, y)
  BY <1>1, RescheduleDriven DEF IInv
<1>3. session.status = "EXECUTING"
  BY <1>1, StateIs
<1> HIDE DEF y
<1> QED BY <1>1, <1>2, <1>3, Chosen, StepKept DEF Keeps

LEMMA PauseBeginKeeps ==
    ASSUME IInv, PauseBegin
    PROVE  Keeps
<1>1. /\ session.status \in {"EXECUTING", "REWORKING"} /\ pausing' = TRUE
      /\ UNCHANGED <<run, nodeRuns, context, slot, superseded, session, starting>>
  BY DEF PauseBegin
<1>2. State' = State
  BY <1>1 DEF State
<1>3. CoreInv(State') /\ SessionInv(State')
  BY <1>2 DEF IInv
<1>4. AwaitInv'
  BY <1>1 DEF IInv, AwaitInv
<1>5. Kept(nodeRuns, nodeRuns')
  <2>1. nodeRuns \in Seq(NodeRun)
    BY StateIs DEF IInv, CoreInv, States
  <2> QED BY <1>1, <2>1 DEF Kept
<1> QED BY <1>3, <1>4, <1>5 DEF IInv, Keeps

LEMMA PauseCommitKeeps ==
    ASSUME IInv, PauseCommit
    PROVE  Keeps
<1> DEFINE y == Abort([State EXCEPT !.session.open = FALSE, !.session.previous = State.session.status,
                                    !.session.status = "PAUSED"], "pause")
<1>1. pausing /\ pausing' = FALSE /\ Become(y) /\ starting' = starting
  BY StateIs DEF PauseCommit
<1>2. session.status # "PAUSED" /\ session.status # "WAIT_WORKFLOW_SELECT"
  BY <1>1 DEF IInv, AwaitInv
<1>3. CoreInv(y) /\ SessionInv(y) /\ Kept(State.nodes, y.nodes) /\ y.session.status = "PAUSED"
  BY <1>2, StateIs, PauseCore DEF IInv
<1> HIDE DEF y
<1>4. State' = y
  BY <1>1, <1>3, BecomeIs DEF CoreInv
<1>5. session' = y.session /\ nodeRuns' = y.nodes
  BY <1>1 DEF Become
<1>6. ~starting
  BY <1>1 DEF IInv, AwaitInv
<1>7. AwaitInv'
  BY <1>1, <1>3, <1>5, <1>6 DEF AwaitInv, IInv
<1> QED BY <1>3, <1>4, <1>5, <1>7, StateIs DEF IInv, Keeps

\* A run that is cancelled while it starts has no node run and no execution, and so
\* nothing that a resume could touch before start() goes on.
LEMMA ResumeKeeps ==
    ASSUME IInv, Resume
    PROVE  Keeps
<1> DEFINE x == Reopen(State)
           Execute == IF State.session.delivered THEN SetStatus(x, "COMPLETED")
                                                 ELSE Redrive(SetStatus(x, "EXECUTING"))
           Back == IF ~State.session.delivered /\ State.session.previous \in
                          {"WAIT_WORKFLOW_STEP_CONFIRM", "WAIT_USER_DECISION", "COMPLETED", "FAILED",
                           "WAIT_WORKSPACE_CONFLICT_RESOLUTION"}
                   THEN SetStatus(x, State.session.previous) ELSE Execute
<1>1. /\ State.session.status \notin {"EXECUTING", "REWORKING", "COMPLETED", "WAIT_WORKFLOW_SELECT"}
      /\ UNCHANGED <<starting, pausing>>
  BY StateIs DEF Resume
<1>2. /\ State.session.status # "PAUSED" => Driven(State, x)
      /\ State.session.status \in {"WAIT_USER_DECISION", "WAIT_WORKFLOW_STEP_CONFIRM"} => Driven(State, Execute)
      /\ State.session.status \in {"FAILED", "INTERRUPTED"} => Driven(State, Redrive(SetStatus(x, "EXECUTING")))
      /\ State.session.status = "PAUSED" => Driven(State, [Back EXCEPT !.session.previous = "EXECUTING"])
  BY <1>1, ResumeDriven DEF IInv
<1>3. \/ Become(x) /\ State.session.status # "PAUSED"
      \/ Become(Execute) /\ State.session.status \in {"WAIT_USER_DECISION", "WAIT_WORKFLOW_STEP_CONFIRM"}
      \/ Become(Redrive(SetStatus(x, "EXECUTING"))) /\ State.session.status \in {"FAILED", "INTERRUPTED"}
      \/ Become([Back EXCEPT !.session.previous = "EXECUTING"]) /\ State.session.status = "PAUSED"
  BY StateIs DEF Resume, Reopen
<1>4. PICK y : /\ Become(y) /\ Driven(State, y)
               /\ State.session.status \notin {"WAIT_USER_DECISION", "WAIT_WORKFLOW_STEP_CONFIRM", "FAILED",
                                               "INTERRUPTED", "PAUSED"} => y = x
  <2> HIDE DEF x, Execute, Back
  <2> QED BY <1>2, <1>3
<1>5. CASE ~starting
  <2> HIDE DEF x, Execute, Back
  <2> QED BY <1>1, <1>4, <1>5, StateIs, StepKept DEF Keeps
<1>6. CASE starting
  <2>1. /\ nodeRuns = <<>> /\ slot = Idle /\ run.status = "cancelled" /\ session.status = "CANCELLED"
        /\ ~pausing
    BY <1>1, <1>6, StateIs DEF IInv, AwaitInv
  <2>2. y = x
    BY <1>4, <2>1, StateIs
  <2>3. y \in States
    BY <1>4 DEF Driven, CoreInv
  <2>4. State' = y
    BY <1>4, <2>3, BecomeIs
  <2>5. CoreInv(State') /\ SessionInv(State') /\ Kept(State.nodes, y.nodes)
    BY <1>4, <2>4 DEF Driven
  <2>6. /\ y.run = State.run /\ y.nodes = State.nodes /\ y.slot = State.slot
        /\ y.session.status = State.session.status
    <3>1. State \in States
      BY DEF IInv, CoreInv
    <3> QED BY <2>2, <3>1 DEF Reopen, States, Sessions
  <2>7. /\ run' = run /\ nodeRuns' = nodeRuns /\ slot' = slot /\ session'.status = session.status
    BY <1>4, <2>6, StateIs DEF Become
  <2>8. AwaitInv'
    BY <1>1, <2>1, <2>7 DEF AwaitInv, IInv
  <2> HIDE DEF x, Execute, Back
  <2> QED BY <2>5, <2>6, <2>7, <2>8, StateIs DEF IInv, Keeps
<1> QED BY <1>5, <1>6

\* A run that is cancelled while it starts stays cancelled until start() goes on.
LEMMA CancelKeeps ==
    ASSUME IInv, Cancel
    PROVE  Keeps
<1> DEFINE v == Abort(SetStatus(State, "CANCELLED"), "cancel")
           y == IF ~Live(v) THEN v ELSE Finish(SetUnfinished(v, "ended"), "cancelled")
<1>1. Become(y) /\ UNCHANGED <<starting, pausing>>
  BY DEF Cancel
<1>2. /\ Driven(State, y) /\ y.session.status = "CANCELLED"
      /\ Live(State) => y.run.status = "cancelled"
      /\ y.slot = Idle <=> State.slot = Idle
      /\ Len(y.nodes) = Len(State.nodes)
  BY CancelDriven DEF IInv
<1> HIDE DEF y
<1>3. State' = y /\ y \in States
  BY <1>1, <1>2, BecomeIs DEF Driven, CoreInv
<1>4. CoreInv(State') /\ SessionInv(State') /\ Kept(State.nodes, y.nodes)
  BY <1>2, <1>3 DEF Driven
<1>5. run' = y.run /\ nodeRuns' = y.nodes /\ slot' = y.slot /\ session' = y.session
  BY <1>1 DEF Become
<1>6. ASSUME starting
      PROVE  nodeRuns' = <<>> /\ slot' = Idle /\ ~pausing /\ run'.status = "cancelled"
  <2>1. nodeRuns = <<>> /\ slot = Idle /\ ~pausing /\ run.status \in {"running", "cancelled"}
    BY <1>6 DEF IInv, AwaitInv
  <2>2. y.nodes = <<>>
    BY <1>2, <1>3, <2>1, StateIs DEF States
  <2>3. y.run.status = "cancelled"
    <3>1. CASE run.status = "running"
      BY <1>2, <3>1, StateIs DEF Live
    <3>2. CASE run.status = "cancelled"
      <4>1. Restatus(State, SetStatus(State, "CANCELLED"))
        BY SetStatusEffect, "CANCELLED" \in Statuses DEF IInv, CoreInv, Statuses
      <4>2. v.run = State.run
        BY <4>1, AbortEffect DEF Restatus, Aborts
      <4>3. y = v
        BY <3>2, <4>2, StateIs DEF y, Live
      <4> QED BY <3>2, <4>2, <4>3, StateIs
    <3> QED BY <2>1, <3>1, <3>2
  <2> QED BY <1>2, <1>5, <2>1, <2>2, <2>3, StateIs
<1>7. AwaitInv'
  BY <1>1, <1>2, <1>5, <1>6 DEF AwaitInv, IInv
<1> QED BY <1>4, <1>5, <1>7, StateIs DEF IInv, Keeps

LEMMA DisconnectKeeps ==
    ASSUME IInv, Disconnect
    PROVE  Keeps
<1> DEFINE y == Abort(Interrupt(State), "disconnect")
<1>1. State.session.status \in {"EXECUTING", "REWORKING"} /\ Become(y) /\ UNCHANGED <<starting, pausing>>
  BY StateIs DEF Disconnect
<1>2. Driven(State, y)
  BY <1>1, DisconnectDriven DEF IInv
<1> HIDE DEF y
<1> QED BY <1>1, <1>2, StateIs, Chosen, StepKept DEF Keeps

LEMMA RestartKeeps ==
    ASSUME IInv, Restart
    PROVE  Keeps
<1> DEFINE v == [State EXCEPT !.context = FALSE, !.slot = Idle, !.superseded = {}]
           y == Reconcile(IF State.session.status \in {"EXECUTING", "REWORKING"} THEN Interrupt(v) ELSE v)
<1>1. Become(y) /\ starting' = FALSE /\ pausing' = FALSE
  BY StateIs DEF Restart
<1>2. Driven(State, y) /\ (State.session.status = "WAIT_WORKFLOW_SELECT" => y.run = State.run /\ y.context = FALSE)
  BY RestartDriven DEF IInv
<1> HIDE DEF y
<1>3. State' = y
  BY <1>1, <1>2, BecomeIs DEF Driven, CoreInv
<1>4. CoreInv(State') /\ SessionInv(State') /\ Kept(State.nodes, y.nodes)
  BY <1>2, <1>3 DEF Driven
<1>5. run' = y.run /\ nodeRuns' = y.nodes /\ context' = y.context /\ session' = y.session
  BY <1>1 DEF Become
<1>6. AwaitInv'
  BY <1>1, <1>2, <1>5, StateIs DEF Driven, IInv, AwaitInv
<1> QED BY <1>4, <1>5, <1>6, StateIs DEF IInv, Keeps

LEMMA NextInvariant ==
    ASSUME IInv, [Next]_vars
    PROVE  Keeps
<1>1. CASE UNCHANGED vars
  <2>1. State' = State /\ UNCHANGED <<run, nodeRuns, context, slot, session, starting, pausing>>
    BY <1>1 DEF vars, State
  <2>2. AwaitInv' /\ CoreInv(State') /\ SessionInv(State')
    BY <2>1 DEF IInv, AwaitInv
  <2>3. Kept(nodeRuns, nodeRuns')
    <3>1. nodeRuns \in Seq(NodeRun)
      BY StateIs DEF IInv, CoreInv, States
    <3> QED BY <2>1, <3>1 DEF Kept
  <2> QED BY <2>2, <2>3 DEF IInv, Keeps
<1>2. CASE Next
  BY <1>2, StartKeeps, StartDoneKeeps, StartAgainKeeps, NodeOutcomeKeeps, NodeAbortedKeeps, ReviewOutcomeKeeps,
     DecideHumanKeeps, SubstituteKeeps, SkipKeeps, AnswerUpstreamKeeps, ResolveConflictKeeps, RescheduleKeeps,
     PauseBeginKeeps, PauseCommitKeeps, ResumeKeeps, CancelKeeps, DisconnectKeeps, RestartKeeps DEF Next
<1> QED BY <1>1, <1>2

-----------------------------------------------------------------------------
(* What the runs check, for every workflow and every bound.                *)

\* The inductive invariant holds in every reachable state.
THEOREM Invariance == Spec => []IInv
<1>1. Init => IInv
  BY InitInvariant
<1>2. IInv /\ [Next]_vars => IInv'
  BY NextInvariant DEF Keeps
<1> QED BY <1>1, <1>2, PTL DEF Spec

LEMMA InvariantTypes ==
    ASSUME IInv
    PROVE  TypeOK
<1>1. CoreInv(State) /\ State \in States
  BY DEF IInv, CoreInv
<1>2. nodeRuns \in Seq(NodeRun) /\ Len(nodeRuns) \in Nat /\ DOMAIN nodeRuns = 1 .. Len(nodeRuns)
  BY <1>1, StateIs DEF States
<1>3. /\ run \in Runs /\ context \in BOOLEAN /\ session \in Sessions
      /\ slot \in [ work : Work, nodeRun : Nat, abort : Aborts ]
  BY <1>1, StateIs DEF States
<1>4. /\ slot.nodeRun <= Len(nodeRuns) /\ superseded \subseteq DOMAIN nodeRuns
      /\ session.conflict <= Len(nodeRuns)
  BY <1>1, StateIs DEF CoreInv, Indexed
<1>5. slot \in [ work : {"idle", "node", "review"}, nodeRun : DOMAIN nodeRuns \cup {0},
                abort : {"no", "pause", "superseded", "cancel", "disconnect"} ]
  BY <1>2, <1>3, <1>4 DEF Work, Aborts
<1>6. session \in [ status : Statuses, open : BOOLEAN, previous : Statuses, delivered : BOOLEAN,
                   reworks : 0 .. (MaxReworks + 1), conflict : DOMAIN nodeRuns \cup {0} ]
  BY <1>2, <1>3, <1>4 DEF Sessions
<1>7. run \in [ status : {"none", "running", "waiting_human"} \cup Terminal, at : Nodes \cup {0},
               parked : {"no", "substitution", "upstream"}, card : BOOLEAN, asked : BOOLEAN ]
  BY <1>3 DEF Runs
<1>8. starting \in BOOLEAN /\ pausing \in BOOLEAN
  BY DEF IInv, AwaitInv
<1>9. Live(State) => run.at \in Nodes
  BY <1>1, StateIs DEF CoreInv, LiveInv
<1> QED BY <1>2, <1>3, <1>4, <1>5, <1>6, <1>7, <1>8, <1>9 DEF TypeOK

\* The run, its node runs and the Session's record keep the shapes of
\* WorkflowRun, WorkflowNodeRun and SessionDetail, and every index stays one.
THEOREM TypeCorrect == Spec => []TypeOK
BY Invariance, InvariantTypes, PTL

LEMMA InvariantOneRunning ==
    ASSUME IInv
    PROVE  OneRunningNode
BY StateIs DEF IInv, CoreInv, LiveInv, OneRunningNode

\* A live run has at most one node run under way, and it is one of its current
\* node (resumeCurrentExecution never leaves an older attempt running).
THEOREM OneRunning == Spec => []OneRunningNode
BY Invariance, InvariantOneRunning, PTL

\* The last node run of a gate is the one that Clear speaks of.
LEMMA ClearIsCleared ==
    ASSUME State \in States, NEW n, Clear(nodeRuns, n)
    PROVE  Cleared(n)
<1> SUFFICES ASSUME NEW g \in Nodes \ Agents, g < n
             PROVE  LET last == LastRun(State, g)
                    IN  /\ last # 0
                        /\ nodeRuns[last].status = "approved"
                        /\ \A a \in Agents : a < g => LastRun(State, a) < last
  BY DEF Cleared
<1>1. PICK last \in DOMAIN nodeRuns :
          /\ nodeRuns[last].node = g /\ nodeRuns[last].status = "approved"
          /\ \A j \in DOMAIN nodeRuns : /\ nodeRuns[j].node = g => j <= last
                                        /\ nodeRuns[j].node \in Agents /\ nodeRuns[j].node < g => j < last
  BY DEF Clear
<1>2. nodeRuns \in Seq(NodeRun) /\ Len(nodeRuns) \in Nat /\ DOMAIN nodeRuns = 1 .. Len(nodeRuns)
  BY StateIs DEF States
<1>3. /\ \A m : LastRun(State, m) \in 0 .. Len(nodeRuns)
      /\ \A m : LastRun(State, m) # 0 => nodeRuns[LastRun(State, m)].node = m
      /\ last <= LastRun(State, g)
  BY <1>1, StateIs, LastRunIs
<1>4. LastRun(State, g) = last
  <2> DEFINE k == LastRun(State, g)
  <2>1. k \in 0 .. Len(nodeRuns) /\ (k # 0 => nodeRuns[k].node = g) /\ last <= k
    BY <1>3
  <2> HIDE DEF k
  <2>2. k \in DOMAIN nodeRuns /\ k # 0
    BY <1>2, <2>1
  <2>3. k <= last
    <3>1. nodeRuns[k].node = g
      BY <2>1, <2>2
    <3>2. \A j \in DOMAIN nodeRuns : nodeRuns[j].node = g => j <= last
      BY <1>1, Zenon
    <3> QED BY ONLY <2>2, <3>1, <3>2
  <2>4. k = last
    BY <1>2, <2>1, <2>2, <2>3
  <2> QED BY <2>4 DEF k
<1>5. ASSUME NEW a \in Agents, a < g PROVE LastRun(State, a) < last
  <2>1. CASE LastRun(State, a) = 0
    BY <1>2, <2>1
  <2>2. CASE LastRun(State, a) # 0
    BY <1>1, <1>2, <1>3, <1>5, <2>2
  <2> QED BY <2>1, <2>2
<1> QED BY <1>1, <1>2, <1>4, <1>5

LEMMA InvariantApproved ==
    ASSUME IInv
    PROVE  WorkIsApproved
<1>1. State \in States
  BY DEF IInv, CoreInv
<1>2. Live(State) => Clear(nodeRuns, run.at)
  BY StateIs DEF IInv, CoreInv, LiveInv
<1>3. run.status = "completed" => Clear(nodeRuns, Len(Kinds) + 1)
  BY StateIs DEF IInv, CoreInv, EndInv
<1> QED BY <1>1, <1>2, <1>3, ClearIsCleared DEF WorkIsApproved

\* No node is under way and no run completes behind a gate that has not approved
\* the latest work before it (advanceAfterNode).
THEOREM Approved == Spec => []WorkIsApproved
BY Invariance, InvariantApproved, PTL

LEMMA InvariantParked ==
    ASSUME IInv
    PROVE  ParkedIsQuiet
BY StateIs DEF IInv, CoreInv, ParkInv, ParkedIsQuiet

\* Nothing executes behind a decision on a declined or incomplete node
\* (awaitsAgentSubstitution, awaitsUpstreamRerun).
THEOREM ParkedQuietly == Spec => []ParkedIsQuiet
BY Invariance, InvariantParked, PTL

LEMMA InvariantDriven ==
    ASSUME IInv
    PROVE  RunningIsDriven
BY StateIs DEF IInv, SessionInv, Live, RunningIsDriven

\* A Session that shows EXECUTING has an execution that drives its running run.
THEOREM Driving == Spec => []RunningIsDriven
BY Invariance, InvariantDriven, PTL

\* A node run that has ended keeps its status, whatever outcome arrives later.
THEOREM HistoryKept == Spec => HistoryIsKept
<1> DEFINE Stays == \A i \in DOMAIN nodeRuns :
                        nodeRuns[i].status \notin {"running", "waiting"} => nodeRuns'[i].status = nodeRuns[i].status
<1>1. IInv /\ [Next]_vars => [Stays]_vars
  BY NextInvariant DEF Keeps, Kept, Final
<1> HIDE DEF Stays
<1>2. Spec => [][Stays]_vars
  BY <1>1, Invariance, PTL DEF Spec
<1> QED BY <1>2 DEF HistoryIsKept, Stays
=============================================================================
