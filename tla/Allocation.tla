----------------------------- MODULE Allocation -----------------------------
(***************************************************************************)
(* The allocation of tasks to the nodes of a cluster: demo.py, whose loop  *)
(* allocator.py repeats.  Tasks are taken in the order of their            *)
(* priorities; each goes to the node with the least workload on which it   *)
(* and the tasks that are there already meet their deadlines, or to none.  *)
(*                                                                         *)
(* A task is its place in the order of priorities, which differ: of equal  *)
(* ones the heap would compare the tasks, and raise.  Delays are natural   *)
(* numbers of some unit of time.                                           *)
(***************************************************************************)
EXTENDS Integers, FiniteSetsExt

CONSTANTS
  Node,      \* ids of the nodes
  TaskNum,   \* tasks in the configuration
  Profile,   \* what a configuration file may say of a task
  CommTime,  \* of a sensor type, from node to node: frame size by bandwidth
  Nowhere,   \* the -1 of alloc_result
  Scale      \* of workloads, which the code keeps as fractions

Task == 1..TaskNum

ASSUME TaskNumAssumption == TaskNum \in Nat
ASSUME NodeAssumption == Node \subseteq Nat /\ Nowhere \notin Node
ASSUME ProfileAssumption ==
  \A p \in Profile :
    /\ p.deadline \in Nat \ {0} /\ p.fps \in Nat /\ p.time \in Nat
    /\ p.node \in Node
    /\ \A n \in Node : CommTime[p.sensor][p.node][n] \in Nat

VARIABLES
  task_list,    \* the profile of each task
  queue,        \* ordered_queue: tasks not yet looked at
  tasklist,     \* of each node: the tasks it has been given
  candidates,   \* tasks not allocated
  alloc_result  \* of each task: its node

vars == <<task_list, queue, tasklist, candidates, alloc_result>>

Init ==
  /\ task_list \in [Task -> Profile]
  /\ queue = Task
  /\ tasklist = [n \in Node |-> {}]
  /\ candidates = Task
  /\ alloc_result = [t \in Task |-> Nowhere]

----------------------------------------------------------------------------

Delay(t, n) == CommTime[task_list[t].sensor][task_list[t].node][n]

\* The time the tasks in ts take of each second: fps * opt_time.
Work(profiles, ts) == MapThenSumSet(LAMBDA t : profiles[t].fps * profiles[t].time, ts)

\* Task t meets its deadline when ts run on one node and its frames arrive
\* after delay: Work / fps + delay <= deadline.
InTime(profiles, ts, t, delay) ==
  Work(profiles, ts) + profiles[t].fps * delay <= profiles[t].fps * profiles[t].deadline

\* mutant: of a node's tasks, only the new one is tested
TestsNewest(t, n) == InTime(task_list, tasklist[n] \cup {t}, t, Delay(t, n))
\* Every task is tested with the delay of the new one.
Fits(t, n) ==
  \A u \in tasklist[n] \cup {t} : InTime(task_list, tasklist[n] \cup {t}, u, Delay(t, n))

\* The search stops at the first node whose delay exceeds the deadline; the
\* nodes are sorted by delay.
Near(t) == {n \in Node : Delay(t, n) <= task_list[t].deadline}

Workload(t, n) ==
  MapThenSumSet(LAMBDA u : (task_list[u].time * Scale) \div task_list[u].deadline,
                tasklist[n] \cup {t})

\* node_order: by delay, and nodes of one delay by their ids.
Before(t, m, n) == Delay(t, m) < Delay(t, n) \/ (Delay(t, m) = Delay(t, n) /\ m <= n)

\* mutant: the search stops at the first node that does not fit
BeforeMisfit(t) == {n \in Near(t) : \A m \in Near(t) : Before(t, m, n) => Fits(t, m)}
Selectable(t) == {n \in Near(t) : Fits(t, n)}

\* current_node: the least workload, the first of several in node_order.
Lightest(t, n) ==
  \A m \in Selectable(t) :
    \/ Workload(t, n) < Workload(t, m)
    \/ Workload(t, n) = Workload(t, m) /\ Before(t, n, m)

\* mutant: the task with the highest number is taken
LeastUrgent(t) == t \in queue /\ \A u \in queue : u <= t
Head(t) == t \in queue /\ \A u \in queue : t <= u

Place(t, n) ==
  /\ n \in Selectable(t) /\ Lightest(t, n)
  /\ tasklist' = [tasklist EXCEPT ![n] = @ \cup {t}]
  /\ candidates' = candidates \ {t}
  /\ alloc_result' = [alloc_result EXCEPT ![t] = n]

LeaveOut(t) ==
  /\ Selectable(t) = {}
  /\ UNCHANGED <<tasklist, candidates, alloc_result>>

Allocate(t) ==
  /\ Head(t)
  /\ queue' = queue \ {t}
  /\ LeaveOut(t) \/ \E n \in Node : Place(t, n)
  /\ UNCHANGED task_list

Next == \E t \in Task : Allocate(t)

Spec == Init /\ [][Next]_vars

----------------------------------------------------------------------------
(* Properties.                                                             *)

TypeOK ==
  /\ task_list \in [Task -> Profile]
  /\ queue \in SUBSET Task
  /\ tasklist \in [Node -> SUBSET Task]
  /\ candidates \in SUBSET Task
  /\ alloc_result \in [Task -> Node \cup {Nowhere}]

LeftOut == {t \in Task \ queue : alloc_result[t] = Nowhere}
InReach(t, n) == Delay(t, n) <= task_list[t].deadline
Newest(n, u) == u \in tasklist[n] /\ \A v \in tasklist[n] : v <= u

\* With t on node n beside ts, some task would miss its deadline.
TooMuch(ts, t, n) == \E u \in ts \cup {t} : ~ InTime(task_list, ts \cup {t}, u, Delay(t, n))

\* What the tests of many allocations leave of a deadline: every task of a node
\* meets it whenever its frames arrive as fast as those of the task that came
\* to the node last; so no task is late by more than the difference of the two
\* delays, and none whose link is the faster one (demo.py:101-109).
LateByLinkOnly ==
  \A n \in Node : \A t, u \in tasklist[n] :
    Newest(n, u) => InTime(task_list, tasklist[n], t, Delay(u, n))

\* A task is left out only because of more urgent ones: on every node in reach,
\* it and they alone would not meet their deadlines (demo.py:55-63, and
\* taskreader.py:30, "Higher priority has smaller value").
LeftOutByMoreUrgent ==
  \A t \in LeftOut, n \in Node :
    InReach(t, n) => TooMuch({u \in tasklist[n] : u < t}, t, n)

\* The allocation is maximal: a task that was left out fits nowhere at the end
\* either, so another pass over the candidates would place none (demo.py:118).
LeftOutFitsNowhere ==
  \A t \in LeftOut, n \in Node : InReach(t, n) => TooMuch(tasklist[n], t, n)

\* "If the total delay of the task is less than its deadline, allocating it on
\* the node" (allocator.py:131): execution and its own link.
MeetsDeadline ==
  \A n \in Node : \A t \in tasklist[n] : InTime(task_list, tasklist[n], t, Delay(t, n))
=============================================================================
