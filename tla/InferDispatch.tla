---------------------------- MODULE InferDispatch ----------------------------
(***************************************************************************)
(* The local scheduler and the model processes it dispatches to            *)
(* (local_scheduler.py, model_inference.py, started by control.py).        *)
(*                                                                         *)
(* Every task has a ring of pre-processed frames and two model processes,  *)
(* variant 0 (full) and variant 1 (small).  The scheduler scans the rings, *)
(* selects a task, and either drops its oldest frame or signals one model  *)
(* and waits for its answer.  Which task, and drop or variant, depends on  *)
(* times: here every choice the scan allows is made.                       *)
(*                                                                         *)
(* A ring is what FrameQueue promises of it: its frames are gone+1..made.  *)
(* A put holds the rear semaphore from making room to publishing.          *)
(***************************************************************************)
EXTENDS Integers, FiniteSets

CONSTANTS
  TaskNum,    \* task_num: tasks are 0 .. TaskNum - 1
  Capacity,   \* frames a ring holds: max_length - 1
  MaxFrames,  \* bound: of each task, frames put in its ring
  Broken,     \* frames that do not reshape: get throws them away
  Unreadable, \* frames cut within an item: np.frombuffer raises in get
  MayRaise,   \* threads whose sendto or post_queue.put may raise
  Scheduler,  \* the scheduler process
  Free        \* the owner of a condition's lock nobody holds

Tasks    == 0..(TaskNum - 1)
Variants == {0, 1}
Threads  == Tasks \X Variants      \* thread_id = task * 2 + variant
Procs    == Threads \cup {Scheduler}

ASSUME TaskNumAssumption == TaskNum \in Nat \ {0}
ASSUME ProcsAssumption == Scheduler \notin Threads /\ Free \notin Procs
\* max_length is 5; rings of one frame are excluded (see CrossQueue).
ASSUME CapacityAssumption == Capacity \in Nat /\ Capacity >= 2
ASSUME FramesAssumption ==
  MaxFrames \in [Tasks -> Nat] /\ Broken \subseteq Nat /\ Unreadable \subseteq Nat

VARIABLES
  made,       \* newest frame in each task's ring
  gone,       \* newest frame no longer in it
  putting,    \* a put holds the ring's rear semaphore
  startFlag,  \* start_flag, by thread
  endFlag,    \* end_flag, by thread
  startLock,  \* owner of start_lock
  endLock,    \* owner of end_lock
  pc,         \* the next step of each process
  at,         \* scheduler: the task its scan is at, TaskNum when it is done
  front,      \* scheduler: the front word size() read
  sized,      \* scheduler: what size() returned
  seen,       \* scheduler: start_time, 0 for an empty ring
  selected    \* scheduler: the thread it dispatches to

rings    == <<made, gone, putting>>
signals  == <<startFlag, endFlag, startLock, endLock>>
scanVars == <<at, front, sized, seen>>
vars     == <<rings, signals, pc, scanVars, selected>>

Goto(p, label) == pc' = [pc EXCEPT ![p] = label]
Step(p, from, to) == pc[p] = from /\ Goto(p, to)
Size(t) == made[t] - gone[t]

Init ==
  /\ made = [t \in Tasks |-> 0]
  /\ gone = [t \in Tasks |-> 0]
  /\ putting = [t \in Tasks |-> FALSE]
  /\ startFlag = [th \in Threads |-> 0]
  /\ endFlag = [th \in Threads |-> 0]
  /\ startLock = Free
  /\ endLock = Free
  /\ pc = [p \in Procs |-> IF p = Scheduler THEN "scan" ELSE "lockStart"]
  /\ at = 0
  /\ front = 0
  /\ sized = 0
  /\ seen = [t \in Tasks |-> 0]
  /\ selected = <<0, 0>>

-----------------------------------------------------------------------------
(* Pre-processing puts frames                                              *)

DropEarly(t) == Size(t) >= Capacity - 1   \* mutant: room is made too soon
IsFull(t)    == Size(t) = Capacity

\* A process that raised in get left the front semaphore of its ring taken, and
\* put waits for it for ever.
TaskOf(p)    == IF p = Scheduler THEN selected[1] ELSE p[1]
FrontLeft(t) == \E p \in Procs : pc[p] = "raised" /\ TaskOf(p) = t

PutMakeRoom(t) ==
  /\ ~ putting[t] /\ ~ FrontLeft(t)
  /\ made[t] < MaxFrames[t]
  /\ putting' = [putting EXCEPT ![t] = TRUE]
  /\ gone' = IF IsFull(t) THEN [gone EXCEPT ![t] = @ + 1] ELSE gone
  /\ UNCHANGED <<made, signals, pc, scanVars, selected>>

PutPublish(t) ==
  /\ putting[t]
  /\ putting' = [putting EXCEPT ![t] = FALSE]
  /\ made' = [made EXCEPT ![t] = @ + 1]
  /\ UNCHANGED <<gone, signals, pc, scanVars, selected>>

-----------------------------------------------------------------------------
(* InferQueue.get, by process p on the ring of task t: poll until isEmpty  *)
(* says no, then take the oldest frame.  A broken frame starts it again;   *)
(* an unreadable one ends the process, with the front semaphore taken.     *)

HasTwo(t)   == Size(t) > 1       \* mutant: a single frame is not seen
HasFrame(t) == Size(t) > 0

Poll(p, t, from, to) ==
  /\ Step(p, from, to)
  /\ ~ putting[t]
  /\ HasFrame(t)
  /\ UNCHANGED <<rings, signals, scanVars, selected>>

PollEmpty(p, t, labels) ==
  /\ pc[p] \in labels
  /\ ~ HasFrame(t)
  /\ UNCHANGED vars

Take(p, t, from, again, to) ==
  /\ pc[p] = from
  /\ gone[t] + 1 \notin Unreadable
  /\ gone' = [gone EXCEPT ![t] = @ + 1]
  /\ Goto(p, IF gone[t] + 1 \in Broken THEN again ELSE to)
  /\ UNCHANGED <<made, putting, signals, scanVars, selected>>

TakeRaise(p, t, from) ==
  /\ Step(p, from, "raised")
  /\ gone[t] + 1 \in Unreadable
  /\ UNCHANGED <<rings, signals, scanVars, selected>>

-----------------------------------------------------------------------------
(* The scheduler: _select_model4mv_backoff scans every task's ring.        *)

ScanFront ==
  /\ Step(Scheduler, "scan", "scanRear")
  /\ at < TaskNum
  /\ front' = gone[at]
  /\ UNCHANGED <<rings, signals, at, sized, seen, selected>>

SizeSeen(t)   == (made[t] - front) % (Capacity + 1)

ScanRear ==
  /\ Step(Scheduler, "scanRear", "scanTimes")
  /\ ~ putting[at]
  /\ sized' = SizeSeen(at)
  /\ front' = 0
  /\ UNCHANGED <<rings, signals, at, seen, selected>>

\* gettime(top): top timestamps, or fewer if the ring holds fewer.
AlwaysTwo(n) == IF n = 0 THEN 0 ELSE 2   \* mutant: the case of one frame is left out
Top(n)       == IF n <= 1 THEN n ELSE 2

\* The entry is marked empty, or the first timestamp is kept; indexing past
\* the end of the list ends the scheduler process.
ScanTimes ==
  /\ pc[Scheduler] = "scanTimes"
  /\ sized > 0 => ~ putting[at]
  /\ IF Size(at) < Top(sized)
     THEN Goto(Scheduler, "dead") /\ UNCHANGED <<at, seen>>
     ELSE /\ Goto(Scheduler, "scan")
          /\ at' = at + 1
          /\ seen' = [seen EXCEPT ![at] = IF sized = 0 THEN 0 ELSE gone[at] + 1]
  /\ sized' = 0
  /\ UNCHANGED <<rings, signals, front, selected>>

AnyTask  == Tasks                            \* mutant: empty rings are selected
Eligible == {t \in Tasks : seen[t] # 0}

ScanAllEmpty ==
  /\ pc[Scheduler] = "scan"
  /\ at = TaskNum
  /\ \A t \in Tasks : seen[t] = 0
  /\ at' = 0
  /\ UNCHANGED <<rings, signals, pc, front, sized, seen, selected>>

Select(th, to) ==
  /\ Step(Scheduler, "scan", to)
  /\ at = TaskNum
  /\ \E t \in Tasks : seen[t] # 0
  /\ th[1] \in Eligible
  /\ selected' = th
  /\ at' = 0
  /\ UNCHANGED <<rings, signals, front, sized, seen>>

SelectDrop(th) == th[2] = 0 /\ Select(th, "dropPoll")
SelectRun(th)  == Select(th, "lockStart")

\* The scheduler takes the frame itself and starts over.
DropPoll ==
  \/ Poll(Scheduler, selected[1], "dropPoll", "dropTake")
  \/ Poll(Scheduler, selected[1], "dropPollAgain", "dropTake")
  \/ PollEmpty(Scheduler, selected[1], {"dropPoll", "dropPollAgain"})

DropTake  == Take(Scheduler, selected[1], "dropTake", "dropPollAgain", "scan")
DropRaise == TakeRaise(Scheduler, selected[1], "dropTake")

-----------------------------------------------------------------------------
(* The scheduler: dispatch and wait                                        *)

DispatchLock ==
  /\ Step(Scheduler, "lockStart", "signalStart")
  /\ startLock = Free
  /\ startLock' = Scheduler
  /\ UNCHANGED <<rings, startFlag, endFlag, endLock, scanVars, selected>>

Unwoken(label) == label     \* mutant: notify_all is left out
Woken(label)   == IF label = "asleep" THEN "lockStart" ELSE label

\* start_flag is set and notify_all wakes every model that sleeps on start_lock.
DispatchSignal ==
  /\ pc[Scheduler] = "signalStart"
  /\ startFlag' = [startFlag EXCEPT ![selected] = 1]
  /\ pc' = [p \in Procs |-> IF p = Scheduler THEN "lockEnd" ELSE Woken(pc[p])]
  /\ startLock' = Free
  /\ UNCHANGED <<rings, endFlag, endLock, scanVars, selected>>

AwaitLock ==
  /\ Step(Scheduler, "lockEnd", "testEnd")
  /\ endLock = Free
  /\ endLock' = Scheduler
  /\ UNCHANGED <<rings, startFlag, endFlag, startLock, scanVars, selected>>

\* wait_for reads the flag and goes to sleep in two steps, under the lock.
AwaitTest ==
  /\ Step(Scheduler, "testEnd", "willSleep")
  /\ endFlag[selected] = 0
  /\ UNCHANGED <<rings, signals, scanVars, selected>>

AwaitSleep ==
  /\ Step(Scheduler, "willSleep", "asleep")
  /\ endLock' = Free
  /\ UNCHANGED <<rings, startFlag, endFlag, startLock, scanVars, selected>>

Unreset == 1       \* mutant: end_flag is not cleared
Reset   == 0

AwaitReturn ==
  /\ Step(Scheduler, "testEnd", "scan")
  /\ endFlag[selected] = 1
  /\ endFlag' = [endFlag EXCEPT ![selected] = Reset]
  /\ endLock' = Free
  /\ UNCHANGED <<rings, startFlag, startLock, scanVars, selected>>

-----------------------------------------------------------------------------
(* A model process                                                         *)

ModelLock(th) ==
  /\ Step(th, "lockStart", "testStart")
  /\ startLock = Free
  /\ startLock' = th
  /\ UNCHANGED <<rings, startFlag, endFlag, endLock, scanVars, selected>>

ModelTest(th) ==
  /\ Step(th, "testStart", "willSleep")
  /\ startFlag[th] = 0
  /\ UNCHANGED <<rings, signals, scanVars, selected>>

ModelSleep(th) ==
  /\ Step(th, "willSleep", "asleep")
  /\ startLock' = Free
  /\ UNCHANGED <<rings, startFlag, endFlag, endLock, scanVars, selected>>

Unconsumed == 1    \* mutant: start_flag is not cleared
Consumed   == 0

ModelStart(th) ==
  /\ Step(th, "testStart", "poll")
  /\ startFlag[th] = 1
  /\ startFlag' = [startFlag EXCEPT ![th] = Consumed]
  /\ startLock' = Free
  /\ UNCHANGED <<rings, endFlag, endLock, scanVars, selected>>

ModelPoll(th) ==
  \/ Poll(th, th[1], "poll", "take")
  \/ Poll(th, th[1], "pollAgain", "take")
  \/ PollEmpty(th, th[1], {"poll", "pollAgain"})

ModelTake(th)     == Take(th, th[1], "take", "pollAgain", "infer")
ModelGetRaise(th) == TakeRaise(th, th[1], "take")

\* detect, then sendto and, for pointpillar, post_queue.put
ModelInfer(th) ==
  /\ Step(th, "infer", "lockEnd")
  /\ UNCHANGED <<rings, signals, scanVars, selected>>

\* An exception leaves run_model_infer: model_execution logs it and returns.
ModelRaise(th) ==
  /\ th \in MayRaise
  /\ Step(th, "infer", "dead")
  /\ UNCHANGED <<rings, signals, scanVars, selected>>

ModelEndLock(th) ==
  /\ Step(th, "lockEnd", "signalEnd")
  /\ endLock = Free
  /\ endLock' = th
  /\ UNCHANGED <<rings, startFlag, endFlag, startLock, scanVars, selected>>

ModelEndSignal(th) ==
  /\ pc[th] = "signalEnd"
  /\ endFlag' = [endFlag EXCEPT ![th] = 1]
  /\ endLock' = Free
  /\ pc' = [pc EXCEPT ![th] = "lockStart",
                      ![Scheduler] = IF @ = "asleep" THEN "lockEnd" ELSE @]
  /\ UNCHANGED <<rings, startFlag, startLock, scanVars, selected>>

-----------------------------------------------------------------------------
Scan ==
  \/ ScanFront \/ ScanRear \/ ScanTimes \/ ScanAllEmpty
  \/ \E th \in Threads : SelectDrop(th) \/ SelectRun(th)

Drop     == DropPoll \/ DropTake \/ DropRaise
Dispatch == DispatchLock \/ DispatchSignal \/ AwaitLock \/ AwaitTest \/ AwaitSleep \/ AwaitReturn

Model(th) ==
  \/ ModelLock(th) \/ ModelTest(th) \/ ModelSleep(th) \/ ModelStart(th)
  \/ ModelPoll(th) \/ ModelTake(th) \/ ModelGetRaise(th)
  \/ ModelInfer(th) \/ ModelRaise(th)
  \/ ModelEndLock(th) \/ ModelEndSignal(th)

Next ==
  \/ \E t \in Tasks : PutMakeRoom(t) \/ PutPublish(t)
  \/ Scan \/ Drop \/ Dispatch
  \/ \E th \in Threads : Model(th)

Spec == Init /\ [][Next]_vars

\* The scheduler's own steps, the model processes' and the end of a put are
\* never postponed for ever; a new put is not promised.  A lock is contended
\* only until every model sleeps, so weak fairness is enough.
FairSpec ==
  /\ Spec
  /\ WF_vars(Scan) /\ WF_vars(Drop) /\ WF_vars(Dispatch)
  /\ \A t \in Tasks : WF_vars(PutPublish(t))
  /\ \A th \in Threads : WF_vars(Model(th))

-----------------------------------------------------------------------------
(* Properties                                                              *)

BusyLabels == {"poll", "pollAgain", "take", "infer", "lockEnd", "signalEnd"}
ModelLabels == BusyLabels \cup {"lockStart", "testStart", "willSleep", "asleep", "dead", "raised"}
SchedulerLabels ==
  {"scan", "scanRear", "scanTimes", "dropPoll", "dropPollAgain", "dropTake",
   "lockStart", "signalStart", "lockEnd", "testEnd", "willSleep", "asleep",
   "dead", "raised"}

Busy(th) == pc[th] \in BusyLabels
Awaiting == pc[Scheduler] \in {"lockEnd", "testEnd", "willSleep", "asleep"}

\* The variables hold values of their types.
TypeOK ==
  /\ made \in [Tasks -> Nat] /\ gone \in [Tasks -> Nat]
  /\ putting \in [Tasks -> BOOLEAN]
  /\ startFlag \in [Threads -> {0, 1}] /\ endFlag \in [Threads -> {0, 1}]
  /\ startLock \in Procs \cup {Free} /\ endLock \in Procs \cup {Free}
  /\ pc \in [Procs -> ModelLabels \cup SchedulerLabels]
  /\ pc[Scheduler] \in SchedulerLabels
  /\ \A th \in Threads : pc[th] \in ModelLabels
  /\ at \in 0..TaskNum
  /\ pc[Scheduler] \in {"scanRear", "scanTimes"} => at \in Tasks
  /\ front \in Nat /\ sized \in 0..Capacity
  /\ seen \in [Tasks -> Nat] /\ selected \in Threads

\* At most one model runs at a time, and only while the scheduler waits for
\* it: the accelerator is never shared, and the two models of a task, which
\* create the same result queue, never put in it together.
OneInference ==
  /\ \A a, b \in Threads : Busy(a) /\ Busy(b) => a = b
  /\ \A th \in Threads : Busy(th) => Awaiting /\ th = selected

\* A dispatch is in exactly one place: its start flag is up, its model runs,
\* its end flag is up, or its process has ended.  No other flag is ever up.
Handshake ==
  /\ \A th \in Threads \ {selected} : startFlag[th] = 0 /\ endFlag[th] = 0
  /\ startFlag[selected] = 1 => endFlag[selected] = 0 /\ ~ Busy(selected)
  /\ endFlag[selected] = 1 => ~ Busy(selected)
  /\ Awaiting <=>
       \/ startFlag[selected] = 1 \/ Busy(selected) \/ endFlag[selected] = 1
       \/ Awaiting /\ pc[selected] \in {"dead", "raised"}

\* Nobody sleeps on a condition whose flag is up: no wake-up is lost.
NoLostWakeUp ==
  /\ \A th \in Threads : pc[th] \in {"willSleep", "asleep"} => startFlag[th] = 0
  /\ pc[Scheduler] \in {"willSleep", "asleep"} => endFlag[selected] = 0

\* The ring the scheduler has read non-empty still is when the model, or the
\* scheduler itself, takes a frame: a first poll never waits.
DispatchedFindsFrame ==
  /\ \A th \in Threads : pc[th] \in {"poll", "take"} => HasFrame(th[1])
  /\ pc[Scheduler] \in {"lockStart", "signalStart", "dropPoll", "dropTake"} =>
       HasFrame(selected[1])

\* queue_times[0] and queue_times[1] exist whenever the scheduler reads them,
\* although the size it relies on was read in two halves: its scan never ends
\* the scheduler (a drop that meets an unreadable frame does).
SchedulerSurvives == pc[Scheduler] # "dead"

\* The inductive invariant behind these: who holds the two locks; rings within
\* their capacity, with room while a put is under way; what the scan knows.
LockOwners ==
  /\ startLock = Scheduler <=> pc[Scheduler] = "signalStart"
  /\ endLock = Scheduler <=> pc[Scheduler] \in {"testEnd", "willSleep"}
  /\ \A th \in Threads :
       /\ startLock = th <=> pc[th] \in {"testStart", "willSleep"}
       /\ endLock = th <=> pc[th] = "signalEnd"

RingBounds ==
  \A t \in Tasks :
    /\ 0 <= Size(t) /\ Size(t) <= Capacity
    /\ putting[t] => Size(t) < Capacity /\ made[t] < MaxFrames[t]

\* A front that moved since size() read it was moved by an overrun, and a
\* ring that has overrun is full again once the put has published.
Overrun(t) == Size(t) = Capacity \/ (putting[t] /\ Size(t) = Capacity - 1)

ScanKnows ==
  /\ pc[Scheduler] = "scanRear" =>
       front <= gone[at] /\ (front < gone[at] => Overrun(at))
  /\ pc[Scheduler] = "scanTimes" => (Size(at) < sized => Overrun(at))
  /\ pc[Scheduler] \in {"scan", "scanRear", "scanTimes"} =>
       \A t \in Tasks : t < at /\ seen[t] # 0 => HasFrame(t)
  /\ pc[Scheduler] \notin {"scan", "scanRear", "scanTimes", "dead"} => at = 0
  /\ startFlag[selected] = 1 => HasFrame(selected[1])

DispatchInv == /\ OneInference /\ Handshake /\ NoLostWakeUp /\ LockOwners
               /\ RingBounds /\ ScanKnows
               /\ DispatchedFindsFrame /\ SchedulerSurvives

\* The frame a model, or the scheduler in a drop, comes to is the one the
\* scheduler selected, or a newer one if the ring overran or broken frames came
\* between.
NewerOnlyIfOverrun ==
  [][\A p \in Procs : pc[p] \in {"take", "dropTake"} /\ pc'[p] # pc[p] =>
       LET t     == selected[1]
           frame == gone[t] + 1
       IN
       /\ frame >= seen[t]
       /\ frame > seen[t] =>
            \/ made[t] >= seen[t] + Capacity - 1
            \/ Broken \cap seen[t]..(frame - 1) # {}]_vars

\* Flags, conditions and rings together are one call of one model at a time:
\* the model called takes one readable frame that nobody has taken before, runs
\* on it, and answers once; no answer belongs to an earlier call.
CallPhase ==
  IF ~ Awaiting THEN "none"
  ELSE IF startFlag[selected] = 1 THEN "called"
  ELSE IF endFlag[selected] = 1 THEN "answered"
  ELSE IF pc[selected] \in {"poll", "pollAgain", "take"} THEN "fetching"
  ELSE IF Busy(selected) THEN "running" ELSE "failed"

Call == INSTANCE ModelCall WITH
  Models <- Threads,
  Rings  <- Tasks,
  Nobody <- Free,
  callee <- IF Awaiting THEN selected ELSE Free,
  phase  <- CallPhase,
  left   <- gone

ImplementsModelCall == Call!AbsSpec

\* Every dispatch is answered, unless the very model that was dispatched has
\* raised, at its result or at a frame it cannot read, or its ring ended in a
\* broken frame that get passed over: no overrun, and no other model that
\* raised, leaves the scheduler waiting (local_scheduler.py:169-176,
\* model_inference.py:57-91, inferqueue.py:37).
Stranded(th) ==
  \/ pc[th] \in {"dead", "raised"}
  \/ pc[th] = "pollAgain" /\ gone[th[1]] = made[th[1]] /\ made[th[1]] \in Broken
DispatchReturns ==
  pc[Scheduler] = "lockStart" ~>
    pc[Scheduler] = "scan" \/ (Awaiting /\ Stranded(selected))
=============================================================================
