------------------------ MODULE InferDispatchProofs ------------------------
(***************************************************************************)
(* Proofs about the scheduler and its models for any number of tasks, any  *)
(* ring of two frames or more, any broken frames and any models that raise.*)
(***************************************************************************)
EXTENDS InferDispatch, TLAPS

\* size() returns a number of frames the ring can hold, the exact one when the
\* difference it computes is in range.
LEMMA ModRange ==
  \A x \in Int : /\ x % (Capacity + 1) \in 0..Capacity
               /\ x \in 0..Capacity => x % (Capacity + 1) = x
  BY CapacityAssumption, SMT

\* A thread is a task and a variant, and is not the scheduler.
LEMMA ThreadFacts ==
  /\ \A th \in Threads : th[1] \in Tasks /\ th \in Procs /\ th # Scheduler
  /\ Scheduler \in Procs /\ Free \notin Procs /\ Free # Scheduler
  /\ \A p \in Procs : p = Scheduler \/ p \in Threads
  /\ 0 \in Tasks /\ <<0, 0>> \in Threads
  BY TaskNumAssumption, ProcsAssumption DEF Threads, Procs, Tasks, Variants

\* Every step of the producers, the scheduler and the models keeps the types.
LEMMA TypeStep ==
  TypeOK /\ [Next]_vars => TypeOK'
  <1> SUFFICES ASSUME TypeOK, [Next]_vars PROVE TypeOK'
    OBVIOUS
  <1> USE ThreadFacts, TaskNumAssumption, CapacityAssumption
      DEF TypeOK, Goto, Step, Size, BusyLabels,
          ModelLabels, SchedulerLabels, rings, signals, scanVars
  <1>0. CASE UNCHANGED vars
    BY <1>0 DEF vars
  <1>1. ASSUME NEW t \in Tasks, PutMakeRoom(t) PROVE TypeOK'
    BY <1>1 DEF PutMakeRoom, IsFull
  <1>2. ASSUME NEW t \in Tasks, PutPublish(t) PROVE TypeOK'
    BY <1>2 DEF PutPublish
  <1>3. CASE ScanFront
    <2>1. at \in Tasks
      BY <1>3 DEF ScanFront, Tasks
    <2> QED
      BY <1>3, <2>1 DEF ScanFront
  <1>4. CASE ScanRear
    <2>1. at \in Tasks
      BY <1>4 DEF ScanRear, SizeSeen
    <2>2. sized' \in 0..Capacity
      BY <1>4, <2>1, ModRange DEF ScanRear, SizeSeen
    <2> QED
      BY <1>4, <2>1, <2>2 DEF ScanRear, SizeSeen
  <1>5. CASE ScanTimes
    <2>1. at \in Tasks /\ at + 1 \in 0..TaskNum
      BY <1>5 DEF ScanTimes, Tasks
    <2>2. CASE Size(at) < Top(sized)
      BY <1>5, <2>1, <2>2 DEF ScanTimes
    <2>3. CASE ~ (Size(at) < Top(sized))
      <3>1. seen' \in [Tasks -> Nat]
        BY <1>5, <2>1, <2>3 DEF ScanTimes
      <3> QED
        BY <1>5, <2>1, <2>3, <3>1 DEF ScanTimes
    <2> QED
      BY <2>2, <2>3
  <1>6. CASE ScanAllEmpty
    BY <1>6 DEF ScanAllEmpty
  <1>7. ASSUME NEW th \in Threads, SelectDrop(th) PROVE TypeOK'
    BY <1>7 DEF SelectDrop, Select, Eligible
  <1>8. ASSUME NEW th \in Threads, SelectRun(th) PROVE TypeOK'
    BY <1>8 DEF SelectRun, Select, Eligible
  <1>9. CASE DropPoll
    BY <1>9 DEF DropPoll, Poll, PollEmpty, vars
  <1>10. CASE DropTake
    BY <1>10 DEF DropTake, Take
  <1>11. CASE DispatchLock
    BY <1>11 DEF DispatchLock
  <1>12. CASE DispatchSignal
    BY <1>12 DEF DispatchSignal, Woken
  <1>13. CASE AwaitLock
    BY <1>13 DEF AwaitLock
  <1>14. CASE AwaitTest
    BY <1>14 DEF AwaitTest
  <1>15. CASE AwaitSleep
    BY <1>15 DEF AwaitSleep
  <1>16. CASE AwaitReturn
    BY <1>16 DEF AwaitReturn, Reset
  <1>17. ASSUME NEW th \in Threads, ModelLock(th) PROVE TypeOK'
    BY <1>17 DEF ModelLock
  <1>18. ASSUME NEW th \in Threads, ModelTest(th) PROVE TypeOK'
    BY <1>18 DEF ModelTest
  <1>19. ASSUME NEW th \in Threads, ModelSleep(th) PROVE TypeOK'
    BY <1>19 DEF ModelSleep
  <1>20. ASSUME NEW th \in Threads, ModelStart(th) PROVE TypeOK'
    BY <1>20 DEF ModelStart, Consumed
  <1>21. ASSUME NEW th \in Threads, ModelPoll(th) PROVE TypeOK'
    BY <1>21 DEF ModelPoll, Poll, PollEmpty, vars
  <1>22. ASSUME NEW th \in Threads, ModelTake(th) PROVE TypeOK'
    BY <1>22 DEF ModelTake, Take
  <1>23. ASSUME NEW th \in Threads, ModelInfer(th) PROVE TypeOK'
    BY <1>23 DEF ModelInfer
  <1>24. ASSUME NEW th \in Threads, ModelRaise(th) PROVE TypeOK'
    BY <1>24 DEF ModelRaise
  <1>25. ASSUME NEW th \in Threads, ModelEndLock(th) PROVE TypeOK'
    BY <1>25 DEF ModelEndLock
  <1>26. ASSUME NEW th \in Threads, ModelEndSignal(th) PROVE TypeOK'
    BY <1>26 DEF ModelEndSignal
  <1>27. CASE DropRaise
    BY <1>27 DEF DropRaise, TakeRaise
  <1>28. ASSUME NEW th \in Threads, ModelGetRaise(th) PROVE TypeOK'
    BY <1>28 DEF ModelGetRaise, TakeRaise
  <1> QED
    BY <1>0, <1>1, <1>2, <1>3, <1>4, <1>5, <1>6, <1>7, <1>8, <1>9, <1>10, <1>11,
       <1>12, <1>13, <1>14, <1>15, <1>16, <1>17, <1>18, <1>19, <1>20, <1>21, <1>22, <1>23,
       <1>24, <1>25, <1>26, <1>27, <1>28
    DEF Next, Scan, Drop, Dispatch, Model

\* Type correctness of the scheduler, the models and their signals.
THEOREM TypeCorrect == Spec => []TypeOK
  <1>1. Init => TypeOK
    BY ThreadFacts, TaskNumAssumption, CapacityAssumption
    DEF Init, TypeOK, BusyLabels, ModelLabels,
        SchedulerLabels
  <1> QED
    BY <1>1, TypeStep, PTL DEF Spec

-----------------------------------------------------------------------------
\* The flags, the locks and the sleepers agree with what each process is at.
SignalsSafe == OneInference /\ Handshake /\ NoLostWakeUp /\ LockOwners

\* Every step keeps SignalsSafe.
LEMMA SignalsStep ==
  TypeOK /\ SignalsSafe /\ [Next]_vars => SignalsSafe'
  <1> SUFFICES ASSUME TypeOK /\ SignalsSafe, [Next]_vars PROVE SignalsSafe'
    OBVIOUS
  <1> USE ThreadFacts
      DEF TypeOK, SignalsSafe, OneInference, Handshake, NoLostWakeUp, LockOwners,
          Busy, BusyLabels, Awaiting, Goto, Step, rings, signals, scanVars
  <1>0. CASE UNCHANGED vars
    BY <1>0 DEF vars
  <1>1. ASSUME NEW t \in Tasks, PutMakeRoom(t) PROVE SignalsSafe'
    BY <1>1 DEF PutMakeRoom, IsFull
  <1>2. ASSUME NEW t \in Tasks, PutPublish(t) PROVE SignalsSafe'
    BY <1>2 DEF PutPublish
  <1>3. CASE ScanFront
    BY <1>3 DEF ScanFront
  <1>4. CASE ScanRear
    BY <1>4 DEF ScanRear, SizeSeen
  <1>5. CASE ScanTimes
    BY <1>5 DEF ScanTimes, Top
  <1>6. CASE ScanAllEmpty
    BY <1>6 DEF ScanAllEmpty
  <1>7. ASSUME NEW th \in Threads, SelectDrop(th) PROVE SignalsSafe'
    BY <1>7 DEF SelectDrop, Select, Eligible
  <1>8. ASSUME NEW th \in Threads, SelectRun(th) PROVE SignalsSafe'
    BY <1>8 DEF SelectRun, Select, Eligible
  <1>9. CASE DropPoll
    BY <1>9 DEF DropPoll, Poll, PollEmpty, vars
  <1>10. CASE DropTake
    BY <1>10 DEF DropTake, Take
  <1>11. CASE DispatchLock
    BY <1>11 DEF DispatchLock
  <1>12. CASE DispatchSignal
    BY <1>12 DEF DispatchSignal, Woken
  <1>13. CASE AwaitLock
    BY <1>13 DEF AwaitLock
  <1>14. CASE AwaitTest
    BY <1>14 DEF AwaitTest
  <1>15. CASE AwaitSleep
    BY <1>15 DEF AwaitSleep
  <1>16. CASE AwaitReturn
    BY <1>16 DEF AwaitReturn, Reset
  <1>17. ASSUME NEW th \in Threads, ModelLock(th) PROVE SignalsSafe'
    BY <1>17 DEF ModelLock
  <1>18. ASSUME NEW th \in Threads, ModelTest(th) PROVE SignalsSafe'
    BY <1>18 DEF ModelTest
  <1>19. ASSUME NEW th \in Threads, ModelSleep(th) PROVE SignalsSafe'
    BY <1>19 DEF ModelSleep
  <1>20. ASSUME NEW th \in Threads, ModelStart(th) PROVE SignalsSafe'
    BY <1>20 DEF ModelStart, Consumed
  <1>21. ASSUME NEW th \in Threads, ModelPoll(th) PROVE SignalsSafe'
    BY <1>21 DEF ModelPoll, Poll, PollEmpty, vars
  <1>22. ASSUME NEW th \in Threads, ModelTake(th) PROVE SignalsSafe'
    BY <1>22 DEF ModelTake, Take
  <1>23. ASSUME NEW th \in Threads, ModelInfer(th) PROVE SignalsSafe'
    BY <1>23 DEF ModelInfer
  <1>24. ASSUME NEW th \in Threads, ModelRaise(th) PROVE SignalsSafe'
    BY <1>24 DEF ModelRaise
  <1>25. ASSUME NEW th \in Threads, ModelEndLock(th) PROVE SignalsSafe'
    BY <1>25 DEF ModelEndLock
  <1>26. ASSUME NEW th \in Threads, ModelEndSignal(th) PROVE SignalsSafe'
    BY <1>26 DEF ModelEndSignal
  <1>27. CASE DropRaise
    BY <1>27 DEF DropRaise, TakeRaise
  <1>28. ASSUME NEW th \in Threads, ModelGetRaise(th) PROVE SignalsSafe'
    BY <1>28 DEF ModelGetRaise, TakeRaise
  <1> QED
    BY <1>0, <1>1, <1>2, <1>3, <1>4, <1>5, <1>6, <1>7, <1>8, <1>9, <1>10, <1>11,
       <1>12, <1>13, <1>14, <1>15, <1>16, <1>17, <1>18, <1>19, <1>20, <1>21, <1>22, <1>23,
       <1>24, <1>25, <1>26, <1>27, <1>28
    DEF Next, Scan, Drop, Dispatch, Model

\* The rings are within bounds and hold what the scan has found in them.
RingsSafe == RingBounds /\ ScanKnows /\ DispatchedFindsFrame /\ SchedulerSurvives

\* Every step keeps RingsSafe: a ring that has been found non-empty is emptied
\* by no put, since a put makes room in a full ring only.
LEMMA RingsStep ==
  TypeOK /\ SignalsSafe /\ RingsSafe /\ [Next]_vars => RingsSafe'
  <1> SUFFICES ASSUME TypeOK /\ SignalsSafe /\ RingsSafe, [Next]_vars PROVE RingsSafe'
    OBVIOUS
  <1> USE ThreadFacts, TaskNumAssumption, CapacityAssumption
      DEF TypeOK, SignalsSafe, OneInference, Handshake, Busy, BusyLabels, Awaiting,
          RingsSafe, RingBounds, ScanKnows, DispatchedFindsFrame, SchedulerSurvives,
          HasFrame, Overrun, Size, Goto, Step, rings, signals, scanVars
  <1>0. CASE UNCHANGED vars
    BY <1>0 DEF vars
  <1>1. ASSUME NEW t \in Tasks, PutMakeRoom(t) PROVE RingsSafe'
    <2>1. /\ ~ putting[t] /\ made[t] < MaxFrames[t]
          /\ putting' = [putting EXCEPT ![t] = TRUE]
          /\ gone' = IF made[t] - gone[t] = Capacity THEN [gone EXCEPT ![t] = @ + 1] ELSE gone
          /\ UNCHANGED <<made, signals, pc, scanVars, selected>>
      BY <1>1 DEF PutMakeRoom, IsFull
    <2> QED
      BY <2>1
  <1>2. ASSUME NEW t \in Tasks, PutPublish(t) PROVE RingsSafe'
    BY <1>2 DEF PutPublish
  <1>3. CASE ScanFront
    BY <1>3 DEF ScanFront
  <1>4. CASE ScanRear
    <2>1. at \in Tasks /\ made[at] - front \in Int
      BY <1>4 DEF ScanRear, SizeSeen
    <2>2. front = gone[at] => sized' = Size(at)
      BY <1>4, <2>1, ModRange DEF ScanRear, SizeSeen
    <2>3. front # gone[at] => Overrun(at)
      BY <1>4, <2>1 DEF ScanRear, SizeSeen
    <2> QED
      BY <1>4, <2>1, <2>2, <2>3 DEF ScanRear, SizeSeen
  <1>5. CASE ScanTimes
    <2>1. at \in Tasks /\ at \in Nat
      BY <1>5 DEF ScanTimes, Tasks
    <2>2. sized > 0 => Size(at) >= sized
      BY <1>5, <2>1 DEF ScanTimes
    <2>3. ~ (Size(at) < Top(sized))
      BY <2>1, <2>2 DEF Top
    <2>4. Step(Scheduler, "scanTimes", "scan") /\ at' = at + 1
      BY <1>5, <2>3 DEF ScanTimes
    <2>5. \A t \in Tasks : t < at' => t < at \/ t = at
      BY <2>1, <2>4 DEF Tasks
    <2>6. seen' = [seen EXCEPT ![at] = IF sized = 0 THEN 0 ELSE gone[at] + 1]
      BY <1>5, <2>3 DEF ScanTimes
    <2>7. \A t \in Tasks : t < at' /\ seen'[t] # 0 => HasFrame(t)
      BY <1>5, <2>1, <2>2, <2>5, <2>6 DEF ScanTimes
    <2> QED
      BY <1>5, <2>1, <2>4, <2>7 DEF ScanTimes
  <1>6. CASE ScanAllEmpty
    BY <1>6 DEF ScanAllEmpty
  <1>7. ASSUME NEW th \in Threads, SelectDrop(th) PROVE RingsSafe'
    <2>0. th[1] \in Tasks /\ seen[th[1]] # 0 /\ pc[Scheduler] = "scan" /\ at = TaskNum
      BY <1>7 DEF SelectDrop, Select, Eligible, Step
    <2>1. HasFrame(th[1]) /\ \A t \in Tasks : ~ (t < 0)
      BY <2>0 DEF Tasks
    <2>2. \A h \in Threads : startFlag[h] = 0 /\ ~ Busy(h)
      BY <1>7 DEF SelectDrop, Select
    <2> QED
      BY <1>7, <2>1, <2>2 DEF SelectDrop, Select
  <1>8. ASSUME NEW th \in Threads, SelectRun(th) PROVE RingsSafe'
    <2>0. th[1] \in Tasks /\ seen[th[1]] # 0 /\ pc[Scheduler] = "scan" /\ at = TaskNum
      BY <1>8 DEF SelectRun, Select, Eligible, Step
    <2>1. HasFrame(th[1]) /\ \A t \in Tasks : ~ (t < 0)
      BY <2>0 DEF Tasks
    <2>2. \A h \in Threads : startFlag[h] = 0 /\ ~ Busy(h)
      BY <1>8 DEF SelectRun, Select
    <2> QED
      BY <1>8, <2>1, <2>2 DEF SelectRun, Select
  <1>9. CASE DropPoll
    BY <1>9 DEF DropPoll, Poll, PollEmpty, vars
  <1>10. CASE DropTake
    <2>1. at = 0 /\ \A t \in Tasks : ~ (t < 0)
      BY <1>10 DEF DropTake, Take, Tasks
    <2>2. \A th \in Threads : ~ Busy(th)
      BY <1>10 DEF DropTake, Take
    <2>3. PICK label \in {"dropPollAgain", "scan"} : Goto(Scheduler, label)
      BY <1>10 DEF DropTake, Take
    <2> QED
      BY <1>10, <2>1, <2>2, <2>3 DEF DropTake, Take
  <1>11. CASE DispatchLock
    BY <1>11 DEF DispatchLock
  <1>12. CASE DispatchSignal
    BY <1>12 DEF DispatchSignal, Woken
  <1>13. CASE AwaitLock
    BY <1>13 DEF AwaitLock
  <1>14. CASE AwaitTest
    BY <1>14 DEF AwaitTest
  <1>15. CASE AwaitSleep
    BY <1>15 DEF AwaitSleep
  <1>16. CASE AwaitReturn
    BY <1>16 DEF AwaitReturn, Reset, Tasks
  <1>17. ASSUME NEW th \in Threads, ModelLock(th) PROVE RingsSafe'
    BY <1>17 DEF ModelLock
  <1>18. ASSUME NEW th \in Threads, ModelTest(th) PROVE RingsSafe'
    BY <1>18 DEF ModelTest
  <1>19. ASSUME NEW th \in Threads, ModelSleep(th) PROVE RingsSafe'
    BY <1>19 DEF ModelSleep
  <1>20. ASSUME NEW th \in Threads, ModelStart(th) PROVE RingsSafe'
    BY <1>20 DEF ModelStart, Consumed
  <1>21. ASSUME NEW th \in Threads, ModelPoll(th) PROVE RingsSafe'
    BY <1>21 DEF ModelPoll, Poll, PollEmpty, vars
  <1>22. ASSUME NEW th \in Threads, ModelTake(th) PROVE RingsSafe'
    BY <1>22 DEF ModelTake, Take
  <1>23. ASSUME NEW th \in Threads, ModelInfer(th) PROVE RingsSafe'
    BY <1>23 DEF ModelInfer
  <1>24. ASSUME NEW th \in Threads, ModelRaise(th) PROVE RingsSafe'
    BY <1>24 DEF ModelRaise
  <1>25. ASSUME NEW th \in Threads, ModelEndLock(th) PROVE RingsSafe'
    BY <1>25 DEF ModelEndLock
  <1>26. ASSUME NEW th \in Threads, ModelEndSignal(th) PROVE RingsSafe'
    BY <1>26 DEF ModelEndSignal
  <1>27. CASE DropRaise
    BY <1>27 DEF DropRaise, TakeRaise
  <1>28. ASSUME NEW th \in Threads, ModelGetRaise(th) PROVE RingsSafe'
    BY <1>28 DEF ModelGetRaise, TakeRaise
  <1> QED
    BY <1>0, <1>1, <1>2, <1>3, <1>4, <1>5, <1>6, <1>7, <1>8, <1>9, <1>10, <1>11,
       <1>12, <1>13, <1>14, <1>15, <1>16, <1>17, <1>18, <1>19, <1>20, <1>21, <1>22, <1>23,
       <1>24, <1>25, <1>26, <1>27, <1>28
    DEF Next, Scan, Drop, Dispatch, Model

\* The strengthened invariant of scheduler, models and rings.
THEOREM DispatchSafe == Spec => []DispatchInv
  <1>1. Init => SignalsSafe /\ RingsSafe
    BY ThreadFacts, CapacityAssumption
    DEF Init, SignalsSafe, OneInference, Handshake, NoLostWakeUp, LockOwners, Busy,
        BusyLabels, Awaiting, RingsSafe, RingBounds, ScanKnows, Tasks,
        DispatchedFindsFrame, SchedulerSurvives, HasFrame, Overrun, Size
  <1>2. SignalsSafe /\ RingsSafe => DispatchInv
    BY DEF SignalsSafe, RingsSafe, DispatchInv
  <1> QED
    BY <1>1, <1>2, TypeCorrect, SignalsStep, RingsStep, PTL DEF Spec

\* At most one model runs, and only while the scheduler waits for it.
THEOREM ExclusiveInference == Spec => []OneInference
  <1>1. DispatchInv => OneInference
    BY DEF DispatchInv
  <1> QED
    BY <1>1, DispatchSafe, PTL

\* No process sleeps on a condition whose flag is up.
THEOREM WakeUpsArrive == Spec => []NoLostWakeUp
  <1>1. DispatchInv => NoLostWakeUp
    BY DEF DispatchInv
  <1> QED
    BY <1>1, DispatchSafe, PTL

\* A dispatched model finds a frame in its ring at its first poll.
THEOREM ModelsFindFrames == Spec => []DispatchedFindsFrame
  <1>1. DispatchInv => DispatchedFindsFrame
    BY DEF DispatchInv
  <1> QED
    BY <1>1, DispatchSafe, PTL

\* The scheduler never indexes past the timestamps gettime returned.
THEOREM ScansSucceed == Spec => []SchedulerSurvives
  <1>1. DispatchInv => SchedulerSurvives
    BY DEF DispatchInv
  <1> QED
    BY <1>1, DispatchSafe, PTL

\* Frames of the ring of task t went, since the scheduler looked at it, only
\* because it overran or because they were broken.
Kept(t) ==
  /\ gone[t] >= seen[t] - 1
  /\ gone[t] >= seen[t] =>
       \/ made[t] >= seen[t] + Capacity - 1
       \/ Broken \cap seen[t]..gone[t] # {}

\* From its selection until its frame is taken, a task is one the scan saw.
Promised ==
  \/ pc[Scheduler] \in {"dropPoll", "dropPollAgain", "dropTake", "lockStart", "signalStart"}
  \/ startFlag[selected] = 1
  \/ pc[selected] \in {"poll", "pollAgain", "take"}

SeenInv ==
  /\ pc[Scheduler] \in {"scan", "scanRear", "scanTimes"} =>
       \A t \in Tasks : t < at /\ seen[t] # 0 => Kept(t)
  /\ Promised => Kept(selected[1])

\* An overrun leaves a ring kept, and so does a put; taking a broken frame too.
LEMMA KeptStays ==
  ASSUME TypeOK, NEW t \in Tasks, Kept(t), seen'[t] = seen[t],
         made'[t] \in Nat, gone'[t] \in Nat, made'[t] >= made[t],
         \/ gone'[t] = gone[t]
         \/ gone'[t] = gone[t] + 1 /\ (Size(t) = Capacity \/ gone[t] + 1 \in Broken)
  PROVE  Kept(t)'
  <1> USE CapacityAssumption DEF TypeOK, Size
  <1>0. seen[t] \in Nat /\ gone[t] \in Nat /\ made[t] \in Nat /\ Capacity \in Nat
    OBVIOUS
  <1>1. CASE gone'[t] = gone[t]
    BY <1>0, <1>1 DEF Kept
  <1>2. CASE gone'[t] = gone[t] + 1 /\ Size(t) = Capacity
    <2>1. made'[t] >= seen'[t] + Capacity - 1
      BY <1>0, <1>2 DEF Kept
    <2> QED
      BY <1>0, <1>2, <2>1 DEF Kept
  <1>3. CASE gone'[t] = gone[t] + 1 /\ gone[t] + 1 \in Broken
    <2>1. gone'[t] >= seen'[t]
      BY <1>0, <1>3 DEF Kept
    <2>2. gone'[t] \in Broken \cap seen'[t]..gone'[t]
      BY <1>0, <1>3, <2>1
    <2> QED
      BY <1>0, <2>1, <2>2 DEF Kept
  <1> QED
    BY <1>1, <1>2, <1>3

\* What is selected stays kept until its frame is taken, by every step.
LEMMA SeenStep ==
  TypeOK /\ DispatchInv /\ SeenInv /\ [Next]_vars => SeenInv'
  <1> SUFFICES ASSUME TypeOK, DispatchInv, SeenInv, [Next]_vars PROVE SeenInv'
    OBVIOUS
  <1> USE ThreadFacts, TaskNumAssumption
      DEF TypeOK, DispatchInv, OneInference, Handshake, Busy, BusyLabels, Awaiting,
          ScanKnows, SchedulerSurvives, SeenInv, Promised, Goto, Step, rings, signals, scanVars
  <1>t. selected[1] \in Tasks
    OBVIOUS
  <1>q. ASSUME UNCHANGED <<made, gone, seen>>
        PROVE  \A t \in Tasks : Kept(t) => Kept(t)'
    BY <1>q DEF Kept
  <1>0. CASE UNCHANGED vars
    BY <1>0, <1>q DEF vars
  <1>1. ASSUME NEW u \in Tasks, PutMakeRoom(u) PROVE SeenInv'
    <2>1. ASSUME NEW t \in Tasks, Kept(t) PROVE Kept(t)'
      <3>1. gone'[t] = gone[t] \/ (gone'[t] = gone[t] + 1 /\ Size(t) = Capacity)
        <4>1. CASE t = u
          BY <1>1, <4>1 DEF PutMakeRoom, IsFull
        <4>2. CASE t # u
          BY <1>1, <4>2 DEF PutMakeRoom
        <4> QED
          BY <4>1, <4>2
      <3>2. made'[t] = made[t] /\ seen'[t] = seen[t] /\ gone'[t] \in Nat
        BY <1>1, <3>1 DEF PutMakeRoom
      <3> QED
        BY <2>1, <3>1, <3>2, KeptStays
    <2> QED
      BY <1>1, <1>t, <2>1 DEF PutMakeRoom
  <1>2. ASSUME NEW u \in Tasks, PutPublish(u) PROVE SeenInv'
    <2>1. ASSUME NEW t \in Tasks, Kept(t) PROVE Kept(t)'
      <3>1. gone'[t] = gone[t] /\ made'[t] \in Nat /\ made'[t] >= made[t] /\ seen'[t] = seen[t]
        BY <1>2 DEF PutPublish
      <3> QED
        BY <2>1, <3>1, KeptStays
    <2> QED
      BY <1>2, <1>t, <2>1 DEF PutPublish
  <1>3. CASE ScanFront
    BY <1>3, <1>q DEF ScanFront
  <1>4. CASE ScanRear
    BY <1>4, <1>q DEF ScanRear
  <1>5. CASE ScanTimes
    <2>0. pc'[Scheduler] # "dead"
      BY RingsStep DEF SignalsSafe, RingsSafe
    <2>1. at \in Tasks /\ pc'[Scheduler] = "scan" /\ at' = at + 1
      BY <1>5, <2>0 DEF ScanTimes
    <2>2. seen' = [seen EXCEPT ![at] = IF sized = 0 THEN 0 ELSE gone[at] + 1]
      BY <1>5, <2>1 DEF ScanTimes
    <2>3. ~ Promised'
      BY <1>5, <2>1 DEF ScanTimes
    <2>4. ASSUME NEW t \in Tasks, t < at', seen'[t] # 0 PROVE Kept(t)'
      <3>1. CASE t = at
        BY <1>5, <2>2, <2>4, <3>1 DEF ScanTimes, Kept
      <3>2. CASE t # at
        <4>1. t < at /\ seen'[t] = seen[t] /\ Kept(t)
          BY <1>5, <2>1, <2>2, <2>4, <3>2 DEF ScanTimes, Tasks
        <4> QED
          BY <1>5, <4>1 DEF ScanTimes, Kept
      <3> QED
        BY <3>1, <3>2
    <2> QED
      BY <2>1, <2>3, <2>4
  <1>6. CASE ScanAllEmpty
    <2>1. \A t \in Tasks : ~ (t < at')
      BY <1>6 DEF ScanAllEmpty, Tasks
    <2> QED
      BY <1>6, <2>1, <1>q DEF ScanAllEmpty
  <1>7. ASSUME NEW th \in Threads, SelectDrop(th) \/ SelectRun(th) PROVE SeenInv'
    <2>0. at = TaskNum /\ th[1] \in Eligible /\ pc[Scheduler] = "scan"
      BY <1>7 DEF SelectDrop, SelectRun, Select
    <2>1. th[1] \in Tasks /\ th[1] < at /\ seen[th[1]] # 0 /\ pc[Scheduler] = "scan"
      BY <2>0 DEF Eligible, Tasks
    <2>2. Kept(th[1])' /\ selected' = th
      BY <1>7, <1>q, <2>1 DEF SelectDrop, SelectRun, Select
    <2>3. pc'[Scheduler] # "scan" /\ pc'[Scheduler] # "scanRear" /\ pc'[Scheduler] # "scanTimes"
      BY <1>7 DEF SelectDrop, SelectRun, Select
    <2> QED
      BY <2>2, <2>3
  <1>9. CASE DropPoll
    BY <1>9, <1>q DEF DropPoll, Poll, PollEmpty, vars
  <1>10. CASE DropTake
    <2> DEFINE t == selected[1]
    <2>1. /\ pc[Scheduler] = "dropTake" /\ at = 0 /\ Kept(t)
          /\ gone'[t] = gone[t] + 1 /\ UNCHANGED <<made, seen, at, selected, startFlag>>
          /\ pc' = [pc EXCEPT ![Scheduler] =
                      IF gone[t] + 1 \in Broken THEN "dropPollAgain" ELSE "scan"]
      BY <1>10, <1>t DEF DropTake, Take
    <2>2. \A u \in Tasks : ~ (u < at')
      BY <2>1 DEF Tasks
    <2>3. ~ Awaiting /\ startFlag[selected] # 1 /\ ~ Busy(selected)
      BY <2>1
    <2>4. CASE gone[t] + 1 \in Broken
      <3>1. Kept(t)'
        BY <1>t, <2>1, <2>4, KeptStays
      <3> QED
        BY <2>1, <2>2, <3>1
    <2>5. CASE gone[t] + 1 \notin Broken
      BY <2>1, <2>2, <2>3, <2>5
    <2> QED
      BY <2>4, <2>5
  <1>11. CASE DispatchLock
    BY <1>11, <1>q DEF DispatchLock
  <1>12. CASE DispatchSignal
    BY <1>12, <1>q DEF DispatchSignal, Woken
  <1>13. CASE AwaitLock
    BY <1>13, <1>q DEF AwaitLock
  <1>14. CASE AwaitTest
    BY <1>14, <1>q DEF AwaitTest
  <1>15. CASE AwaitSleep
    BY <1>15, <1>q DEF AwaitSleep
  <1>16. CASE AwaitReturn
    <2>1. \A t \in Tasks : ~ (t < at')
      BY <1>16 DEF AwaitReturn, Tasks
    <2> QED
      BY <1>16, <2>1, <1>q DEF AwaitReturn, Reset
  <1>17. ASSUME NEW th \in Threads, ModelLock(th) PROVE SeenInv'
    BY <1>17, <1>q DEF ModelLock
  <1>18. ASSUME NEW th \in Threads, ModelTest(th) PROVE SeenInv'
    BY <1>18, <1>q DEF ModelTest
  <1>19. ASSUME NEW th \in Threads, ModelSleep(th) PROVE SeenInv'
    BY <1>19, <1>q DEF ModelSleep
  <1>20. ASSUME NEW th \in Threads, ModelStart(th) PROVE SeenInv'
    BY <1>20, <1>q DEF ModelStart, Consumed
  <1>21. ASSUME NEW th \in Threads, ModelPoll(th) PROVE SeenInv'
    BY <1>21, <1>q DEF ModelPoll, Poll, PollEmpty, vars
  <1>22. ASSUME NEW th \in Threads, ModelTake(th) PROVE SeenInv'
    <2> DEFINE t == selected[1]
    <2>1. th = selected /\ Awaiting /\ pc[th] = "take" /\ startFlag[th] # 1 /\ Kept(t)
      BY <1>22 DEF ModelTake, Take
    <2>2. /\ gone'[t] = gone[t] + 1 /\ UNCHANGED <<made, seen, at, selected, startFlag>>
          /\ pc' = [pc EXCEPT ![th] = IF gone[t] + 1 \in Broken THEN "pollAgain" ELSE "infer"]
      BY <1>22, <1>t, <2>1 DEF ModelTake, Take
    <2>3. pc'[Scheduler] = pc[Scheduler]
      BY <2>2
    <2>4. CASE gone[t] + 1 \in Broken
      <3>1. Kept(t)'
        BY <1>t, <2>1, <2>2, <2>4, KeptStays
      <3> QED
        BY <2>1, <2>2, <2>3, <3>1
    <2>5. CASE gone[t] + 1 \notin Broken
      BY <2>1, <2>2, <2>3, <2>5
    <2> QED
      BY <2>4, <2>5
  <1>23. ASSUME NEW th \in Threads, ModelInfer(th) PROVE SeenInv'
    BY <1>23, <1>q DEF ModelInfer
  <1>24. ASSUME NEW th \in Threads, ModelRaise(th) PROVE SeenInv'
    BY <1>24, <1>q DEF ModelRaise
  <1>25. ASSUME NEW th \in Threads, ModelEndLock(th) PROVE SeenInv'
    BY <1>25, <1>q DEF ModelEndLock
  <1>26. ASSUME NEW th \in Threads, ModelEndSignal(th) PROVE SeenInv'
    BY <1>26, <1>q DEF ModelEndSignal
  <1>27. CASE DropRaise
    BY <1>27, <1>q DEF DropRaise, TakeRaise
  <1>28. ASSUME NEW th \in Threads, ModelGetRaise(th) PROVE SeenInv'
    BY <1>28, <1>q DEF ModelGetRaise, TakeRaise
  <1> QED
    BY <1>0, <1>1, <1>2, <1>3, <1>4, <1>5, <1>6, <1>7, <1>9, <1>10, <1>11,
       <1>12, <1>13, <1>14, <1>15, <1>16, <1>17, <1>18, <1>19, <1>20, <1>21, <1>22, <1>23,
       <1>24, <1>25, <1>26, <1>27, <1>28
    DEF Next, Scan, Drop, Dispatch, Model

\* A process about to take a frame is at the selected one, or at a newer one
\* after an overrun or broken frames.
FrameTaken ==
  \A p \in Procs : pc[p] \in {"take", "dropTake"} /\ pc'[p] # pc[p] =>
    LET t     == selected[1]
        frame == gone[t] + 1
    IN
    /\ frame >= seen[t]
    /\ frame > seen[t] =>
         \/ made[t] >= seen[t] + Capacity - 1
         \/ Broken \cap seen[t]..(frame - 1) # {}

LEMMA TakesKept ==
  ASSUME TypeOK, DispatchInv, SeenInv
  PROVE  FrameTaken
  <1> SUFFICES ASSUME NEW p \in Procs, pc[p] \in {"take", "dropTake"}
               PROVE  LET t     == selected[1]
                          frame == gone[t] + 1
                      IN
                      /\ frame >= seen[t]
                      /\ frame > seen[t] =>
                           \/ made[t] >= seen[t] + Capacity - 1
                           \/ Broken \cap seen[t]..(frame - 1) # {}
    BY DEF FrameTaken
  <1> DEFINE t == selected[1]
  <1> USE ThreadFacts
  <1>1. t \in Tasks /\ gone[t] \in Nat /\ seen[t] \in Nat /\ made[t] \in Nat /\ Capacity \in Nat
    BY CapacityAssumption DEF TypeOK
  <1>2. Kept(t)
    BY DEF SeenInv, Promised, TypeOK, SchedulerLabels, ModelLabels, BusyLabels, DispatchInv,
           OneInference, Busy
  <1>3. gone[t] + 1 >= seen[t] /\ (gone[t] + 1) - 1 = gone[t]
    BY <1>1, <1>2 DEF Kept
  <1>4. gone[t] + 1 > seen[t] => gone[t] >= seen[t]
    BY <1>1
  <1> QED
    BY <1>1, <1>2, <1>3, <1>4 DEF Kept

\* The frame taken is the one selected, or a newer one after an overrun of the
\* ring or broken frames.
THEOREM SelectedFrameTaken == Spec => NewerOnlyIfOverrun
  <1>1. Init => SeenInv
    <2> SUFFICES ASSUME Init PROVE SeenInv
      OBVIOUS
    <2>1. \A t \in Tasks : ~ (t < at)
      BY DEF Init, Tasks
    <2>2. ~ Promised
      BY ThreadFacts DEF Init, Promised
    <2> QED
      BY <2>1, <2>2 DEF SeenInv
  <1>2. Spec => []SeenInv
    BY <1>1, TypeCorrect, DispatchSafe, SeenStep, PTL DEF Spec
  <1>3. TypeOK /\ DispatchInv /\ SeenInv => FrameTaken
    BY TakesKept
  <1>4. Spec => [][FrameTaken]_vars
    BY <1>2, <1>3, TypeCorrect, DispatchSafe, PTL DEF Spec
  <1>5. [][FrameTaken]_vars => NewerOnlyIfOverrun
    BY DEF FrameTaken, NewerOnlyIfOverrun
  <1> QED
    BY <1>4, <1>5, PTL
-----------------------------------------------------------------------------
(* Flags, conditions and rings implement ModelCall.                        *)

callee == IF Awaiting THEN selected ELSE Free

\* A model that is busy is the one called, and neither flag is up.
LEMMA BusyIsCalled ==
  ASSUME TypeOK, DispatchInv, NEW th \in Threads, Busy(th)
  PROVE  /\ th = selected /\ Awaiting /\ callee = th /\ th[1] \in Tasks
         /\ startFlag[th] # 1 /\ endFlag[th] # 1
  <1>1. th = selected /\ Awaiting
    BY DEF DispatchInv, OneInference
  <1> QED
    BY <1>1, ThreadFacts DEF DispatchInv, Handshake, callee

\* Steps that move neither the call nor a ring.
LEMMA CallStutter ==
  ASSUME UNCHANGED <<Awaiting, callee, CallPhase, gone>>
  PROVE  UNCHANGED Call!callVars
  BY DEF Call!callVars, callee

\* Puts leave the call alone; one that makes room loses a frame.
LEMMA CallPut ==
  ASSUME TypeOK, NEW t \in Tasks, PutMakeRoom(t) \/ PutPublish(t)
  PROVE  [Call!AbsNext]_(Call!callVars)
  <1>1. UNCHANGED <<Awaiting, callee, CallPhase>>
    BY DEF PutMakeRoom, PutPublish, Awaiting, callee, CallPhase, Busy, signals
  <1>2. UNCHANGED gone \/ gone' = [gone EXCEPT ![t] = @ + 1]
    BY DEF PutMakeRoom, PutPublish
  <1>3. CASE UNCHANGED gone
    BY <1>1, <1>3, CallStutter
  <1>4. CASE gone' = [gone EXCEPT ![t] = @ + 1]
    BY <1>1, <1>4 DEF Call!AbsNext, Call!AbsLose, callee
  <1> QED
    BY <1>2, <1>3, <1>4

\* The scan, the selection and a drop happen while nobody is called.
LEMMA CallScan ==
  ASSUME TypeOK, DispatchInv, Scan \/ Drop
  PROVE  [Call!AbsNext]_(Call!callVars)
  <1> USE ThreadFacts DEF TypeOK, Goto, Step
  <1>1. ~ Awaiting /\ ~ Awaiting'
    BY DEF Awaiting, Scan, ScanFront, ScanRear, ScanTimes, ScanAllEmpty, SelectDrop, SelectRun,
           Select, Drop, DropPoll, DropTake, DropRaise, Poll, PollEmpty, Take, TakeRaise, vars
  <1>2. UNCHANGED <<Awaiting, callee, CallPhase>>
    BY <1>1 DEF Awaiting, callee, CallPhase
  <1>3. CASE Scan
    <2>1. UNCHANGED gone
      BY <1>3 DEF Scan, ScanFront, ScanRear, ScanTimes, ScanAllEmpty, SelectDrop, SelectRun,
                  Select, rings
    <2> QED
      BY <1>2, <2>1, CallStutter
  <1>4. CASE DropPoll
    <2>1. UNCHANGED gone
      BY <1>4 DEF DropPoll, Poll, PollEmpty, rings, vars
    <2> QED
      BY <1>2, <2>1, CallStutter
  <1>6. CASE DropRaise
    <2>1. UNCHANGED gone
      BY <1>6 DEF DropRaise, TakeRaise, rings
    <2> QED
      BY <1>2, <2>1, CallStutter
  <1>5. CASE DropTake
    <2>1. selected[1] \in Tasks /\ gone' = [gone EXCEPT ![selected[1]] = @ + 1]
      BY <1>5 DEF DropTake, Take
    <2> QED
      BY <1>2, <2>1 DEF Call!AbsNext, Call!AbsLose, callee
  <1> QED
    BY <1>3, <1>4, <1>5, <1>6 DEF Drop

\* A dispatch is a call, and the scheduler returns with its answer.
LEMMA CallDispatch ==
  ASSUME TypeOK, DispatchInv, Dispatch
  PROVE  [Call!AbsNext]_(Call!callVars)
  <1> USE ThreadFacts DEF TypeOK, Goto, Step, rings
  <1>1. CASE DispatchLock
    <2>1. ~ Awaiting /\ ~ Awaiting' /\ UNCHANGED gone
      BY <1>1 DEF DispatchLock, Awaiting
    <2>2. UNCHANGED <<Awaiting, callee, CallPhase>>
      BY <2>1 DEF Awaiting, callee, CallPhase
    <2> QED
      BY <2>1, <2>2, CallStutter
  <1>2. CASE DispatchSignal
    <2>1. ~ Awaiting /\ Awaiting' /\ UNCHANGED <<gone, selected>>
      BY <1>2 DEF DispatchSignal, Awaiting
    <2>2. startFlag'[selected] = 1
      BY <1>2 DEF DispatchSignal
    <2>3. CallPhase = "none" /\ CallPhase' = "called"
      BY <2>1, <2>2 DEF CallPhase
    <2> QED
      BY <2>1, <2>3 DEF Call!AbsNext, Call!AbsCall, Call!Move, callee
  <1>3. CASE AwaitLock \/ AwaitTest \/ AwaitSleep
    <2>1. /\ Awaiting /\ Awaiting' /\ UNCHANGED <<gone, selected, startFlag, endFlag>>
          /\ pc'[selected] = pc[selected]
      BY <1>3 DEF AwaitLock, AwaitTest, AwaitSleep, Awaiting, signals
    <2>2. UNCHANGED <<callee, CallPhase>>
      BY <2>1 DEF callee, CallPhase, Busy
    <2> QED
      BY <2>1, <2>2, CallStutter
  <1>4. CASE AwaitReturn
    <2>1. Awaiting /\ ~ Awaiting' /\ UNCHANGED gone /\ endFlag[selected] = 1
      BY <1>4 DEF AwaitReturn, Awaiting
    <2>2. CallPhase = "answered" /\ CallPhase' = "none"
      BY <2>1 DEF CallPhase, DispatchInv, Handshake
    <2> QED
      BY <2>1, <2>2 DEF Call!AbsNext, Call!AbsReturn, Call!Move, callee
  <1> QED
    BY <1>1, <1>2, <1>3, <1>4 DEF Dispatch

\* A model starts when it is called, takes a readable frame and answers.
LEMMA CallModel ==
  ASSUME TypeOK, DispatchInv, NEW th \in Threads, Model(th)
  PROVE  [Call!AbsNext]_(Call!callVars)
  <1> USE ThreadFacts DEF TypeOK, Goto, Step, rings, signals
  <1>0. UNCHANGED selected /\ (UNCHANGED pc[Scheduler] \/ ModelEndSignal(th))
    BY DEF Model, ModelLock, ModelTest, ModelSleep, ModelStart, ModelPoll, ModelTake, ModelGetRaise, TakeRaise, ModelInfer,
           ModelRaise, ModelEndLock, Poll, PollEmpty, Take, vars, ModelEndSignal
  <1>1. CASE ModelLock(th) \/ ModelTest(th) \/ ModelSleep(th)
    <2>1. /\ pc[th] \in {"lockStart", "testStart", "willSleep"}
          /\ pc'[th] \in {"testStart", "willSleep", "asleep"}
          /\ UNCHANGED <<gone, startFlag, endFlag>>
          /\ \A p \in Procs \ {th} : pc'[p] = pc[p]
      BY <1>1 DEF ModelLock, ModelTest, ModelSleep
    <2>2. UNCHANGED <<Awaiting, callee>>
      BY <1>0, <2>1 DEF Awaiting, callee
    <2>3. UNCHANGED CallPhase
      <3>1. CASE th = selected
        <4>1. ~ Awaiting \/ startFlag[selected] = 1 \/ endFlag[selected] = 1
          BY <2>1, <3>1 DEF DispatchInv, Handshake, Busy, BusyLabels
        <4> QED
          BY <1>0, <2>1, <2>2, <4>1 DEF CallPhase
      <3>2. CASE th # selected
        BY <1>0, <2>1, <2>2, <3>2 DEF CallPhase, Busy
      <3> QED
        BY <3>1, <3>2
    <2> QED
      BY <2>1, <2>2, <2>3, CallStutter
  <1>2. CASE ModelStart(th)
    <2>1. th = selected /\ Awaiting /\ endFlag[selected] # 1
      BY <1>2 DEF ModelStart, DispatchInv, Handshake
    <2>2. /\ Awaiting' /\ UNCHANGED <<gone, selected>> /\ startFlag'[selected] = 0
          /\ endFlag' = endFlag /\ pc'[selected] = "poll"
      BY <1>0, <1>2, <2>1 DEF ModelStart, Consumed, Awaiting
    <2>3. CallPhase = "called" /\ CallPhase' = "fetching"
      BY <1>2, <2>1, <2>2 DEF CallPhase, ModelStart
    <2> QED
      BY <2>1, <2>2, <2>3 DEF Call!AbsNext, Call!AbsStart, Call!Move, callee
  <1>3. CASE ModelPoll(th)
    <2>1. /\ pc[th] \in {"poll", "pollAgain"} /\ pc'[th] \in {"poll", "pollAgain", "take"}
          /\ UNCHANGED <<gone, startFlag, endFlag>>
      BY <1>3 DEF ModelPoll, Poll, PollEmpty, vars
    <2>2. /\ th = selected /\ Awaiting /\ startFlag[th] # 1 /\ endFlag[th] # 1
      BY <2>1, BusyIsCalled DEF Busy, BusyLabels
    <2>3. Awaiting' /\ UNCHANGED <<callee, CallPhase>>
      BY <1>0, <1>3, <2>1, <2>2 DEF Awaiting, callee, CallPhase, ModelEndSignal
    <2> QED
      BY <2>1, <2>2, <2>3, CallStutter
  <1>4. CASE ModelTake(th)
    <2>1. /\ pc[th] = "take" /\ UNCHANGED <<startFlag, endFlag>>
          /\ gone' = [gone EXCEPT ![th[1]] = @ + 1]
          /\ pc' = [pc EXCEPT ![th] = IF gone[th[1]] + 1 \in Broken THEN "pollAgain" ELSE "infer"]
      BY <1>4 DEF ModelTake, Take
    <2>2. /\ th = selected /\ Awaiting /\ startFlag[th] # 1 /\ endFlag[th] # 1 /\ th[1] \in Tasks
      BY <2>1, BusyIsCalled DEF Busy, BusyLabels
    <2>3. Awaiting' /\ UNCHANGED callee /\ callee = th /\ CallPhase = "fetching"
      BY <1>0, <2>1, <2>2 DEF Awaiting, callee, CallPhase
    <2>4. CASE gone[th[1]] + 1 \in Broken
      <3>1. CallPhase' = "fetching"
        BY <1>0, <2>1, <2>2, <2>3, <2>4 DEF CallPhase
      <3> QED
        BY <2>1, <2>2, <2>3, <3>1 DEF Call!AbsNext, Call!AbsLose, callee
    <2>5. CASE gone[th[1]] + 1 \notin Broken
      <3>1. CallPhase' = "running"
        BY <1>0, <2>1, <2>2, <2>3, <2>5 DEF CallPhase, Busy, BusyLabels
      <3>2. gone'[th[1]] = gone[th[1]] + 1
        BY <2>1, <2>2
      <3> QED
        BY <2>1, <2>2, <2>3, <2>5, <3>1, <3>2 DEF Call!AbsNext, Call!AbsFetch, Call!Move, callee
    <2> QED
      BY <2>4, <2>5
  <1>5. CASE ModelInfer(th) \/ ModelEndLock(th) \/ ModelRaise(th)
    <2>1. /\ pc[th] \in {"infer", "lockEnd"} /\ UNCHANGED <<gone, startFlag, endFlag>>
          /\ pc'[th] \in {"lockEnd", "signalEnd", "dead"} /\ pc'[Scheduler] = pc[Scheduler]
      BY <1>5 DEF ModelInfer, ModelEndLock, ModelRaise
    <2>2. /\ th = selected /\ Awaiting /\ startFlag[th] # 1 /\ endFlag[th] # 1
      BY <2>1, BusyIsCalled DEF Busy, BusyLabels
    <2>3. Awaiting' /\ UNCHANGED callee /\ CallPhase = "running"
      BY <1>0, <2>1, <2>2 DEF Awaiting, callee, CallPhase, Busy, BusyLabels
    <2>4. CallPhase' = IF pc'[th] = "dead" THEN "failed" ELSE "running"
      BY <1>0, <2>1, <2>2, <2>3 DEF CallPhase, Busy, BusyLabels
    <2>5. CASE pc'[th] = "dead"
      BY <2>1, <2>2, <2>3, <2>4, <2>5 DEF Call!AbsNext, Call!AbsFail, Call!Move, callee
    <2>6. CASE pc'[th] # "dead"
      BY <2>1, <2>2, <2>3, <2>4, <2>6, CallStutter
    <2> QED
      BY <2>5, <2>6
  <1>7. CASE ModelGetRaise(th)
    <2>1. /\ pc[th] = "take" /\ gone[th[1]] + 1 \in Unreadable
          /\ UNCHANGED <<gone, startFlag, endFlag>> /\ pc' = [pc EXCEPT ![th] = "raised"]
      BY <1>7 DEF ModelGetRaise, TakeRaise
    <2>2. /\ th = selected /\ Awaiting /\ startFlag[th] # 1 /\ endFlag[th] # 1
      BY <2>1, BusyIsCalled DEF Busy, BusyLabels
    <2>3. Awaiting' /\ UNCHANGED callee /\ callee = th /\ CallPhase = "fetching"
      BY <1>0, <2>1, <2>2 DEF Awaiting, callee, CallPhase
    <2>4. CallPhase' = "failed"
      BY <1>0, <2>1, <2>2, <2>3 DEF CallPhase, Busy, BusyLabels
    <2> QED
      BY <2>1, <2>2, <2>3, <2>4 DEF Call!AbsNext, Call!AbsFail, Call!Move, callee
  <1>6. CASE ModelEndSignal(th)
    <2>1. pc[th] = "signalEnd" /\ UNCHANGED <<gone, startFlag>> /\ endFlag'[th] = 1
      BY <1>6 DEF ModelEndSignal
    <2>2. /\ th = selected /\ Awaiting /\ startFlag[th] # 1 /\ endFlag[th] # 1
      BY <2>1, BusyIsCalled DEF Busy, BusyLabels
    <2>3. Awaiting' /\ UNCHANGED callee
      BY <1>0, <1>6, <2>2 DEF ModelEndSignal, Awaiting, callee
    <2>4. CallPhase = "running" /\ CallPhase' = "answered"
      BY <1>0, <2>1, <2>2, <2>3 DEF CallPhase, Busy, BusyLabels
    <2> QED
      BY <2>1, <2>3, <2>4 DEF Call!AbsNext, Call!AbsAnswer, Call!Move, callee
  <1> QED
    BY <1>1, <1>2, <1>3, <1>4, <1>5, <1>6, <1>7 DEF Model

\* Flags, conditions and rings are one call of one model at a time, for any
\* number of tasks: answered once, by the model that was called, after it has
\* taken one readable frame that nobody had taken.
THEOREM DispatchIsModelCall == Spec => ImplementsModelCall
  <1>1. Init => Call!AbsInit
    <2> SUFFICES ASSUME Init PROVE Call!AbsInit
      OBVIOUS
    <2>1. ~ Awaiting /\ gone = [t \in Tasks |-> 0]
      BY ThreadFacts DEF Init, Awaiting
    <2> QED
      BY <2>1 DEF Call!AbsInit, CallPhase
  <1>2. TypeOK /\ DispatchInv /\ [Next]_vars => [Call!AbsNext]_(Call!callVars)
    <2> SUFFICES ASSUME TypeOK, DispatchInv, [Next]_vars
                 PROVE  [Call!AbsNext]_(Call!callVars)
      OBVIOUS
    <2>1. CASE UNCHANGED vars
      <3>1. UNCHANGED <<Awaiting, callee, CallPhase, gone>>
        BY <2>1 DEF vars, rings, signals, Awaiting, callee, CallPhase, Busy
      <3> QED
        BY <3>1, CallStutter
    <2> QED
      BY <2>1, CallPut, CallScan, CallDispatch, CallModel DEF Next
  <1> QED
    BY <1>1, <1>2, TypeCorrect, DispatchSafe, PTL DEF Spec, ImplementsModelCall, Call!AbsSpec

-----------------------------------------------------------------------------
(* The safety half of DispatchReturns: within a dispatch somebody can go   *)
(* on, and everybody has a bounded way to go.                              *)

\* Can p take a step, other than finding its ring empty again?
CanStep(p) ==
  \/ pc[p] \in {"testStart", "signalStart", "testEnd", "willSleep", "take", "infer", "signalEnd"}
  \/ pc[p] = "lockStart" /\ startLock = Free
  \/ pc[p] = "lockEnd" /\ endLock = Free
  \/ pc[p] \in {"poll", "pollAgain"} /\ HasFrame(p[1]) /\ ~ putting[p[1]]

Dispatching == Awaiting \/ pc[Scheduler] \in {"lockStart", "signalStart"}

\* A dispatch stands still only if the model called has raised, or waits for a
\* frame behind a broken one: the two conditions and the ring never block it
\* (local_scheduler.py:138-175, model_inference.py:57-91).
SomebodyMoves ==
  Dispatching =>
    \/ \E p \in Procs : CanStep(p)
    \/ putting[selected[1]]
    \/ Awaiting /\ Stranded(selected)

\* A model that polls again has passed over a broken frame.
PassedBroken ==
  \A th \in Threads :
    pc[th] = "pollAgain" => HasFrame(th[1]) \/ made[th[1]] \in Broken

WithinBound == \A t \in Tasks : made[t] <= MaxFrames[t]

\* The steps a process has still to take within a dispatch: a model that is
\* called, one that is not, and the scheduler before and after the answer.
ToCome(t) == MaxFrames[t] - gone[t]

ModelLeft(th) ==
  CASE pc[th] = "lockStart" /\ startFlag[th] = 1 -> 10 + 2 * ToCome(th[1])
    [] pc[th] = "testStart" /\ startFlag[th] = 1 -> 9 + 2 * ToCome(th[1])
    [] pc[th] \in {"poll", "pollAgain"}          -> 8 + 2 * ToCome(th[1])
    [] pc[th] = "take"                           -> 7 + 2 * ToCome(th[1])
    [] pc[th] = "infer"                          -> 6
    [] pc[th] = "lockEnd"                        -> 5
    [] pc[th] = "signalEnd"                      -> 4
    [] pc[th] = "lockStart" /\ startFlag[th] # 1 -> 3
    [] pc[th] = "testStart" /\ startFlag[th] # 1 -> 2
    [] pc[th] = "willSleep"                      -> 1
    [] OTHER                                     -> 0

SchedulerLeft ==
  CASE pc[Scheduler] = "lockEnd" /\ endFlag[selected] # 1 -> 6
    [] pc[Scheduler] = "testEnd" /\ endFlag[selected] # 1 -> 5
    [] pc[Scheduler] = "willSleep"                        -> 4
    [] pc[Scheduler] = "asleep"                           -> 3
    [] pc[Scheduler] = "lockEnd" /\ endFlag[selected] = 1 -> 2
    [] pc[Scheduler] = "testEnd" /\ endFlag[selected] = 1 -> 1
    [] OTHER                                              -> 0

Left(p) == IF p = Scheduler THEN SchedulerLeft ELSE ModelLeft(p)

\* While the scheduler waits, a step leaves its process fewer steps, and no
\* process more.
DispatchShortens ==
  [][Awaiting => \A p \in Procs :
       /\ Left(p)' <= Left(p)
       /\ pc'[p] # pc[p] => Left(p)' < Left(p)]_vars


\* Frames leave rings one at a time, and what is put stays within the bound.
LEMMA PassedStep ==
  ASSUME TypeOK, DispatchInv, PassedBroken, WithinBound, [Next]_vars
  PROVE  PassedBroken' /\ WithinBound'
  <1> USE ThreadFacts, CapacityAssumption, FramesAssumption
      DEF TypeOK, Goto, Step, rings, HasFrame, Size
  <1>1. ASSUME NEW t \in Tasks, PutMakeRoom(t) PROVE PassedBroken' /\ WithinBound'
    <2>1. \A u \in Tasks : HasFrame(u) => HasFrame(u)'
      BY <1>1 DEF PutMakeRoom, IsFull
    <2> QED
      BY <1>1, <2>1 DEF PutMakeRoom, PassedBroken, WithinBound
  <1>2. ASSUME NEW t \in Tasks, PutPublish(t) PROVE PassedBroken' /\ WithinBound'
    <2>1. made'[t] <= MaxFrames[t] /\ made'[t] = made[t] + 1 /\ Size(t)' >= 1 /\ HasFrame(t)'
      BY <1>2 DEF PutPublish, DispatchInv, RingBounds
    <2>2. \A u \in Tasks \ {t} : made'[u] = made[u] /\ gone'[u] = gone[u]
      BY <1>2 DEF PutPublish
    <2>3. UNCHANGED pc
      BY <1>2 DEF PutPublish
    <2> QED
      BY <2>1, <2>2, <2>3 DEF PassedBroken, WithinBound
  <1>3. CASE DropTake
    <2>1. pc[Scheduler] = "dropTake" /\ UNCHANGED made /\ \A th \in Threads : pc'[th] = pc[th]
      BY <1>3 DEF DropTake, Take
    <2>2. \A th \in Threads : pc[th] # "pollAgain"
      BY <2>1 DEF DispatchInv, OneInference, Busy, BusyLabels, Awaiting
    <2> QED
      BY <2>1, <2>2 DEF PassedBroken, WithinBound
  <1>4. ASSUME NEW th \in Threads, ModelTake(th) PROVE PassedBroken' /\ WithinBound'
    <2>1. /\ pc[th] = "take" /\ UNCHANGED made /\ gone'[th[1]] = gone[th[1]] + 1
          /\ pc' = [pc EXCEPT ![th] = IF gone[th[1]] + 1 \in Broken THEN "pollAgain" ELSE "infer"]
      BY <1>4 DEF ModelTake, Take
    <2>2. \A o \in Threads \ {th} : pc'[o] # "pollAgain"
      BY <2>1 DEF DispatchInv, OneInference, Busy, BusyLabels
    <2>3. HasFrame(th[1])
      BY <2>1 DEF DispatchInv, DispatchedFindsFrame
    <2>4. pc'[th] = "pollAgain" => HasFrame(th[1])' \/ made'[th[1]] \in Broken
      <3> SUFFICES ASSUME pc'[th] = "pollAgain", ~ (gone[th[1]] + 1 < made[th[1]])
                   PROVE  made[th[1]] \in Broken
        BY <2>1
      <3>1. gone[th[1]] + 1 = made[th[1]]
        BY <2>3
      <3> QED
        BY <2>1, <3>1
    <2> QED
      BY <2>1, <2>2, <2>4 DEF PassedBroken, WithinBound
  <1>5. CASE UNCHANGED <<made, gone>>
             /\ \A th \in Threads : pc'[th] = "pollAgain" => pc[th] = "pollAgain"
    BY <1>5 DEF PassedBroken, WithinBound
  <1>6. CASE Scan \/ DropPoll \/ DropRaise \/ Dispatch \/ UNCHANGED vars
    <2>1. UNCHANGED <<made, gone>>
      BY <1>6 DEF Scan, ScanFront, ScanRear, ScanTimes, ScanAllEmpty, SelectDrop, SelectRun,
           Select, DropPoll, DropRaise, TakeRaise, Poll, PollEmpty, Dispatch, DispatchLock, DispatchSignal, AwaitLock,
           AwaitTest, AwaitSleep, AwaitReturn, vars
    <2>2. \A th \in Threads : pc'[th] = "pollAgain" => pc[th] = "pollAgain"
      BY <1>6 DEF Scan, ScanFront, ScanRear, ScanTimes, ScanAllEmpty, SelectDrop, SelectRun,
           Select, DropPoll, DropRaise, TakeRaise, Poll, PollEmpty, Dispatch, DispatchLock, DispatchSignal, Woken,
           AwaitLock, AwaitTest, AwaitSleep, AwaitReturn, vars
    <2> QED
      BY <1>5, <2>1, <2>2
  <1>7. ASSUME NEW th \in Threads, Model(th), ~ ModelTake(th)
        PROVE  PassedBroken' /\ WithinBound'
    <2>1. UNCHANGED <<made, gone>>
      BY <1>7 DEF Model, ModelLock, ModelTest, ModelSleep, ModelStart, ModelPoll, ModelGetRaise, TakeRaise, ModelInfer,
           ModelRaise, ModelEndLock, ModelEndSignal, Poll, PollEmpty, vars
    <2>2. \A o \in Threads : pc'[o] = "pollAgain" => pc[o] = "pollAgain"
      BY <1>7 DEF Model, ModelLock, ModelTest, ModelSleep, ModelStart, ModelPoll, ModelGetRaise, TakeRaise, ModelInfer,
           ModelRaise, ModelEndLock, ModelEndSignal, Poll, PollEmpty, vars
    <2> QED
      BY <1>5, <2>1, <2>2
  <1> QED
    BY <1>1, <1>2, <1>3, <1>4, <1>6, <1>7 DEF Next, Drop

\* What a model that has passed a broken frame waits for is in the model.
LEMMA PassedHolds == Spec => [](PassedBroken /\ WithinBound)
  <1>1. Init => PassedBroken /\ WithinBound
    BY ThreadFacts, FramesAssumption DEF Init, PassedBroken, WithinBound, Procs
  <1> QED
    BY <1>1, PassedStep, TypeCorrect, DispatchSafe, PTL DEF Spec

\* While a dispatch is under way somebody can go on, for any number of tasks,
\* unless the model called has raised or waits behind a broken frame.
THEOREM DispatchNotBlocked == Spec => []SomebodyMoves
  <1>1. TypeOK /\ DispatchInv /\ PassedBroken => SomebodyMoves
    <2> SUFFICES ASSUME TypeOK, DispatchInv, PassedBroken, Dispatching,
                        ~ (\E p \in Procs : CanStep(p))
                 PROVE  putting[selected[1]] \/ (Awaiting /\ Stranded(selected))
      BY DEF SomebodyMoves
    <2> USE ThreadFacts DEF TypeOK, Procs
    <2>1. pc[Scheduler] # "signalStart" /\ pc[Scheduler] \notin {"testEnd", "willSleep"}
      BY DEF CanStep
    <2>2. \A th \in Threads : pc[th] \notin {"testStart", "willSleep", "signalEnd"}
      BY DEF CanStep
    <2>3. startLock = Free /\ endLock = Free
      BY <2>1, <2>2 DEF DispatchInv, LockOwners
    <2>4. \A p \in Procs : pc[p] \notin {"lockStart", "lockEnd"}
      BY <2>3 DEF CanStep
    <2>5. Awaiting /\ pc[Scheduler] = "asleep" /\ endFlag[selected] = 0
      BY <2>1, <2>4 DEF Dispatching, Awaiting, DispatchInv, NoLostWakeUp
    <2>6. CASE startFlag[selected] = 1
      <3>1. ~ Busy(selected) /\ pc[selected] \notin {"willSleep", "asleep"}
        BY <2>6 DEF DispatchInv, Handshake, NoLostWakeUp
      <3>2. pc[selected] \in {"dead", "raised"}
        BY <2>2, <2>4, <3>1 DEF Busy, ModelLabels
      <3> QED
        BY <2>5, <3>2 DEF Stranded
    <2>7. CASE Busy(selected)
      <3>1. pc[selected] \in {"poll", "pollAgain"}
        BY <2>7, <2>4 DEF Busy, BusyLabels, CanStep
      <3>2. CASE HasFrame(selected[1])
        BY <3>1, <3>2 DEF CanStep
      <3>3. CASE ~ HasFrame(selected[1])
        <4>1. pc[selected] = "pollAgain"
          BY <3>1, <3>3 DEF DispatchInv, DispatchedFindsFrame
        <4>2. made[selected[1]] \in Broken
          BY <3>3, <4>1 DEF PassedBroken
        <4>3. gone[selected[1]] = made[selected[1]]
          <5> DEFINE t == selected[1]
          <5>1. t \in Tasks /\ made[t] \in Nat /\ gone[t] \in Nat
            OBVIOUS
          <5>2. 0 <= made[t] - gone[t] /\ ~ (made[t] - gone[t] > 0)
            BY <3>3, <5>1 DEF HasFrame, Size, DispatchInv, RingBounds
          <5> QED
            BY <5>1, <5>2
        <4> QED
          BY <2>5, <4>1, <4>2, <4>3 DEF Stranded
      <3> QED
        BY <3>2, <3>3
    <2>8. CASE pc[selected] \in {"dead", "raised"}
      BY <2>5, <2>8 DEF Stranded
    <2> QED
      BY <2>5, <2>6, <2>7, <2>8 DEF DispatchInv, Handshake
  <1> QED
    BY <1>1, TypeCorrect, DispatchSafe, PassedHolds, PTL

\* What is left of a dispatch is a number of steps.
LeftNat ==
  /\ \A p \in Procs : Left(p) \in Nat
  /\ \A t \in Tasks : ToCome(t) \in Nat

LEMMA LeftIsNat == TypeOK /\ DispatchInv /\ WithinBound => LeftNat
  <1> SUFFICES ASSUME TypeOK, DispatchInv, WithinBound PROVE LeftNat
    OBVIOUS
  <1> USE ThreadFacts, FramesAssumption DEF TypeOK
  <1>1. ASSUME NEW t \in Tasks PROVE ToCome(t) \in Nat
    <2>1. /\ made[t] \in Nat /\ gone[t] \in Nat /\ MaxFrames[t] \in Nat
          /\ made[t] <= MaxFrames[t] /\ 0 <= made[t] - gone[t]
      BY DEF WithinBound, DispatchInv, RingBounds, Size
    <2> QED
      BY <2>1 DEF ToCome
  <1>2. ASSUME NEW th \in Threads PROVE ModelLeft(th) \in Nat
    <2>1. ToCome(th[1]) \in Nat
      BY <1>1
    <2> HIDE DEF ToCome
    <2> QED
      BY <2>1 DEF ModelLeft
  <1>3. SchedulerLeft \in Nat
    BY DEF SchedulerLeft
  <1> QED
    BY <1>1, <1>2, <1>3 DEF Left, LeftNat

\* And after a step.
LEMMA LeftStaysNat == TypeOK' /\ DispatchInv' /\ WithinBound' => LeftNat'
  BY LeftIsNat, PTL

\* A model whose flags and place stay has no more to do when frames leave.
LEMMA LeftOnlyShrinks ==
  ASSUME TypeOK, LeftNat, LeftNat', TypeOK',
         NEW th \in Threads, pc'[th] = pc[th], startFlag'[th] = startFlag[th],
         gone'[th[1]] >= gone[th[1]]
  PROVE  ModelLeft(th)' <= ModelLeft(th)
  <1>1. ToCome(th[1]) \in Nat /\ ToCome(th[1])' \in Nat /\ ToCome(th[1])' <= ToCome(th[1])
    <2>1. th[1] \in Tasks /\ MaxFrames[th[1]] \in Nat /\ gone[th[1]] \in Nat /\ gone'[th[1]] \in Nat
      BY ThreadFacts, FramesAssumption DEF TypeOK
    <2>2. ToCome(th[1]) \in Nat /\ ToCome(th[1])' \in Nat
      BY <2>1 DEF LeftNat
    <2> QED
      BY <2>1, <2>2 DEF ToCome
  <1> HIDE DEF ToCome
  <1> QED
    BY <1>1 DEF ModelLeft

\* Every step of a dispatch brings its process closer to the end.
LEMMA DispatchStepsShorten ==
  ASSUME TypeOK, DispatchInv, WithinBound, TypeOK', DispatchInv', WithinBound',
         [Next]_vars, Awaiting
  PROVE  \A p \in Procs :
           /\ Left(p)' <= Left(p)
           /\ pc'[p] # pc[p] => Left(p)' < Left(p)
  <1> USE ThreadFacts DEF TypeOK, Goto, Step, rings, signals
  <1> DEFINE Quiet(p) == /\ Left(p)' <= Left(p)
                         /\ pc'[p] # pc[p] => Left(p)' < Left(p)
  <1>0. LeftNat /\ LeftNat'
    BY LeftIsNat, LeftStaysNat
  <1>1. ASSUME UNCHANGED <<pc, signals, selected>>,
               \A t \in Tasks : gone'[t] >= gone[t]
        PROVE  \A p \in Procs : Quiet(p)
    <2>1. Quiet(Scheduler)
      BY <1>1 DEF Left, SchedulerLeft
    <2>2. ASSUME NEW th \in Threads PROVE Quiet(th)
      BY <1>0, <1>1, LeftOnlyShrinks DEF Left
    <2> QED
      BY <2>1, <2>2
  <1>2. ASSUME NEW t \in Tasks, PutMakeRoom(t) \/ PutPublish(t)
        PROVE  \A p \in Procs : Quiet(p)
    BY <1>1, <1>2 DEF PutMakeRoom, PutPublish
  <1>3. CASE UNCHANGED vars
    BY <1>1, <1>3 DEF vars
  <1>4. ~ Scan /\ ~ Drop
    BY DEF Awaiting, Scan, ScanFront, ScanRear, ScanTimes, ScanAllEmpty, SelectDrop, SelectRun,
           Select, Drop, DropPoll, DropTake, DropRaise, Poll, PollEmpty, Take, TakeRaise
  <1>5. ASSUME Dispatch PROVE \A p \in Procs : Quiet(p)
    <2>1. AwaitLock \/ AwaitTest \/ AwaitSleep \/ AwaitReturn
      BY <1>5 DEF Dispatch, DispatchLock, DispatchSignal, Awaiting
    <2>2. /\ UNCHANGED <<gone, startFlag, selected>>
          /\ \A th \in Threads : pc'[th] = pc[th]
      BY <2>1 DEF AwaitLock, AwaitTest, AwaitSleep, AwaitReturn
    <2>3. ASSUME NEW th \in Threads PROVE Quiet(th)
      BY <1>0, <2>2, LeftOnlyShrinks DEF Left
    <2>4. SchedulerLeft' < SchedulerLeft
      BY <2>1, <2>2 DEF AwaitLock, AwaitTest, AwaitSleep, AwaitReturn, Reset, SchedulerLeft
    <2>5. Quiet(Scheduler)
      <3>1. Left(Scheduler) = SchedulerLeft /\ Left(Scheduler)' = SchedulerLeft'
        BY DEF Left
      <3>2. SchedulerLeft \in Nat /\ SchedulerLeft' \in Nat
        BY <1>0, <3>1 DEF LeftNat
      <3> QED
        BY <2>4, <3>1, <3>2
    <2> QED
      BY <2>3, <2>5
  <1>6. ASSUME NEW th \in Threads, Model(th) PROVE \A p \in Procs : Quiet(p)
    <2>1. /\ UNCHANGED selected
          /\ \A o \in Threads \ {th} : pc'[o] = pc[o] /\ startFlag'[o] = startFlag[o]
          /\ \A t \in Tasks : gone'[t] >= gone[t]
      BY <1>6 DEF Model, ModelLock, ModelTest, ModelSleep, ModelStart, ModelPoll, ModelTake, ModelGetRaise, TakeRaise,
           ModelInfer, ModelRaise, ModelEndLock, ModelEndSignal, Poll, PollEmpty, Take, vars
    <2>2. ASSUME NEW o \in Threads, o # th PROVE Quiet(o)
      BY <1>0, <2>1, <2>2, LeftOnlyShrinks DEF Left
    <2>3. Quiet(Scheduler)
      <3>1. CASE ModelEndSignal(th)
        <4>1. /\ th = selected /\ endFlag[selected] # 1 /\ endFlag'[selected] = 1
              /\ pc[Scheduler] # "testEnd" /\ pc[Scheduler] # "willSleep"
          BY <3>1, BusyIsCalled DEF ModelEndSignal, Busy, BusyLabels, DispatchInv, LockOwners
        <4>2. pc[Scheduler] \in {"lockEnd", "asleep"} /\ pc'[Scheduler] = "lockEnd"
          BY <3>1, <4>1 DEF ModelEndSignal, Awaiting
        <4> QED
          BY <2>1, <4>1, <4>2 DEF Left, SchedulerLeft
      <3>2. CASE ~ ModelEndSignal(th)
        <4>1. pc'[Scheduler] = pc[Scheduler] /\ UNCHANGED endFlag
          BY <1>6, <3>2 DEF Model, ModelLock, ModelTest, ModelSleep, ModelStart, ModelPoll,
             ModelTake, ModelGetRaise, TakeRaise, ModelInfer, ModelRaise, ModelEndLock, Poll, PollEmpty, Take, vars
        <4> QED
          BY <2>1, <4>1 DEF Left, SchedulerLeft
      <3> QED
        BY <3>1, <3>2
    <2>4. Quiet(th)
      <3> DEFINE t == th[1]
      <3>0. th # Scheduler /\ ToCome(t) \in Nat /\ ToCome(t)' \in Nat
        BY <1>0 DEF LeftNat
      <3>1. CASE ModelLock(th) \/ ModelTest(th) \/ ModelSleep(th)
        <4>1. UNCHANGED <<gone, startFlag>> /\ ToCome(t)' = ToCome(t)
          BY <3>1 DEF ModelLock, ModelTest, ModelSleep, ToCome
        <4> HIDE DEF ToCome
        <4> QED
          BY <3>0, <3>1, <4>1 DEF ModelLock, ModelTest, ModelSleep, Left, ModelLeft
      <3>2. CASE ModelStart(th)
        <4>1. UNCHANGED gone /\ ToCome(t)' = ToCome(t)
          BY <3>2 DEF ModelStart, ToCome
        <4> HIDE DEF ToCome
        <4> QED
          BY <3>0, <3>2, <4>1 DEF ModelStart, Consumed, Left, ModelLeft
      <3>3. CASE ModelPoll(th)
        <4>1. UNCHANGED gone /\ ToCome(t)' = ToCome(t)
          BY <3>3 DEF ModelPoll, Poll, PollEmpty, vars, ToCome
        <4>2. \/ pc[th] \in {"poll", "pollAgain"} /\ pc'[th] = "take"
              \/ UNCHANGED <<pc, startFlag>>
          BY <3>3 DEF ModelPoll, Poll, PollEmpty, vars
        <4> HIDE DEF ToCome
        <4> QED
          BY <3>0, <4>1, <4>2 DEF Left, ModelLeft
      <3>4. CASE ModelTake(th)
        <4>1. /\ pc[th] = "take" /\ pc'[th] \in {"pollAgain", "infer"}
              /\ gone'[t] = gone[t] + 1
          BY <3>4 DEF ModelTake, Take
        <4>2. ToCome(t)' = ToCome(t) - 1
          BY <4>1, FramesAssumption DEF ToCome
        <4> HIDE DEF ToCome
        <4> QED
          BY <3>0, <4>1, <4>2 DEF Left, ModelLeft
      <3>7. CASE ModelGetRaise(th)
        <4>1. pc[th] = "take" /\ pc'[th] = "raised"
          BY <3>7 DEF ModelGetRaise, TakeRaise
        <4> HIDE DEF ToCome
        <4> QED
          BY <3>0, <4>1 DEF Left, ModelLeft
      <3>5. CASE ModelInfer(th) \/ ModelRaise(th) \/ ModelEndLock(th)
        BY <3>0, <3>5 DEF ModelInfer, ModelRaise, ModelEndLock, Left, ModelLeft
      <3>6. CASE ModelEndSignal(th)
        <4>1. startFlag[th] # 1 /\ UNCHANGED startFlag /\ pc[th] = "signalEnd" /\ pc'[th] = "lockStart"
          BY <3>6, BusyIsCalled DEF ModelEndSignal, Busy, BusyLabels
        <4> QED
          BY <3>0, <4>1 DEF Left, ModelLeft
      <3> QED
        BY <1>6, <3>1, <3>2, <3>3, <3>4, <3>5, <3>6, <3>7 DEF Model
    <2> QED
      BY <2>2, <2>3, <2>4
  <1> QED
    BY <1>2, <1>3, <1>4, <1>5, <1>6 DEF Next

\* A dispatch is over after a bounded number of steps of the scheduler and the
\* models: with DispatchNotBlocked, what DispatchReturns needs besides fairness.
THEOREM DispatchIsBounded ==
  Spec => [](\A p \in Procs : Left(p) \in Nat) /\ DispatchShortens
  <1>1. TypeOK /\ DispatchInv /\ WithinBound => \A p \in Procs : Left(p) \in Nat
    BY LeftIsNat DEF LeftNat
  <1>2. /\ TypeOK /\ DispatchInv /\ WithinBound /\ TypeOK' /\ DispatchInv' /\ WithinBound'
        /\ [Next]_vars
        => (Awaiting => \A p \in Procs :
              /\ Left(p)' <= Left(p)
              /\ pc'[p] # pc[p] => Left(p)' < Left(p))
    BY DispatchStepsShorten
  <1> QED
    BY <1>1, <1>2, TypeCorrect, DispatchSafe, PassedHolds, PTL DEF Spec, DispatchShortens

-----------------------------------------------------------------------------
(* The rings are those that CrossQueue implements                          *)

Ring(t) == INSTANCE TaskRing WITH made <- made[t], gone <- gone[t], putting <- putting[t]

\* A process that takes a frame finds one, and takes the oldest.
LEMMA RingTake ==
  ASSUME TypeOK, DispatchInv, NEW u \in Tasks, HasFrame(u),
         NEW p \in Procs, NEW from, NEW again, NEW to, Take(p, u, from, again, to),
         NEW t \in Tasks
  PROVE  [Ring(t)!RingNext]_(Ring(t)!ringVars)
  <1>1. /\ gone' = [gone EXCEPT ![u] = gone[u] + 1]
        /\ UNCHANGED <<made, putting>>
    BY DEF Take
  <1>2. CASE t = u
    <2>1. gone[t] < made[t] /\ gone'[t] = gone[t] + 1
      BY <1>1, <1>2 DEF HasFrame, Size, TypeOK
    <2> QED
      BY <1>1, <2>1 DEF Ring!RingNext, Ring!TakeOldest
  <1>3. CASE t # u
    BY <1>1, <1>3 DEF TypeOK, Ring!ringVars
  <1> QED
    BY <1>2, <1>3

\* Every step is one of t's ring, or leaves that ring alone.
LEMMA RingStep ==
  ASSUME TypeOK, DispatchInv, [Next]_vars, NEW t \in Tasks
  PROVE  [Ring(t)!RingNext]_(Ring(t)!ringVars)
  <1>s. ASSUME UNCHANGED rings PROVE [Ring(t)!RingNext]_(Ring(t)!ringVars)
    BY <1>s DEF rings, Ring!ringVars
  <1>1. CASE UNCHANGED vars
    BY <1>1, <1>s DEF vars
  <1>2. ASSUME NEW u \in Tasks, PutMakeRoom(u) PROVE [Ring(t)!RingNext]_(Ring(t)!ringVars)
    <2>1. CASE t = u
      <3>1. /\ ~ putting[t] /\ putting'[t] = TRUE /\ UNCHANGED made
            /\ gone'[t] = IF made[t] - gone[t] = Capacity THEN gone[t] + 1 ELSE gone[t]
        BY <1>2, <2>1 DEF PutMakeRoom, IsFull, Size, TypeOK
      <3> QED
        BY <3>1 DEF Ring!RingNext, Ring!MakeRoom
    <2>2. CASE t # u
      BY <1>2, <2>2 DEF PutMakeRoom, TypeOK, Ring!ringVars
    <2> QED
      BY <2>1, <2>2
  <1>3. ASSUME NEW u \in Tasks, PutPublish(u) PROVE [Ring(t)!RingNext]_(Ring(t)!ringVars)
    <2>1. CASE t = u
      <3>1. /\ putting[t] /\ putting'[t] = FALSE /\ made'[t] = made[t] + 1 /\ UNCHANGED gone
        BY <1>3, <2>1 DEF PutPublish, TypeOK
      <3> QED
        BY <3>1 DEF Ring!RingNext, Ring!Publish
    <2>2. CASE t # u
      BY <1>3, <2>2 DEF PutPublish, TypeOK, Ring!ringVars
    <2> QED
      BY <2>1, <2>2
  <1>4. CASE Scan
    BY <1>4, <1>s DEF Scan, ScanFront, ScanRear, ScanTimes, ScanAllEmpty, SelectDrop, SelectRun,
       Select
  <1>5. CASE Dispatch
    BY <1>5, <1>s DEF Dispatch, DispatchLock, DispatchSignal, AwaitLock, AwaitTest, AwaitSleep,
       AwaitReturn
  <1>6. CASE DropPoll \/ DropRaise
    BY <1>6, <1>s DEF DropPoll, DropRaise, TakeRaise, Poll, PollEmpty, vars
  <1>7. CASE DropTake
    <2>1. selected[1] \in Tasks /\ HasFrame(selected[1])
      BY <1>7, ThreadFacts DEF DropTake, Take, DispatchInv, DispatchedFindsFrame, TypeOK
    <2> QED
      BY <1>7, <2>1, RingTake DEF DropTake, Procs
  <1>8. ASSUME NEW th \in Threads, ModelTake(th) PROVE [Ring(t)!RingNext]_(Ring(t)!ringVars)
    <2>1. th[1] \in Tasks /\ HasFrame(th[1])
      BY <1>8, ThreadFacts DEF ModelTake, Take, DispatchInv, DispatchedFindsFrame
    <2> QED
      BY <1>8, <2>1, RingTake DEF ModelTake, Procs
  <1>9. ASSUME NEW th \in Threads, Model(th), ~ ModelTake(th)
        PROVE  [Ring(t)!RingNext]_(Ring(t)!ringVars)
    <2>1. UNCHANGED rings
      BY <1>9 DEF Model, ModelLock, ModelTest, ModelSleep, ModelStart, ModelPoll, ModelGetRaise, TakeRaise, ModelInfer,
         ModelRaise, ModelEndLock, ModelEndSignal, Poll, PollEmpty, vars
    <2> QED
      BY <2>1, <1>s
  <1> QED
    BY <1>1, <1>2, <1>3, <1>4, <1>5, <1>6, <1>7, <1>8, <1>9 DEF Next, Drop

\* Each task's ring is the ring that CrossQueueProofs proves of the frame
\* queue's code (RingIsTaskRing): what is assumed here of it is kept there.
THEOREM RingsAreTaskRings ==
  ASSUME NEW t \in Tasks
  PROVE  Spec => Ring(t)!RingSpec
  <1>1. Init => Ring(t)!RingInit
    BY DEF Init, Ring!RingInit
  <1>2. TypeOK /\ DispatchInv /\ [Next]_vars => [Ring(t)!RingNext]_(Ring(t)!ringVars)
    BY RingStep
  <1> QED
    BY <1>1, <1>2, TypeCorrect, DispatchSafe, PTL DEF Spec, Ring!RingSpec
=============================================================================
