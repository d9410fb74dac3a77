-------------------------- MODULE EdfBackoffProofs --------------------------
(***************************************************************************)
(* Proofs about the deadline scheduler for any number of tasks, deadlines, *)
(* profiles, ring capacity of two or more, and method.                     *)
(***************************************************************************)
EXTENDS EdfBackoff, SequenceTheorems, WellFoundedInduction, TLAPS

\* The less-than relation on numbers as a set of pairs.
Less == {p \in Nat \X Nat : p[1] < p[2]}

\* Every nonempty set of numbers has a least one.
LEMMA LeastNumber ==
  ASSUME NEW T \in SUBSET Nat, T # {}
  PROVE  \E x \in T : \A y \in T : x <= y
  <1>1. IsWellFoundedOn(Less, Nat)
    BY NatLessThanWellFounded, Zenon DEF OpToRel, Less
  <1>2. PICK x \in T : \A y \in T : ~ (<<y, x>> \in Less)
    BY <1>1, WFMin
  <1>3. ASSUME NEW y \in T PROVE x <= y
    <2>1. x \in Nat /\ y \in Nat /\ <<y, x>> \in Nat \X Nat
      OBVIOUS
    <2> QED
      BY <1>2, <2>1 DEF Less
  <1> QED
    BY <1>3

\* argmin exists: a bounded function on the tasks has a first least value.
LEMMA ArgMinFacts ==
  ASSUME NEW f \in [Tasks -> Int], NEW b \in Int, \A t \in Tasks : b <= f[t]
  PROVE  ArgMin(f) \in Tasks /\ \A u \in Tasks : f[ArgMin(f)] <= f[u]
  <1> DEFINE S == {f[t] - b : t \in Tasks}
  <1>1. S \in SUBSET Nat /\ S # {}
    BY TaskNumAssumption DEF Tasks
  <1>2. PICK x \in S : \A y \in S : x <= y
    BY <1>1, LeastNumber
  <1>3. PICK t0 \in Tasks : f[t0] - b = x
    OBVIOUS
  <1>4. ASSUME NEW u \in Tasks PROVE f[t0] <= f[u]
    <2>1. f[u] - b \in S /\ f[u] \in Int /\ f[t0] \in Int
      OBVIOUS
    <2> QED
      BY <1>2, <1>3, <2>1
  <1> DEFINE E == {u \in Tasks : f[u] = f[t0]}
  <1>5. E \in SUBSET Nat /\ t0 \in E
    BY DEF Tasks
  <1>6. PICK t \in E : \A u \in E : t <= u
    BY <1>5, LeastNumber
  <1>7. ASSUME NEW u \in Tasks PROVE f[t] < f[u] \/ (f[t] = f[u] /\ t <= u)
    <2>1. f[t] = f[t0] /\ f[t0] <= f[u] /\ f[t0] \in Int /\ f[u] \in Int
      BY <1>4
    <2>2. f[u] = f[t0] => t <= u
      BY <1>6
    <2> QED
      BY <2>1, <2>2
  <1>8. /\ ArgMin(f) \in Tasks
        /\ \A u \in Tasks : \/ f[ArgMin(f)] < f[u]
                            \/ f[ArgMin(f)] = f[u] /\ ArgMin(f) <= u
    BY <1>6, <1>7 DEF ArgMin
  <1> QED
    BY <1>8

\* A put appends the frame in hand, and makes room at the head of a full ring.
LEMMA PutFacts ==
  ASSUME NEW t \in Tasks, NEW S, NEW q \in Seq(S), inHand[t] \in S,
         Len(q) <= Capacity
  PROVE  /\ Put(t, q) \in Seq(S)
         /\ Len(q) = Capacity =>
              /\ Len(Put(t, q)) = Capacity
              /\ \A i \in 1..(Capacity - 1) : Put(t, q)[i] = q[i + 1]
         /\ Len(q) # Capacity =>
              /\ Len(Put(t, q)) = Len(q) + 1
              /\ \A i \in 1..Len(q) : Put(t, q)[i] = q[i]
         /\ Put(t, q)[Len(Put(t, q))] = inHand[t]
         /\ Len(Put(t, q)) \in 1..Capacity
  <1>1. CASE Len(q) = Capacity
    <2>1. q # <<>>
      BY <1>1, CapacityAssumption
    <2>2. /\ Tail(q) \in Seq(S) /\ Len(Tail(q)) = Capacity - 1
          /\ \A i \in 1..(Capacity - 1) : Tail(q)[i] = q[i + 1]
      BY <1>1, <2>1, HeadTailProperties
    <2>3. Put(t, q) = Append(Tail(q), inHand[t])
      BY <1>1 DEF Put
    <2> HIDE DEF Put
    <2> QED
      BY <1>1, <2>2, <2>3, AppendProperties, CapacityAssumption
  <1>2. CASE Len(q) # Capacity
    <2>1. Put(t, q) = Append(q, inHand[t])
      BY <1>2 DEF Put
    <2>2. Len(q) \in Nat
      BY LenProperties
    <2> QED
      BY <1>2, <2>1, <2>2, AppendProperties, CapacityAssumption
  <1> QED
    BY <1>1, <1>2

\* The oldest frame taken off a ring.
LEMMA TailFacts ==
  ASSUME NEW S, NEW q \in Seq(S), q # <<>>
  PROVE  /\ Tail(q) \in Seq(S) /\ Len(Tail(q)) = Len(q) - 1 /\ Len(q) \in Nat \ {0}
         /\ \A i \in 1..Len(Tail(q)) : Tail(q)[i] = q[i + 1]
  BY HeadTailProperties, LenProperties, EmptySeq

\* The times of each task are numbers.
LEMMA TimeFacts ==
  /\ Infinity \in Nat /\ MaxTime \in Nat \ {0} /\ 0 \in Variants /\ 1 \in Variants
  /\ \A t \in Tasks :
       /\ Deadline[t] \in Nat \ {0} /\ Deadline[t] < Infinity
       /\ PostTime[t] \in Nat /\ Overhead[t] \in Nat
       /\ \A v \in Variants : Profile[t][v] \in Nat \ {0}
       /\ Profile[t][1] <= Deadline[t]
  BY TimesAssumption, ProfileAssumption DEF Variants

\* So are those in the state.
LEMMA StateFacts ==
  ASSUME TypeOK
  PROVE  /\ clock \in Nat \ {0} /\ clock <= MaxTime
         /\ selectTime \in Nat /\ recvTime \in Nat
         /\ \A t \in Tasks : /\ startTime[t] \in Nat /\ nextStart[t] \in Nat
                             /\ lastStamp[t] \in Nat /\ inHand[t] \in Nat
                             /\ Due(t) \in Nat
  <1>1. /\ clock \in Nat \ {0} /\ clock <= MaxTime
        /\ selectTime \in Nat /\ recvTime \in Nat
    BY TimeFacts DEF TypeOK, Times
  <1>2. ASSUME NEW t \in Tasks
        PROVE  /\ startTime[t] \in Nat /\ nextStart[t] \in Nat
               /\ lastStamp[t] \in Nat /\ inHand[t] \in Nat
    BY TimeFacts DEF TypeOK, Times
  <1>3. ASSUME NEW t \in Tasks PROVE Due(t) \in Nat
    BY <1>2, TimeFacts DEF Due
  <1> QED
    BY <1>1, <1>2, <1>3

-----------------------------------------------------------------------------
\* What the scan knows of the times it read.
StampsPast ==
  \A t \in Tasks :
    /\ startTime[t] <= clock /\ nextStart[t] <= clock
    /\ nextStart[t] # 0 => startTime[t] # 0 /\ Due(t) <= nextStart[t]

\* Remaining times are numbers below infinity, which is for no frame.
LEMMA RemainFacts ==
  ASSUME TypeOK, StampsPast, NEW t \in Tasks, NEW s \in Times, s <= clock
  PROVE  /\ Remain(t, s) \in Int /\ Remain(t, s) <= Infinity
         /\ - MaxTime <= Remain(t, s)
         /\ Remain(t, s) = Infinity <=> s = 0
  <1>1. s \in Nat /\ clock \in Nat /\ clock <= MaxTime
    BY StateFacts DEF Times
  <1>2. Deadline[t] \in Nat /\ Deadline[t] < Infinity
    BY TimeFacts
  <1> QED
    BY <1>1, <1>2, TimeFacts DEF Remain

\* The selected task is one with a frame, and its deadline is the earliest.
LEMMA SelectFacts ==
  ASSUME TypeOK, StampsPast, Waiting # {}
  PROVE  LET sel == ArgMin(RemainTimes) IN
         /\ sel \in Waiting
         /\ \A t \in Waiting : Due(sel) <= Due(t)
         /\ RemainTimes[sel] = Due(sel) - clock
         /\ RemainTimes \in [Tasks -> Int]
         /\ \A t \in Tasks : RemainTimes[sel] <= RemainTimes[t]
  <1> DEFINE sel == ArgMin(RemainTimes)
  <1>1. \A t \in Tasks : /\ startTime[t] \in Times /\ startTime[t] <= clock
                         /\ RemainTimes[t] = Remain(t, startTime[t])
    BY DEF TypeOK, StampsPast, RemainTimes
  <1>2. \A t \in Tasks : /\ RemainTimes[t] \in Int /\ RemainTimes[t] <= Infinity
                         /\ - MaxTime <= RemainTimes[t]
                         /\ RemainTimes[t] = Infinity <=> startTime[t] = 0
    BY <1>1, RemainFacts
  <1>3. RemainTimes \in [Tasks -> Int]
    BY <1>2 DEF RemainTimes
  <1>4. sel \in Tasks /\ \A u \in Tasks : RemainTimes[sel] <= RemainTimes[u]
    <2>1. - MaxTime \in Int
      BY TimesAssumption
    <2> QED
      BY <1>2, <1>3, <2>1, ArgMinFacts
  <1>5. PICK w \in Tasks : startTime[w] # 0
    BY DEF Waiting
  <1>6. startTime[sel] # 0
    <2> HIDE DEF sel
    <2>1. RemainTimes[w] # Infinity /\ RemainTimes[w] <= Infinity /\ RemainTimes[w] \in Int
      BY <1>2, <1>5
    <2>2. RemainTimes[sel] <= RemainTimes[w] /\ RemainTimes[sel] \in Int
      BY <1>2, <1>4
    <2>3. RemainTimes[sel] # Infinity
      BY <2>1, <2>2, TimeFacts
    <2> QED
      BY <1>2, <1>4, <2>3
  <1>7. \A t \in Waiting : t \in Tasks /\ RemainTimes[t] = Due(t) - clock
    <2> TAKE t \in Waiting
    <2> QED
      BY <1>1, StateFacts, TimeFacts DEF Waiting, Remain, Due
  <1>8. sel \in Waiting
    BY <1>4, <1>6 DEF Waiting
  <1>9. ASSUME NEW t \in Waiting PROVE Due(sel) <= Due(t)
    <2> HIDE DEF sel
    <2>1. t \in Tasks /\ Due(t) \in Int /\ Due(sel) \in Int /\ clock \in Int
      BY <1>4, StateFacts DEF Waiting
    <2> QED
      BY <1>4, <1>7, <1>8, <2>1
  <1> QED
    BY <1>3, <1>4, <1>7, <1>8, <1>9

\* The next task: none, or one whose next frame is not late, and is the
\* earliest of the frames left when the selected one is gone.
LEMMA NextFacts ==
  ASSUME TypeOK, StampsPast, NEW sel \in Tasks
  PROVE  LET next == NextRemainTimes(sel)
             u    == ArgMin(next) IN
         /\ u \in Tasks
         /\ next \in [Tasks -> Nat]
         /\ \A t \in Tasks : next[u] <= next[t] /\ next[t] <= Infinity
         /\ \A t \in Tasks \ {sel} :
              IF startTime[t] # 0 /\ Due(t) >= clock THEN next[t] = Due(t) - clock
                                                    ELSE next[t] = Infinity
         /\ IF nextStart[sel] # 0 /\ nextStart[sel] + Deadline[sel] >= clock
            THEN next[sel] = nextStart[sel] + Deadline[sel] - clock
            ELSE next[sel] = Infinity
  <1> DEFINE next == NextRemainTimes(sel)
  <1> DEFINE left == [RemainTimes EXCEPT ![sel] = Remain(sel, nextStart[sel])]
  <1>1. next = [t \in Tasks |-> IF left[t] < 0 THEN Infinity ELSE left[t]]
    BY DEF NextRemainTimes
  <1>2. ASSUME NEW t \in Tasks
        PROVE  /\ left[t] = Remain(t, IF t = sel THEN nextStart[t] ELSE startTime[t])
               /\ left[t] \in Int /\ left[t] <= Infinity
    <2>1. /\ startTime[t] \in Times /\ startTime[t] <= clock
          /\ nextStart[t] \in Times /\ nextStart[t] <= clock
      BY DEF TypeOK, StampsPast
    <2>2. left[t] = Remain(t, IF t = sel THEN nextStart[t] ELSE startTime[t])
      BY DEF RemainTimes
    <2>3. /\ Remain(t, startTime[t]) \in Int /\ Remain(t, startTime[t]) <= Infinity
          /\ Remain(t, nextStart[t]) \in Int /\ Remain(t, nextStart[t]) <= Infinity
      BY <2>1, RemainFacts
    <2> HIDE DEF left
    <2> QED
      BY <2>2, <2>3
  <1> HIDE DEF left
  <1>3. ASSUME NEW t \in Tasks
        PROVE  next[t] \in Nat /\ next[t] <= Infinity
    BY <1>1, <1>2, TimeFacts
  <1>4. next \in [Tasks -> Nat]
    BY <1>1, <1>3
  <1>5. ArgMin(next) \in Tasks /\ \A t \in Tasks : next[ArgMin(next)] <= next[t]
    <2>1. next \in [Tasks -> Int] /\ \A t \in Tasks : 0 <= next[t]
      BY <1>4
    <2> HIDE DEF next
    <2> QED
      BY <2>1, ArgMinFacts
  <1>6. ASSUME NEW t \in Tasks \ {sel}
        PROVE  IF startTime[t] # 0 /\ Due(t) >= clock THEN next[t] = Due(t) - clock
                                                    ELSE next[t] = Infinity
    <2>1. next[t] = IF Remain(t, startTime[t]) < 0 THEN Infinity
                                                   ELSE Remain(t, startTime[t])
      BY <1>1, <1>2
    <2> HIDE DEF next
    <2> QED
      BY <2>1, StateFacts, TimeFacts DEF Remain, Due
  <1>7. IF nextStart[sel] # 0 /\ nextStart[sel] + Deadline[sel] >= clock
        THEN next[sel] = nextStart[sel] + Deadline[sel] - clock
        ELSE next[sel] = Infinity
    <2>1. next[sel] = IF Remain(sel, nextStart[sel]) < 0 THEN Infinity
                                                       ELSE Remain(sel, nextStart[sel])
      BY <1>1, <1>2
    <2> HIDE DEF next
    <2> QED
      BY <2>1, StateFacts, TimeFacts DEF Remain
  <1> QED
    BY <1>3, <1>4, <1>5, <1>6, <1>7

-----------------------------------------------------------------------------
LEMMA ScanKnowsStamps == ScanKnows => StampsPast
  BY DEF ScanKnows, StampsPast

\* The choice of the next task sets a task, or none, and a number.
LEMMA SetNextType ==
  ASSUME TypeOK, StampsPast, NEW sel \in Tasks, SetNext(sel)
  PROVE  nextSelected' \in Tasks \cup {NoTask} /\ nextRemain' \in Nat
  <1> DEFINE next == NextRemainTimes(sel)
             u == ArgMin(next)
  <1>1. u \in Tasks /\ next \in [Tasks -> Nat]
    BY NextFacts
  <1>2. CASE next[u] = Infinity
    BY <1>2 DEF SetNext, TypeOK
  <1>3. CASE next[u] # Infinity
    <2>1. nextSelected' = u /\ nextRemain' = next[u]
      BY <1>3 DEF SetNext
    <2> HIDE DEF next, u
    <2> QED
      BY <1>1, <2>1
  <1> QED
    BY <1>2, <1>3

\* Selecting keeps the types.
LEMMA SelectType ==
  ASSUME TypeOK, StampsPast, NEW to \in {"scan", "drop", "choose"}, Select(to)
  PROVE  TypeOK'
  <1> DEFINE sel == ArgMin(RemainTimes)
  <1>1. sel \in Tasks
    BY SelectFacts DEF Select, Waiting
  <1>2. nextSelected' \in Tasks \cup {NoTask} /\ nextRemain' \in Nat
    <2>1. CASE BacksOff(sel)
      BY <1>1, <2>1, SetNextType DEF Select
    <2>2. CASE ~ BacksOff(sel)
      BY <2>2 DEF Select, nextVars, TypeOK
    <2> QED
      BY <2>1, <2>2
  <1>3. selected' \in Tasks
    BY <1>1 DEF Select
  <1>4. at' \in 0..TaskNum /\ selectTime' \in Times
    BY TaskNumAssumption DEF Select, TypeOK
  <1> QED
    BY <1>2, <1>3, <1>4 DEF Select, Step, TypeOK, preVars, runVars

\* A put keeps the ring's type and bound.
LEMMA PutType ==
  ASSUME TypeOK, NEW t \in Tasks, PutFrame(t)
  PROVE  TypeOK'
  <1>1. inHand[t] \in Times \ {0} /\ ring[t] \in Seq(Times \ {0}) /\ Len(ring[t]) <= Capacity
    BY DEF PutFrame, TypeOK
  <1>2. Put(t, ring[t]) \in Seq(Times \ {0}) /\ Len(Put(t, ring[t])) <= Capacity
    <2>1. Put(t, ring[t]) \in Seq(Times \ {0}) /\ Len(Put(t, ring[t])) \in 1..Capacity
      BY <1>1, PutFacts
    <2> QED
      BY <2>1, CapacityAssumption
  <1>3. ring' = [ring EXCEPT ![t] = Put(t, ring[t])]
    BY DEF PutFrame
  <1>4. /\ ring' \in [Tasks -> Seq(Times \ {0})]
        /\ \A u \in Tasks : Len(ring'[u]) <= Capacity
    BY <1>2, <1>3 DEF TypeOK
  <1>5. inHand' \in [Tasks -> Times]
    BY TimeFacts DEF PutFrame, TypeOK, Times
  <1> QED
    BY <1>4, <1>5 DEF PutFrame, TypeOK, scanVars, nextVars, runVars

\* Taking the oldest frame does too.
LEMMA TakeType ==
  ASSUME TypeOK, NEW t \in Tasks, ring[t] # <<>>,
         ring' = [ring EXCEPT ![t] = Tail(ring[t])]
  PROVE  /\ ring' \in [Tasks -> Seq(Times \ {0})]
         /\ \A u \in Tasks : Len(ring'[u]) <= Capacity
  <1>1. ring[t] \in Seq(Times \ {0}) /\ Len(ring[t]) <= Capacity
    BY DEF TypeOK
  <1>2. Tail(ring[t]) \in Seq(Times \ {0}) /\ Len(Tail(ring[t])) <= Capacity
    BY <1>1, TailFacts, CapacityAssumption
  <1> QED
    BY <1>2 DEF TypeOK

\* Every step keeps the types.
LEMMA TypeStep ==
  TypeOK /\ StampsPast /\ [Next]_vars => TypeOK'
  <1> SUFFICES ASSUME TypeOK, StampsPast, [Next]_vars PROVE TypeOK'
    OBVIOUS
  <1> USE DEF preVars, scanVars, nextVars, runVars, Step
  <1>1. CASE Tick
    <2>1. clock' \in Times \ {0}
      BY <1>1, StateFacts, TimeFacts DEF Tick, Times
    <2> QED
      BY <1>1, <2>1 DEF Tick, TypeOK
  <1>2. ASSUME NEW t \in Tasks, NEW s \in 1..MaxTime, Accept(t, s) PROVE TypeOK'
    <2>1. s \in Times
      BY TimeFacts DEF Times
    <2> QED
      BY <1>2, <2>1 DEF Accept, TypeOK
  <1>3. ASSUME NEW t \in Tasks, PutFrame(t) PROVE TypeOK'
    BY <1>3, PutType
  <1>4. CASE ScanTask
    <2>1. at \in Tasks /\ at' \in 0..TaskNum
      BY <1>4, TaskNumAssumption DEF ScanTask, TypeOK, Tasks
    <2>2. ring[at] \in Seq(Times \ {0})
      BY <2>1 DEF TypeOK
    <2>3. /\ (IF ring[at] = <<>> THEN 0 ELSE ring[at][1]) \in Times
          /\ (IF Len(ring[at]) < 2 THEN 0 ELSE ring[at][2]) \in Times
      <3>1. 0 \in Times
        BY TimeFacts DEF Times
      <3>2. Len(ring[at]) \in Nat /\ (ring[at] # <<>> => Len(ring[at]) >= 1)
        BY <2>2, LenProperties, EmptySeq
      <3>3. \A i \in 1..Len(ring[at]) : ring[at][i] \in Times \ {0}
        BY <2>2, ElementOfSeq
      <3> QED
        BY <3>1, <3>2, <3>3
    <2>4. startTime' \in [Tasks -> Times] /\ nextStart' \in [Tasks -> Times]
      BY <1>4, <2>1, <2>3 DEF ScanTask, TypeOK
    <2>5. result' = NoResult /\ NoResult.task \in Tasks
      BY <1>4, TaskNumAssumption DEF ScanTask, NoResult, Tasks
    <2> QED
      BY <1>4, <2>1, <2>4, <2>5 DEF ScanTask, TypeOK, NoResult, Variants
  <1>5. CASE ScanAllEmpty
    BY <1>5, TaskNumAssumption DEF ScanAllEmpty, TypeOK
  <1>6. CASE SelectNext
    BY <1>6, SelectType DEF SelectNext, SelectNothing, SelectDrop, SelectRun
  <1>7. CASE Drop
    <2>1. ring' \in [Tasks -> Seq(Times \ {0})] /\ \A u \in Tasks : Len(ring'[u]) <= Capacity
      BY <1>7, TakeType DEF Drop, TypeOK
    <2>2. /\ selectTime' \in Times /\ recvTime' \in Times /\ variant' \in Variants
      BY <1>7, TimeFacts DEF Drop, Report, Times, Variants
    <2>3. Late(selected) \in BOOLEAN
      BY DEF Late
    <2> QED
      BY <1>7, <2>1, <2>2, <2>3 DEF Drop, Report, TypeOK
  <1>8. CASE ChooseVariant
    <2>1. Variant(selected) \in Variants
      <3>1. method \in {1, 2, 3}
        BY MethodsAssumption DEF TypeOK
      <3> QED
        BY <3>1 DEF Variant, Variants
    <2> QED
      BY <1>8, <2>1 DEF ChooseVariant, TypeOK
  <1>9. CASE Dispatch
    <2>1. ring' \in [Tasks -> Seq(Times \ {0})] /\ \A u \in Tasks : Len(ring'[u]) <= Capacity
      BY <1>9, TakeType DEF Dispatch, TypeOK
    <2> QED
      BY <1>9, <2>1 DEF Dispatch, TypeOK
  <1>10. CASE Finish
    <2>1. Late(selected) \in BOOLEAN /\ 0 \in Times
      BY TimeFacts DEF Late, Times
    <2> QED
      BY <1>10, <2>1 DEF Finish, Report, TypeOK
  <1>11. CASE UNCHANGED vars
    BY <1>11 DEF vars, TypeOK
  <1> QED
    BY <1>1, <1>2, <1>3, <1>4, <1>5, <1>6, <1>7, <1>8, <1>9, <1>10, <1>11
    DEF Next, Schedule, Scan, Preprocess

-----------------------------------------------------------------------------
(* Pre-processing keeps frames apart.                                      *)

\* RateLimited of one task.
RateLimitedTask(t) ==
  /\ lastStamp[t] <= clock
  /\ inHand[t] # 0 => inHand[t] = lastStamp[t]
  /\ \A i \in 1..Len(ring[t]) :
       /\ ring[t][i] <= lastStamp[t]
       /\ inHand[t] # 0 => ring[t][i] + Deadline[t] <= inHand[t]
       /\ \A j \in 1..(i - 1) : ring[t][j] + Deadline[t] <= ring[t][i]

\* The frames of a ring are numbers, and so is how many there are.
LEMMA RingFacts ==
  ASSUME TypeOK, NEW t \in Tasks
  PROVE  /\ ring[t] \in Seq(Times \ {0})
         /\ Len(ring[t]) \in Nat /\ Len(ring[t]) <= Capacity
         /\ ring[t] # <<>> => Len(ring[t]) >= 1
         /\ \A i \in 1..Len(ring[t]) : ring[t][i] \in Nat \ {0}
  <1>1. ring[t] \in Seq(Times \ {0}) /\ Len(ring[t]) <= Capacity
    BY DEF TypeOK
  <1>2. \A i \in 1..Len(ring[t]) : ring[t][i] \in Times \ {0}
    BY <1>1, ElementOfSeq
  <1> QED
    BY <1>1, <1>2, LenProperties, EmptySeq, TimeFacts DEF Times

\* A put, of a frame a deadline after all others.
LEMMA PutKeepsApart ==
  ASSUME TypeOK, NEW t \in Tasks, RateLimitedTask(t), PutFrame(t)
  PROVE  RateLimitedTask(t)'
  <1> DEFINE q == ring[t]
             r == Put(t, ring[t])
             e == inHand[t]
  <1>1. /\ ring'[t] = r /\ inHand'[t] = 0
        /\ lastStamp' = lastStamp /\ clock' = clock /\ e # 0
    BY DEF PutFrame, TypeOK
  <1>2. /\ q \in Seq(Times \ {0}) /\ Len(q) \in Nat /\ Len(q) <= Capacity
        /\ \A i \in 1..Len(q) : q[i] \in Nat \ {0}
        /\ e \in Times \ {0} /\ e \in Nat /\ lastStamp[t] \in Nat /\ Deadline[t] \in Nat
    BY <1>1, RingFacts, StateFacts, TimeFacts DEF TypeOK
  <1>3. /\ Len(q) = Capacity =>
             /\ Len(r) = Capacity
             /\ \A i \in 1..(Capacity - 1) : r[i] = q[i + 1]
        /\ Len(q) # Capacity =>
             /\ Len(r) = Len(q) + 1
             /\ \A i \in 1..Len(q) : r[i] = q[i]
        /\ r[Len(r)] = e
        /\ Len(r) \in 1..Capacity
    <2>1. q \in Seq(Times \ {0}) /\ inHand[t] \in Times \ {0} /\ Len(q) <= Capacity
      BY <1>2
    <2> QED
      BY <2>1, PutFacts
  <1>4. \A i \in 1..Len(q) : /\ q[i] <= lastStamp[t] /\ q[i] + Deadline[t] <= e
                             /\ \A j \in 1..(i - 1) : q[j] + Deadline[t] <= q[i]
    BY <1>1 DEF RateLimitedTask
  <1>5. e = lastStamp[t]
    BY <1>1 DEF RateLimitedTask
  <1> HIDE DEF q, r, e
  <1>6. PICK k \in {0, 1} : /\ Len(r) = Len(q) + 1 - k
                           /\ \A i \in 1..(Len(r) - 1) : r[i] = q[i + k] /\ i + k \in 1..Len(q)
    <2>1. CASE Len(q) = Capacity
      BY <1>2, <1>3, <2>1, CapacityAssumption
    <2>2. CASE Len(q) # Capacity
      BY <1>2, <1>3, <2>2, CapacityAssumption
    <2> QED
      BY <2>1, <2>2
  <1>7. ASSUME NEW i \in 1..Len(r)
        PROVE  r[i] <= lastStamp[t] /\ \A j \in 1..(i - 1) : r[j] + Deadline[t] <= r[i]
    <2>1. CASE i = Len(r)
      BY <1>2, <1>3, <1>4, <1>5, <1>6, <2>1
    <2>2. CASE i # Len(r)
      <3>1. i \in 1..(Len(r) - 1) /\ Len(r) \in Nat
        BY <1>2, <1>6, <2>2
      <3>2. r[i] = q[i + k] /\ i + k \in 1..Len(q)
        BY <1>6, <3>1
      <3>3. ASSUME NEW j \in 1..(i - 1) PROVE r[j] + Deadline[t] <= r[i]
        <4>1. r[j] = q[j + k] /\ j + k \in 1..(i + k - 1)
          BY <1>6, <3>1
        <4> QED
          BY <1>4, <3>2, <4>1
      <3> QED
        BY <1>4, <3>2, <3>3
    <2> QED
      BY <2>1, <2>2
  <1> QED
    BY <1>1, <1>7 DEF RateLimitedTask, q, r, e, RateLimited

\* Every step keeps the frames of every ring a deadline apart.
LEMMA RateLimitedStep ==
  TypeOK /\ RateLimited /\ [Next]_vars => RateLimited'
  <1> SUFFICES ASSUME TypeOK, RateLimited, [Next]_vars, NEW t \in Tasks
               PROVE  RateLimitedTask(t)'
    BY DEF RateLimited, RateLimitedTask
  <1>0. RateLimitedTask(t)
    BY DEF RateLimited, RateLimitedTask
  <1>1. CASE UNCHANGED <<clock, preVars, ring>>
    BY <1>0, <1>1 DEF RateLimitedTask, preVars
  <1>2. CASE Tick
    BY <1>0, <1>2, StateFacts DEF Tick, RateLimitedTask, preVars
  <1>3. ASSUME NEW u \in Tasks, NEW s \in 1..MaxTime, Accept(u, s)
        PROVE  RateLimitedTask(t)'
    <2>1. CASE u # t
      <3>1. /\ lastStamp'[t] = lastStamp[t] /\ inHand'[t] = inHand[t]
            /\ ring' = ring /\ clock' = clock
        BY <1>3, <2>1 DEF Accept, TypeOK
      <3> QED
        BY <1>0, <3>1 DEF RateLimitedTask
    <2>2. CASE u = t
      <3>1. /\ lastStamp'[t] = s /\ inHand'[t] = s /\ ring' = ring /\ clock' = clock
            /\ s <= clock /\ InTime(t, s)
        BY <1>3, <2>2 DEF Accept, TypeOK
      <3>2. \A i \in 1..Len(ring[t]) : ring[t][i] <= lastStamp[t] /\ ring[t][i] \in Nat \ {0}
        BY <1>0, RingFacts DEF RateLimitedTask
      <3>3. lastStamp[t] \in Nat /\ Deadline[t] \in Nat /\ s \in Nat
        BY StateFacts, TimeFacts
      <3>4. ASSUME NEW i \in 1..Len(ring[t])
            PROVE  ring[t][i] + Deadline[t] <= s /\ ring[t][i] <= s
        BY <3>1, <3>2, <3>3 DEF InTime
      <3> QED
        BY <1>0, <3>1, <3>4 DEF RateLimitedTask
    <2> QED
      BY <2>1, <2>2
  <1>4. ASSUME NEW u \in Tasks, PutFrame(u) PROVE RateLimitedTask(t)'
    <2>1. CASE u # t
      <3>1. /\ lastStamp'[t] = lastStamp[t] /\ inHand'[t] = inHand[t]
            /\ ring'[t] = ring[t] /\ clock' = clock
        BY <1>4, <2>1 DEF PutFrame, TypeOK
      <3> QED
        BY <1>0, <3>1 DEF RateLimitedTask
    <2>2. CASE u = t
      BY <1>0, <1>4, <2>2, PutKeepsApart
    <2> QED
      BY <2>1, <2>2
  <1>5. CASE Drop \/ Dispatch
    <2>1. /\ ring' = [ring EXCEPT ![selected] = Tail(ring[selected])]
          /\ ring[selected] # <<>> /\ UNCHANGED <<clock, lastStamp, inHand>>
          /\ selected \in Tasks
      BY <1>5 DEF Drop, Dispatch, preVars, TypeOK
    <2>2. CASE selected # t
      <3>1. ring'[t] = ring[t]
        BY <2>1, <2>2 DEF TypeOK
      <3> QED
        BY <1>0, <2>1, <3>1 DEF RateLimitedTask
    <2>3. CASE selected = t
      <3>1. ring'[t] = Tail(ring[t])
        BY <2>1, <2>3 DEF TypeOK
      <3>2. /\ Len(ring[t]) \in Nat \ {0} /\ Len(Tail(ring[t])) = Len(ring[t]) - 1
            /\ \A i \in 1..Len(Tail(ring[t])) : Tail(ring[t])[i] = ring[t][i + 1]
        BY <2>1, <2>3, RingFacts, TailFacts
      <3> QED
        BY <1>0, <2>1, <3>1, <3>2 DEF RateLimitedTask
    <2> QED
      BY <2>2, <2>3
  <1> QED
    BY <1>1, <1>2, <1>3, <1>4, <1>5
    DEF Next, Schedule, Scan, SelectNext, SelectNothing, SelectDrop, SelectRun,
        Preprocess, Select, ScanTask, ScanAllEmpty, ChooseVariant, Finish, vars, preVars

\* What it means for a ring: only its newest frame can meet its deadline.
LEMMA ApartFacts ==
  ASSUME TypeOK, RateLimited, NEW t \in Tasks, NEW i \in 1..Len(ring[t])
  PROVE  /\ ring[t][i] <= clock /\ ring[t][1] <= ring[t][i]
         /\ i < Len(ring[t]) => ring[t][i] + Deadline[t] <= ring[t][i + 1]
                              /\ Expired(t, ring[t][i])
  <1>1. /\ Len(ring[t]) \in Nat /\ \A j \in 1..Len(ring[t]) : ring[t][j] \in Nat
        /\ lastStamp[t] \in Nat /\ clock \in Nat /\ Deadline[t] \in Nat
    BY RingFacts, StateFacts, TimeFacts
  <1>2. \A j \in 1..Len(ring[t]) :
          /\ ring[t][j] <= lastStamp[t] /\ lastStamp[t] <= clock
          /\ \A k \in 1..(j - 1) : ring[t][k] + Deadline[t] <= ring[t][j]
    BY DEF RateLimited
  <1>3. i < Len(ring[t]) => i + 1 \in 1..Len(ring[t]) /\ i \in 1..(i + 1 - 1)
    BY <1>1
  <1>4. i = 1 \/ 1 \in 1..(i - 1)
    BY <1>1
  <1>5. 1 \in 1..Len(ring[t])
    BY <1>1
  <1>6. ring[t][i] <= clock /\ ring[t][1] <= ring[t][i]
    BY <1>1, <1>2, <1>4, <1>5
  <1>7. ASSUME i < Len(ring[t])
        PROVE  ring[t][i] + Deadline[t] <= ring[t][i + 1] /\ Expired(t, ring[t][i])
    BY <1>1, <1>2, <1>3, <1>7 DEF Expired
  <1> QED
    BY <1>6, <1>7

-----------------------------------------------------------------------------
(* What the scan has read stays true of the rings.                         *)

\* The part of ScanKnows about one ring.
SeenTask(t) ==
  t \in Waiting /\ pc # "finish" /\ (pc = "scan" => t < at) =>
    /\ ring[t] # <<>> /\ startTime[t] <= ring[t][1]
    /\ startTime[t] = ring[t][1] \/ Len(ring[t]) = Capacity

\* ScanKnows in parts.
LEMMA ScanKnowsParts ==
  ScanKnows <=> /\ pc # "scan" => at = 0
                /\ StampsPast
                /\ \A t \in Tasks : SeenTask(t)
  BY DEF ScanKnows, StampsPast, SeenTask, Waiting

\* The times read are of the past, and those of one task a deadline apart.
LEMMA StampsPastStep ==
  TypeOK /\ RateLimited /\ StampsPast /\ [Next]_vars => StampsPast'
  <1> SUFFICES ASSUME TypeOK, RateLimited, StampsPast, [Next]_vars PROVE StampsPast'
    OBVIOUS
  <1>1. CASE ScanTask
    <2>1. at \in Tasks /\ clock' = clock
      BY <1>1, TaskNumAssumption DEF ScanTask, TypeOK, Tasks
    <2>2. \A t \in Tasks \ {at} : startTime'[t] = startTime[t] /\ nextStart'[t] = nextStart[t]
      BY <1>1 DEF ScanTask, TypeOK
    <2>3. /\ startTime'[at] = IF ring[at] = <<>> THEN 0 ELSE ring[at][1]
          /\ nextStart'[at] = IF Len(ring[at]) < 2 THEN 0 ELSE ring[at][2]
      BY <1>1, <2>1 DEF ScanTask, TypeOK
    <2>4. /\ Len(ring[at]) \in Nat /\ clock \in Nat
          /\ ring[at] # <<>> => Len(ring[at]) >= 1
          /\ ring[at] = <<>> => Len(ring[at]) = 0
          /\ \A i \in 1..Len(ring[at]) : ring[at][i] \in Nat \ {0} /\ ring[at][i] <= clock
      BY <2>1, RingFacts, StateFacts, ApartFacts
    <2>5. Len(ring[at]) >= 2 => ring[at][1] + Deadline[at] <= ring[at][2]
      <3> SUFFICES ASSUME Len(ring[at]) >= 2
                   PROVE  ring[at][1] + Deadline[at] <= ring[at][1 + 1]
        OBVIOUS
      <3>1. 1 \in 1..Len(ring[at]) /\ 1 < Len(ring[at])
        BY <2>4
      <3> QED
        BY <2>1, <3>1, ApartFacts
    <2>6. /\ startTime'[at] <= clock /\ nextStart'[at] <= clock
          /\ nextStart'[at] # 0 =>
               startTime'[at] # 0 /\ startTime'[at] + Deadline[at] <= nextStart'[at]
      BY <2>3, <2>4, <2>5
    <2> QED
      BY <2>1, <2>2, <2>6 DEF StampsPast, Due
  <1>2. CASE Tick
    BY <1>2, StateFacts DEF Tick, StampsPast, Due, scanVars
  <1>3. CASE UNCHANGED <<clock, startTime, nextStart>>
    BY <1>3 DEF StampsPast, Due
  <1> QED
    BY <1>1, <1>2, <1>3
    DEF Next, Schedule, Scan, SelectNext, SelectNothing, SelectDrop, SelectRun, Select,
        Preprocess, Accept, PutFrame, ScanAllEmpty, Drop, ChooseVariant, Dispatch,
        Finish, vars, scanVars

\* A put into a ring that has been read.
LEMMA PutKeepsSeen ==
  ASSUME TypeOK, RateLimited, NEW t \in Tasks, SeenTask(t), PutFrame(t)
  PROVE  SeenTask(t)'
  <1> SUFFICES ASSUME t \in Waiting, pc # "finish", pc = "scan" => t < at
               PROVE  /\ ring'[t] # <<>> /\ startTime[t] <= ring'[t][1]
                      /\ startTime[t] = ring'[t][1] \/ Len(ring'[t]) = Capacity
    BY DEF SeenTask, PutFrame, scanVars, Waiting
  <1>1. /\ ring[t] # <<>> /\ startTime[t] <= ring[t][1]
        /\ startTime[t] = ring[t][1] \/ Len(ring[t]) = Capacity
    BY DEF SeenTask
  <1>2. ring'[t] = Put(t, ring[t])
    BY DEF PutFrame, TypeOK
  <1>3. ring[t] \in Seq(Times \ {0}) /\ inHand[t] \in Times \ {0} /\ Len(ring[t]) <= Capacity
    BY DEF PutFrame, TypeOK
  <1>4. /\ Len(ring[t]) = Capacity =>
             /\ Len(ring'[t]) = Capacity
             /\ \A i \in 1..(Capacity - 1) : ring'[t][i] = ring[t][i + 1]
        /\ Len(ring[t]) # Capacity =>
             /\ Len(ring'[t]) = Len(ring[t]) + 1
             /\ \A i \in 1..Len(ring[t]) : ring'[t][i] = ring[t][i]
        /\ ring'[t] \in Seq(Times \ {0})
        /\ Len(ring'[t]) \in 1..Capacity
    BY <1>2, <1>3, PutFacts
  <1>5. ring'[t] # <<>>
    BY <1>4, EmptySeq, CapacityAssumption
  <1>6. /\ startTime[t] \in Nat /\ Len(ring[t]) \in Nat /\ Len(ring[t]) >= 1
        /\ \A i \in 1..Len(ring[t]) : ring[t][i] \in Nat /\ ring[t][1] <= ring[t][i]
    BY <1>1, StateFacts, RingFacts, ApartFacts
  <1>7. CASE Len(ring[t]) = Capacity
    <2>1. ring'[t][1] = ring[t][2] /\ 2 \in 1..Len(ring[t])
      BY <1>4, <1>7, CapacityAssumption
    <2>2. ring[t][1] <= ring[t][2] /\ ring[t][1] \in Nat /\ ring[t][2] \in Nat
      BY <1>6, <2>1
    <2> QED
      BY <1>1, <1>4, <1>5, <1>6, <1>7, <2>1, <2>2
  <1>8. CASE Len(ring[t]) # Capacity
    BY <1>1, <1>4, <1>5, <1>6, <1>8
  <1> QED
    BY <1>7, <1>8

\* A ring read non-empty still is, and changes its head only by overrunning.
LEMMA SeenStep ==
  ASSUME TypeOK, RateLimited, ScanKnows, [Next]_vars, NEW t \in Tasks
  PROVE  SeenTask(t)'
  <1>0. /\ SeenTask(t) /\ (pc # "scan" => at = 0)
        /\ Len(ring[t]) \in Nat
    BY ScanKnowsParts, RingFacts
  <1>1. CASE Tick \/ \E u \in Tasks : \E s \in 1..MaxTime : Accept(u, s)
    BY <1>0, <1>1 DEF Tick, Accept, scanVars, SeenTask, Waiting
  <1>2. ASSUME NEW u \in Tasks, PutFrame(u) PROVE SeenTask(t)'
    <2>1. CASE u = t
      BY <1>0, <1>2, <2>1, PutKeepsSeen
    <2>2. CASE u # t
      <3>1. ring'[t] = ring[t]
        BY <1>2, <2>2 DEF PutFrame, TypeOK
      <3> QED
        BY <1>0, <1>2, <3>1 DEF PutFrame, scanVars, SeenTask, Waiting
    <2> QED
      BY <2>1, <2>2
  <1>3. CASE ScanTask
    <2>1. /\ at \in Tasks /\ at' = at + 1 /\ at \in Nat /\ t \in Nat
          /\ ring' = ring /\ pc' = pc /\ pc = "scan"
      BY <1>3, TaskNumAssumption DEF ScanTask, TypeOK, Tasks
    <2>2. CASE t = at
      <3>1. startTime'[t] = IF ring[t] = <<>> THEN 0 ELSE ring[t][1]
        BY <1>3, <2>1, <2>2 DEF ScanTask, TypeOK
      <3>2. ring[t] # <<>> => ring[t][1] \in Nat
        BY RingFacts
      <3> QED
        BY <2>1, <3>1, <3>2 DEF SeenTask, Waiting
    <2>3. CASE t # at
      <3>1. startTime'[t] = startTime[t]
        BY <1>3, <2>1, <2>3 DEF ScanTask, TypeOK
      <3>2. t < at + 1 => t < at
        BY <2>1, <2>3
      <3> QED
        BY <1>0, <2>1, <3>1, <3>2 DEF SeenTask, Waiting
    <2> QED
      BY <2>2, <2>3
  <1>4. CASE pc' = "scan" /\ at' = 0
    BY <1>4 DEF SeenTask, Tasks
  <1>5. ASSUME NEW to \in {"drop", "choose"}, Select(to) PROVE SeenTask(t)'
    <2>1. t < at
      BY <1>5, TaskNumAssumption DEF Select, Tasks
    <2> QED
      BY <1>0, <1>5, <2>1 DEF Select, Step, SeenTask, Waiting
  <1>6. CASE ChooseVariant
    BY <1>0, <1>6 DEF ChooseVariant, Step, scanVars, SeenTask, Waiting
  <1>7. CASE Dispatch
    BY <1>7 DEF Dispatch, Step, SeenTask
  <1>8. CASE UNCHANGED vars
    BY <1>0, <1>8 DEF vars, scanVars, SeenTask, Waiting
  <1>9. CASE ScanAllEmpty \/ SelectNothing \/ Drop \/ Finish
    <2>1. pc' = "scan" /\ at' = 0
      BY <1>0, <1>9 DEF ScanAllEmpty, SelectNothing, Select, Drop, Finish, Step, scanVars
    <2> QED
      BY <1>4, <2>1
  <1> QED
    BY <1>1, <1>2, <1>3, <1>5, <1>6, <1>7, <1>8, <1>9
    DEF Next, Schedule, Scan, SelectNext, SelectDrop, SelectRun, Preprocess

LEMMA ScanKnowsStep ==
  TypeOK /\ RateLimited /\ ScanKnows /\ [Next]_vars => ScanKnows'
  <1> SUFFICES ASSUME TypeOK, RateLimited, ScanKnows, [Next]_vars PROVE ScanKnows'
    OBVIOUS
  <1>1. (pc # "scan" => at = 0)'
    BY ScanKnowsParts
    DEF Next, Schedule, Scan, SelectNext, SelectNothing, SelectDrop, SelectRun, Select,
        Preprocess, Accept, PutFrame, Tick, ScanTask, ScanAllEmpty, Drop, ChooseVariant,
        Dispatch, Finish, Step, vars, scanVars
  <1>2. StampsPast'
    BY ScanKnowsParts, StampsPastStep
  <1>3. \A t \in Tasks : SeenTask(t)'
    BY SeenStep
  <1> QED
    BY <1>1, <1>2, <1>3 DEF ScanKnows, StampsPast, SeenTask, Waiting, Due

-----------------------------------------------------------------------------
(* What a selection stands for.                                            *)

\* Backing off happens for other tasks: one's own next frame can only be there
\* when the selected frame is due already.
LEMMA SetNextFacts ==
  ASSUME TypeOK, StampsPast, NEW sel \in Tasks, SetNext(sel)
  PROVE  LET others == {t \in Waiting \ {sel} : Due(t) >= clock} IN
         /\ nextSelected' = sel => Due(sel) <= clock
         /\ nextSelected' = NoTask => others = {}
         /\ nextSelected' \notin {sel, NoTask} =>
              /\ nextSelected' \in others
              /\ nextRemain' = Due(nextSelected') - clock
              /\ \A t \in others : Due(nextSelected') <= Due(t)
  <1> DEFINE next == NextRemainTimes(sel)
             u    == ArgMin(next)
             others == {t \in Waiting \ {sel} : Due(t) >= clock}
  <1>1. /\ u \in Tasks /\ next \in [Tasks -> Nat]
        /\ \A t \in Tasks : next[u] <= next[t] /\ next[t] <= Infinity
        /\ \A t \in Tasks \ {sel} :
             IF startTime[t] # 0 /\ Due(t) >= clock THEN next[t] = Due(t) - clock
                                                   ELSE next[t] = Infinity
        /\ IF nextStart[sel] # 0 /\ nextStart[sel] + Deadline[sel] >= clock
           THEN next[sel] = nextStart[sel] + Deadline[sel] - clock
           ELSE next[sel] = Infinity
    BY NextFacts
  <1>2. IF next[u] = Infinity THEN nextSelected' = NoTask
                              ELSE nextSelected' = u /\ nextRemain' = next[u]
    BY DEF SetNext
  <1>3. NoTask \notin Tasks
    BY DEF NoTask, Tasks
  <1>4. \A t \in Tasks : Due(t) \in Nat /\ startTime[t] \in Nat /\ nextStart[t] \in Nat
    BY StateFacts
  <1>5. clock \in Nat /\ Infinity \in Nat
    BY StateFacts, TimeFacts
  <1>6. \A t \in others : t \in Tasks \ {sel} /\ next[t] = Due(t) - clock
    BY <1>1 DEF Waiting
  <1>7. \A t \in Tasks : startTime[t] # 0 => startTime[t] <= clock
    BY DEF StampsPast
  <1>8. \A t \in others : next[t] < Infinity
    <2> TAKE t \in others
    <2>1. t \in Tasks /\ Due(t) = startTime[t] + Deadline[t] /\ startTime[t] <= clock
          /\ startTime[t] \in Nat /\ Deadline[t] \in Nat /\ Deadline[t] < Infinity
      BY <1>4, <1>6, TimeFacts DEF Due, StampsPast
    <2> QED
      BY <1>5, <1>6, <2>1
  <1> HIDE DEF next, u
  <1>9. ASSUME nextSelected' = sel PROVE Due(sel) <= clock
    <2>1. u = sel /\ next[sel] # Infinity
      BY <1>2, <1>3, <1>9
    <2>2. nextStart[sel] # 0
      BY <1>1, <2>1
    <2>3. Due(sel) <= nextStart[sel] /\ nextStart[sel] <= clock
      BY <2>2 DEF StampsPast
    <2> QED
      BY <1>4, <1>5, <2>3
  <1>10. ASSUME nextSelected' = NoTask, NEW t \in others PROVE FALSE
    <2>1. next[u] = Infinity
      BY <1>1, <1>2, <1>3, <1>10
    <2>2. next[u] <= next[t] /\ next[t] < Infinity /\ next[t] \in Nat
      BY <1>1, <1>6, <1>8
    <2> QED
      BY <1>5, <2>1, <2>2
  <1>11. ASSUME nextSelected' \notin {sel, NoTask}
         PROVE  /\ nextSelected' \in others
                /\ nextRemain' = Due(nextSelected') - clock
                /\ \A t \in others : Due(nextSelected') <= Due(t)
    <2>1. nextSelected' = u /\ nextRemain' = next[u] /\ u \in Tasks \ {sel} /\ next[u] # Infinity
      BY <1>1, <1>2, <1>11
    <2>2. startTime[u] # 0 /\ Due(u) >= clock /\ next[u] = Due(u) - clock
      BY <1>1, <2>1
    <2>3. u \in others
      BY <2>1, <2>2 DEF Waiting
    <2>4. ASSUME NEW t \in others PROVE Due(u) <= Due(t)
      <3>1. next[u] <= next[t] /\ next[t] = Due(t) - clock /\ t \in Tasks
        BY <1>1, <1>6
      <3> QED
        BY <1>4, <1>5, <2>1, <2>2, <3>1
    <2> QED
      BY <2>1, <2>2, <2>3, <2>4
  <1> QED
    BY <1>9, <1>10, <1>11

\* With back-off, the time the drop test judges is infinite or a deadline long.
LEMMA BacksOffNeverDrops ==
  ASSUME TypeOK, StampsPast, Waiting # {}, BacksOff(ArgMin(RemainTimes))
  PROVE  ~ CannotFinish(ArgMin(RemainTimes))
  <1> DEFINE sel == ArgMin(RemainTimes)
             next == NextRemainTimes(sel)
  <1>1. /\ sel \in Tasks /\ startTime[sel] # 0 /\ RemainTimes[sel] = Due(sel) - clock
    BY SelectFacts DEF Waiting
  <1>2. IF nextStart[sel] # 0 /\ nextStart[sel] + Deadline[sel] >= clock
        THEN next[sel] = nextStart[sel] + Deadline[sel] - clock
        ELSE next[sel] = Infinity
    BY <1>1, NextFacts
  <1>3. Flag(sel) = next[sel] /\ RemainTimes[sel] >= 0
    BY DEF Flag, BacksOff
  <1>4. nextStart[sel] # 0 => Due(sel) <= nextStart[sel]
    BY <1>1 DEF StampsPast
  <1>5. /\ clock \in Nat /\ Due(sel) \in Nat /\ nextStart[sel] \in Nat
        /\ Deadline[sel] \in Nat /\ Deadline[sel] < Infinity /\ Infinity \in Nat
        /\ Profile[sel][1] \in Nat /\ Profile[sel][1] <= Deadline[sel]
    BY <1>1, StateFacts, TimeFacts
  <1>6. next[sel] >= Deadline[sel] /\ next[sel] \in Nat
    <2> HIDE DEF sel, next
    <2> QED
      BY <1>1, <1>2, <1>3, <1>4, <1>5
  <1>7. ~ (next[sel] - Profile[sel][1] < 0)
    <2> HIDE DEF sel, next
    <2> QED
      BY <1>5, <1>6
  <1> QED
    BY <1>3, <1>7 DEF CannotFinish

\* The first part of SelectKnows, and the second and third.
Chosen ==
  pc # "scan" =>
    /\ selected \in Waiting /\ selectTime <= clock
    /\ \A t \in Waiting : Due(selected) <= Due(t)
DropIsLate == pc = "drop" /\ method = 1 => Due(selected) < clock
NextKnown ==
  pc = "choose" /\ method = 1 =>
    /\ nextSelected = selected => Due(selected) <= selectTime
    /\ nextSelected = NoTask => Others = {}
    /\ nextSelected \notin {selected, NoTask} =>
         /\ nextSelected \in Others
         /\ nextRemain = Due(nextSelected) - selectTime
         /\ \A t \in Others : Due(nextSelected) <= Due(t)

LEMMA SelectKnowsParts == SelectKnows <=> Chosen /\ DropIsLate /\ NextKnown
  BY DEF SelectKnows, Chosen, DropIsLate, NextKnown

\* A selection establishes them.
LEMMA SelectEstablishes ==
  ASSUME TypeOK, StampsPast, SelectDrop \/ SelectRun
  PROVE  SelectKnows'
  <1> DEFINE sel == ArgMin(RemainTimes)
  <1>1. /\ Waiting # {} /\ selected' = sel /\ selectTime' = clock /\ clock' = clock
        /\ startTime' = startTime /\ method' = method
        /\ IF BacksOff(sel) THEN SetNext(sel) ELSE UNCHANGED nextVars
    BY DEF SelectDrop, SelectRun, Select
  <1>2. /\ sel \in Waiting /\ \A t \in Waiting : Due(sel) <= Due(t)
        /\ RemainTimes[sel] = Due(sel) - clock
    BY <1>1, SelectFacts
  <1>3. sel \in Tasks /\ clock \in Nat /\ Due(sel) \in Nat
    BY <1>2, StateFacts DEF Waiting
  <1>4. Waiting' = Waiting /\ \A t : Due(t)' = Due(t)
    BY <1>1 DEF Waiting, Due
  <1>5. Due(selected)' = Due(sel)
    BY <1>1 DEF Due
  <1> HIDE DEF sel
  <1>6. Chosen'
    BY <1>1, <1>2, <1>3, <1>4, <1>5 DEF Chosen
  <1>7. DropIsLate'
    <2> SUFFICES ASSUME SelectDrop, method = 1 PROVE Due(sel) < clock
      BY <1>1, <1>5 DEF DropIsLate, SelectDrop, SelectRun, Select, Step
    <2>1. ~ BacksOff(sel)
      BY <1>1, BacksOffNeverDrops DEF SelectDrop, sel
    <2>2. ~ (RemainTimes[sel] >= 0)
      BY <2>1 DEF BacksOff
    <2> QED
      BY <1>2, <1>3, <2>2
  <1>8. NextKnown'
    <2> SUFFICES ASSUME SelectRun, method = 1
                 PROVE  LET others == {t \in Waiting \ {sel} : Due(t) >= clock} IN
                        /\ nextSelected' = sel => Due(sel) <= clock
                        /\ nextSelected' = NoTask => others = {}
                        /\ nextSelected' \notin {sel, NoTask} =>
                             /\ nextSelected' \in others
                             /\ nextRemain' = Due(nextSelected') - clock
                             /\ \A t \in others : Due(nextSelected') <= Due(t)
      <3>1. Others' = {t \in Waiting \ {sel} : Due(t) >= clock}
        BY <1>1, <1>4 DEF Others
      <3>2. Due(nextSelected)' = Due(nextSelected')
        BY <1>1 DEF Due
      <3> QED
        BY <1>1, <1>4, <1>5, <3>1, <3>2 DEF NextKnown, SelectDrop, SelectRun, Select, Step
    <2>1. BacksOff(sel)
      <3>1. SUFFICES ASSUME ~ BacksOff(sel) PROVE FALSE
        OBVIOUS
      <3>2. Flag(sel) = RemainTimes[sel] /\ RemainTimes[sel] < 0
        BY <1>2, <1>3, <3>1 DEF Flag, BacksOff
      <3>3. Profile[sel][1] \in Nat
        BY <1>3, TimeFacts
      <3>4. CannotFinish(sel)
        BY <1>2, <1>3, <3>2, <3>3 DEF CannotFinish
      <3> QED
        BY <3>4 DEF SelectRun, sel
    <2> QED
      BY <1>1, <1>3, <2>1, SetNextFacts
  <1> QED
    BY <1>6, <1>7, <1>8, SelectKnowsParts DEF SelectKnows, Chosen, DropIsLate, NextKnown

\* What a step leaves alone while the scheduler stays where it is.
LEMMA SelectKnowsStep ==
  TypeOK /\ StampsPast /\ SelectKnows /\ [Next]_vars => SelectKnows'
  <1> SUFFICES ASSUME TypeOK, StampsPast, Chosen, DropIsLate, NextKnown, [Next]_vars
               PROVE  Chosen' /\ DropIsLate' /\ NextKnown'
    BY DEF SelectKnows, Chosen, DropIsLate, NextKnown
  <1> USE DEF preVars, scanVars, nextVars, runVars
  <1>1. CASE pc' = "scan"
    BY <1>1 DEF Chosen, DropIsLate, NextKnown
  <1>2. ASSUME clock <= clock', clock' \in Nat,
               UNCHANGED <<pc, startTime, selected, nextVars, selectTime, method>>
        PROVE  Chosen' /\ DropIsLate' /\ NextKnown'
    <2>1. /\ clock \in Nat /\ selectTime \in Nat /\ selected \in Tasks /\ Due(selected) \in Nat
      BY StateFacts DEF TypeOK
    <2>2. Waiting' = Waiting /\ Others' = Others /\ \A t \in Tasks : Due(t)' = Due(t)
      BY <1>2 DEF Waiting, Others, Due
    <2>3. Waiting \subseteq Tasks /\ Others \subseteq Tasks
      BY DEF Waiting, Others
    <2>4. Due(selected)' = Due(selected) /\ Due(nextSelected)' = Due(nextSelected)
      BY <1>2 DEF Due
    <2>5. Chosen'
      BY <1>2, <2>1, <2>2, <2>3, <2>4 DEF Chosen
    <2>6. DropIsLate'
      BY <1>2, <2>1, <2>4 DEF DropIsLate
    <2>7. NextKnown'
      BY <1>2, <2>2, <2>3, <2>4 DEF NextKnown
    <2> QED
      BY <2>5, <2>6, <2>7
  <1>3. CASE Tick
    BY <1>2, <1>3, StateFacts DEF Tick
  <1>4. CASE \E t \in Tasks : Preprocess(t)
    BY <1>2, <1>4, StateFacts DEF Preprocess, Accept, PutFrame
  <1>5. CASE SelectDrop \/ SelectRun
    BY <1>5, SelectEstablishes, SelectKnowsParts DEF SelectKnows, Chosen, DropIsLate, NextKnown
  <1>6. CASE ChooseVariant \/ Dispatch
    <2>1. /\ pc # "scan" /\ pc' \in {"dispatch", "finish"}
          /\ UNCHANGED <<clock, startTime, selected, selectTime>>
      BY <1>6 DEF ChooseVariant, Dispatch, Step
    <2>2. Waiting' = Waiting /\ \A t : Due(t)' = Due(t)
      BY <2>1 DEF Waiting, Due
    <2>3. Due(selected)' = Due(selected)
      BY <2>1 DEF Due
    <2> QED
      BY <2>1, <2>2, <2>3 DEF Chosen, DropIsLate, NextKnown
  <1>7. CASE Scan \/ SelectNothing \/ Drop \/ Finish
    BY <1>1, <1>7 DEF Scan, ScanTask, ScanAllEmpty, SelectNothing, Select, Drop, Finish, Step
  <1>8. CASE UNCHANGED vars
    BY <1>2, <1>8, StateFacts DEF vars
  <1> QED
    BY <1>3, <1>4, <1>5, <1>6, <1>7, <1>8 DEF Next, Schedule, SelectNext

-----------------------------------------------------------------------------
(* The run and its result.                                                 *)

\* RunKnows with Limit put in.
LEMMA RunKnowsParts ==
  RunKnows <=>
    LET full == variant = 0 /\ method # 3
        end  == recvTime + Profile[selected][0] + PostTime[selected]
    IN  /\ pc = "dispatch" => recvTime <= clock /\ clock <= recvTime + Overhead[selected]
        /\ pc = "finish" => recvTime <= clock /\ clock <= recvTime + Profile[selected][variant]
        /\ pc = "dispatch" /\ full => end <= Due(selected)
        /\ pc = "finish" /\ full => end <= Due(selected) + Overhead[selected]
  BY DEF RunKnows, Limit

\* The full model is chosen only if it fits.
LEMMA ChosenFullFits ==
  ASSUME TypeOK, Variant(selected) = 0
  PROVE  /\ method # 3 => FullFits(selected)
         /\ method = 1 => NextFits(selected)
  <1>1. method \in {1, 2, 3}
    BY MethodsAssumption DEF TypeOK
  <1> QED
    BY <1>1 DEF Variant

LEMMA RunKnowsStep ==
  TypeOK /\ RunKnows /\ [Next]_vars => RunKnows'
  <1> SUFFICES ASSUME TypeOK, RunKnows, [Next]_vars PROVE RunKnows'
    OBVIOUS
  <1> USE DEF preVars, scanVars, nextVars, runVars
  <1>0. /\ clock \in Nat /\ recvTime \in Nat /\ selected \in Tasks /\ Due(selected) \in Nat
        /\ Overhead[selected] \in Nat /\ PostTime[selected] \in Nat
        /\ Profile[selected][0] \in Nat
    BY StateFacts, TimeFacts DEF TypeOK
  <1>1. CASE pc' \notin {"dispatch", "finish"}
    BY <1>1 DEF RunKnows
  <1>2. CASE UNCHANGED <<clock, pc, startTime, selected, method, variant, recvTime>>
    BY <1>2 DEF RunKnows, Limit, Due
  <1>3. CASE Tick
    <2>1. /\ clock' = clock + 1 /\ clock < Limit
          /\ UNCHANGED <<pc, startTime, selected, method, variant, recvTime>>
      BY <1>3 DEF Tick
    <2>2. Limit' = Limit /\ Due(selected)' = Due(selected)
      BY <2>1 DEF Limit, Due
    <2>3. pc \in {"dispatch", "finish"} => Limit \in Nat
      <3>1. Profile[selected][variant] \in Nat
        BY <1>0, TimeFacts DEF TypeOK
      <3> QED
        BY <1>0, <3>1 DEF Limit
    <2> QED
      BY <1>0, <2>1, <2>2, <2>3 DEF RunKnows
  <1>4. CASE ChooseVariant
    <2>1. /\ pc' = "dispatch" /\ recvTime' = clock /\ variant' = Variant(selected)
          /\ UNCHANGED <<clock, startTime, selected, method>>
      BY <1>4 DEF ChooseVariant, Step
    <2>2. Due(selected)' = Due(selected)
      BY <2>1 DEF Due
    <2>3. variant' = 0 /\ method # 3 =>
            clock + Profile[selected][0] + PostTime[selected] <= Due(selected)
      BY <2>1, ChosenFullFits DEF FullFits, Due
    <2>4. clock <= clock + Overhead[selected]
      BY <1>0
    <2> QED
      BY <1>0, <2>1, <2>2, <2>3, <2>4 DEF RunKnows, Limit
  <1>5. CASE Dispatch
    <2>1. /\ pc = "dispatch" /\ pc' = "finish" /\ recvTime' = clock
          /\ UNCHANGED <<clock, startTime, selected, method, variant>>
      BY <1>5 DEF Dispatch, Step
    <2>2. Due(selected)' = Due(selected)
      BY <2>1 DEF Due
    <2>3. Profile[selected][variant] \in Nat
      BY <1>0, TimeFacts DEF TypeOK
    <2>4. /\ clock <= recvTime + Overhead[selected]
          /\ variant = 0 /\ method # 3 =>
               recvTime + Profile[selected][0] + PostTime[selected] <= Due(selected)
      BY <2>1, RunKnowsParts
    <2>5. variant = 0 /\ method # 3 =>
            clock + Profile[selected][0] + PostTime[selected]
              <= Due(selected) + Overhead[selected]
      BY <1>0, <2>4
    <2>6. clock <= clock + Profile[selected][variant]
      BY <1>0, <2>3
    <2> QED
      BY <1>0, <2>1, <2>2, <2>5, <2>6 DEF RunKnows, Limit
  <1>6. CASE \E t \in Tasks : Preprocess(t)
    BY <1>2, <1>6 DEF Preprocess, Accept, PutFrame
  <1>7. CASE Scan \/ SelectNext \/ Drop \/ Finish
    BY <1>1, <1>7 DEF Scan, ScanTask, ScanAllEmpty, SelectNext, SelectNothing, SelectDrop,
                      SelectRun, Select, Drop, Finish, Step
  <1>8. CASE UNCHANGED vars
    BY <1>2, <1>8 DEF vars
  <1> QED
    BY <1>3, <1>4, <1>5, <1>6, <1>7, <1>8 DEF Next, Schedule

\* A full model chosen leaves room for the next frame.
LEMMA ChooseKeepsNext ==
  ASSUME TypeOK, SelectKnows, ChooseVariant
  PROVE  BackoffKeepsNext'
  <1> SUFFICES ASSUME Variant(selected) = 0, method = 1
               PROVE  BackoffKeepsNext'
    BY DEF ChooseVariant, BackoffKeepsNext
  <1>1. /\ recvTime' = clock /\ pc = "choose"
        /\ UNCHANGED <<clock, startTime, selected, selectTime, nextVars>>
    BY DEF ChooseVariant, Step, scanVars
  <1>2. /\ clock \in Nat /\ selectTime \in Nat /\ selected \in Tasks
        /\ Profile[selected][0] \in Nat \ {0} /\ PostTime[selected] \in Nat
        /\ Due(selected) \in Nat
    BY StateFacts, TimeFacts DEF TypeOK
  <1>3. FullFits(selected) /\ NextFits(selected)
    BY ChosenFullFits
  <1>4. Chosen /\ NextKnown
    BY SelectKnowsParts
  <1>5. nextSelected # selected
    <2>1. clock + Profile[selected][0] + PostTime[selected] <= Due(selected)
      BY <1>3 DEF FullFits, Due
    <2>2. selectTime <= clock
      BY <1>1, <1>4 DEF Chosen
    <2>3. ~ (Due(selected) <= selectTime)
      BY <1>2, <2>1, <2>2
    <2> QED
      BY <1>1, <1>4, <2>3 DEF NextKnown
  <1>6. Others' = Others /\ \A t : Due(t)' = Due(t)
    BY <1>1 DEF Others, Waiting, Due
  <1>7. CASE nextSelected = NoTask
    BY <1>1, <1>4, <1>6, <1>7 DEF NextKnown, BackoffKeepsNext
  <1>8. CASE nextSelected # NoTask
    <2>1. /\ nextSelected \in Others /\ nextRemain = Due(nextSelected) - selectTime
          /\ \A t \in Others : Due(nextSelected) <= Due(t)
      BY <1>1, <1>4, <1>5, <1>8 DEF NextKnown
    <2>2. Profile[selected][0] + Profile[nextSelected][0] <= nextRemain
      BY <1>3, <1>8 DEF NextFits
    <2>3. nextSelected \in Tasks
      BY <2>1 DEF Others, Waiting
    <2>4. Profile[nextSelected][0] \in Nat /\ Due(nextSelected) \in Nat
      BY <2>3, StateFacts, TimeFacts
    <2>5. clock + Profile[selected][0] + Profile[nextSelected][0]
            <= Due(nextSelected) + (clock - selectTime)
      BY <1>2, <2>1, <2>2, <2>4
    <2>6. \A t \in Others' : \E u \in Others' : Due(u)' <= Due(t)' /\ Kept(u)'
      <3> TAKE t \in Others'
      <3> QED
        BY <1>1, <1>6, <2>1, <2>5 DEF Kept, Due
    <2> QED
      BY <2>6 DEF BackoffKeepsNext
  <1> QED
    BY <1>7, <1>8

LEMMA KeepsNextStep ==
  TypeOK /\ SelectKnows /\ BackoffKeepsNext /\ [Next]_vars => BackoffKeepsNext'
  <1> SUFFICES ASSUME TypeOK, SelectKnows, BackoffKeepsNext, [Next]_vars
               PROVE  BackoffKeepsNext'
    OBVIOUS
  <1> USE DEF preVars, scanVars, nextVars, runVars
  <1>1. CASE pc' \notin {"dispatch", "finish"}
    BY <1>1 DEF BackoffKeepsNext
  <1>2. CASE UNCHANGED <<pc, startTime, selected, method, variant, recvTime, selectTime>>
    BY <1>2 DEF BackoffKeepsNext, Others, Waiting, Due, Kept
  <1>3. CASE Dispatch
    <2> SUFFICES ASSUME variant = 0, method = 1
                 PROVE  \A t \in Others' : \E u \in Others' : Due(u)' <= Due(t)' /\ Kept(u)'
      BY <1>3 DEF Dispatch, BackoffKeepsNext
    <2>1. /\ pc = "dispatch" /\ recvTime' = clock
          /\ UNCHANGED <<startTime, selected, selectTime>>
      BY <1>3 DEF Dispatch, Step
    <2>2. Others' = Others /\ Others \subseteq Tasks
      BY <2>1 DEF Others, Waiting, Due
    <2>3. /\ clock \in Nat /\ selectTime \in Nat /\ recvTime \in Nat
          /\ Profile[selected][0] \in Nat
      BY StateFacts, TimeFacts DEF TypeOK
    <2>4. ASSUME NEW t \in Others PROVE \E u \in Others : Due(u)' <= Due(t)' /\ Kept(u)'
      <3>1. PICK u \in Others : Due(u) <= Due(t) /\ Kept(u)
        BY <2>1 DEF BackoffKeepsNext
      <3>2. Profile[u][0] \in Nat /\ Due(u) \in Nat
        BY <2>2, StateFacts, TimeFacts
      <3>3. recvTime + Profile[selected][0] + Profile[u][0] <= Due(u) + (recvTime - selectTime)
        BY <3>1 DEF Kept
      <3>4. clock + Profile[selected][0] + Profile[u][0] <= Due(u) + (clock - selectTime)
        BY <2>3, <3>2, <3>3
      <3> QED
        BY <2>1, <3>1, <3>4 DEF Kept, Due
    <2> QED
      BY <2>2, <2>4
  <1>4. CASE ChooseVariant
    BY <1>4, ChooseKeepsNext
  <1>5. CASE Tick \/ \E t \in Tasks : Preprocess(t)
    BY <1>2, <1>5 DEF Tick, Preprocess, Accept, PutFrame
  <1>6. CASE Scan \/ SelectNext \/ Drop \/ Finish
    BY <1>1, <1>6 DEF Scan, ScanTask, ScanAllEmpty, SelectNext, SelectNothing, SelectDrop,
                      SelectRun, Select, Drop, Finish, Step
  <1>7. CASE UNCHANGED vars
    BY <1>2, <1>7 DEF vars
  <1> QED
    BY <1>3, <1>4, <1>5, <1>6, <1>7 DEF Next, Schedule

\* What becomes of a frame is judged rightly.
LEMMA ResultStep ==
  /\ TypeOK /\ SelectKnows /\ RunKnows /\ DropsAreMisses /\ FullIsOnTime /\ [Next]_vars
  => DropsAreMisses' /\ FullIsOnTime'
  <1> SUFFICES ASSUME TypeOK, SelectKnows, RunKnows, DropsAreMisses, FullIsOnTime, [Next]_vars
               PROVE  DropsAreMisses' /\ FullIsOnTime'
    OBVIOUS
  <1>0. /\ clock \in Nat /\ recvTime \in Nat /\ selected \in Tasks /\ Due(selected) \in Nat
        /\ Overhead[selected] \in Nat /\ PostTime[selected] \in Nat
        /\ Profile[selected][0] \in Nat
        /\ Deadline[selected] \in Nat /\ startTime[selected] \in Nat
    BY StateFacts, TimeFacts DEF TypeOK
  <1>1. CASE UNCHANGED <<result, method>>
    BY <1>1 DEF DropsAreMisses, FullIsOnTime, PromptStart
  <1>2. CASE ScanTask
    BY <1>2 DEF ScanTask, NoResult, DropsAreMisses, FullIsOnTime
  <1>3. CASE Drop
    <2>1. /\ result'.kind = "dropped" /\ result'.missed = Late(selected)
          /\ method' = method /\ pc = "drop"
      BY <1>3 DEF Drop, Report, Step
    <2>2. method = 1 => Due(selected) < clock
      BY <2>1, SelectKnowsParts DEF DropIsLate
    <2>3. method = 1 => Late(selected)
      BY <1>0, <2>2 DEF Due, Late
    <2> QED
      BY <2>1, <2>3 DEF DropsAreMisses, FullIsOnTime
  <1>4. CASE Finish
    <2>1. /\ result'.kind = "run" /\ result'.missed = Late(selected)
          /\ result'.variant = variant /\ method' = method /\ pc = "finish"
      BY <1>4 DEF Finish, Report, Step
    <2>2. ASSUME PromptStart, variant = 0, method # 3 PROVE ~ Late(selected)
      <3>1. /\ clock <= recvTime + Profile[selected][0]
            /\ recvTime + Profile[selected][0] + PostTime[selected]
                 <= Due(selected) + Overhead[selected]
        BY <2>1, <2>2, RunKnowsParts
      <3>2. Overhead[selected] <= PostTime[selected]
        BY <1>0, <2>2 DEF PromptStart
      <3>3. clock <= Due(selected)
        BY <1>0, <3>1, <3>2
      <3> QED
        BY <1>0, <3>3 DEF Due, Late
    <2> QED
      BY <2>1, <2>2 DEF DropsAreMisses, FullIsOnTime, PromptStart
  <1> QED
    BY <1>1, <1>2, <1>3, <1>4
    DEF Next, Schedule, Scan, SelectNext, SelectNothing, SelectDrop, SelectRun, Select,
        Preprocess, Accept, PutFrame, Tick, ScanAllEmpty, ChooseVariant, Dispatch, vars

-----------------------------------------------------------------------------
(* The theorems.                                                           *)

Inv == TypeOK /\ EdfInv

LEMMA InitInv == Init => Inv
  <1> SUFFICES ASSUME Init PROVE Inv
    OBVIOUS
  <1>1. TypeOK
    <2>1. 0 \in Tasks /\ 0 \in Times /\ 1 \in Times \ {0}
      BY TaskNumAssumption, TimeFacts DEF Tasks, Times
    <2>2. <<>> \in Seq(Times \ {0}) /\ Len(<<>>) <= Capacity
      BY CapacityAssumption, EmptySeq
    <2>3. at \in 0..TaskNum
      BY TaskNumAssumption DEF Init
    <2> QED
      BY <2>1, <2>2, <2>3 DEF Init, TypeOK, NoResult, Variants
  <1>2. RateLimited
    BY DEF Init, RateLimited
  <1>3. ScanKnows
    BY DEF Init, ScanKnows, Waiting, Due
  <1>4. SelectKnows /\ RunKnows /\ BackoffKeepsNext
    BY DEF Init, SelectKnows, RunKnows, BackoffKeepsNext
  <1>5. DropsAreMisses /\ FullIsOnTime
    BY DEF Init, NoResult, DropsAreMisses, FullIsOnTime
  <1> QED
    BY <1>1, <1>2, <1>3, <1>4, <1>5 DEF Inv, EdfInv

LEMMA InvStep == Inv /\ [Next]_vars => Inv'
  <1> SUFFICES ASSUME TypeOK, EdfInv, [Next]_vars PROVE TypeOK' /\ EdfInv'
    BY DEF Inv
  <1>1. StampsPast
    BY ScanKnowsStamps DEF EdfInv
  <1>2. TypeOK'
    BY <1>1, TypeStep
  <1>3. RateLimited' /\ ScanKnows'
    BY RateLimitedStep, ScanKnowsStep DEF EdfInv
  <1>4. SelectKnows' /\ RunKnows'
    BY <1>1, SelectKnowsStep, RunKnowsStep DEF EdfInv
  <1>5. BackoffKeepsNext' /\ DropsAreMisses' /\ FullIsOnTime'
    BY KeepsNextStep, ResultStep DEF EdfInv
  <1> QED
    BY <1>2, <1>3, <1>4, <1>5 DEF EdfInv

\* The invariant holds throughout.
THEOREM EdfSafe == Spec => []Inv
  BY InitInv, InvStep, PTL DEF Spec

\* Type correctness.
THEOREM TypeCorrect == Spec => []TypeOK
  <1>1. Inv => TypeOK
    BY DEF Inv
  <1> QED
    BY <1>1, EdfSafe, PTL

\* Of the frames in a ring only the newest can still meet its deadline.
THEOREM RateLimitHolds == Spec => []OneLiveFrame
  <1>1. Inv => OneLiveFrame
    <2> SUFFICES ASSUME TypeOK, RateLimited, NEW t \in Tasks, NEW i \in 1..(Len(ring[t]) - 1)
                 PROVE  Expired(t, ring[t][i])
      BY DEF Inv, EdfInv, OneLiveFrame
    <2>1. i \in 1..Len(ring[t]) /\ i < Len(ring[t])
      BY RingFacts
    <2> QED
      BY <2>1, ApartFacts
  <1> QED
    BY <1>1, EdfSafe, PTL

\* A full model that starts promptly and keeps to its profile is on time.
THEOREM FullModelsAreOnTime == Spec => []FullIsOnTime
  <1>1. Inv => FullIsOnTime
    BY DEF Inv, EdfInv
  <1> QED
    BY <1>1, EdfSafe, PTL

\* Under method 1 a dropped frame always counts as missed.
THEOREM DropsCounted == Spec => []DropsAreMisses
  <1>1. Inv => DropsAreMisses
    BY DEF Inv, EdfInv
  <1> QED
    BY <1>1, EdfSafe, PTL

\* A full model leaves the next frame the time for its own.
THEOREM NextFrameKept == Spec => []BackoffKeepsNext
  <1>1. Inv => BackoffKeepsNext
    BY DEF Inv, EdfInv
  <1> QED
    BY <1>1, EdfSafe, PTL

\* The frame selected has the earliest deadline of all in the rings read.
THEOREM EarliestFirst == Spec => []EarliestDeadlineFirst
  <1>1. Inv => EarliestDeadlineFirst
    <2> SUFFICES ASSUME TypeOK, RateLimited, ScanKnows, SelectKnows,
                        pc \in {"drop", "choose", "dispatch"},
                        NEW t \in Waiting, NEW s \in Stamps(ring[t])
                 PROVE  Due(selected) <= s + Deadline[t]
      BY DEF Inv, EdfInv, EarliestDeadlineFirst
    <2>1. PICK i \in 1..Len(ring[t]) : s = ring[t][i]
      BY DEF Stamps
    <2>2. t \in Tasks /\ selected \in Tasks
      BY DEF Waiting, TypeOK
    <2>3. startTime[t] <= ring[t][1]
      BY <2>2, ScanKnowsParts DEF SeenTask
    <2>4. ring[t][1] <= s
      BY <2>1, <2>2, ApartFacts
    <2>5. Due(selected) <= Due(t)
      BY SelectKnowsParts DEF Chosen
    <2>6. 1 \in 1..Len(ring[t]) /\ \A j \in 1..Len(ring[t]) : ring[t][j] \in Nat
      BY <2>1, <2>2, RingFacts
    <2>7. /\ startTime[t] \in Nat /\ Deadline[t] \in Nat
          /\ Due(selected) \in Nat /\ ring[t][1] \in Nat /\ s \in Nat
      BY <2>1, <2>2, <2>6, StateFacts, TimeFacts
    <2>8. startTime[t] + Deadline[t] <= s + Deadline[t]
      BY <2>3, <2>4, <2>7
    <2> QED
      BY <2>5, <2>7, <2>8 DEF Due
  <1> QED
    BY <1>1, EdfSafe, PTL

\* A frame that stays at some place of the ring is not lost.
LEMMA LostFacts ==
  ASSUME TypeOK, RateLimited, NEW t \in Tasks,
         NEW s \in Stamps(ring[t]) \ Stamps(ring'[t]), [Next]_vars,
         ~ (pc = "dispatch" /\ pc' = "finish")
  PROVE  /\ s = ring[t][1] /\ Len(ring[t]) \in Nat /\ 1 \in 1..Len(ring[t])
         /\ Len(ring[t]) < 2 => Drop /\ selected = t
         /\ Drop => selected = t
  <1>0. PICK i \in 1..Len(ring[t]) : s = ring[t][i]
    BY DEF Stamps
  <1>1. /\ Len(ring[t]) \in Nat /\ 1 \in 1..Len(ring[t])
    BY <1>0, RingFacts
  <1>2. ring'[t] # ring[t]
    BY DEF Stamps
  <1>3. CASE PutFrame(t)
    <2>1. ring'[t] = Put(t, ring[t])
      BY <1>3 DEF PutFrame, TypeOK
    <2>2. ring[t] \in Seq(Times \ {0}) /\ inHand[t] \in Times \ {0} /\ Len(ring[t]) <= Capacity
      BY <1>3 DEF PutFrame, TypeOK
    <2>3. /\ Len(ring[t]) = Capacity =>
               /\ Len(ring'[t]) = Capacity
               /\ \A j \in 1..(Capacity - 1) : ring'[t][j] = ring[t][j + 1]
          /\ Len(ring[t]) # Capacity =>
               /\ Len(ring'[t]) = Len(ring[t]) + 1
               /\ \A j \in 1..Len(ring[t]) : ring'[t][j] = ring[t][j]
      BY <2>1, <2>2, PutFacts
    <2>4. Len(ring[t]) = Capacity
      <3> SUFFICES ASSUME Len(ring[t]) # Capacity PROVE FALSE
        OBVIOUS
      <3>1. i \in 1..Len(ring'[t]) /\ ring'[t][i] = s
        BY <1>0, <1>1, <2>3
      <3> QED
        BY <3>1 DEF Stamps
    <2>5. i = 1
      <3> SUFFICES ASSUME i # 1 PROVE FALSE
        OBVIOUS
      <3>1. i - 1 \in 1..(Capacity - 1) /\ i - 1 \in 1..Len(ring'[t])
        BY <1>0, <1>1, <2>3, <2>4, CapacityAssumption
      <3>2. ring'[t][i - 1] = s
        BY <1>0, <2>3, <2>4, <3>1
      <3> QED
        BY <3>1, <3>2 DEF Stamps
    <2>6. ~ Drop
      BY <1>2, <1>3 DEF Drop, PutFrame, Step
    <2> QED
      BY <1>0, <1>1, <2>4, <2>5, <2>6, CapacityAssumption
  <1>4. CASE Drop
    <2>1. selected = t /\ ring'[t] = Tail(ring[t]) /\ ring[t] # <<>>
      BY <1>2, <1>4 DEF Drop, TypeOK
    <2>2. /\ Len(Tail(ring[t])) = Len(ring[t]) - 1
          /\ \A j \in 1..Len(Tail(ring[t])) : Tail(ring[t])[j] = ring[t][j + 1]
      BY <2>1, RingFacts, TailFacts
    <2>3. i = 1
      <3> SUFFICES ASSUME i # 1 PROVE FALSE
        OBVIOUS
      <3>1. i - 1 \in 1..Len(ring'[t])
        BY <1>0, <1>1, <2>1, <2>2
      <3>2. ring'[t][i - 1] = s
        BY <1>0, <2>1, <2>2, <3>1
      <3> QED
        BY <3>1, <3>2 DEF Stamps
    <2> QED
      BY <1>0, <1>1, <1>4, <2>1, <2>3
  <1>5. ~ Dispatch
    BY DEF Dispatch, Step
  <1>6. \A u \in Tasks : u # t => ~ PutFrame(u)
    BY <1>2 DEF PutFrame, TypeOK
  <1> QED
    BY <1>2, <1>3, <1>4, <1>5, <1>6
    DEF Next, Schedule, Scan, SelectNext, SelectNothing, SelectDrop, SelectRun, Select,
        Preprocess, Accept, Tick, ScanTask, ScanAllEmpty, ChooseVariant, Finish, vars

\* Under method 1, frames lost to a drop or to an overrun have expired.
THEOREM OnlyExpiredLost == Spec => NoLiveFrameLost
  <1>1. Inv /\ [Next]_vars =>
          (method = 1 => \A t \in Tasks : \A s \in Stamps(ring[t]) \ Stamps(ring'[t]) :
             (pc = "dispatch" /\ pc' = "finish") \/ Expired(t, s))
    <2> SUFFICES ASSUME TypeOK, RateLimited, ScanKnows, SelectKnows, [Next]_vars, method = 1,
                        NEW t \in Tasks, NEW s \in Stamps(ring[t]) \ Stamps(ring'[t]),
                        ~ (pc = "dispatch" /\ pc' = "finish")
                 PROVE  Expired(t, s)
      BY DEF Inv, EdfInv
    <2>1. /\ s = ring[t][1] /\ Len(ring[t]) \in Nat /\ 1 \in 1..Len(ring[t])
          /\ Len(ring[t]) < 2 => Drop /\ selected = t
          /\ Drop => selected = t
      BY LostFacts
    <2>2. CASE Len(ring[t]) >= 2
      <3>1. 1 < Len(ring[t])
        BY <2>1, <2>2
      <3> QED
        BY <2>1, <3>1, ApartFacts
    <2>3. CASE ~ (Len(ring[t]) >= 2)
      <3>1. Drop /\ selected = t /\ pc = "drop"
        BY <2>1, <2>3 DEF Drop, Step
      <3>2. t \in Waiting /\ Due(t) < clock
        BY <3>1, SelectKnowsParts DEF Chosen, DropIsLate
      <3>3. startTime[t] = ring[t][1]
        BY <2>1, <2>3, <3>1, <3>2, ScanKnowsParts, CapacityAssumption DEF SeenTask
      <3>4. Due(t) \in Nat /\ clock \in Nat
        BY StateFacts
      <3> QED
        BY <2>1, <3>2, <3>3, <3>4 DEF Due, Expired
    <2> QED
      BY <2>2, <2>3
  <1> QED
    BY <1>1, EdfSafe, PTL DEF Spec, NoLiveFrameLost

=============================================================================
