-------------------------- MODULE AllocationProofs --------------------------
(* Theorems about Allocation, for any nodes, links and configuration.  For  *)
(* most it does not matter what Work sums up: what a test has found true of *)
(* a set of tasks stays true of that set.  That the allocation is maximal   *)
(* needs that work grows with the set.                                      *)
EXTENDS Allocation, FiniteSetTheorems, TLAPS

\* The tasks already looked at are the more urgent ones.
InOrder == \A t \in Task \ queue, u \in queue : t < u

\* A task is in the list of the node that alloc_result names, and in no other;
\* the rest are candidates.
OnePlace ==
  /\ \A t \in Task, n \in Node : t \in tasklist[n] <=> alloc_result[t] = n
  /\ \A t \in queue : alloc_result[t] = Nowhere
  /\ candidates = {t \in Task : alloc_result[t] = Nowhere}

AllocInv == TypeOK /\ InOrder /\ OnePlace /\ LateByLinkOnly /\ LeftOutByMoreUrgent

-----------------------------------------------------------------------------

\* The invariant holds at the start, when no task has been looked at.
LEMMA AllocInit == Init => AllocInv
  <1> SUFFICES ASSUME Init PROVE AllocInv
    OBVIOUS
  <1> USE DEF Init
  <1>1. TypeOK
    BY DEF TypeOK
  <1>2. InOrder
    BY DEF InOrder
  <1>3. OnePlace
    BY NodeAssumption DEF OnePlace
  <1>4. LateByLinkOnly
    BY DEF LateByLinkOnly
  <1>5. LeftOutByMoreUrgent
    BY DEF LeftOutByMoreUrgent, LeftOut
  <1> QED
    BY <1>1, <1>2, <1>3, <1>4, <1>5 DEF AllocInv

\* Before a task is looked at it is nowhere, and every placed task precedes it.
LEMMA HeadIsLast ==
  ASSUME AllocInv, NEW t \in Task, Head(t)
  PROVE  /\ \A n \in Node : t \notin tasklist[n]
         /\ \A n \in Node : \A u \in tasklist[n] : u \in Task \ queue /\ u < t
         /\ \A u \in queue \ {t} : t < u
  <1> USE DEF AllocInv, TypeOK, Head
  <1>1. \A n \in Node : t \notin tasklist[n]
    BY NodeAssumption DEF OnePlace
  <1>2. ASSUME NEW n \in Node, NEW u \in tasklist[n] PROVE u \in Task \ queue /\ u < t
    <2>1. u \in Task /\ alloc_result[u] = n
      BY DEF OnePlace
    <2>2. u \notin queue
      BY <2>1, NodeAssumption DEF OnePlace
    <2> QED
      BY <2>1, <2>2 DEF InOrder
  <1>3. \A u \in queue \ {t} : t < u
    BY TaskNumAssumption DEF Task
  <1> QED
    BY <1>1, <1>2, <1>3

\* To look at a task keeps the order and leaves it in one place.
LEMMA BookKept ==
  ASSUME AllocInv, NEW t \in Task, Allocate(t)
  PROVE  TypeOK' /\ InOrder' /\ OnePlace'
  <1> USE DEF AllocInv, Allocate
  <1>1. TypeOK'
    BY DEF TypeOK, LeaveOut, Place, Selectable, Near
  <1>2. InOrder'
    BY HeadIsLast DEF InOrder, Head, TypeOK
  <1>3. CASE LeaveOut(t)
    <2>1. OnePlace'
      BY <1>3 DEF OnePlace, LeaveOut
    <2> QED
      BY <1>1, <1>2, <2>1
  <1>4. ASSUME NEW n \in Node, Place(t, n) PROVE OnePlace'
    <2>1. /\ tasklist' = [tasklist EXCEPT ![n] = @ \cup {t}]
          /\ alloc_result' = [alloc_result EXCEPT ![t] = n]
          /\ candidates' = candidates \ {t}
          /\ queue' = queue \ {t}
      BY <1>4 DEF Place
    <2>2. alloc_result[t] = Nowhere /\ n # Nowhere
      BY NodeAssumption DEF OnePlace, Head
    <2>3. ASSUME NEW u \in Task, NEW m \in Node
          PROVE  u \in tasklist'[m] <=> alloc_result'[u] = m
      BY <2>1, <2>2, <2>3, NodeAssumption DEF OnePlace, TypeOK
    <2>4. \A u \in queue' : alloc_result'[u] = Nowhere
      BY <2>1 DEF OnePlace, TypeOK
    <2>5. candidates' = {u \in Task : alloc_result'[u] = Nowhere}
      BY <2>1, <2>2 DEF OnePlace, TypeOK
    <2> QED
      BY <2>3, <2>4, <2>5 DEF OnePlace
  <1> QED
    BY <1>1, <1>2, <1>3, <1>4

\* A task that comes to a node becomes its newest; all of the node's tasks were
\* tested with its delay.
LEMMA LateByLinkKept ==
  ASSUME AllocInv, NEW t \in Task, Allocate(t)
  PROVE  LateByLinkOnly'
  <1>0. task_list' = task_list /\ Head(t)
    BY DEF Allocate
  <1>1. CASE LeaveOut(t)
    BY <1>0, <1>1 DEF AllocInv, LateByLinkOnly, Newest, Delay, LeaveOut
  <1>2. ASSUME NEW n \in Node, Place(t, n) PROVE LateByLinkOnly'
    <2>1. tasklist' = [tasklist EXCEPT ![n] = tasklist[n] \cup {t}]
      BY <1>2 DEF Place
    <2>2. SUFFICES ASSUME NEW m \in Node, NEW a \in tasklist'[m], NEW u \in tasklist'[m],
                          \A v \in tasklist'[m] : v <= u
                   PROVE  InTime(task_list, tasklist'[m], a, Delay(u, m))
      BY <1>0 DEF LateByLinkOnly, Newest, Delay
    <2>3. CASE m = n
      <3>1. tasklist'[m] = tasklist[n] \cup {t}
        BY <2>1, <2>3 DEF AllocInv, TypeOK
      <3>2. u = t
        <4>1. t <= u /\ t \in Nat /\ u \in Nat
          BY <2>2, <3>1, TaskNumAssumption DEF AllocInv, TypeOK, Task
        <4>2. u \in tasklist[n] => u < t
          BY <1>0, HeadIsLast
        <4> QED
          BY <3>1, <4>1, <4>2
      <3>3. Fits(t, n)
        BY <1>2 DEF Place, Selectable
      <3> QED
        BY <2>3, <3>1, <3>2, <3>3 DEF Fits
    <2>4. CASE m # n
      <3>1. tasklist'[m] = tasklist[m]
        BY <2>1, <2>4 DEF AllocInv, TypeOK
      <3> QED
        BY <3>1, <2>2 DEF AllocInv, LateByLinkOnly, Newest
    <2> QED
      BY <2>3, <2>4
  <1> QED
    BY <1>1, <1>2 DEF Allocate

\* A node that could not be selected is out of reach, or tests too much.
LEMMA NotSelectable ==
  ASSUME NEW t \in Task, NEW n \in Node, Selectable(t) = {}, InReach(t, n)
  PROVE  TooMuch(tasklist[n], t, n)
  <1>1. n \in Near(t)
    BY DEF InReach, Near
  <1>2. ~ Fits(t, n)
    BY <1>1 DEF Selectable
  <1> QED
    BY <1>2 DEF Fits, TooMuch

\* What refused a task were the lists of that moment, all of more urgent tasks;
\* less urgent ones come later.
LEMMA LeftOutKept ==
  ASSUME AllocInv, NEW t \in Task, Allocate(t)
  PROVE  LeftOutByMoreUrgent'
  <1>0. task_list' = task_list /\ Head(t) /\ queue' = queue \ {t}
    BY DEF Allocate
  <1> DEFINE Above(v, n) == {u \in tasklist[n] : u < v}
  <1>1. SUFFICES ASSUME NEW v \in Task, v \notin queue', alloc_result'[v] = Nowhere,
                        NEW n \in Node, InReach(v, n)
                 PROVE  TooMuch({u \in tasklist'[n] : u < v}, v, n)
    BY <1>0 DEF LeftOutByMoreUrgent, LeftOut, InReach, TooMuch, Delay
  <1>2. CASE v # t
    <2>1. v \notin queue /\ v < t
      BY <1>0, <1>1, <1>2 DEF AllocInv, InOrder, Head
    <2>2. alloc_result[v] = Nowhere
      BY <1>1, <1>2 DEF AllocInv, TypeOK, Allocate, LeaveOut, Place
    <2>3. {u \in tasklist'[n] : u < v} = Above(v, n)
      <3>1. \A u \in tasklist'[n] : u \in tasklist[n] \/ u = t
        BY DEF AllocInv, TypeOK, Allocate, LeaveOut, Place
      <3>2. tasklist[n] \subseteq tasklist'[n]
        BY DEF AllocInv, TypeOK, Allocate, LeaveOut, Place
      <3>3. ~ (t < v)
        BY <2>1, TaskNumAssumption DEF Task
      <3> QED
        BY <3>1, <3>2, <3>3
    <2> QED
      BY <1>1, <2>1, <2>2, <2>3 DEF AllocInv, LeftOutByMoreUrgent, LeftOut
  <1>3. CASE v = t
    <2>1. LeaveOut(t)
      <3>1. ASSUME NEW m \in Node, Place(t, m) PROVE FALSE
        <4>1. alloc_result'[t] = m
          BY <3>1 DEF Place, AllocInv, TypeOK
        <4> QED
          BY <1>1, <1>3, <4>1, NodeAssumption
      <3> QED
        BY <3>1 DEF Allocate
    <2>2. {u \in tasklist'[n] : u < v} = tasklist[n]
      BY <1>0, <1>3, <2>1, HeadIsLast DEF LeaveOut
    <2>3. TooMuch(tasklist[n], t, n)
      BY <1>1, <1>3, <2>1, NotSelectable DEF LeaveOut
    <2> QED
      BY <1>3, <2>2, <2>3
  <1> QED
    BY <1>2, <1>3

\* What is said of the allocation holds as long as nothing changes.
LEMMA AllocStutter == AllocInv /\ UNCHANGED vars => AllocInv'
  <1> SUFFICES ASSUME AllocInv, UNCHANGED vars PROVE AllocInv'
    OBVIOUS
  <1> QED
    BY DEF AllocInv, vars, TypeOK, InOrder, OnePlace, LateByLinkOnly, Newest, Delay,
           LeftOutByMoreUrgent, LeftOut, InReach, TooMuch

\* The invariant of the allocation (demo.py:61-122).
THEOREM AllocSafe == Spec => []AllocInv
  <1>1. AllocInv /\ [Next]_vars => AllocInv'
    <2> SUFFICES ASSUME AllocInv, [Next]_vars PROVE AllocInv'
      OBVIOUS
    <2>1. CASE UNCHANGED vars
      BY <2>1, AllocStutter
    <2>2. ASSUME NEW t \in Task, Allocate(t) PROVE AllocInv'
      BY <2>2, BookKept, LateByLinkKept, LeftOutKept DEF AllocInv
    <2> QED
      BY <2>1, <2>2 DEF Next
  <1> QED
    BY AllocInit, <1>1, PTL DEF Spec

\* The variables of the allocation keep their types.
THEOREM TypeCorrect == Spec => []TypeOK
  <1>1. AllocInv => TypeOK
    BY DEF AllocInv
  <1> QED
    BY <1>1, AllocSafe, PTL

\* Whatever the tasks, links and nodes: a task on a node can be late only by its
\* own link (demo.py:101-109).
THEOREM LatenessBounded == Spec => []LateByLinkOnly
  <1>1. AllocInv => LateByLinkOnly
    BY DEF AllocInv
  <1> QED
    BY <1>1, AllocSafe, PTL

\* No task is left out for the sake of a less urgent one (demo.py:55-63).
THEOREM UrgentFirst == Spec => []LeftOutByMoreUrgent
  <1>1. AllocInv => LeftOutByMoreUrgent
    BY DEF AllocInv
  <1> QED
    BY <1>1, AllocSafe, PTL

-----------------------------------------------------------------------------
(* Work is a fold.  The number of units of weight of a set satisfies the      *)
(* recursion of the fold, whose solution is unique; so work is that number,   *)
(* and grows with the set.                                                    *)

\* Each member of s with weight w has so many units.
Units(w, s) == UNION {{t} \X (1..w[t]) : t \in s}

\* Finitely many members have finitely many units.
LEMMA UnitsFinite ==
  ASSUME NEW s, IsFiniteSet(s), NEW w, \A t \in s : w[t] \in Nat
  PROVE  IsFiniteSet(Units(w, s))
  <1> DEFINE Of(t) == {t} \X (1..w[t])
  <1>1. ASSUME NEW t \in s PROVE IsFiniteSet(Of(t))
    <2>1. IsFiniteSet({t})
      BY FS_Singleton
    <2>2. IsFiniteSet(1..w[t])
      BY FS_Interval
    <2> QED
      BY <2>1, <2>2, FS_Product
  <1>2. IsFiniteSet({Of(t) : t \in s})
    <2> DEFINE f == [t \in s |-> Of(t)]
    <2>2. f \in Surjection(s, {Of(t) : t \in s})
      BY DEF Surjection
    <2> QED
      BY <2>2, FS_Surjection
  <1> QED
    BY <1>1, <1>2, FS_UNION DEF Units

\* The units of a set are those of one member and those of the rest.
LEMMA UnitsSplit ==
  ASSUME NEW s, IsFiniteSet(s), NEW w, \A t \in s : w[t] \in Nat, NEW x \in s
  PROVE  Cardinality(Units(w, s)) = w[x] + Cardinality(Units(w, s \ {x}))
  <1> DEFINE Here == {x} \X (1..w[x])
             Rest == Units(w, s \ {x})
  <1>1. IsFiniteSet(Here) /\ Cardinality(Here) = w[x]
    <2>1. IsFiniteSet({x}) /\ Cardinality({x}) = 1
      BY FS_Singleton
    <2>2. IsFiniteSet(1..w[x]) /\ Cardinality(1..w[x]) = w[x]
      BY FS_Interval
    <2> QED
      BY <2>1, <2>2, FS_Product
  <1>2. IsFiniteSet(Rest)
    BY FS_RemoveElement, UnitsFinite
  <1>3. Units(w, s) = Here \cup Rest
    BY DEF Units
  <1>4. Here \cap Rest = {}
    BY DEF Units
  <1>5. Cardinality(Here \cap Rest) = 0 /\ Cardinality(Rest) \in Nat
    BY <1>2, <1>4, FS_EmptySet, FS_CardinalityType
  <1> HIDE DEF Here, Rest
  <1>6. Cardinality(Here \cup Rest)
          = Cardinality(Here) + Cardinality(Rest) - Cardinality(Here \cap Rest)
    BY <1>1, <1>2, FS_Union
  <1>7. Cardinality(Here \cup Rest) = w[x] + Cardinality(Rest)
    BY <1>1, <1>5, <1>6
  <1> QED
    BY <1>3, <1>7 DEF Rest

\* The recursion of the fold.
Recurs(w, S, g) ==
  g = [s \in SUBSET S |->
         IF s = {} THEN 0 ELSE LET x == CHOOSE x \in s : TRUE IN w[x] + g[s \ {x}]]

\* The number of units is a solution.
LEMMA RecursionSolved ==
  ASSUME NEW S, IsFiniteSet(S), NEW w, \A t \in S : w[t] \in Nat
  PROVE  Recurs(w, S, [s \in SUBSET S |-> Cardinality(Units(w, s))])
  <1> DEFINE g == [s \in SUBSET S |-> Cardinality(Units(w, s))]
  <1>1. ASSUME NEW s \in SUBSET S
        PROVE  g[s] = IF s = {} THEN 0
                      ELSE LET x == CHOOSE x \in s : TRUE IN w[x] + g[s \ {x}]
    <2>1. CASE s = {}
      <3>1. Units(w, s) = {}
        BY <2>1 DEF Units
      <3> QED
        BY <2>1, <3>1, FS_EmptySet
    <2>2. CASE s # {}
      <3> DEFINE x == CHOOSE x \in s : TRUE
      <3>1. x \in s
        BY <2>2
      <3>2. IsFiniteSet(s)
        BY FS_Subset
      <3> HIDE DEF x
      <3>3. g[s] = w[x] + g[s \ {x}]
        BY <3>1, <3>2, UnitsSplit
      <3> QED
        BY <2>2, <3>3 DEF x
    <2> QED
      BY <2>1, <2>2
  <1> QED
    BY <1>1 DEF Recurs

\* There is no other: of the subsets on which two solutions differ, a smallest
\* one would lose a member and still differ.
LEMMA RecursionUnique ==
  ASSUME NEW S, IsFiniteSet(S), NEW w, NEW g, NEW h, Recurs(w, S, g), Recurs(w, S, h)
  PROVE  g = h
  <1> DEFINE Differ == {s \in SUBSET S : g[s] # h[s]}
             Smaller == StrictSubsetOrdering(S)
  <1>1. IsWellFoundedOn(Smaller, SUBSET S)
    BY FS_FiniteSubsetsOfFinite, FS_StrictSubsetOrderingWellFounded
  <1>2. ASSUME Differ # {} PROVE FALSE
    <2>1. PICK s \in Differ : \A r \in Differ : <<r, s>> \notin Smaller
      <3> HIDE DEF Smaller
      <3> QED
        BY <1>1, <1>2, WFMin
    <2>2. s # {}
      BY DEF Recurs
    <2> DEFINE x == CHOOSE x \in s : TRUE
    <2>3. x \in s /\ s \ {x} \in SUBSET S
      BY <2>2
    <2>4. <<s \ {x}, s>> \in Smaller
      BY <2>3 DEF StrictSubsetOrdering
    <2>5. g[s \ {x}] = h[s \ {x}]
      BY <2>1, <2>3, <2>4
    <2>6. g[s] = w[x] + g[s \ {x}] /\ h[s] = w[x] + h[s \ {x}]
      BY <2>2 DEF Recurs
    <2> QED
      BY <2>5, <2>6
  <1>3. \A s \in SUBSET S : g[s] = h[s]
    BY <1>2
  <1> QED
    BY <1>3 DEF Recurs

\* fps * opt_time
Weights(profiles) == [t \in Task |-> profiles[t].fps * profiles[t].time]

\* The weights of finitely many tasks are natural numbers.
LEMMA WeightsAreNat ==
  ASSUME TypeOK, NEW ts \in SUBSET Task
  PROVE  IsFiniteSet(ts) /\ \A t \in ts : Weights(task_list)[t] \in Nat
  <1>1. IsFiniteSet(Task)
    BY TaskNumAssumption, FS_Interval DEF Task
  <1>2. IsFiniteSet(ts)
    BY <1>1, FS_Subset
  <1>3. ASSUME NEW t \in ts PROVE Weights(task_list)[t] \in Nat
    <2>1. task_list[t].fps \in Nat /\ task_list[t].time \in Nat
      BY ProfileAssumption DEF TypeOK
    <2> QED
      BY <2>1 DEF Weights
  <1> QED
    BY <1>2, <1>3

\* The work of a set of tasks is its number of units.
LEMMA WorkCounts ==
  ASSUME TypeOK, NEW ts \in SUBSET Task
  PROVE  Work(task_list, ts) = Cardinality(Units(Weights(task_list), ts))
  <1> DEFINE w == Weights(task_list)
             g == [s \in SUBSET ts |-> Cardinality(Units(w, s))]
  <1>1. IsFiniteSet(ts) /\ \A t \in ts : w[t] \in Nat
    BY WeightsAreNat
  <1>3. Recurs(w, ts, g)
    BY <1>1, RecursionSolved
  <1>4. \A h : Recurs(w, ts, h) => h = g
    BY <1>1, <1>3, RecursionUnique
  <1>5. Work(task_list, ts) = (CHOOSE h : Recurs(w, ts, h))[ts]
    <2>1. ASSUME NEW s \in SUBSET ts, s # {}, NEW v
          PROVE  LET x == CHOOSE x \in s : TRUE
                 IN  task_list[x].fps * task_list[x].time + v = w[x] + v
      BY <2>1 DEF Weights
    <2>2. ASSUME NEW h
          PROVE  h = [s \in SUBSET ts |->
                        IF s = {} THEN 0
                        ELSE LET x == CHOOSE x \in s : TRUE
                             IN  task_list[x].fps * task_list[x].time + h[s \ {x}]]
                 <=> Recurs(w, ts, h)
      <3> DEFINE a(s) == IF s = {} THEN 0
                         ELSE LET x == CHOOSE x \in s : TRUE
                              IN  task_list[x].fps * task_list[x].time + h[s \ {x}]
                 b(s) == IF s = {} THEN 0
                         ELSE LET x == CHOOSE x \in s : TRUE
                              IN  w[x] + h[s \ {x}]
      <3>1. \A s \in SUBSET ts : a(s) = b(s)
        BY <2>1
      <3>2. Recurs(w, ts, h) <=> h = [s \in SUBSET ts |-> b(s)]
        BY DEF Recurs
      <3> HIDE DEF a, b
      <3>3. [s \in SUBSET ts |-> a(s)] = [s \in SUBSET ts |-> b(s)]
        BY <3>1
      <3>4. h = [s \in SUBSET ts |-> a(s)] <=> Recurs(w, ts, h)
        BY <3>2, <3>3
      <3> QED
        BY <3>4 DEF a
    <2> QED
      BY <2>2 DEF Work, MapThenSumSet, MapThenFoldSet
  <1>6. (CHOOSE h : Recurs(w, ts, h)) = g
    BY <1>3, <1>4
  <1> QED
    BY <1>5, <1>6

\* More tasks are more work.
LEMMA WorkMonotone ==
  ASSUME TypeOK, NEW ts \in SUBSET Task, NEW rs \in SUBSET ts
  PROVE  /\ Work(task_list, rs) \in Nat /\ Work(task_list, ts) \in Nat
         /\ Work(task_list, rs) <= Work(task_list, ts)
  <1> DEFINE w == Weights(task_list)
  <1>1. IsFiniteSet(ts) /\ \A t \in ts : w[t] \in Nat
    BY WeightsAreNat
  <1>2. IsFiniteSet(Units(w, ts)) /\ Units(w, rs) \in SUBSET Units(w, ts)
    BY <1>1, UnitsFinite DEF Units
  <1>3. /\ Cardinality(Units(w, rs)) \in Nat /\ Cardinality(Units(w, ts)) \in Nat
        /\ Cardinality(Units(w, rs)) <= Cardinality(Units(w, ts))
    BY <1>2, FS_Subset, FS_CardinalityType
  <1> QED
    BY <1>3, WorkCounts

\* What is too much beside some tasks is too much beside more of them.
LEMMA TooMuchGrows ==
  ASSUME TypeOK, NEW ts \in SUBSET Task, NEW rs \in SUBSET ts,
         NEW t \in Task, NEW n \in Node, TooMuch(rs, t, n)
  PROVE  TooMuch(ts, t, n)
  <1>1. PICK u \in rs \cup {t} : ~ InTime(task_list, rs \cup {t}, u, Delay(t, n))
    BY DEF TooMuch
  <1>2. /\ Work(task_list, rs \cup {t}) \in Nat /\ Work(task_list, ts \cup {t}) \in Nat
        /\ Work(task_list, rs \cup {t}) <= Work(task_list, ts \cup {t})
    BY WorkMonotone
  <1>3. /\ task_list[u].fps * Delay(t, n) \in Nat
        /\ task_list[u].fps * task_list[u].deadline \in Nat
    <2>1. task_list[u] \in Profile /\ task_list[t] \in Profile
      BY DEF TypeOK
    <2>2. /\ task_list[u].fps \in Nat /\ task_list[u].deadline \in Nat /\ Delay(t, n) \in Nat
      BY <2>1, ProfileAssumption DEF Delay
    <2> QED
      BY <2>2
  <1>4. ~ InTime(task_list, ts \cup {t}, u, Delay(t, n))
    BY <1>1, <1>2, <1>3 DEF InTime
  <1> QED
    BY <1>4 DEF TooMuch

\* The allocation is maximal: a task that was left out fits nowhere at the end
\* either, since the node's later tasks only added work (demo.py:118).
THEOREM NothingLeftFits == Spec => []LeftOutFitsNowhere
  <1>1. AllocInv => LeftOutFitsNowhere
    <2> SUFFICES ASSUME AllocInv, NEW t \in LeftOut, NEW n \in Node, InReach(t, n)
                 PROVE  TooMuch(tasklist[n], t, n)
      BY DEF LeftOutFitsNowhere
    <2>1. TooMuch({u \in tasklist[n] : u < t}, t, n)
      BY DEF AllocInv, LeftOutByMoreUrgent
    <2>2. tasklist[n] \in SUBSET Task /\ t \in Task
      BY DEF AllocInv, TypeOK, LeftOut
    <2>3. {u \in tasklist[n] : u < t} \in SUBSET tasklist[n]
      OBVIOUS
    <2> QED
      BY <2>1, <2>2, <2>3, TooMuchGrows DEF AllocInv
  <1> QED
    BY <1>1, AllocSafe, PTL
=============================================================================
