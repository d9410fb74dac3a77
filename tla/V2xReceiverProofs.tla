------------------------- MODULE V2xReceiverProofs -------------------------
(***************************************************************************)
(* Theorems about V2xReceiver: packets of one node and one batch id go to  *)
(* the decoder, what it delivers is what was sent, and it fails only on    *)
(* packets that do not determine the sources; over any field of            *)
(* characteristic 2 and for any code.  A process that writes past the rows *)
(* of inputPkts is not followed further; RowsEnough says what it takes.    *)
(***************************************************************************)
EXTENDS V2xReceiver, FiniteSetTheorems, WellFoundedInduction, TLAPS

----------------------------------------------------------------------------
(* Vectors and matrices.                                                    *)

\* Sums and multiples of vectors are vectors, and rows of the unit matrix too.
LEMMA VectorClosed ==
  ASSUME NEW n \in Nat
  PROVE  /\ \A u, v \in Vector(n) : VecSum(u, v) \in Vector(n)
         /\ \A c \in Symbol, u \in Vector(n) : Scaled(c, u) \in Vector(n)
         /\ \A k \in 1..n : Unit(n, k) \in Vector(n)
BY FieldAssumption DEF VecSum, Scaled, Unit, Vector

\* Every packet stands for a row of Nin coefficients.
LEMMA RowOfPacket ==
  ASSUME NEW b \in Batch, NEW c \in 1..(Nin + Nout)
  PROVE  G(b, c) \in Vector(Nin)
<1>1. CASE c <= Nin
  BY <1>1, VectorClosed, SizeAssumption DEF G
<1>2. CASE c > Nin
  <2>1. c - Nin \in 1..Nout
    BY <1>2, SizeAssumption
  <2> QED
    BY <1>2, <2>1, CodeAssumption, SizeAssumption DEF G
<1> QED
  BY <1>1, <1>2, SizeAssumption

\* The low bits of a batch are an id.
LEMMA IdInRange ==
  ASSUME NEW p \in Packet
  PROVE  IdOf(p) \in 0..(IdRange - 1)
BY SizeAssumption DEF IdOf, Packet, Batch

LEMMA OrderInNat ==
  ASSUME NEW p \in Packet
  PROVE  Order(p) \in Nat
<1>1. p.batch \in Nat /\ p.coef \in Nat /\ Nin + Nout \in Nat
  BY SizeAssumption DEF Packet, Batch
<1>2. \A a, b, c \in Nat : a * b + c \in Nat
  OBVIOUS
<1> QED
  BY <1>1, <1>2 DEF Order

\* A set of row numbers has a least element.
LEMMA FirstRow ==
  ASSUME NEW n \in Nat, NEW S \in SUBSET (1..n), S # {}
  PROVE  \E j \in S : \A k \in S : j <= k
<1> DEFINE upTo(j) == {k \in S : k <= j}
           T == {upTo(j) : j \in S}
<1>1. IsWellFoundedOn(StrictSubsetOrdering(S), FiniteSubsetsOf(S))
  BY FS_StrictSubsetOrderingWellFounded
<1>2. IsFiniteSet(S)
  <2>1. IsFiniteSet(1..n)
    BY FS_Interval
  <2> QED
    BY <2>1, FS_Subset
<1>3. T \subseteq FiniteSubsetsOf(S) /\ T # {}
  <2>1. FiniteSubsetsOf(S) = SUBSET S
    BY <1>2, FS_FiniteSubsetsOfFinite
  <2>2. \A j \in S : upTo(j) \in SUBSET S
    OBVIOUS
  <2>3. T # {}
    <3> HIDE DEF upTo
    <3> QED
      OBVIOUS
  <2> QED
    BY <2>1, <2>2, <2>3
<1>4. PICK D \in T : \A E \in T : <<E, D>> \notin StrictSubsetOrdering(S)
  <2> HIDE DEF T
  <2> QED
    BY <1>1, <1>3, WFMin
<1>5. PICK j \in S : D = upTo(j)
  OBVIOUS
<1>6. ASSUME NEW k \in S, k < j PROVE FALSE
  <2>1. upTo(k) \in T /\ upTo(k) \subseteq upTo(j) /\ upTo(k) # upTo(j)
    <3>1. k \in Nat /\ j \in Nat
      OBVIOUS
    <3>2. j \in upTo(j) /\ j \notin upTo(k) /\ upTo(k) \subseteq upTo(j)
      <4>1. j <= j /\ ~(j <= k) /\ \A l \in S : l <= k => l <= j
        BY <1>6, <3>1
      <4> QED
        BY <4>1
    <3>3. upTo(k) \in T
      OBVIOUS
    <3> QED
      BY <3>2, <3>3
  <2>2. upTo(k) \in SUBSET S /\ upTo(j) \in SUBSET S
    OBVIOUS
  <2>3. <<upTo(k), upTo(j)>> \in StrictSubsetOrdering(S)
    <3> HIDE DEF upTo
    <3> QED
      BY <2>1, <2>2 DEF StrictSubsetOrdering
  <2> QED
    BY <1>4, <1>5, <2>1, <2>3
<1> QED
  BY <1>6

----------------------------------------------------------------------------
(* Types.                                                                   *)

\* While decoding there are enough packets, and they are not yet decoded.
Decoding == pc = "decode" => Len(inputs) >= Nin /\ ~decoded

Typed == TypeOK /\ Decoding

LEMMA TypedInit == Init => Typed
<1> SUFFICES ASSUME Init PROVE Typed
  OBVIOUS
<1>1. curBatchId \in 0..(IdRange - 1)
  BY SizeAssumption DEF Init, Unset
<1>2. inputs \in Seq(Packet) /\ Len(inputs) <= MaxRows
  BY SizeAssumption DEF Init
<1>3. heard \in [Node -> Nat] /\ late \in 0..MaxLate
  BY SizeAssumption DEF Init
<1>4. /\ curNodeId \in Node \cup {NoNode} /\ decoded \in BOOLEAN
      /\ pc = "recv"
  BY DEF Init
<1> QED
  BY <1>1, <1>2, <1>3, <1>4 DEF Typed, TypeOK, Decoding

\* The matrices that a decode starts with.
LEMMA MatricesStart ==
  ASSUME NEW pkts \in Seq(Packet), Len(pkts) >= 1
  PROVE  /\ Equations(pkts) \in [1..Len(pkts) -> Vector(Nin)]
         /\ [k \in 1..Len(pkts) |-> Unit(Len(pkts), k)] \in [1..Len(pkts) -> Vector(Len(pkts))]
<1>0. 1 \in 1..Len(pkts) /\ \A k \in 1..Len(pkts) : pkts[k] \in Packet
  OBVIOUS
<1>1. pkts[1].batch \in Batch /\ \A k \in 1..Len(pkts) : pkts[k].coef \in 1..(Nin + Nout)
  BY <1>0 DEF Packet
<1>2. \A k \in 1..Len(pkts) : G(pkts[1].batch, pkts[k].coef) \in Vector(Nin)
  BY <1>1, RowOfPacket
<1>3. \A k \in 1..Len(pkts) : Unit(Len(pkts), k) \in Vector(Len(pkts))
  BY VectorClosed
<1> QED
  BY <1>2, <1>3 DEF Equations

\* What hearing a packet does to the variables of recv and the air.
LEMMA HearingTyped ==
  ASSUME Typed, NEW p \in Packet, Arrives(p), Track(p)
  PROVE  /\ curNodeId' \in Node /\ curBatchId' \in 0..(IdRange - 1)
         /\ heard' \in [Node -> Nat] /\ late' \in 0..MaxLate
<1>1. p.node \in Node /\ Order(p) \in Nat /\ IdOf(p) \in 0..(IdRange - 1)
  BY OrderInNat, IdInRange DEF Packet
<1>2. CASE Order(p) > heard[p.node]
  BY <1>1, <1>2 DEF Arrives, Track, Typed, TypeOK
<1>3. CASE ~(Order(p) > heard[p.node])
  BY <1>1, <1>3, SizeAssumption DEF Arrives, Track, Typed, TypeOK
<1> QED
  BY <1>2, <1>3

\* What storing one does to inputPkts.
LEMMA StoreTyped ==
  ASSUME Typed, NEW p \in Packet, Store(p)
  PROVE  /\ Kept(p) \in Seq(Packet) /\ inputs' \in Seq(Packet)
         /\ inputs' = Append(Kept(p), p) /\ Len(inputs') = Len(Kept(p)) + 1
         /\ curNodeId' \in Node /\ curBatchId' \in 0..(IdRange - 1)
         /\ heard' \in [Node -> Nat] /\ late' \in 0..MaxLate
         /\ decoded' = FALSE
<1>1. Kept(p) \in Seq(Packet)
  BY DEF Kept, Typed, TypeOK
<1>2. inputs' = Append(Kept(p), p) /\ decoded' = FALSE /\ Arrives(p) /\ Track(p)
  BY DEF Store
<1>3. inputs' \in Seq(Packet) /\ Len(inputs') = Len(Kept(p)) + 1
  BY <1>1, <1>2
<1> QED
  BY <1>1, <1>2, <1>3, HearingTyped

LEMMA CollectTyped ==
  ASSUME Typed, NEW p \in Packet, Collect(p)
  PROVE  Typed'
<1>1. Kept(p) \in Seq(Packet)
  BY StoreTyped DEF Collect
<1>2. /\ inputs' \in Seq(Packet) /\ Len(inputs') = Len(Kept(p)) + 1
      /\ Len(inputs') <= MaxRows
  BY StoreTyped DEF Collect
<1>3. /\ curNodeId' \in Node /\ curBatchId' \in 0..(IdRange - 1)
      /\ heard' \in [Node -> Nat] /\ late' \in 0..MaxLate
  BY StoreTyped DEF Collect
<1>4. decoded' = FALSE
  BY StoreTyped DEF Collect
<1>5. CASE Enough(inputs')
  <2>1. /\ pc' = "decode" /\ mat' = Equations(inputs') /\ col' = 1
        /\ invMat' = [k \in 1..Len(inputs') |-> Unit(Len(inputs'), k)]
    BY <1>5 DEF Collect
  <2>2. /\ mat' \in [1..Len(inputs') -> Vector(Nin)]
        /\ invMat' \in [1..Len(inputs') -> Vector(Len(inputs'))]
    BY <1>1, <1>2, <2>1, MatricesStart
  <2>3. col' \in 1..(Nin + 1) /\ Len(inputs') >= Nin
    BY <1>5, <2>1, SizeAssumption DEF Enough
  <2>4. mat' \in [Rows' -> Vector(Nin)] /\ invMat' \in [Rows' -> Vector(Len(inputs'))]
    BY <2>2 DEF Rows
  <2> QED
    BY <1>2, <1>3, <1>4, <2>1, <2>3, <2>4 DEF Typed, TypeOK, Decoding
<1>6. CASE ~Enough(inputs')
  <2>1. pc' = "recv"
    BY <1>6 DEF Collect, Store
  <2> QED
    BY <1>2, <1>3, <1>4, <2>1 DEF Typed, TypeOK, Decoding
<1> QED
  BY <1>5, <1>6

LEMMA OverrunTyped ==
  ASSUME Typed, NEW p \in Packet, Overrun(p)
  PROVE  Typed'
<1>1. Store(p) /\ pc' = "overrun"
  BY DEF Overrun
<1> QED
  BY <1>1, StoreTyped DEF Typed, TypeOK, Decoding

\* The rows of the matrices after one column.
LEMMA EliminateRows ==
  ASSUME Typed, pc = "decode", col <= Nin, NEW j \in Rows, IsPivot(j)
  PROVE  /\ mat \in [Rows -> Vector(Nin)] /\ invMat \in [Rows -> Vector(Len(inputs))]
         /\ col \in Rows /\ col \in 1..Nin /\ j >= col
         /\ mat[j][col] \in Symbol \ {Zero}
         /\ OneOver(mat[j][col]) \in Symbol \ {Zero}
         /\ PivotRow(j) \in Vector(Nin) /\ PivotInv(j) \in Vector(Len(inputs))
         /\ \A k \in Rows :
              /\ Swapped(mat, j, k) \in Vector(Nin)
              /\ Swapped(invMat, j, k) \in Vector(Len(inputs))
              /\ Factor(j, k) \in Symbol
              /\ ClearedRow(j, k) \in Vector(Nin)
              /\ ClearedInv(j, k) \in Vector(Len(inputs))
<1>1. /\ mat \in [Rows -> Vector(Nin)] /\ invMat \in [Rows -> Vector(Len(inputs))]
      /\ col \in 1..Nin /\ Len(inputs) >= Nin /\ Len(inputs) \in Nat
  BY SizeAssumption DEF Typed, TypeOK, Decoding
<1>2. col \in Rows /\ j >= col
  BY <1>1, SizeAssumption DEF Rows, IsPivot
<1>3. mat[j] \in Vector(Nin) /\ invMat[j] \in Vector(Len(inputs))
  BY <1>1
<1>4. mat[j][col] \in Symbol \ {Zero} /\ OneOver(mat[j][col]) \in Symbol \ {Zero}
  BY <1>1, <1>3, FieldAssumption DEF Vector, IsPivot
<1>5. PivotRow(j) \in Vector(Nin) /\ PivotInv(j) \in Vector(Len(inputs))
  BY <1>1, <1>3, <1>4, FieldAssumption, VectorClosed DEF PivotRow, PivotInv, Vector
<1>6. ASSUME NEW k \in Rows
      PROVE  /\ Swapped(mat, j, k) \in Vector(Nin)
             /\ Swapped(invMat, j, k) \in Vector(Len(inputs))
             /\ Factor(j, k) \in Symbol
             /\ ClearedRow(j, k) \in Vector(Nin)
             /\ ClearedInv(j, k) \in Vector(Len(inputs))
  <2>1. Swapped(mat, j, k) \in Vector(Nin) /\ Swapped(invMat, j, k) \in Vector(Len(inputs))
    BY <1>1, <1>2 DEF Swapped
  <2>2. Factor(j, k) \in Symbol
    BY <1>1, <2>1 DEF Factor, Vector
  <2>3. ClearedRow(j, k) \in Vector(Nin)
    BY <1>1, <1>5, <2>1, <2>2, FieldAssumption DEF ClearedRow, Vector
  <2>4. ClearedInv(j, k) \in Vector(Len(inputs))
    BY <1>1, <1>5, <2>1, <2>2, VectorClosed DEF ClearedInv
  <2> QED
    BY <2>1, <2>2, <2>3, <2>4
<1> QED
  BY <1>1, <1>2, <1>4, <1>5, <1>6

LEMMA EliminateTyped ==
  ASSUME Typed, Eliminate
  PROVE  Typed'
<1>1. PICK j \in Rows : IsPivot(j) /\ EliminateWith(j)
  BY DEF Eliminate
<1>2. pc = "decode" /\ col <= Nin /\ col' = col + 1 /\ pc' = pc
  BY DEF Eliminate
<1>3. /\ mat' \in [Rows -> Vector(Nin)]
      /\ invMat' \in [Rows -> Vector(Len(inputs))]
  BY <1>1, <1>2, EliminateRows DEF EliminateWith
<1>4. col' \in 1..(Nin + 1)
  BY <1>2, SizeAssumption DEF Typed, TypeOK
<1>5. inputs' = inputs /\ UNCHANGED <<receiver, air>>
  BY DEF Eliminate, receiver
<1> QED
  BY <1>2, <1>3, <1>4, <1>5 DEF Typed, TypeOK, Decoding, Rows, receiver, air

\* Besides elimination, a decode ends without a result or hands one over.
LEMMA DecodeEnds ==
  Fail \/ Deliver \/ Spoil => pc = "decode" /\ (GiveUp \/ \E pkts : Hand(pkts))
BY DEF Fail, Deliver, Spoil

LEMMA TypedStep == Typed /\ [Next]_vars => Typed'
<1> SUFFICES ASSUME Typed, [Next]_vars PROVE Typed'
  OBVIOUS
<1>1. ASSUME NEW p \in Packet, Skip(p) PROVE Typed'
  <2>1. /\ curNodeId' \in Node /\ curBatchId' \in 0..(IdRange - 1)
        /\ heard' \in [Node -> Nat] /\ late' \in 0..MaxLate
    BY <1>1, HearingTyped DEF Skip
  <2> QED
    BY <1>1, <2>1 DEF Skip, Typed, TypeOK, Decoding
<1>2. ASSUME NEW p \in Packet, Collect(p) \/ Overrun(p) PROVE Typed'
  BY <1>2, CollectTyped, OverrunTyped
<1>3. CASE Eliminate
  BY <1>3, EliminateTyped
<1>4. CASE pc = "decode" /\ GiveUp
  BY <1>4 DEF GiveUp, receiver, air, Typed, TypeOK, Decoding
<1>5. ASSUME pc = "decode", NEW pkts, Hand(pkts) PROVE Typed'
  BY <1>5 DEF Hand, air, Typed, TypeOK, Decoding
<1>6. CASE UNCHANGED vars
  BY <1>6 DEF vars, receiver, air, Typed, TypeOK, Decoding, Rows
<1> QED
  BY <1>1, <1>2, <1>3, <1>4, <1>5, <1>6, DecodeEnds DEF Next, Receive

\* The variables keep their types, for any number of nodes, any field and code;
\* and what the decoder is given fits the rows, unless the process has already
\* written past them.
THEOREM TypeCorrect == Spec => []TypeOK
<1>1. Typed => TypeOK
  BY DEF Typed
<1> QED
  BY TypedInit, TypedStep, <1>1, PTL DEF Spec

----------------------------------------------------------------------------
(* One node and one id at a time.                                           *)

\* An undelivered batch is the current one; so a packet of another batch or
\* node finds inputPkts empty.
LEMMA LapInit == Init => OneLapTogether
BY DEF Init, OneLapTogether

LEMMA LapStep == Typed /\ OneLapTogether /\ [Next]_vars => OneLapTogether'
<1> SUFFICES ASSUME Typed, OneLapTogether, [Next]_vars PROVE OneLapTogether'
  OBVIOUS
<1>1. ASSUME NEW p \in Packet, Skip(p) PROVE OneLapTogether'
  BY <1>1 DEF Skip, Track, Done, BatchSwitch, NodeSwitch, OneLapTogether
<1>2. ASSUME NEW p \in Packet, Store(p) PROVE OneLapTogether'
  <2>1. curNodeId' = p.node /\ curBatchId' = IdOf(p) /\ inputs' = Append(Kept(p), p)
    BY <1>2 DEF Store, Track
  <2>2. Kept(p) \in Seq(Packet)
    BY DEF Kept, Typed, TypeOK
  <2>3. \A k \in 1..Len(Kept(p)) : Kept(p)[k].node = p.node /\ IdOf(Kept(p)[k]) = IdOf(p)
    BY DEF Kept, BatchSwitch, NodeSwitch, OneLapTogether
  <2>4. ASSUME NEW k \in 1..Len(inputs')
        PROVE  inputs'[k].node = p.node /\ IdOf(inputs'[k]) = IdOf(p)
    <3>1. CASE k = Len(Kept(p)) + 1
      BY <2>1, <2>2, <3>1
    <3>2. CASE k # Len(Kept(p)) + 1
      <4>1. k \in 1..Len(Kept(p)) /\ inputs'[k] = Kept(p)[k]
        BY <2>1, <2>2, <3>2
      <4> QED
        BY <2>3, <4>1
    <3> QED
      BY <3>1, <3>2
  <2>5. \A k \in 1..Len(inputs') : IdOf(inputs'[k]) = (IdOf(inputs[k]))'
    BY DEF IdOf
  <2> QED
    BY <2>1, <2>4 DEF OneLapTogether, IdOf
<1>3. CASE Eliminate \/ GiveUp \/ UNCHANGED vars
  BY <1>3 DEF Eliminate, GiveUp, vars, receiver, OneLapTogether, IdOf
<1>4. ASSUME NEW pkts, Hand(pkts) PROVE OneLapTogether'
  BY <1>4 DEF Hand, OneLapTogether, IdOf
<1> QED
  BY <1>1, <1>2, <1>3, <1>4, DecodeEnds DEF Next, Receive, Collect, Overrun

\* The decoder gets packets of one node and one batch id.
THEOREM LapsApart == Spec => []OneLapTogether
<1>1. Init => Typed /\ OneLapTogether
  BY TypedInit, LapInit
<1>2. (Typed /\ OneLapTogether) /\ [Next]_vars => (Typed /\ OneLapTogether)'
  BY TypedStep, LapStep
<1> QED
  BY <1>1, <1>2, PTL DEF Spec

----------------------------------------------------------------------------
(* Gaussian elimination.  A stands for Equations(inputs).                   *)

\* The columns done are those of the unit matrix.
Reduced ==
  \A k \in Rows, i \in 1..(col - 1) : mat[k][i] = IF k = i THEN One ELSE Zero

\* What solves the equations solves the reduced ones, with the right-hand side
\* combined by invMat.
SameSolutions ==
  \A x \in Vector(Nin), y \in Vector(Len(inputs)) :
    (\A k \in Rows : Dot(Equations(inputs)[k], x) = y[k])
      => \A k \in Rows : Dot(mat[k], x) = Dot(invMat[k], y)

\* And the other way round for the homogeneous equations.
SameKernel ==
  \A x \in Vector(Nin) :
    (\A k \in Rows : Dot(mat[k], x) = Zero)
      => \A k \in Rows : Dot(Equations(inputs)[k], x) = Zero

Eliminating == pc = "decode" => Reduced /\ SameSolutions /\ SameKernel

\* What DotAssumption says of the lengths that occur.
LEMMA Linear ==
  ASSUME NEW n \in Nin..MaxRows
  PROVE  /\ \A u, x \in Vector(n) : Dot(u, x) \in Symbol
         /\ \A u, v, x \in Vector(n) :
              Dot(VecSum(u, v), x) = Plus(Dot(u, x), Dot(v, x))
         /\ \A c \in Symbol, u, x \in Vector(n) :
              Dot(Scaled(c, u), x) = Times(c, Dot(u, x))
         /\ \A k \in 1..n, x \in Vector(n) : Dot(Unit(n, k), x) = x[k]
BY DotAssumption

\* The code leaves the columns before col alone: they hold zeros in the pivot's
\* row, so the rows are combined as whole vectors.
LEMMA WholeRows ==
  ASSUME Typed, pc = "decode", col <= Nin, Reduced, NEW j \in Rows, IsPivot(j)
  PROVE  /\ PivotRow(j) = Scaled(OneOver(mat[j][col]), mat[j])
         /\ \A k \in Rows : ClearedRow(j, k) =
              VecSum(Swapped(mat, j, k), Scaled(Factor(j, k), PivotRow(j)))
<1>1. /\ mat \in [Rows -> Vector(Nin)] /\ col \in 1..Nin /\ j >= col /\ col \in Rows
      /\ PivotRow(j) \in Vector(Nin) /\ OneOver(mat[j][col]) \in Symbol
      /\ \A k \in Rows : Swapped(mat, j, k) \in Vector(Nin) /\ Factor(j, k) \in Symbol
  BY EliminateRows
<1>2. ASSUME NEW i \in 1..Nin, i < col PROVE mat[j][i] = Zero
  <2>1. i \in 1..(col - 1) /\ j # i
    BY <1>1, <1>2 DEF Rows
  <2> QED
    BY <2>1 DEF Reduced
<1>3. PivotRow(j) = Scaled(OneOver(mat[j][col]), mat[j])
  <2>1. ASSUME NEW i \in 1..Nin
        PROVE  PivotRow(j)[i] = Times(OneOver(mat[j][col]), mat[j][i])
    <3>1. CASE i >= col
      BY <3>1 DEF PivotRow
    <3>2. CASE i < col
      <4>1. PivotRow(j)[i] = mat[j][i] /\ mat[j][i] = Zero
        BY <1>1, <1>2, <3>2 DEF PivotRow
      <4>2. Times(OneOver(mat[j][col]), Zero) = Zero
        BY <1>1, FieldAssumption
      <4> QED
        BY <4>1, <4>2
    <3> QED
      BY <1>1, <3>1, <3>2
  <2>2. DOMAIN mat[j] = 1..Nin /\ DOMAIN PivotRow(j) = 1..Nin
    BY <1>1 DEF Vector
  <2> QED
    BY <2>1, <2>2 DEF Scaled, PivotRow
<1>4. ASSUME NEW k \in Rows
      PROVE  ClearedRow(j, k) =
               VecSum(Swapped(mat, j, k), Scaled(Factor(j, k), PivotRow(j)))
  <2> DEFINE S == Swapped(mat, j, k)
             F == Factor(j, k)
  <2>1. S \in Vector(Nin) /\ F \in Symbol
    BY <1>1
  <2> HIDE DEF S, F
  <2>2. ASSUME NEW i \in 1..Nin
        PROVE  (IF i >= col THEN Plus(S[i], Times(F, PivotRow(j)[i])) ELSE S[i])
                 = Plus(S[i], Times(F, PivotRow(j)[i]))
    <3>1. CASE i >= col
      BY <3>1
    <3>2. CASE i < col
      <4>1. PivotRow(j)[i] = Zero
        BY <1>1, <1>2, <3>2 DEF PivotRow
      <4>2. Times(F, Zero) = Zero /\ S[i] \in Symbol /\ Plus(S[i], Zero) = S[i]
        BY <2>1, FieldAssumption DEF Vector
      <4> QED
        BY <1>1, <3>2, <4>1, <4>2
    <3> QED
      BY <1>1, <3>1, <3>2
  <2>3. ClearedRow(j, k) = [i \in 1..Nin |-> Plus(S[i], Times(F, PivotRow(j)[i]))]
    BY <2>2 DEF ClearedRow, S, F
  <2>4. DOMAIN S = 1..Nin /\ DOMAIN PivotRow(j) = 1..Nin
    BY <1>1, <2>1 DEF Vector
  <2>5. VecSum(S, Scaled(F, PivotRow(j))) = [i \in 1..Nin |-> Plus(S[i], Times(F, PivotRow(j)[i]))]
    BY <2>4 DEF VecSum, Scaled
  <2> QED
    BY <2>3, <2>5 DEF S, F
<1> QED
  BY <1>3, <1>4

\* Which row of the old matrix each row of the new one comes from.
LEMMA SwapRows ==
  ASSUME NEW j \in Rows, col \in Rows
  PROVE  /\ \A m, k : k \in Rows /\ k # col =>
              \E l \in Rows \ {j} : Swapped(m, j, k) = m[l]
         /\ \A l \in Rows \ {j} : \E k \in Rows \ {col} :
              \A m : Swapped(m, j, k) = m[l]
<1>1. ASSUME NEW m, NEW k \in Rows, k # col
      PROVE  \E l \in Rows \ {j} : Swapped(m, j, k) = m[l]
  BY <1>1 DEF Swapped
<1>2. ASSUME NEW l \in Rows \ {j}
      PROVE  \E k \in Rows \ {col} : \A m : Swapped(m, j, k) = m[l]
  <2>1. CASE l = col
    <3>1. j \in Rows \ {col} /\ \A m : Swapped(m, j, j) = m[l]
      BY <2>1 DEF Swapped
    <3> QED
      BY <3>1
  <2>2. CASE l # col
    <3>1. l \in Rows \ {col} /\ \A m : Swapped(m, j, l) = m[l]
      BY <2>2 DEF Swapped
    <3> QED
      BY <3>1
  <2> QED
    BY <2>1, <2>2
<1> QED
  BY <1>1, <1>2

\* One more column becomes a column of the unit matrix.
LEMMA ReducedStep ==
  ASSUME Typed, pc = "decode", col <= Nin, Reduced,
         NEW j \in Rows, IsPivot(j), EliminateWith(j)
  PROVE  \A k \in Rows, i \in 1..col : mat'[k][i] = IF k = i THEN One ELSE Zero
<1>1. /\ mat \in [Rows -> Vector(Nin)] /\ col \in 1..Nin /\ j >= col /\ col \in Rows
      /\ mat[j][col] \in Symbol \ {Zero} /\ OneOver(mat[j][col]) \in Symbol
      /\ \A k \in Rows : Swapped(mat, j, k) \in Vector(Nin) /\ Factor(j, k) \in Symbol
  BY EliminateRows
<1>2. PivotRow(j)[col] = One
  <2>1. col >= col
    BY <1>1, SizeAssumption
  <2>2. PivotRow(j)[col] = Times(OneOver(mat[j][col]), mat[j][col])
    BY <1>1, <2>1 DEF PivotRow
  <2> QED
    BY <1>1, <2>2, FieldAssumption
<1>3. ASSUME NEW i \in 1..(col - 1) PROVE PivotRow(j)[i] = Zero
  <2>1. i \in 1..Nin /\ ~(i >= col) /\ j # i
    BY <1>1, <1>3, SizeAssumption DEF Rows
  <2> QED
    BY <2>1 DEF PivotRow, Reduced
<1>4. ASSUME NEW i \in 1..col
      PROVE  mat'[col][i] = IF col = i THEN One ELSE Zero
  <2>1. mat'[col] = PivotRow(j)
    BY <1>1 DEF EliminateWith
  <2>2. CASE i = col
    BY <1>2, <2>1, <2>2
  <2>3. CASE i # col
    <3>1. i \in 1..(col - 1)
      BY <1>1, <2>3
    <3> QED
      BY <1>3, <2>1, <2>3, <3>1
  <2> QED
    BY <2>2, <2>3
<1>5. ASSUME NEW k \in Rows, k # col, NEW i \in 1..col
      PROVE  mat'[k][i] = IF k = i THEN One ELSE Zero
  <2>1. mat'[k] = ClearedRow(j, k)
    BY <1>5 DEF EliminateWith
  <2>2. CASE i = col
    <3>1. ClearedRow(j, k)[col] = Plus(Factor(j, k), Times(Factor(j, k), One))
      BY <1>1, <1>2 DEF ClearedRow, Factor
    <3>2. Times(Factor(j, k), One) = Factor(j, k) /\ Plus(Factor(j, k), Factor(j, k)) = Zero
      BY <1>1, FieldAssumption
    <3> QED
      BY <1>5, <2>1, <2>2, <3>1, <3>2
  <2>3. CASE i # col
    <3>1. i \in 1..(col - 1) /\ i \in 1..Nin /\ ~(i >= col)
      BY <1>1, <2>3, SizeAssumption
    <3>2. ClearedRow(j, k)[i] = Swapped(mat, j, k)[i]
      BY <3>1 DEF ClearedRow
    <3>3. CASE k = j
      <4>1. Swapped(mat, j, k) = mat[col] /\ col # i /\ k # i
        BY <1>1, <1>5, <2>3, <3>1, <3>3 DEF Swapped
      <4> QED
        BY <1>1, <2>1, <3>1, <3>2, <4>1 DEF Reduced
    <3>4. CASE k # j
      <4>1. Swapped(mat, j, k) = mat[k]
        BY <1>5, <3>4 DEF Swapped
      <4> QED
        BY <2>1, <3>1, <3>2, <4>1 DEF Reduced
    <3> QED
      BY <3>3, <3>4
  <2> QED
    BY <2>2, <2>3
<1> QED
  BY <1>4, <1>5

\* The new rows as combinations of old ones, seen through Dot.
LEMMA RowProducts ==
  ASSUME Typed, pc = "decode", col <= Nin, Reduced,
         NEW j \in Rows, IsPivot(j), EliminateWith(j),
         NEW x \in Vector(Nin), NEW y \in Vector(Len(inputs))
  PROVE  LET r == OneOver(mat[j][col]) IN
         /\ Dot(mat'[col], x) = Times(r, Dot(mat[j], x))
         /\ Dot(invMat'[col], y) = Times(r, Dot(invMat[j], y))
         /\ \A k \in Rows \ {col} :
              /\ Dot(mat'[k], x) =
                   Plus(Dot(Swapped(mat, j, k), x), Times(Factor(j, k), Dot(mat'[col], x)))
              /\ Dot(invMat'[k], y) =
                   Plus(Dot(Swapped(invMat, j, k), y), Times(Factor(j, k), Dot(invMat'[col], y)))
<1> DEFINE r == OneOver(mat[j][col])
<1>1. /\ mat[j] \in Vector(Nin) /\ invMat[j] \in Vector(Len(inputs)) /\ col \in Rows
      /\ r \in Symbol /\ PivotRow(j) \in Vector(Nin) /\ PivotInv(j) \in Vector(Len(inputs))
      /\ \A k \in Rows : /\ Swapped(mat, j, k) \in Vector(Nin)
                         /\ Swapped(invMat, j, k) \in Vector(Len(inputs))
                         /\ Factor(j, k) \in Symbol
  BY EliminateRows
<1>2. Nin \in Nin..MaxRows /\ Len(inputs) \in Nin..MaxRows /\ Nin \in Nat /\ Len(inputs) \in Nat
  BY SizeAssumption DEF Typed, TypeOK, Decoding
<1>3. mat'[col] = PivotRow(j) /\ invMat'[col] = PivotInv(j)
  BY <1>1 DEF EliminateWith
<1>4. PivotRow(j) = Scaled(r, mat[j]) /\ PivotInv(j) = Scaled(r, invMat[j])
  BY WholeRows DEF PivotInv
<1>5. Dot(mat'[col], x) = Times(r, Dot(mat[j], x))
  BY <1>1, <1>2, <1>3, <1>4, Linear
<1>6. Dot(invMat'[col], y) = Times(r, Dot(invMat[j], y))
  BY <1>1, <1>2, <1>3, <1>4, Linear
<1>7. ASSUME NEW k \in Rows \ {col}
      PROVE  /\ Dot(mat'[k], x) =
                  Plus(Dot(Swapped(mat, j, k), x), Times(Factor(j, k), Dot(mat'[col], x)))
             /\ Dot(invMat'[k], y) =
                  Plus(Dot(Swapped(invMat, j, k), y), Times(Factor(j, k), Dot(invMat'[col], y)))
  <2>1. mat'[k] = VecSum(Swapped(mat, j, k), Scaled(Factor(j, k), PivotRow(j)))
    BY WholeRows DEF EliminateWith
  <2>2. invMat'[k] = VecSum(Swapped(invMat, j, k), Scaled(Factor(j, k), PivotInv(j)))
    BY DEF EliminateWith, ClearedInv
  <2>3. /\ Scaled(Factor(j, k), PivotRow(j)) \in Vector(Nin)
        /\ Scaled(Factor(j, k), PivotInv(j)) \in Vector(Len(inputs))
    BY <1>1, <1>2, VectorClosed
  <2>4. Dot(Scaled(Factor(j, k), PivotRow(j)), x) = Times(Factor(j, k), Dot(PivotRow(j), x))
    BY <1>1, <1>2, Linear
  <2>5. Dot(Scaled(Factor(j, k), PivotInv(j)), y) = Times(Factor(j, k), Dot(PivotInv(j), y))
    BY <1>1, <1>2, Linear
  <2>6. Dot(mat'[k], x) = Plus(Dot(Swapped(mat, j, k), x), Dot(Scaled(Factor(j, k), PivotRow(j)), x))
    BY <1>1, <1>2, <2>1, <2>3, Linear
  <2>7. Dot(invMat'[k], y) = Plus(Dot(Swapped(invMat, j, k), y), Dot(Scaled(Factor(j, k), PivotInv(j)), y))
    BY <1>1, <1>2, <2>2, <2>3, Linear
  <2> QED
    BY <1>3, <2>4, <2>5, <2>6, <2>7
<1> QED
  BY <1>5, <1>6, <1>7

\* A column keeps the solutions of the equations.
LEMMA SolutionsStep ==
  ASSUME Typed, pc = "decode", col <= Nin, Reduced, SameSolutions,
         NEW j \in Rows, IsPivot(j), EliminateWith(j),
         NEW x \in Vector(Nin), NEW y \in Vector(Len(inputs)),
         \A k \in Rows : Dot(Equations(inputs)[k], x) = y[k]
  PROVE  \A k \in Rows : Dot(mat'[k], x) = Dot(invMat'[k], y)
<1>1. \A k \in Rows : Dot(mat[k], x) = Dot(invMat[k], y)
  BY DEF SameSolutions
<1>2. col \in Rows
  BY EliminateRows
<1>3. Dot(mat'[col], x) = Dot(invMat'[col], y)
  BY <1>1, RowProducts
<1>4. ASSUME NEW k \in Rows \ {col} PROVE Dot(mat'[k], x) = Dot(invMat'[k], y)
  <2>1. Dot(Swapped(mat, j, k), x) = Dot(Swapped(invMat, j, k), y)
    BY <1>1, <1>2 DEF Swapped
  <2>2. /\ Dot(mat'[k], x) =
             Plus(Dot(Swapped(mat, j, k), x), Times(Factor(j, k), Dot(mat'[col], x)))
        /\ Dot(invMat'[k], y) =
             Plus(Dot(Swapped(invMat, j, k), y), Times(Factor(j, k), Dot(invMat'[col], y)))
    BY RowProducts
  <2> QED
    BY <1>3, <2>1, <2>2
<1> QED
  BY <1>3, <1>4

\* A column adds nothing to the kernel: each old row is a combination of new ones.
LEMMA KernelStep ==
  ASSUME Typed, pc = "decode", col <= Nin, Reduced, SameKernel,
         NEW j \in Rows, IsPivot(j), EliminateWith(j),
         NEW x \in Vector(Nin),
         \A k \in Rows : Dot(mat'[k], x) = Zero
  PROVE  \A k \in Rows : Dot(Equations(inputs)[k], x) = Zero
<1> DEFINE r == OneOver(mat[j][col])
<1>1. /\ mat \in [Rows -> Vector(Nin)] /\ col \in Rows /\ r \in Symbol \ {Zero}
      /\ \A k \in Rows : Swapped(mat, j, k) \in Vector(Nin) /\ Factor(j, k) \in Symbol
  BY EliminateRows
<1>2. Nin \in Nin..MaxRows
  BY SizeAssumption
<1>3. \A k \in Rows : Dot(mat[k], x) \in Symbol
  BY <1>1, <1>2, Linear
<1>0. [i \in 1..Len(inputs) |-> Zero] \in Vector(Len(inputs))
  BY FieldAssumption DEF Vector
<1>4. Dot(mat[j], x) = Zero
  <2>1. Times(r, Dot(mat[j], x)) = Zero
    BY <1>0, <1>1, RowProducts
  <2>2. Times(OneOver(r), Times(r, Dot(mat[j], x))) = Dot(mat[j], x)
    BY <1>1, <1>3, FieldAssumption
  <2>3. Times(OneOver(r), Zero) = Zero
    BY <1>1, FieldAssumption
  <2> QED
    BY <2>1, <2>2, <2>3
<1>5. ASSUME NEW k \in Rows \ {col} PROVE Dot(Swapped(mat, j, k), x) = Zero
  <2>1. Dot(mat'[k], x) =
          Plus(Dot(Swapped(mat, j, k), x), Times(Factor(j, k), Dot(mat'[col], x)))
    BY <1>0, RowProducts
  <2>2. Dot(Swapped(mat, j, k), x) \in Symbol /\ Factor(j, k) \in Symbol
    BY <1>1, <1>2, Linear
  <2>3. Plus(Dot(Swapped(mat, j, k), x), Zero) = Zero
    BY <1>1, <2>1, <2>2, FieldAssumption
  <2> QED
    BY <2>2, <2>3, FieldAssumption
<1>6. \A l \in Rows \ {j} : Dot(mat[l], x) = Zero
  BY <1>1, <1>5, SwapRows
<1> QED
  BY <1>4, <1>6 DEF SameKernel

LEMMA EliminateStep ==
  ASSUME Typed, Eliminating, Eliminate
  PROVE  Eliminating'
<1>1. PICK j \in Rows : IsPivot(j) /\ EliminateWith(j)
  BY DEF Eliminate
<1>2. /\ pc = "decode" /\ col <= Nin /\ col' = col + 1 /\ inputs' = inputs
      /\ Reduced /\ SameSolutions /\ SameKernel
  BY DEF Eliminate, receiver, Eliminating
<1>3. Rows' = Rows /\ col' - 1 = col /\ Equations(inputs') = Equations(inputs)
  BY <1>2, SizeAssumption DEF Rows, Typed, TypeOK
<1>4. Reduced'
  BY <1>1, <1>2, <1>3, ReducedStep DEF Reduced
<1>5. SameSolutions'
  BY <1>1, <1>2, <1>3, SolutionsStep DEF SameSolutions
<1>6. SameKernel'
  BY <1>1, <1>2, <1>3, KernelStep DEF SameKernel
<1> QED
  BY <1>4, <1>5, <1>6 DEF Eliminating

\* The matrices that decode starts with.
LEMMA EliminatingStart ==
  ASSUME Typed, NEW p \in Packet, Collect(p)
  PROVE  Eliminating'
<1> SUFFICES ASSUME pc' = "decode" PROVE (Reduced /\ SameSolutions /\ SameKernel)'
  BY DEF Eliminating
<1>1. /\ mat' = Equations(inputs') /\ col' = 1
      /\ invMat' = [k \in 1..Len(inputs') |-> Unit(Len(inputs'), k)]
  BY DEF Collect, Store
<1>2. Len(inputs') \in Nin..MaxRows
  <2>1. Typed'
    BY CollectTyped
  <2> QED
    BY <2>1, SizeAssumption DEF Typed, TypeOK, Decoding
<1>3. Reduced'
  BY <1>1 DEF Reduced
<1>4. SameKernel'
  BY <1>1 DEF SameKernel
<1>5. ASSUME NEW x \in Vector(Nin), NEW y \in Vector(Len(inputs')),
             \A k \in Rows' : Dot(Equations(inputs')[k], x) = y[k],
             NEW k \in Rows'
      PROVE  Dot(mat'[k], x) = Dot(invMat'[k], y)
  <2>1. Dot(Unit(Len(inputs'), k), y) = y[k]
    BY <1>2, Linear DEF Rows
  <2>2. invMat'[k] = Unit(Len(inputs'), k)
    BY <1>1 DEF Rows
  <2> QED
    BY <1>1, <1>5, <2>1, <2>2
<1>6. SameSolutions'
  BY <1>5 DEF SameSolutions
<1> QED
  BY <1>3, <1>4, <1>6

LEMMA EliminatingStep == Typed /\ Eliminating /\ [Next]_vars => Eliminating'
<1> SUFFICES ASSUME Typed, Eliminating, [Next]_vars PROVE Eliminating'
  OBVIOUS
<1>1. ASSUME NEW p \in Packet, Skip(p) PROVE Eliminating'
  BY <1>1 DEF Skip, Eliminating
<1>2. ASSUME NEW p \in Packet, Collect(p) PROVE Eliminating'
  BY <1>2, EliminatingStart
<1>6. ASSUME NEW p \in Packet, Overrun(p) PROVE Eliminating'
  BY <1>6 DEF Overrun, Eliminating
<1>3. CASE Eliminate
  BY <1>3, EliminateStep
<1>4. CASE Fail \/ Deliver \/ Spoil
  BY <1>4, DecodeEnds DEF GiveUp, Hand, Eliminating
<1>5. CASE UNCHANGED vars
  <2>1. /\ mat' = mat /\ invMat' = invMat /\ col' = col /\ inputs' = inputs /\ pc' = pc
    BY <1>5 DEF vars, receiver
  <2> QED
    BY <2>1 DEF Eliminating, Reduced, SameSolutions, SameKernel, Rows, Equations, G
<1> QED
  BY <1>1, <1>2, <1>3, <1>4, <1>5, <1>6 DEF Next, Receive

----------------------------------------------------------------------------
(* What a decode delivers, and when it fails.                               *)

\* With every column done, the first Nin rows are the unit matrix.
LEMMA SolutionRight ==
  ASSUME Typed, Eliminating, OneLapTogether, pc = "decode", col > Nin, OneBatch
  PROVE  Solution = Source[inputs[1].node][inputs[1].batch]
<1> DEFINE x == Source[inputs[1].node][inputs[1].batch]
           y == [k \in Rows |-> Payload(inputs[k])]
<1>1. /\ mat \in [Rows -> Vector(Nin)] /\ col = Nin + 1 /\ Nin \in Nat \ {0}
      /\ Len(inputs) \in Nat /\ Len(inputs) >= Nin /\ Len(inputs) <= MaxRows
      /\ Reduced /\ SameSolutions
  BY SizeAssumption DEF Typed, TypeOK, Decoding, Eliminating
<1>2. 1 \in Rows /\ \A k \in Rows : inputs[k] \in Packet
  BY <1>1 DEF Rows, Typed, TypeOK
<1>3. x \in Vector(Nin)
  BY <1>2, CodeAssumption DEF Packet
<1>4. \A k \in Rows : /\ Equations(inputs)[k] = G(inputs[1].batch, inputs[k].coef)
                      /\ Equations(inputs)[k] \in Vector(Nin)
  BY <1>2, RowOfPacket DEF Equations, Rows, Packet
<1>5. \A k \in Rows : inputs[k].node = inputs[1].node /\ inputs[k].batch = inputs[1].batch
  BY <1>2 DEF OneLapTogether, OneBatch, Rows
<1>6. \A k \in Rows : Payload(inputs[k]) = Dot(Equations(inputs)[k], x)
  BY <1>4, <1>5 DEF Payload
<1>7. Nin \in Nin..MaxRows
  BY <1>1, SizeAssumption
<1>8. y \in Vector(Len(inputs))
  <2>1. \A k \in Rows : Payload(inputs[k]) \in Symbol
    BY <1>3, <1>4, <1>6, <1>7, Linear
  <2> QED
    BY <2>1 DEF Vector, Rows
<1>9. \A k \in Rows : Dot(mat[k], x) = Dot(invMat[k], y)
  <2>1. \A k \in Rows : Dot(Equations(inputs)[k], x) = y[k]
    BY <1>6
  <2> HIDE DEF x, y
  <2> QED
    BY <1>1, <1>3, <1>8, <2>1 DEF SameSolutions
<1>10. ASSUME NEW i \in 1..Nin PROVE Dot(mat[i], x) = x[i]
  <2>1. i \in Rows
    BY <1>1 DEF Rows
  <2>2. \A l \in 1..Nin : mat[i][l] = IF i = l THEN One ELSE Zero
    BY <1>1, <2>1 DEF Reduced
  <2>3. mat[i] = Unit(Nin, i)
    BY <1>1, <2>1, <2>2 DEF Vector, Unit
  <2> QED
    BY <1>3, <1>7, <2>3, Linear
<1>11. ASSUME NEW i \in 1..Nin PROVE Solution[i] = x[i]
  <2>1. i \in Rows
    BY <1>1 DEF Rows
  <2> QED
    BY <1>9, <1>10, <2>1 DEF Solution
<1> QED
  BY <1>3, <1>11 DEF Solution, Vector

\* Without a pivot in column col, the combination of this column with those
\* before it is in the kernel.
LEMMA FailureRight ==
  ASSUME Typed, Eliminating, pc = "decode", col <= Nin, \A j \in Rows : ~IsPivot(j)
  PROVE  Undetermined(inputs)
<1> DEFINE x == [i \in 1..Nin |-> IF i < col THEN mat[i][col]
                                  ELSE IF i = col THEN One ELSE Zero]
<1>1. /\ mat \in [Rows -> Vector(Nin)] /\ col \in 1..Nin /\ Nin \in Nat \ {0}
      /\ Len(inputs) \in Nat /\ Len(inputs) >= Nin
      /\ Reduced /\ SameKernel
  BY SizeAssumption DEF Typed, TypeOK, Decoding, Eliminating
<1>2. \A i \in 1..Nin : i \in Rows
  BY <1>1 DEF Rows
<1>3. \A k \in Rows, i \in 1..Nin : mat[k][i] \in Symbol
  BY <1>1 DEF Vector
<1>4. x \in Vector(Nin)
  BY <1>1, <1>2, <1>3, FieldAssumption DEF Vector
<1>5. x # [i \in 1..Nin |-> Zero]
  BY <1>1, FieldAssumption
<1>6. ASSUME NEW k \in Rows, k >= col PROVE mat[k][col] = Zero
  <2> SUFFICES ASSUME mat[k][col] # Zero PROVE FALSE
    OBVIOUS
  <2> DEFINE S == {l \in Rows : l >= col /\ mat[l][col] # Zero}
  <2>1. S \in SUBSET (1..Len(inputs)) /\ k \in S
    BY <1>6 DEF Rows
  <2>2. PICK j \in S : \A l \in S : j <= l
    <3> HIDE DEF S
    <3> QED
      BY <1>1, <2>1, FirstRow
  <2>3. IsPivot(j)
    BY <1>1, <2>2 DEF IsPivot, Rows
  <2> QED
    BY <2>3
<1>7. ASSUME NEW k \in Rows PROVE Dot(mat[k], x) = Zero
  <2> DEFINE c == mat[k][col]
             u == IF k < col THEN Unit(Nin, k) ELSE [i \in 1..Nin |-> Zero]
             v == VecSum(u, Scaled(c, Unit(Nin, col)))
  <2>1. /\ Nin \in Nin..MaxRows /\ c \in Symbol /\ mat[k] \in Vector(Nin)
        /\ k < col => k \in 1..Nin
    BY <1>1, <1>3, SizeAssumption DEF Rows
  <2>2. Unit(Nin, col) \in Vector(Nin) /\ u \in Vector(Nin)
    BY <1>1, <2>1, VectorClosed, FieldAssumption DEF Vector
  <2>3. Scaled(c, Unit(Nin, col)) \in Vector(Nin) /\ v \in Vector(Nin)
    BY <1>1, <2>1, <2>2, VectorClosed
  <2>4. \A i \in 1..Nin : mat[k][i] = v[i] \/ x[i] = Zero
    <3> SUFFICES ASSUME NEW i \in 1..Nin, i <= col PROVE mat[k][i] = v[i]
      BY <1>1
    <3>1. v[i] = Plus(u[i], Times(c, Unit(Nin, col)[i]))
      BY <2>2 DEF VecSum, Scaled, Vector
    <3>2. CASE i = col
      <4>1. u[i] = Zero /\ Unit(Nin, col)[i] = One
        BY <1>1, <3>2 DEF Unit
      <4>2. v[i] = c
        <5>1. v[i] = Plus(Zero, Times(c, One))
          BY <3>1, <4>1
        <5>2. Times(c, One) = c /\ Plus(Zero, c) = Plus(c, Zero) /\ Plus(c, Zero) = c
          BY <2>1, FieldAssumption
        <5> QED
          BY <5>1, <5>2
      <4> QED
        BY <3>2, <4>2
    <3>3. CASE i # col
      <4>1. i \in 1..(col - 1) /\ Unit(Nin, col)[i] = Zero
        BY <1>1, <3>3 DEF Unit
      <4>2. v[i] = u[i]
        <5>1. u[i] \in Symbol
          BY <2>2 DEF Vector
        <5> QED
          BY <2>1, <3>1, <4>1, <5>1, FieldAssumption
      <4>3. u[i] = IF k = i THEN One ELSE Zero
        <5>1. CASE k < col
          BY <5>1 DEF Unit
        <5>2. CASE ~(k < col)
          BY <1>1, <4>1, <5>2 DEF Rows
        <5> QED
          BY <5>1, <5>2
      <4> QED
        BY <1>1, <4>1, <4>2, <4>3 DEF Reduced
    <3> QED
      BY <3>2, <3>3
  <2>5. Dot(mat[k], x) = Dot(v, x)
    <3> HIDE DEF v, x
    <3> QED
      BY <1>4, <2>1, <2>3, <2>4, DotAssumption
  <2>6. Dot(v, x) = Plus(Dot(u, x), Times(c, x[col]))
    <3> HIDE DEF u, x, c
    <3>1. Dot(v, x) = Plus(Dot(u, x), Dot(Scaled(c, Unit(Nin, col)), x))
      BY <1>4, <2>1, <2>2, <2>3, Linear
    <3>2. Dot(Scaled(c, Unit(Nin, col)), x) = Times(c, Dot(Unit(Nin, col), x))
      BY <1>4, <2>1, <2>2, Linear
    <3>3. Dot(Unit(Nin, col), x) = x[col]
      BY <1>1, <1>4, <2>1, Linear
    <3> QED
      BY <3>1, <3>2, <3>3
  <2>7. x[col] = One /\ Times(c, One) = c
    BY <1>1, <2>1, FieldAssumption
  <2>8. CASE k < col
    <3>1. Dot(u, x) = x[k]
      <4> HIDE DEF x
      <4> QED
        BY <1>4, <2>1, <2>8, Linear
    <3>2. x[k] = c
      BY <1>1, <2>1, <2>8
    <3>3. Plus(c, c) = Zero
      BY <2>1, FieldAssumption
    <3>4. Dot(v, x) = Plus(c, c)
      <4> HIDE DEF u, v, x, c
      <4> QED
        BY <2>6, <2>7, <3>1, <3>2
    <3> QED
      BY <2>5, <3>3, <3>4
  <2>9. CASE ~(k < col)
    <3>1. c = Zero
      BY <1>1, <1>6, <2>9 DEF Rows
    <3>2. Dot(u, x) = Zero
      <4>1. Scaled(Zero, Unit(Nin, col)) \in Vector(Nin)
        BY <1>1, <2>2, VectorClosed, FieldAssumption
      <4>2. Times(Zero, One) = Zero /\ Times(Zero, Zero) = Zero
        BY FieldAssumption
      <4>3. u = Scaled(Zero, Unit(Nin, col))
        BY <2>9, <4>2 DEF Scaled, Unit
      <4>4. Dot(u, x) = Times(Zero, Dot(Unit(Nin, col), x))
        <5> HIDE DEF u, x
        <5> QED
          BY <1>4, <2>1, <2>2, <4>3, Linear, FieldAssumption
      <4>5. Dot(Unit(Nin, col), x) = One
        <5>1. Dot(Unit(Nin, col), x) = x[col]
          <6> HIDE DEF x
          <6> QED
            BY <1>1, <1>4, <2>1, Linear
        <5> QED
          BY <2>7, <5>1
      <4> QED
        BY <4>2, <4>4, <4>5
    <3>3. Plus(Zero, Zero) = Zero
      BY FieldAssumption
    <3>4. Dot(v, x) = Plus(Zero, Zero)
      <4> HIDE DEF u, v, x, c
      <4> QED
        BY <2>6, <2>7, <3>1, <3>2
    <3> QED
      BY <2>5, <3>3, <3>4
  <2> QED
    BY <2>8, <2>9
<1>8. \A k \in Rows : Dot(Equations(inputs)[k], x) = Zero
  <2> HIDE DEF x
  <2> QED
    BY <1>1, <1>4, <1>7 DEF SameKernel
<1> QED
  <2> HIDE DEF x
  <2> QED
    BY <1>4, <1>5, <1>8 DEF Undetermined, Rows

LEMMA DecodeStep ==
  Typed /\ OneLapTogether /\ Eliminating /\ DecodeRecovers /\ [Next]_vars => DecodeRecovers'
<1> SUFFICES ASSUME Typed, OneLapTogether, Eliminating, DecodeRecovers, [Next]_vars
             PROVE  DecodeRecovers'
  OBVIOUS
<1>1. ASSUME NEW p \in Packet, Skip(p) PROVE DecodeRecovers'
  BY <1>1 DEF Skip, DecodeRecovers, OneBatch, Aliased, Rows
<1>2. ASSUME NEW p \in Packet, Collect(p) \/ Overrun(p) PROVE DecodeRecovers'
  BY <1>2 DEF Collect, Overrun, Store, DecodeRecovers
<1>3. CASE Eliminate \/ GiveUp
  BY <1>3 DEF Eliminate, GiveUp, receiver, DecodeRecovers, OneBatch, Aliased, Rows
<1>4. CASE Deliver
  <2> SUFFICES ASSUME OneBatch PROVE output' = Source[inputs[1].node][inputs[1].batch]
    BY <1>4 DEF Deliver, Hand, DecodeRecovers, OneBatch
  <2> QED
    BY <1>4, SolutionRight DEF Deliver, Hand
<1>5. CASE Spoil /\ ~GiveUp
  BY <1>5 DEF Spoil, Hand, DecodeRecovers, Aliased, Rows
<1>6. CASE UNCHANGED vars
  BY <1>6 DEF vars, receiver, DecodeRecovers, OneBatch, Aliased, Rows
<1> QED
  BY <1>1, <1>2, <1>3, <1>4, <1>5, <1>6 DEF Next, Receive, Fail

LEMMA SittingStep ==
  Typed /\ Eliminating /\ NotSitting /\ [Next]_vars => NotSitting'
<1> SUFFICES ASSUME Typed, Eliminating, NotSitting, [Next]_vars PROVE NotSitting'
  OBVIOUS
<1>1. ASSUME NEW p \in Packet, Skip(p) PROVE NotSitting'
  BY <1>1 DEF Skip, Done, NotSitting
<1>2. ASSUME NEW p \in Packet, Collect(p) PROVE NotSitting'
  <2>1. Len(inputs') \in Nat
    BY <1>2, CollectTyped DEF Typed, TypeOK
  <2> QED
    BY <1>2, <2>1, SizeAssumption DEF Collect, NotSitting, Enough
<1>7. ASSUME NEW p \in Packet, Overrun(p) PROVE NotSitting'
  BY <1>7 DEF Overrun, NotSitting
<1>3. CASE Eliminate \/ Deliver
  BY <1>3 DEF Eliminate, Deliver, Hand, NotSitting
<1>4. CASE Fail
  BY <1>4, FailureRight DEF Fail, GiveUp, receiver, NotSitting, Undetermined, Equations, G
<1>5. CASE Spoil
  BY <1>5 DEF Spoil, GiveUp, Hand, receiver, NotSitting, Aliased, Rows
<1>6. CASE UNCHANGED vars
  BY <1>6 DEF vars, receiver, NotSitting, Undetermined, Equations, G, Aliased, Rows
<1> QED
  BY <1>1, <1>2, <1>3, <1>4, <1>5, <1>6, <1>7 DEF Next, Receive

ReceiverInv ==
  Typed /\ OneLapTogether /\ Eliminating /\ DecodeRecovers /\ NotSitting

\* The inductive invariant of the receiver.
THEOREM ReceiverSafe == Spec => []ReceiverInv
<1>1. Init => ReceiverInv
  <2>1. Init => Eliminating /\ DecodeRecovers /\ NotSitting
    BY SizeAssumption DEF Init, Eliminating, DecodeRecovers, NotSitting
  <2> QED
    BY <2>1, TypedInit, LapInit DEF ReceiverInv
<1>2. ReceiverInv /\ [Next]_vars => ReceiverInv'
  BY TypedStep, LapStep, EliminatingStep, DecodeStep, SittingStep DEF ReceiverInv
<1> QED
  BY <1>1, <1>2, PTL DEF Spec

\* A delivered batch is the batch that was sent.
THEOREM DeliveriesRight == Spec => []DecodeRecovers
<1>1. ReceiverInv => DecodeRecovers
  BY DEF ReceiverInv
<1> QED
  BY <1>1, ReceiverSafe, PTL

\* A batch that could be solved is not left undelivered.
THEOREM SolvableDelivered == Spec => []NotSitting
<1>1. ReceiverInv => NotSitting
  BY DEF ReceiverInv
<1> QED
  BY <1>1, ReceiverSafe, PTL

----------------------------------------------------------------------------
(* The rows of inputPkts.                                                   *)

\* The last packet is of the current node and id.
LEMMA LatestFacts ==
  ASSUME Typed, OneLapTogether, inputs # <<>>
  PROVE  /\ Latest \in Packet /\ Latest.node = curNodeId /\ IdOf(Latest) = curBatchId
         /\ Latest.node \in Node /\ Latest.batch \in Batch
<1>1. Len(inputs) \in 1..Len(inputs)
  BY DEF Typed, TypeOK
<1>2. Latest \in Packet
  BY <1>1 DEF Latest, Typed, TypeOK
<1>3. Latest.node = curNodeId /\ IdOf(Latest) = curBatchId
  BY <1>1 DEF Latest, OneLapTogether
<1> QED
  BY <1>2, <1>3 DEF Packet

\* In order, each packet of a batch has a larger coefId than those before it.
Counted ==
  late = 0 /\ inputs # <<>> =>
    /\ Order(Latest) <= heard[curNodeId]
    /\ OneBatch => Len(inputs) <= Latest.coef

LEMMA CountedInit == Init => Counted
BY DEF Init, Counted

LEMMA CountedStore ==
  ASSUME Typed, OneLapTogether, Counted, NEW p \in Packet, Store(p)
  PROVE  Counted'
<1> SUFFICES ASSUME late' = 0
             PROVE  (Order(Latest) <= heard[curNodeId])' /\ (OneBatch => Len(inputs) <= Latest.coef)'
  BY DEF Counted
<1>1. /\ Kept(p) \in Seq(Packet) /\ inputs' \in Seq(Packet)
      /\ inputs' = Append(Kept(p), p) /\ Len(inputs') = Len(Kept(p)) + 1
      /\ Arrives(p) /\ curNodeId' = p.node
  BY StoreTyped DEF Store, Track
<1>2. Latest' = p /\ (Order(Latest))' = Order(p)
  BY <1>1 DEF Latest, Order
<1>3. /\ late = 0 /\ Order(p) > heard[p.node]
      /\ heard'[p.node] = Order(p)
  <2>1. p.node \in Node /\ heard \in [Node -> Nat] /\ late \in Nat
    BY DEF Packet, Typed, TypeOK
  <2> QED
    BY <1>1, <2>1 DEF Arrives
<1>4. Order(p) \in Nat /\ p.coef \in Nat /\ p.coef >= 1
  BY OrderInNat, SizeAssumption DEF Packet
<1>5. (Order(Latest) <= heard[curNodeId])'
  BY <1>1, <1>2, <1>3, <1>4
<1>6. ASSUME OneBatch' PROVE Len(inputs') <= p.coef
  <2>1. CASE Kept(p) = <<>>
    BY <1>1, <1>4, <2>1
  <2>2. CASE Kept(p) # <<>>
    <3>1. Kept(p) = inputs /\ inputs # <<>> /\ p.node = curNodeId
      BY <2>2 DEF Kept, BatchSwitch, NodeSwitch
    <3>2. Latest \in Packet /\ Len(inputs) \in Nat /\ Len(inputs) >= 1
      <4>1. inputs \in Seq(Packet)
        BY DEF Typed, TypeOK
      <4>2. Len(inputs) \in 1..Len(inputs)
        BY <3>1, <4>1
      <4> QED
        BY <4>1, <4>2 DEF Latest
    <3>3. \A k \in 1..Len(inputs) : inputs'[k] = inputs[k]
      BY <1>1, <3>1
    <3>4. inputs'[Len(inputs) + 1] = p
      BY <1>1, <3>1
    <3>5. \A k \in 1..Len(inputs') : inputs'[k].batch = inputs'[1].batch
      BY <1>6 DEF OneBatch
    <3>6. OneBatch /\ Latest.batch = p.batch
      BY <1>1, <3>1, <3>2, <3>3, <3>4, <3>5 DEF OneBatch, Latest
    <3>7. Order(Latest) \in Nat /\ Order(p) > Order(Latest)
      <4>1. Order(Latest) <= heard[curNodeId] /\ Order(Latest) \in Nat
        BY <1>3, <3>1, <3>2, OrderInNat DEF Counted
      <4>2. heard[curNodeId] \in Nat
        BY <3>1 DEF Packet, Typed, TypeOK
      <4> QED
        BY <1>3, <1>4, <3>1, <4>1, <4>2
    <3>8. p.coef > Latest.coef /\ Latest.coef \in Nat
      <4> DEFINE B == p.batch * (Nin + Nout)
      <4>1. B \in Nat /\ Latest.coef \in Nat
        BY <3>2, SizeAssumption DEF Packet, Batch
      <4>2. B + p.coef > B + Latest.coef
        BY <3>6, <3>7 DEF Order
      <4> HIDE DEF B
      <4> QED
        BY <1>4, <4>1, <4>2
    <3>9. Len(inputs) <= Latest.coef
      BY <1>3, <3>1, <3>6 DEF Counted
    <3> QED
      BY <1>1, <1>4, <3>1, <3>2, <3>8, <3>9
  <2> QED
    BY <2>1, <2>2
<1> QED
  BY <1>2, <1>5, <1>6

LEMMA CountedStep ==
  Typed /\ OneLapTogether /\ Counted /\ [Next]_vars => Counted'
<1> SUFFICES ASSUME Typed, OneLapTogether, Counted, [Next]_vars PROVE Counted'
  OBVIOUS
<1>1. ASSUME NEW p \in Packet, Skip(p) PROVE Counted'
  <2> SUFFICES ASSUME late' = 0, inputs' # <<>>
               PROVE  (Order(Latest) <= heard[curNodeId])' /\ (OneBatch => Len(inputs) <= Latest.coef)'
    BY DEF Counted
  <2>1. /\ inputs' = inputs /\ Arrives(p) /\ curNodeId' = p.node /\ curNodeId = p.node
        /\ Latest' = Latest
    BY <1>1 DEF Skip, Track, Done, BatchSwitch, NodeSwitch, Latest
  <2>2. late = 0 /\ heard[p.node] <= heard'[p.node]
    <3>1. /\ p.node \in Node /\ heard \in [Node -> Nat] /\ late \in Nat
          /\ Order(p) \in Nat
      BY OrderInNat DEF Packet, Typed, TypeOK
    <3> QED
      BY <2>1, <3>1 DEF Arrives
  <2>3. Order(Latest) <= heard[p.node] /\ (OneBatch => Len(inputs) <= Latest.coef)
    BY <2>1, <2>2 DEF Counted
  <2>4. Order(Latest) \in Nat /\ heard[p.node] \in Nat /\ heard'[p.node] \in Nat
    BY <1>1, <2>1, LatestFacts, OrderInNat, HearingTyped DEF Packet, Skip, Typed, TypeOK
  <2>5. (Order(Latest))' = Order(Latest)
    BY <2>1 DEF Order
  <2> QED
    BY <2>1, <2>2, <2>3, <2>4, <2>5 DEF OneBatch
<1>2. ASSUME NEW p \in Packet, Store(p) PROVE Counted'
  BY <1>2, CountedStore
<1>3. ASSUME UNCHANGED <<curNodeId, inputs, heard, late>> PROVE Counted'
  <2>1. Latest' = Latest /\ (Order(Latest))' = Order(Latest)
    BY <1>3 DEF Latest, Order
  <2> QED
    BY <1>3, <2>1 DEF Counted, OneBatch
<1>4. CASE Eliminate \/ GiveUp \/ UNCHANGED vars
  BY <1>3, <1>4 DEF Eliminate, GiveUp, vars, receiver, air
<1>5. ASSUME NEW pkts, Hand(pkts) PROVE Counted'
  BY <1>3, <1>5 DEF Hand, air
<1> QED
  BY <1>1, <1>2, <1>4, <1>5, DecodeEnds DEF Next, Receive, Collect, Overrun

\* A process that wrote past its rows has a packet too many of its batch.
Overfull == pc = "overrun" => Len(inputs) > MaxRows

LEMMA OverfullStep == Overfull /\ [Next]_vars => Overfull'
<1> SUFFICES ASSUME Overfull, [Next]_vars PROVE Overfull'
  OBVIOUS
<1>1. ASSUME NEW p \in Packet, Skip(p) PROVE Overfull'
  BY <1>1 DEF Skip, Overfull
<1>2. ASSUME NEW p \in Packet, Collect(p) \/ Overrun(p) PROVE Overfull'
  BY <1>2 DEF Collect, Overrun, Store, Overfull
<1>3. CASE Eliminate \/ GiveUp \/ UNCHANGED vars
  BY <1>3 DEF Eliminate, GiveUp, vars, receiver, Overfull
<1>4. ASSUME NEW pkts, Hand(pkts) PROVE Overfull'
  BY <1>4 DEF Hand, Overfull
<1> QED
  BY <1>1, <1>2, <1>3, <1>4, DecodeEnds DEF Next, Receive

\* inputPkts overruns only after a late or repeated packet, or when batches a
\* whole lap of ids apart are taken for one.
THEOREM RowsEnough == Spec => []RowsSuffice
<1> DEFINE Inv == Typed /\ OneLapTogether /\ Counted /\ Overfull
<1>1. Init => Inv
  <2>1. Init => Overfull
    BY DEF Init, Overfull
  <2> QED
    BY <2>1, TypedInit, LapInit, CountedInit
<1>2. Inv /\ [Next]_vars => Inv'
  BY TypedStep, LapStep, CountedStep, OverfullStep
<1>3. Inv => RowsSuffice
  <2> SUFFICES ASSUME Inv, pc = "overrun", late = 0, OneBatch PROVE FALSE
    BY DEF RowsSuffice, Typed, TypeOK
  <2>1. Len(inputs) > MaxRows
    BY DEF Overfull
  <2>2. inputs # <<>> /\ Len(inputs) \in Nat
    BY <2>1, SizeAssumption DEF Typed, TypeOK
  <2>3. Latest.coef \in 1..(Nin + Nout)
    BY <2>2, LatestFacts DEF Packet
  <2>4. Len(inputs) <= Latest.coef
    BY <2>2 DEF Counted
  <2> QED
    BY <2>1, <2>2, <2>3, <2>4, SizeAssumption
<1> QED
  BY <1>1, <1>2, <1>3, PTL DEF Spec

----------------------------------------------------------------------------
(* A batch delivered again.                                                 *)

\* A later packet is not of an earlier batch.
LEMMA LaterPacket ==
  ASSUME NEW p \in Packet, NEW q \in Packet, Order(p) > Order(q)
  PROVE  p.batch >= q.batch
<1>1. /\ p.batch \in Nat /\ q.batch \in Nat /\ Nin + Nout \in Nat
      /\ p.coef \in 1..(Nin + Nout) /\ q.coef \in 1..(Nin + Nout)
  BY SizeAssumption DEF Packet, Batch
<1>2. \A a, b, n \in Nat : a < b => a * n + n <= b * n
  <2> SUFFICES ASSUME NEW a \in Nat, NEW b \in Nat, NEW n \in Nat, a < b
               PROVE  a * n + n <= b * n
    OBVIOUS
  <2>1. PICK d \in Nat : b = a + 1 + d
    <3>1. b - a - 1 \in Nat /\ b = a + 1 + (b - a - 1)
      OBVIOUS
    <3> QED
      BY <3>1
  <2>2. b * n = a * n + n + d * n
    BY <2>1
  <2>3. d * n \in Nat /\ a * n \in Nat
    OBVIOUS
  <2> QED
    BY <2>2, <2>3
<1>3. ASSUME p.batch < q.batch PROVE FALSE
  <2> DEFINE P == p.batch * (Nin + Nout)
             Q == q.batch * (Nin + Nout)
  <2>1. P + (Nin + Nout) <= Q
    BY <1>1, <1>2, <1>3
  <2>2. P \in Nat /\ Q \in Nat
    BY <1>1
  <2>3. P + p.coef > Q + q.coef
    BY DEF Order
  <2> HIDE DEF P, Q
  <2> QED
    BY <1>1, <2>1, <2>2, <2>3
<1> QED
  BY <1>1, <1>3

\* The last packet collected is among those heard; and while nothing disturbs
\* the current node, it is of the newest batch delivered or of a later one.
InOrder ==
  /\ newest \in [Node -> Batch \cup {-1}] /\ upset \in [Node -> BOOLEAN]
  /\ inputs # <<>> => Order(Latest) <= heard[Latest.node]
  /\ \A n \in Node : newest[n] # -1 /\ ~upset[n] =>
       /\ curNodeId = n /\ inputs # <<>>
       /\ IF decoded THEN Latest.batch = newest[n] ELSE Latest.batch > newest[n]

LEMMA InOrderInit == Init => InOrder
BY DEF Init, InOrder

\* In order, at the current node, a packet is of the latest batch or a later one.
LEMMA InOrderHeard ==
  ASSUME Typed, OneLapTogether, InOrder, NEW p \in Packet, Arrives(p), NEW n \in Node,
         newest[n] # -1, ~upset'[n]
  PROVE  /\ n = p.node /\ ~upset[n] /\ Order(p) > heard[n]
         /\ curNodeId = n /\ inputs # <<>> /\ p.batch >= Latest.batch
<1>1. Order(p) > heard[p.node] /\ n = p.node /\ ~upset[n]
  BY DEF Arrives, InOrder
<1>2. curNodeId = n /\ inputs # <<>> /\ Order(Latest) <= heard[Latest.node]
  BY <1>1 DEF InOrder
<1>3. Latest \in Packet /\ Latest.node = n
  BY <1>2, LatestFacts
<1>4. Order(p) \in Nat /\ Order(Latest) \in Nat /\ heard[n] \in Nat
  BY <1>3, OrderInNat DEF Typed, TypeOK
<1>5. Order(p) > Order(Latest)
  BY <1>1, <1>2, <1>3, <1>4
<1> QED
  BY <1>1, <1>2, <1>3, <1>5, LaterPacket

LEMMA InOrderArrives ==
  ASSUME Typed, InOrder, NEW p \in Packet, Arrives(p)
  PROVE  /\ upset' \in [Node -> BOOLEAN]
         /\ Order(p) <= heard'[p.node] /\ \A n \in Node : heard[n] <= heard'[n]
<1>1. p.node \in Node /\ Order(p) \in Nat /\ heard \in [Node -> Nat]
  BY OrderInNat DEF Packet, Typed, TypeOK
<1>2. upset' \in [Node -> BOOLEAN]
  BY DEF Arrives, InOrder
<1>3. CASE Order(p) > heard[p.node]
  BY <1>1, <1>2, <1>3 DEF Arrives
<1>4. CASE ~(Order(p) > heard[p.node])
  BY <1>1, <1>2, <1>4 DEF Arrives
<1> QED
  BY <1>3, <1>4

LEMMA InOrderStep ==
  Typed /\ OneLapTogether /\ InOrder /\ [Next]_vars => InOrder'
<1> SUFFICES ASSUME Typed, OneLapTogether, InOrder, [Next]_vars PROVE InOrder'
  OBVIOUS
<1>1. ASSUME NEW p \in Packet, Skip(p) PROVE InOrder'
  <2>1. /\ Arrives(p) /\ curNodeId' = p.node /\ Done(p)
        /\ UNCHANGED <<decoded, inputs, newest>> /\ Latest' = Latest
    BY <1>1 DEF Skip, Track, Latest
  <2>2. upset' \in [Node -> BOOLEAN] /\ \A n \in Node : heard[n] <= heard'[n]
    BY <2>1, InOrderArrives
  <2>3. inputs' # <<>> => Order(Latest') <= heard'[Latest'.node]
    <3> SUFFICES ASSUME inputs # <<>> PROVE Order(Latest) <= heard'[Latest.node]
      BY <2>1
    <3>1. Latest.node \in Node /\ Order(Latest) \in Nat
      BY LatestFacts, OrderInNat
    <3>2. heard[Latest.node] \in Nat /\ heard'[Latest.node] \in Nat
      BY <2>1, <3>1, <1>1, HearingTyped DEF Skip, Typed, TypeOK
    <3> QED
      BY <2>2, <3>1, <3>2 DEF InOrder
  <2>4. ASSUME NEW n \in Node, newest'[n] # -1, ~upset'[n]
        PROVE  /\ curNodeId' = n /\ inputs' # <<>>
               /\ IF decoded' THEN Latest'.batch = newest'[n] ELSE Latest'.batch > newest'[n]
    BY <2>1, <2>4, InOrderHeard DEF InOrder
  <2>5. Order(Latest') = (Order(Latest))'
    BY DEF Order
  <2> QED
    BY <2>1, <2>2, <2>3, <2>4, <2>5 DEF InOrder
<1>2. ASSUME NEW p \in Packet, Store(p) PROVE InOrder'
  <2>1. /\ Arrives(p) /\ curNodeId' = p.node /\ ~Done(p) /\ decoded' = FALSE
        /\ newest' = newest /\ inputs' = Append(Kept(p), p) /\ Kept(p) \in Seq(Packet)
    BY <1>2, StoreTyped DEF Store, Track
  <2>2. inputs' # <<>> /\ Latest' = p
    BY <2>1 DEF Latest
  <2>3. upset' \in [Node -> BOOLEAN] /\ Order(p) <= heard'[p.node]
    BY <2>1, InOrderArrives
  <2>4. ASSUME NEW n \in Node, newest'[n] # -1, ~upset'[n]
        PROVE  curNodeId' = n /\ p.batch > newest'[n]
    <3>1. /\ n = p.node /\ ~upset[n] /\ curNodeId = n /\ inputs # <<>>
          /\ p.batch >= Latest.batch /\ newest[n] # -1
      BY <2>1, <2>4, InOrderHeard
    <3>2. /\ Latest.batch \in Int /\ p.batch \in Int /\ newest[n] \in Int
          /\ IdOf(Latest) = curBatchId
      BY <3>1, LatestFacts, SizeAssumption DEF Packet, Batch, InOrder
    <3>3. CASE decoded
      <4>1. IdOf(p) # IdOf(Latest)
        BY <2>1, <3>1, <3>2, <3>3 DEF Done, BatchSwitch, NodeSwitch
      <4>2. p.batch # Latest.batch
        BY <4>1 DEF IdOf
      <4> QED
        BY <2>1, <3>1, <3>2, <3>3, <4>2 DEF InOrder
    <3>4. CASE ~decoded
      BY <2>1, <3>1, <3>2, <3>4 DEF InOrder
    <3> QED
      BY <3>3, <3>4
  <2>5. Order(p) = (Order(Latest))'
    BY <2>2 DEF Order
  <2> QED
    BY <2>1, <2>2, <2>3, <2>4, <2>5 DEF InOrder
<1>3. CASE Eliminate \/ GiveUp \/ UNCHANGED vars
  <2>1. /\ UNCHANGED <<curNodeId, decoded, inputs, heard, newest, upset>>
        /\ Latest' = Latest
    BY <1>3 DEF Eliminate, GiveUp, vars, receiver, air, Latest
  <2>2. (Order(Latest))' = Order(Latest)
    BY <2>1 DEF Order
  <2> QED
    BY <2>1, <2>2 DEF InOrder
<1>4. ASSUME pc = "decode", NEW pkts, Hand(pkts) PROVE InOrder'
  <2>1. /\ UNCHANGED <<curNodeId, inputs, heard>> /\ Latest' = Latest
        /\ pc = "decode" /\ decoded' = TRUE
    BY <1>4 DEF Hand, air, Latest
  <2>2. inputs # <<>> /\ ~decoded
    BY <2>1, SizeAssumption DEF Typed, TypeOK, Decoding
  <2>3. Latest.node = curNodeId /\ Latest.node \in Node /\ Latest.batch \in Batch
    BY <2>2, LatestFacts
  <2>4. (Order(Latest))' = Order(Latest)
    BY <2>1 DEF Order
  <2>5. CASE Latest.batch > newest[Latest.node]
    <3>1. /\ newest' = [newest EXCEPT ![Latest.node] = Latest.batch]
          /\ upset' = [upset EXCEPT ![Latest.node] = FALSE]
      BY <1>4, <2>5 DEF Hand
    <3> QED
      BY <2>1, <2>2, <2>3, <2>4, <3>1 DEF InOrder
  <2>6. CASE ~(Latest.batch > newest[Latest.node])
    <3>1. newest' = newest /\ upset' = upset
      BY <1>4, <2>6 DEF Hand
    <3> QED
      BY <2>1, <2>2, <2>3, <2>4, <2>6, <3>1 DEF InOrder
  <2> QED
    BY <2>5, <2>6
<1> QED
  BY <1>1, <1>2, <1>3, <1>4, DecodeEnds DEF Next, Receive, Collect, Overrun

\* Without another node or a late packet in between, a batch is delivered once,
\* and batches in the order in which they were sent.
THEOREM AgainOnlyIfDisturbed == Spec => AgainOnlyIfUpset
<1> DEFINE Fresh ==
  ~decoded /\ decoded' => Latest.batch > newest[Latest.node] \/ upset[Latest.node]
<1>1. Init => Typed /\ OneLapTogether /\ InOrder
  BY TypedInit, LapInit, InOrderInit
<1>2. (Typed /\ OneLapTogether /\ InOrder) /\ [Next]_vars => (Typed /\ OneLapTogether /\ InOrder)'
  BY TypedStep, LapStep, InOrderStep
<1>3. Typed /\ OneLapTogether /\ InOrder /\ [Next]_vars => [Fresh]_vars
  <2> SUFFICES ASSUME Typed, OneLapTogether, InOrder, Next, ~decoded, decoded',
                      ~upset[Latest.node]
               PROVE  Latest.batch > newest[Latest.node]
    OBVIOUS
  <2>1. pc = "decode"
    BY DecodeEnds DEF Next, Receive, Skip, Done, Collect, Overrun, Store, Eliminate, receiver
  <2>2. inputs # <<>>
    BY <2>1, SizeAssumption DEF Typed, TypeOK, Decoding
  <2>3. Latest.node \in Node /\ Latest.batch \in Nat
    BY <2>2, LatestFacts DEF Batch
  <2> QED
    BY <2>2, <2>3 DEF InOrder
<1> QED
  BY <1>1, <1>2, <1>3, PTL DEF Spec, AgainOnlyIfUpset
=============================================================================
