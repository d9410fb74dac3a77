---------------------------- MODULE V2xReceiver ----------------------------
(***************************************************************************)
(* The receiver of coded broadcasts (v2x_receiver.cpp, LDPC::decode and    *)
(* FiniteField::gaussianSolve).  A lamppost sends batches: Nin source      *)
(* packets, then Nout random combinations of them.  The receiver collects  *)
(* the packets of one batch at a time and tries to solve for the sources   *)
(* as soon as it has Nin packets, and again after each further one.        *)
(*                                                                         *)
(* The air loses packets, mixes those of several lampposts, and may        *)
(* deliver a few packets late or twice (the "misorder" of                  *)
(* v2x_receiver.cpp:46).                                                   *)
(* Gaussian elimination is one step per column; nothing is received        *)
(* meanwhile.  One symbol stands for a payload: all symbols of a packet    *)
(* are combined alike.                                                     *)
(***************************************************************************)
EXTENDS Integers, Sequences

CONSTANTS
  Node, NoNode,  \* lampposts; NoNode is curNodeId -1
  IdRange,       \* a batch id is compared in 8 bits: 256 in the code
  HistorySize,   \* kMaxHistorySize, 5 in the code
  Nin, Nout,     \* source and parity packets of a batch
  MaxRows,       \* kMaxCodingSize, 100 in the code: rows of the matrices
  Symbol, Zero, One, Plus(_, _), Times(_, _), OneOver(_),  \* FiniteField
  Dot(_, _),     \* mulMat: the sum of the products of two vectors
  Parity,        \* the rows that psrand, seeded with the batch, gives
  Source,        \* the source packets of each node and batch
  MaxBatch,      \* bound: batches 0..MaxBatch are sent
  MaxLate        \* bound: packets that arrive late or twice

Batch == 0..MaxBatch
Vector(n) == [1..n -> Symbol]
VecSum(u, v) == [j \in DOMAIN u |-> Plus(u[j], v[j])]
Scaled(c, u) == [j \in DOMAIN u |-> Times(c, u[j])]
Unit(n, k) == [j \in 1..n |-> IF j = k THEN One ELSE Zero]

ASSUME NodeAssumption == NoNode \notin Node

\* The rows suffice for one batch: the sender has no more (v2x_sender.cpp:11).
ASSUME SizeAssumption ==
  /\ Nin \in Nat \ {0} /\ Nout \in Nat
  /\ MaxRows \in Nat /\ MaxRows >= Nin + Nout
  /\ IdRange \in Nat \ {0} /\ HistorySize \in Nat \ {0}
  /\ MaxBatch \in Nat /\ MaxLate \in Nat

ASSUME CodeAssumption ==
  /\ Parity \in [Batch -> [1..Nout -> Vector(Nin)]]
  /\ Source \in [Node -> [Batch -> Vector(Nin)]]

\* A field of characteristic 2, as the code is written for: where it has to
\* subtract a row of invMat it adds it.
ASSUME FieldAssumption ==
  /\ Zero \in Symbol /\ One \in Symbol /\ Zero # One
  /\ \A a, b \in Symbol : /\ Plus(a, b) \in Symbol /\ Times(a, b) \in Symbol
                          /\ Plus(a, b) = Plus(b, a) /\ Times(a, b) = Times(b, a)
  /\ \A a, b, c \in Symbol : Plus(Plus(a, b), c) = Plus(a, Plus(b, c))
  /\ \A a \in Symbol : /\ Plus(a, Zero) = a /\ Plus(a, a) = Zero
                       /\ Times(a, Zero) = Zero /\ Times(a, One) = a
  /\ \A a \in Symbol \ {Zero} :
       /\ OneOver(a) \in Symbol \ {Zero}
       /\ Times(OneOver(a), a) = One
  /\ \A a, b \in Symbol : a # Zero => Times(OneOver(a), Times(a, b)) = b

\* What a sum of products satisfies.
ASSUME DotAssumption ==
  \A n \in Nin..MaxRows :
    /\ \A u, x \in Vector(n) : Dot(u, x) \in Symbol
    /\ \A u, v, x \in Vector(n) :
         Dot(VecSum(u, v), x) = Plus(Dot(u, x), Dot(v, x))
    /\ \A c \in Symbol, u, x \in Vector(n) :
         Dot(Scaled(c, u), x) = Times(c, Dot(u, x))
    /\ \A k \in 1..n, x \in Vector(n) : Dot(Unit(n, k), x) = x[k]
    /\ \A u, v, x \in Vector(n) :
         (\A j \in 1..n : u[j] = v[j] \/ x[j] = Zero) => Dot(u, x) = Dot(v, x)

Packet == [node : Node, batch : Batch, coef : 1..(Nin + Nout)]

\* A packet is compared by the low bits of its batch.
IdOf(p) == p.batch % IdRange
Unset == IdRange - 1       \* curBatchId = -1, in 8 bits

\* The place of a packet in the order in which a lamppost sends.
Order(p) == p.batch * (Nin + Nout) + p.coef

VARIABLES
  curNodeId, curBatchId, history, decoded,  \* of the receiver
  inputs,        \* inputPkts[0..pktNum-1]
  output,        \* outputPkts, as last delivered
  pc,            \* "recv", "decode", or "overrun": more packets than rows
  mat, invMat,   \* the matrices of gaussianElimination
  col,           \* its i
  heard,         \* the latest packet heard of each node, by its Order
  late,          \* how many packets came late
  newest,        \* history variable: the newest batch delivered, by node
  upset          \* history variable: since then another node or a late
                 \* packet was heard, by node

receiver == <<curNodeId, curBatchId, history, decoded, inputs>>
air == <<heard, late>>
vars == <<receiver, output, pc, mat, invMat, col, air, newest, upset>>

Init ==
  /\ curNodeId = NoNode /\ curBatchId = Unset /\ history = <<>>
  /\ decoded = FALSE /\ inputs = <<>> /\ output = <<>>
  /\ pc = "recv" /\ mat = <<>> /\ invMat = <<>> /\ col = 0
  /\ heard = [n \in Node |-> 0] /\ late = 0
  /\ newest = [n \in Node |-> -1] /\ upset = [n \in Node |-> FALSE]

----------------------------------------------------------------------------
(* LDPC::decode: which linear equation a packet stands for.                 *)

\* The row of G for a coefId, seeded with a batch.
G(batch, coef) == IF coef <= Nin THEN Unit(Nin, coef) ELSE Parity[batch][coef - Nin]

\* What the sender put into a packet.
Payload(p) == Dot(G(p.batch, p.coef), Source[p.node][p.batch])

\* A: the whole batch is taken to be that of the first packet.
Equations(pkts) == [k \in 1..Len(pkts) |-> G(pkts[1].batch, pkts[k].coef)]

----------------------------------------------------------------------------
(* The loop of recv.                                                        *)

\* The air: a packet later than all heard of its node, or a late one.
Arrives(p) ==
  IF Order(p) > heard[p.node]
  THEN /\ heard' = [heard EXCEPT ![p.node] = Order(p)]
       /\ upset' = [n \in Node |-> upset[n] \/ n # p.node]
       /\ UNCHANGED late
  ELSE /\ late < MaxLate
       /\ late' = late + 1
       /\ upset' = [n \in Node |-> TRUE]
       /\ UNCHANGED heard

NodeSwitch(p) == p.node # curNodeId
BatchSwitch(p) == NodeSwitch(p) \/ IdOf(p) # curBatchId

\* The batch id and history that the test for a new batch finds.
IdBefore(p) == IF NodeSwitch(p) THEN Unset ELSE curBatchId
HistoryBefore(p) == IF NodeSwitch(p) THEN <<>> ELSE history

\* The loop over history that comes first skips nothing: its continue
\* belongs to the inner loop.
Remember(h, id) == IF Len(h) + 1 >= HistorySize THEN Tail(Append(h, id)) ELSE Append(h, id)

Track(p) ==
  /\ curNodeId' = p.node
  /\ curBatchId' = IdOf(p)
  /\ history' = IF IdOf(p) # IdBefore(p)
                THEN Remember(HistoryBefore(p), IdBefore(p)) ELSE HistoryBefore(p)

\* mutant: packets are kept when the node changes and the batch id does not
KeptOfId(p) == IF IdOf(p) # curBatchId THEN <<>> ELSE inputs

\* inputPkts before the packet is added.
Kept(p) == IF BatchSwitch(p) THEN <<>> ELSE inputs

\* mutant: a batch is not known to be decoded once it is delivered
NeverDone(p) == FALSE
Done(p) == decoded /\ ~BatchSwitch(p)

\* A packet of a batch that was delivered is not looked at.
Skip(p) ==
  /\ pc = "recv"
  /\ Arrives(p)
  /\ Track(p)
  /\ Done(p)
  /\ UNCHANGED <<decoded, inputs, output, pc, mat, invMat, col, newest>>

\* mutant: only the first Nin packets are tried
EnoughOnce(pkts) == Len(pkts) = Nin
Enough(pkts) == Len(pkts) >= Nin

Store(p) ==
  /\ pc = "recv"
  /\ Arrives(p)
  /\ Track(p)
  /\ ~Done(p)
  /\ decoded' = FALSE
  /\ inputs' = Append(Kept(p), p)
  /\ UNCHANGED <<output, newest>>

Collect(p) ==
  /\ Store(p)
  /\ Len(inputs') <= MaxRows
  /\ IF Enough(inputs')
     THEN /\ pc' = "decode"
          /\ mat' = Equations(inputs')
          /\ invMat' = [k \in 1..Len(inputs') |-> Unit(Len(inputs'), k)]
          /\ col' = 1
     ELSE UNCHANGED <<pc, mat, invMat, col>>

\* Nothing compares pktNum with the rows: the packet is copied to wherever the
\* word behind the row pointers points.  No step of the process is described
\* after that.
Overrun(p) ==
  /\ Store(p)
  /\ Len(inputs') > MaxRows
  /\ pc' = "overrun"
  /\ UNCHANGED <<mat, invMat, col>>

Receive == \E p \in Packet : Skip(p) \/ Collect(p) \/ Overrun(p)

----------------------------------------------------------------------------
(* FiniteField::gaussianElimination, one column at a time.                  *)

Rows == 1..Len(inputs)

\* The first row from col on that is not zero in this column.
IsPivot(j) ==
  /\ j \in Rows /\ j >= col
  /\ mat[j][col] # Zero
  /\ \A k \in Rows : k >= col /\ k < j => mat[k][col] = Zero

\* Row k of a matrix whose rows col and j have been swapped.
Swapped(m, j, k) == m[IF k = col THEN j ELSE IF k = j THEN col ELSE k]

\* mutant: only the rows below are cleared
FactorBelow(j, k) == IF k < col THEN Zero ELSE Swapped(mat, j, k)[col]
Factor(j, k) == Swapped(mat, j, k)[col]

\* The pivot's row divided by its pivot; the columns before col are zero.
PivotRow(j) ==
  [i \in 1..Nin |-> IF i >= col THEN Times(OneOver(mat[j][col]), mat[j][i]) ELSE mat[j][i]]
PivotInv(j) == Scaled(OneOver(mat[j][col]), invMat[j])

ClearedRow(j, k) ==
  [i \in 1..Nin |-> IF i >= col THEN Plus(Swapped(mat, j, k)[i], Times(Factor(j, k), PivotRow(j)[i]))
                                ELSE Swapped(mat, j, k)[i]]
ClearedInv(j, k) == VecSum(Swapped(invMat, j, k), Scaled(Factor(j, k), PivotInv(j)))

EliminateWith(j) ==
  /\ mat' = [k \in Rows |-> IF k = col THEN PivotRow(j) ELSE ClearedRow(j, k)]
  /\ invMat' = [k \in Rows |-> IF k = col THEN PivotInv(j) ELSE ClearedInv(j, k)]

\* Two packets with one coefId share one row of G (A[i] = G[hdr->coefId]), and
\* clearing the column of the one zeroes the pivot's row.
Aliased ==
  \E j, k \in Rows : j # k /\ inputs[j].coef = inputs[k].coef

Eliminate ==
  /\ pc = "decode" /\ ~Aliased /\ col <= Nin
  /\ \E j \in Rows : IsPivot(j) /\ EliminateWith(j)
  /\ col' = col + 1
  /\ UNCHANGED <<receiver, output, pc, air, newest, upset>>

Freed == mat' = <<>> /\ invMat' = <<>> /\ col' = 0

\* Rank below Nin: recv goes on to the next packet.
GiveUp ==
  /\ pc' = "recv"
  /\ Freed
  /\ UNCHANGED <<receiver, output, air, newest, upset>>

Fail ==
  /\ pc = "decode" /\ ~Aliased /\ col <= Nin
  /\ \A j \in Rows : ~IsPivot(j)
  /\ GiveUp

\* gaussianSolve: X[i] is row i of invMat times Y.
Solution == [i \in 1..Nin |-> Dot(invMat[i], [k \in Rows |-> Payload(inputs[k])])]

Latest == inputs[Len(inputs)]

Hand(pkts) ==
  /\ output' = pkts
  /\ decoded' = TRUE
  /\ pc' = "recv"
  /\ Freed
  /\ IF Latest.batch > newest[Latest.node]
     THEN /\ newest' = [newest EXCEPT ![Latest.node] = Latest.batch]
          /\ upset' = [upset EXCEPT ![Latest.node] = FALSE]
     ELSE UNCHANGED <<newest, upset>>
  /\ UNCHANGED <<curNodeId, curBatchId, history, inputs, air>>

Deliver == pc = "decode" /\ ~Aliased /\ col > Nin /\ Hand(Solution)

\* Elimination over shared rows: the rank may come out either way, and what
\* is delivered need not be what was sent; <<>> stands for it.
Spoil == pc = "decode" /\ Aliased /\ (GiveUp \/ Hand(<<>>))

Next == Receive \/ Eliminate \/ Fail \/ Deliver \/ Spoil

Spec == Init /\ [][Next]_vars

----------------------------------------------------------------------------
(* Properties.                                                             *)

TypeOK ==
  /\ curNodeId \in Node \cup {NoNode}
  /\ curBatchId \in 0..(IdRange - 1)
  /\ decoded \in BOOLEAN
  /\ inputs \in Seq(Packet)
  /\ pc \in {"recv", "decode", "overrun"}
  /\ pc # "overrun" => Len(inputs) <= MaxRows
  /\ pc = "decode" =>
       /\ mat \in [Rows -> Vector(Nin)]
       /\ invMat \in [Rows -> Vector(Len(inputs))]
       /\ col \in 1..(Nin + 1)
  /\ heard \in [Node -> Nat]
  /\ late \in 0..MaxLate

\* The packets handed to the decoder are of the current node and of one batch
\* id; so packets of two batches meet only when those batches are a whole lap
\* of ids apart, and nothing of that node was heard between them
\* (v2x_receiver.cpp:37-61).
OneLapTogether ==
  \A k \in 1..Len(inputs) :
    /\ inputs[k].node = curNodeId
    /\ IdOf(inputs[k]) = curBatchId

OneBatch == \A k \in 1..Len(inputs) : inputs[k].batch = inputs[1].batch

\* The rows of inputPkts suffice as long as no packet came late or twice, and
\* packets of batches a whole lap of ids apart are not taken for one, whatever is
\* lost and however the lampposts alternate (v2x_receiver.cpp:37-63).
RowsSuffice == pc = "overrun" => late > 0 \/ ~OneBatch

\* What is delivered is what was sent, unless packets of batches a whole lap of
\* ids apart were taken for one batch, or a packet came twice
\* (LDPC::decode, FiniteField.cpp:197-258).
DecodeRecovers ==
  decoded /\ OneBatch /\ ~Aliased => output = Source[inputs[1].node][inputs[1].batch]

\* A decode fails only if the packets do not determine the sources: some other
\* sources, not all zero, differ from nothing in all of these packets.
Undetermined(pkts) ==
  \E x \in Vector(Nin) :
    /\ x # [i \in 1..Nin |-> Zero]
    /\ \A k \in 1..Len(pkts) : Dot(Equations(pkts)[k], x) = Zero

\* The receiver never sits on packets that it could solve: between two packets,
\* an undelivered batch of Nin packets or more is undetermined, or has two
\* packets of one coefId.
NotSitting ==
  pc = "recv" /\ ~decoded /\ Len(inputs) >= Nin => Undetermined(inputs) \/ Aliased

\* A batch comes a second time, or after a newer one, only if since the newest
\* delivery another node or a late packet was heard: the history that should
\* prevent it has no effect (v2x_receiver.cpp:44-49).
AgainOnlyIfUpset ==
  [][~decoded /\ decoded' => Latest.batch > newest[Latest.node] \/ upset[Latest.node]]_vars
=============================================================================
