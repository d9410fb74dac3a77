--------------------------- MODULE MCV2xReceiver ---------------------------
(* Two lampposts, three batches of two sources and one parity packet, over  *)
(* the field of four symbols.                                               *)
EXTENDS V2xReceiver, FiniteSetsExt

CONSTANTS n1, n2

\* Addition is exclusive or; 1, 2, 3 are the powers of 2: 1, 2, 2*2.
Xor == <<<<0, 1, 2, 3>>, <<1, 0, 3, 2>>, <<2, 3, 0, 1>>, <<3, 2, 1, 0>>>>
Add(a, b) == Xor[a + 1][b + 1]
Mul(a, b) == IF a = 0 \/ b = 0 THEN 0 ELSE ((a + b - 2) % 3) + 1
Reciprocal(a) == IF a = 1 THEN 1 ELSE 5 - a
SumOfProducts(u, v) ==
  MapThenFoldSet(Add, 0, LAMBDA j : Mul(u[j], v[j]), LAMBDA s : CHOOSE j \in s : TRUE, DOMAIN u)

\* The parity packet of batch 0 only repeats a source; the others combine both.
Coefficients == [b \in 0..2 |-> <<IF b = 0 THEN <<0, 2>> ELSE <<b, 3>>>>]

Packets == [n \in {n1, n2} |-> [b \in 0..2 |-> IF n = n1 THEN <<b, 3>> ELSE <<1, b>>]]
=============================================================================
