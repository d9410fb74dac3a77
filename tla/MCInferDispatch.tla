-------------------------- MODULE MCInferDispatch --------------------------
(* Instances of InferDispatch for TLC. *)
EXTENDS InferDispatch

OneRaises == {<<0, 1>>}
FirstBroken == {1}
ThirdUnreadable == {3}
\* The ring of the first task overruns.
FirstOverruns == [t \in Tasks |-> IF t = 0 THEN Capacity + 1 ELSE Capacity]
=============================================================================
