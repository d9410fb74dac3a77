\* Batch ids modulo two, so that batch 2 is a lap after batch 0.
CONSTANTS
  n1 = n1
  n2 = n2
  Node = {n1, n2}
  NoNode = none
  IdRange = 2
  HistorySize = 2
  Nin = 2
  Nout = 1
  MaxRows = 3
  Symbol = {0, 1, 2, 3}
  Zero = 0
  One = 1
  Plus <- Add
  Times <- Mul
  OneOver <- Reciprocal
  Dot <- SumOfProducts
  Parity <- Coefficients
  Source <- Packets
  MaxBatch = 2
  MaxLate = 1
SPECIFICATION Spec
INVARIANTS RowsSuffice DecodeRecovers NotSitting
PROPERTIES AgainOnlyIfUpset
\* At the bound of batches nothing more arrives, and a process that overran its
\* rows is not followed.
CHECK_DEADLOCK FALSE
