----------------------------- MODULE FrameQueue -----------------------------
(***************************************************************************)
(* What the shared-memory ring promises to the consumers that read it with *)
(* InferQueue.get: a bounded first-in-first-out queue per consumer.  A     *)
(* frame is put in every queue at once; a queue that is full gives up its  *)
(* oldest frame, and a frame is lost in no other way.                      *)
(***************************************************************************)
EXTENDS Integers, Sequences

CONSTANTS
  Readers,    \* the consumers
  Capacity,   \* frames a queue can hold
  Broken      \* frames a consumer throws away when it takes them

VARIABLES
  queue,      \* the frames each reader has still to take, oldest first
  newest,     \* number of frames put so far
  taken       \* the frame each reader was last given

absVars == <<queue, newest, taken>>

AbsInit ==
  /\ queue = [r \in Readers |-> <<>>]
  /\ newest = 0
  /\ taken = [r \in Readers |-> 0]

AbsPut ==
  /\ \A r \in Readers : Len(queue[r]) < Capacity
  /\ newest' = newest + 1
  /\ queue' = [r \in Readers |-> Append(queue[r], newest')]
  /\ UNCHANGED taken

AbsDrop(r) ==
  /\ Len(queue[r]) = Capacity
  /\ queue' = [queue EXCEPT ![r] = Tail(queue[r])]
  /\ UNCHANGED <<newest, taken>>

AbsTake(r) ==
  /\ queue[r] # <<>>
  /\ queue' = [queue EXCEPT ![r] = Tail(queue[r])]
  /\ IF Head(queue[r]) \in Broken
     THEN UNCHANGED taken
     ELSE taken' = [taken EXCEPT ![r] = Head(queue[r])]
  /\ UNCHANGED newest

AbsNext == AbsPut \/ \E r \in Readers : AbsDrop(r) \/ AbsTake(r)

AbsSpec == AbsInit /\ [][AbsNext]_absVars
=============================================================================
