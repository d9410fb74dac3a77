----------------------------- MODULE ModelCall -----------------------------
(***************************************************************************)
(* What the scheduler relies on when it hands a task to a model process: a *)
(* call of one model at a time.  The model called, and no other, takes one *)
(* readable frame of its task's ring, one that nobody has taken before,    *)
(* runs on it and answers once; or it fails while it runs, or at a frame   *)
(* that cannot be read.                                                    *)
(***************************************************************************)
EXTENDS Integers

CONSTANTS
  Models,    \* the model processes, by task and variant
  Rings,     \* the rings of frames, one for a task
  Nobody,    \* the callee when there is no call
  Broken,    \* frames that are thrown away by whoever takes them
  Unreadable \* frames that end whoever takes them

VARIABLES
  callee,    \* the model that has been called
  phase,     \* how far the call has come
  left       \* the newest frame that has left each ring

callVars == <<callee, phase, left>>

AbsInit ==
  /\ callee = Nobody
  /\ phase = "none"
  /\ left = [r \in Rings |-> 0]

Move(from, to) == phase = from /\ phase' = to

AbsCall(m) ==
  /\ Move("none", "called")
  /\ callee' = m
  /\ UNCHANGED left

AbsStart == Move("called", "fetching") /\ UNCHANGED <<callee, left>>

AbsFetch ==
  /\ Move("fetching", "running")
  /\ left' = [left EXCEPT ![callee[1]] = @ + 1]
  /\ left'[callee[1]] \notin Broken
  /\ UNCHANGED callee

AbsAnswer == Move("running", "answered") /\ UNCHANGED <<callee, left>>

AbsFail ==
  /\ \/ Move("running", "failed")
     \/ Move("fetching", "failed") /\ left[callee[1]] + 1 \in Unreadable
  /\ UNCHANGED <<callee, left>>

AbsReturn ==
  /\ Move("answered", "none")
  /\ callee' = Nobody
  /\ UNCHANGED left

\* A frame leaves its ring without being run on: the ring is full, the
\* scheduler drops it, or it is broken.
AbsLose(r) ==
  /\ left' = [left EXCEPT ![r] = @ + 1]
  /\ UNCHANGED <<callee, phase>>

AbsNext ==
  \/ \E m \in Models : AbsCall(m)
  \/ AbsStart \/ AbsFetch \/ AbsAnswer \/ AbsFail \/ AbsReturn
  \/ \E r \in Rings : AbsLose(r)

AbsSpec == AbsInit /\ [][AbsNext]_callVars
=============================================================================
