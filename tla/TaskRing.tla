------------------------------ MODULE TaskRing ------------------------------
(***************************************************************************)
(* The ring of one task as its reader sees it, and as the scheduler's      *)
(* specification assumes it: its frames are gone+1..made.  A put first     *)
(* makes room, if the ring is full, and then publishes its frame; frames   *)
(* are taken in between, and lost in no other way.                         *)
(***************************************************************************)
EXTENDS Integers

CONSTANT Capacity   \* frames the ring holds

VARIABLES
  made,      \* newest frame in the ring
  gone,      \* newest frame no longer in it
  putting    \* room has been made for a frame that is not yet published

ringVars == <<made, gone, putting>>

RingInit == made = 0 /\ gone = 0 /\ putting = FALSE

MakeRoom ==
  /\ ~ putting
  /\ putting' = TRUE
  /\ gone' = IF made - gone = Capacity THEN gone + 1 ELSE gone
  /\ UNCHANGED made

Publish ==
  /\ putting
  /\ putting' = FALSE
  /\ made' = made + 1
  /\ UNCHANGED gone

TakeOldest ==
  /\ gone < made
  /\ gone' = gone + 1
  /\ UNCHANGED <<made, putting>>

RingNext == MakeRoom \/ Publish \/ TakeOldest

RingSpec == RingInit /\ [][RingNext]_ringVars
=============================================================================
