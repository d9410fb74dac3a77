----------------------------- MODULE EdfBackoff -----------------------------
(***************************************************************************)
(* Time in the local scheduler (local_scheduler.py): earliest deadline     *)
(* first over the task rings, with a back-off to the small model when the  *)
(* full one would delay the next frame; and the rate limit of              *)
(* pre_processing.py, which decides what the rings hold.                   *)
(*                                                                         *)
(* Frames are their timestamps, times are integers.  Reading a ring and    *)
(* running a model are one step each, which InferDispatch justifies; the   *)
(* clock may advance between any two steps, except where it may not:       *)
(* between the choice of a model and its start (Overhead), and beyond the  *)
(* profiled time of a run.                                                 *)
(***************************************************************************)
EXTENDS Integers, Sequences, FiniteSets

CONSTANTS
  TaskNum,   \* task_num: tasks are 0 .. TaskNum - 1
  Deadline,  \* ddl_all, by task
  Profile,   \* profiles: the time of variant 0 (full) and 1 (small), by task
  PostTime,  \* posttime, by task
  Overhead,  \* most time from choosing a variant to starting it, by task
  Capacity,  \* frames a ring holds: max_length - 1
  Methods,   \* values of method_selection
  Second,    \* units of time in a second
  Infinity,  \* float("inf"): more than any remaining time
  MaxTime    \* bound: the clock

Tasks    == 0..(TaskNum - 1)
Variants == {0, 1}
NoTask   == -1

ASSUME TaskNumAssumption == TaskNum \in Nat \ {0}
ASSUME TimesAssumption ==
  /\ Deadline \in [Tasks -> Nat \ {0}]
  /\ Profile \in [Tasks -> [Variants -> Nat \ {0}]]
  /\ PostTime \in [Tasks -> Nat]
  /\ Overhead \in [Tasks -> Nat]
  /\ Second \in Nat \ {0} /\ MaxTime \in Nat \ {0}
  /\ Infinity \in Nat /\ \A t \in Tasks : Deadline[t] < Infinity
\* As in every configuration of the repository: the small model is no slower,
\* and a deadline is long enough for it.
ASSUME ProfileAssumption ==
  \A t \in Tasks : Profile[t][1] <= Profile[t][0] /\ Profile[t][1] <= Deadline[t]
ASSUME CapacityAssumption == Capacity \in Nat /\ Capacity >= 2
ASSUME MethodsAssumption == Methods \subseteq {1, 2, 3}

VARIABLES
  clock,        \* time.time(), at least 1: 0 is nobody's timestamp
  lastStamp,    \* last_stamp of the task's pre-processing, 0 for its 99999
  inHand,       \* the frame it is processing, 0 if none
  ring,         \* the timestamps in the task's ring
  method,       \* method_selection
  pc,           \* the scheduler's next step
  at,           \* the task its scan is at
  startTime,    \* start_time
  nextStart,    \* next_start_time
  selected,     \* selected_task
  nextSelected, \* next_selected_task
  nextRemain,   \* next_remain_time
  selectTime,   \* cur_time of the selection
  variant,      \* selected_mv
  recvTime,     \* recv_time; before it is set, the time of the choice
  result        \* what write_to_results was last called with, until the next scan

preVars   == <<lastStamp, inHand>>
scanVars  == <<at, startTime, nextStart>>
nextVars  == <<nextSelected, nextRemain>>
runVars   == <<variant, recvTime>>
vars      == <<clock, preVars, ring, method, pc, scanVars, selected, nextVars,
               selectTime, runVars, result>>

NoResult == [kind |-> "none", task |-> 0, variant |-> 0, missed |-> FALSE]

Init ==
  /\ clock = 1
  /\ lastStamp = [t \in Tasks |-> 0]
  /\ inHand = [t \in Tasks |-> 0]
  /\ ring = [t \in Tasks |-> <<>>]
  /\ method \in Methods
  /\ pc = "scan"
  /\ at = 0
  /\ startTime = [t \in Tasks |-> 0]
  /\ nextStart = [t \in Tasks |-> 0]
  /\ selected = 0
  /\ nextSelected = NoTask
  /\ nextRemain = 0
  /\ selectTime = 0
  /\ variant = 0
  /\ recvTime = 0
  /\ result = NoResult

Step(from, to) == pc = from /\ pc' = to

-----------------------------------------------------------------------------
(* Time                                                                    *)

Limit ==
  CASE pc = "dispatch" -> recvTime + Overhead[selected]
    [] pc = "finish"   -> recvTime + Profile[selected][variant]
    [] OTHER           -> MaxTime

Tick ==
  /\ clock < MaxTime
  /\ clock < Limit
  /\ clock' = clock + 1
  /\ UNCHANGED <<preVars, ring, method, pc, scanVars, selected, nextVars,
                 selectTime, runVars, result>>

-----------------------------------------------------------------------------
(* Pre-processing: a sensor frame s is let through if a whole deadline     *)
(* lies between it and the last one; others leave no trace.                *)

AnyFrame(t, s) == s > lastStamp[t]     \* mutant: no rate limit
InTime(t, s)   == lastStamp[t] = 0 \/ s - lastStamp[t] >= Deadline[t]

Accept(t, s) ==
  /\ inHand[t] = 0
  /\ s <= clock
  /\ InTime(t, s)
  /\ lastStamp' = [lastStamp EXCEPT ![t] = s]
  /\ inHand' = [inHand EXCEPT ![t] = s]
  /\ UNCHANGED <<clock, ring, method, pc, scanVars, selected, nextVars,
                 selectTime, runVars, result>>

\* CrossQueue.put: the oldest frame makes room for this one.
Put(t, q) == Append(IF Len(q) = Capacity THEN Tail(q) ELSE q, inHand[t])

PutFrame(t) ==
  /\ inHand[t] # 0
  /\ ring' = [ring EXCEPT ![t] = Put(t, @)]
  /\ inHand' = [inHand EXCEPT ![t] = 0]
  /\ UNCHANGED <<clock, lastStamp, method, pc, scanVars, selected, nextVars,
                 selectTime, runVars, result>>

-----------------------------------------------------------------------------
(* _select_model4mv_backoff, _select_model: scan the rings, then select    *)

ScanTask ==
  /\ pc = "scan"
  /\ at < TaskNum
  /\ at' = at + 1
  /\ startTime' = [startTime EXCEPT ![at] = IF ring[at] = <<>> THEN 0 ELSE ring[at][1]]
  /\ nextStart' = [nextStart EXCEPT ![at] = IF Len(ring[at]) < 2 THEN 0 ELSE ring[at][2]]
  /\ result' = NoResult
  /\ UNCHANGED <<clock, preVars, ring, method, pc, selected, nextVars,
                 selectTime, runVars>>

Waiting == {t \in Tasks : startTime[t] # 0}

ScanAllEmpty ==
  /\ pc = "scan" /\ at = TaskNum
  /\ Waiting = {}
  /\ at' = 0
  /\ UNCHANGED <<clock, preVars, ring, method, pc, startTime, nextStart,
                 selected, nextVars, selectTime, runVars, result>>

\* np.argmin: the first of the least.
ArgMin(f) ==
  CHOOSE t \in Tasks : \A u \in Tasks : f[t] < f[u] \/ (f[t] = f[u] /\ t <= u)

\* The time left until a frame's deadline; 0 is no frame.
AgeOnly(t, stamp) == IF stamp = 0 THEN Infinity ELSE stamp - clock   \* mutant: oldest first
Remain(t, stamp) ==
  IF stamp = 0 THEN Infinity ELSE Deadline[t] + stamp - clock

RemainTimes == [t \in Tasks |-> Remain(t, startTime[t])]

\* The same once the selected frame is gone.  Late frames count as none.
NextUnchanged(sel) == RemainTimes     \* mutant: the selected frame stays in
NextRemainTimes(sel) ==
  LET left == [RemainTimes EXCEPT ![sel] = Remain(sel, nextStart[sel])]
  IN  [t \in Tasks |-> IF left[t] < 0 THEN Infinity ELSE left[t]]

BacksOff(sel) == method = 1 /\ RemainTimes[sel] >= 0

\* next_flag.  next_remain_times is remain_times itself: with back-off it is
\* the remaining time of the frame after the selected one.
Flag(sel) ==
  IF BacksOff(sel) THEN NextRemainTimes(sel)[sel] ELSE RemainTimes[sel]

SetNext(sel) ==
  LET next == NextRemainTimes(sel)
      u    == ArgMin(next)
  IN  IF next[u] = Infinity
      THEN nextSelected' = NoTask /\ UNCHANGED nextRemain
      ELSE nextSelected' = u /\ nextRemain' = next[u]

Select(to) ==
  /\ Step("scan", to)
  /\ at = TaskNum
  /\ Waiting # {}
  /\ at' = 0
  /\ selectTime' = clock
  /\ LET sel == ArgMin(RemainTimes) IN
     /\ selected' = sel
     /\ IF BacksOff(sel) THEN SetNext(sel) ELSE UNCHANGED nextVars
  /\ UNCHANGED <<clock, preVars, ring, method, startTime, nextStart, runVars, result>>

\* A remaining time of exactly minus one second reads as "nothing to do".
AnyNegative(flag) == flag < 0     \* mutant: every late frame
Nothing(flag)     == flag = -Second

SelectNothing ==
  /\ Nothing(Flag(ArgMin(RemainTimes)))
  /\ Select("scan")

CannotFinish(sel) == Flag(sel) - Profile[sel][1] < 0

SelectDrop ==
  /\ ~ Nothing(Flag(ArgMin(RemainTimes)))
  /\ CannotFinish(ArgMin(RemainTimes))
  /\ Select("drop")

SelectRun ==
  /\ ~ CannotFinish(ArgMin(RemainTimes))
  /\ Select("choose")

-----------------------------------------------------------------------------
(* The fate of the frame                                                   *)

\* write_to_results
Late(sel) == clock - startTime[sel] > Deadline[sel]

Report(kind) ==
  /\ result' = [kind |-> kind, task |-> selected, variant |-> variant',
                missed |-> Late(selected)]
  /\ selectTime' = 0
  /\ recvTime' = 0

\* queues[selected_task].get(), its data thrown away
Drop ==
  /\ Step("drop", "scan")
  /\ ring[selected] # <<>>
  /\ ring' = [ring EXCEPT ![selected] = Tail(@)]
  /\ variant' = 0
  /\ Report("dropped")
  /\ UNCHANGED <<clock, preVars, method, scanVars, selected, nextVars>>

\* _select_model_variant_4backoff, _select_model_variant
FitsNoMargin(sel) ==                   \* mutant: no time for post-processing
  clock + Profile[sel][0] <= startTime[sel] + Deadline[sel]
FullFits(sel) ==
  clock + Profile[sel][0] + PostTime[sel] <= startTime[sel] + Deadline[sel]

NextSmallFits(sel) ==                  \* mutant: as in local_demo.py
  nextSelected # NoTask =>
    Profile[sel][0] + Profile[nextSelected][1] <= nextRemain
NextFits(sel) ==
  nextSelected # NoTask =>
    Profile[sel][0] + Profile[nextSelected][0] <= nextRemain

Variant(sel) ==
  CASE method = 1 -> IF FullFits(sel) /\ NextFits(sel) THEN 0 ELSE 1
    [] method = 2 -> IF FullFits(sel) THEN 0 ELSE 1
    [] method = 3 -> 0

ChooseVariant ==
  /\ Step("choose", "dispatch")
  /\ variant' = Variant(selected)
  /\ recvTime' = clock
  /\ UNCHANGED <<clock, preVars, ring, method, scanVars, selected, nextVars,
                 selectTime, result>>

\* The model takes the oldest frame: the selected one, or a newer one if the
\* ring has overrun.
Dispatch ==
  /\ Step("dispatch", "finish")
  /\ ring[selected] # <<>>
  /\ ring' = [ring EXCEPT ![selected] = Tail(@)]
  /\ recvTime' = clock
  /\ UNCHANGED <<clock, preVars, method, scanVars, selected, nextVars,
                 selectTime, variant, result>>

Finish ==
  /\ Step("finish", "scan")
  /\ UNCHANGED variant
  /\ Report("run")
  /\ UNCHANGED <<clock, preVars, ring, method, scanVars, selected, nextVars>>

-----------------------------------------------------------------------------
Scan == ScanTask \/ ScanAllEmpty
SelectNext == SelectNothing \/ SelectDrop \/ SelectRun
Schedule == Scan \/ SelectNext \/ Drop \/ ChooseVariant \/ Dispatch \/ Finish

Preprocess(t) == PutFrame(t) \/ \E s \in 1..MaxTime : Accept(t, s)

Next == Tick \/ Schedule \/ \E t \in Tasks : Preprocess(t)

Spec == Init /\ [][Next]_vars

\* The scheduler's loop never waits for long, and time passes.
FairSpec == Spec /\ WF_vars(Schedule) /\ WF_vars(Tick)

-----------------------------------------------------------------------------
Times == 0..MaxTime

TypeOK ==
  /\ clock \in Times \ {0}
  /\ lastStamp \in [Tasks -> Times] /\ inHand \in [Tasks -> Times]
  /\ ring \in [Tasks -> Seq(Times \ {0})]
  /\ \A t \in Tasks : Len(ring[t]) <= Capacity
  /\ method \in Methods
  /\ pc \in {"scan", "drop", "choose", "dispatch", "finish"}
  /\ at \in 0..TaskNum
  /\ startTime \in [Tasks -> Times] /\ nextStart \in [Tasks -> Times]
  /\ selected \in Tasks
  /\ nextSelected \in Tasks \cup {NoTask}
  /\ nextRemain \in Nat
  /\ selectTime \in Times /\ recvTime \in Times
  /\ variant \in Variants
  /\ result \in [kind : {"none", "dropped", "run"}, task : Tasks,
                 variant : Variants, missed : BOOLEAN]

Due(t) == startTime[t] + Deadline[t]
Expired(t, stamp) == stamp + Deadline[t] <= clock

\* Of the frames a ring holds, only the newest can still meet its deadline:
\* the rate limit (pre_processing.py:48) keeps them a deadline apart.
OneLiveFrame ==
  \A t \in Tasks : \A i \in 1..(Len(ring[t]) - 1) : Expired(t, ring[t][i])

\* Under method 1, a frame that leaves its ring without being run, dropped by
\* the scheduler or overwritten by pre-processing, has reached its deadline;
\* also when the ring overran after the scheduler had read it.
Stamps(q) == {q[i] : i \in 1..Len(q)}
NoLiveFrameLost ==
  [][method = 1 => \A t \in Tasks : \A s \in Stamps(ring[t]) \ Stamps(ring'[t]) :
       (pc = "dispatch" /\ pc' = "finish") \/ Expired(t, s)]_vars

\* The frame on its way to a model, or to be dropped, has the earliest
\* deadline of all the frames in the rings the scan found occupied.
EarliestDeadlineFirst ==
  pc \in {"drop", "choose", "dispatch"} =>
    \A t \in Waiting : \A s \in Stamps(ring[t]) :
      Due(selected) <= s + Deadline[t]

\* Under method 1, a dropped frame counts as missed, though its result is judged by the same
\* comparison of times as that of a frame that was run (the argument missing
\* is not used for it).
DropsAreMisses == method = 1 /\ result.kind = "dropped" => result.missed

\* A full model chosen by methods 1 and 2 ends in time, if it keeps to its
\* profile and the start takes no longer than the task's post time allows.
PromptStart == \A t \in Tasks : Overhead[t] <= PostTime[t]
FullIsOnTime ==
  PromptStart /\ result.kind = "run" /\ result.variant = 0 /\ method # 3 => ~ result.missed

\* While a full model runs, some frame with the earliest deadline among those
\* seen and not late at selection can still run its own full model after it,
\* up to the time that passed between selection and start.
Others == {t \in Waiting \ {selected} : Due(t) >= selectTime}
Kept(t) == recvTime + Profile[selected][0] + Profile[t][0]
             <= Due(t) + (recvTime - selectTime)
BackoffKeepsNext ==
  pc \in {"dispatch", "finish"} /\ variant = 0 /\ method = 1 =>
    \A t \in Others : \E u \in Others : Due(u) <= Due(t) /\ Kept(u)

\* No frame is run that not even the small model could finish in time when it
\* was selected.
HopelessNotRun ==
  pc \in {"choose", "dispatch", "finish"} =>
    Due(selected) - selectTime >= Profile[selected][1]

\* The inductive invariant behind these.  Pre-processing: the frames of a ring
\* and the one in hand are a deadline apart, and none is from the future.
RateLimited ==
  \A t \in Tasks :
    /\ lastStamp[t] <= clock
    /\ inHand[t] # 0 => inHand[t] = lastStamp[t]
    /\ \A i \in 1..Len(ring[t]) :
         /\ ring[t][i] <= lastStamp[t]
         /\ inHand[t] # 0 => ring[t][i] + Deadline[t] <= inHand[t]
         /\ \A j \in 1..(i - 1) : ring[t][j] + Deadline[t] <= ring[t][i]

\* The scan: a ring read non-empty still is, and if its oldest frame is not
\* the one read, it has overrun and is full.
ScanKnows ==
  /\ pc # "scan" => at = 0
  /\ \A t \in Tasks :
       /\ startTime[t] <= clock /\ nextStart[t] <= clock
       /\ nextStart[t] # 0 => startTime[t] # 0 /\ Due(t) <= nextStart[t]
  /\ pc # "finish" =>
       \A t \in Waiting : (pc = "scan" => t < at) =>
         /\ ring[t] # <<>> /\ startTime[t] <= ring[t][1]
         /\ startTime[t] = ring[t][1] \/ Len(ring[t]) = Capacity

\* The selection: the earliest deadline; late if it is to be dropped.  With
\* back-off the next frame is the earliest of the others, or one of the same
\* task, which can only be there when the selected one is due.
SelectKnows ==
  /\ pc # "scan" =>
       /\ selected \in Waiting /\ selectTime <= clock
       /\ \A t \in Waiting : Due(selected) <= Due(t)
  /\ pc = "drop" /\ method = 1 => Due(selected) < clock
  /\ pc = "choose" /\ method = 1 =>
       /\ nextSelected = selected => Due(selected) <= selectTime
       /\ nextSelected = NoTask => Others = {}
       /\ nextSelected \notin {selected, NoTask} =>
            /\ nextSelected \in Others
            /\ nextRemain = Due(nextSelected) - selectTime
            /\ \A t \in Others : Due(nextSelected) <= Due(t)

\* The run: within its limits, and with room for the start if it is full.
RunKnows ==
  LET full == variant = 0 /\ method # 3
      end  == recvTime + Profile[selected][0] + PostTime[selected]
  IN  /\ pc \in {"dispatch", "finish"} => recvTime <= clock /\ clock <= Limit
      /\ pc = "dispatch" /\ full => end <= Due(selected)
      /\ pc = "finish" /\ full => end <= Due(selected) + Overhead[selected]

EdfInv == /\ RateLimited /\ ScanKnows /\ SelectKnows /\ RunKnows
          /\ BackoffKeepsNext /\ DropsAreMisses /\ FullIsOnTime

\* Every frame leaves its ring.
FramesLeave ==
  \A t \in Tasks : \A s \in 1..MaxTime :
    s \in Stamps(ring[t]) ~> s \notin Stamps(ring[t])
=============================================================================
