----------------------------- MODULE NodeConfig -----------------------------
(***************************************************************************)
(* How a node takes up the tasks the dispatcher gives it.  On the host,    *)
(* task_monitor.py writes the tasks of each sensor into sensor<id>.ini and *)
(* renames sensor<id>.unlock to .lock; in the container, cron runs         *)
(* ros2_monitor.py, which restarts the listener of every sensor whose      *)
(* .lock it finds, renames the file back, and restarts control.py.  The    *)
(* two share a directory, and nothing else: neither waits for the other.   *)
(*                                                                         *)
(* A step reads or writes one file.  An .ini opened for writing is empty   *)
(* until it is closed, and whoever parses it meanwhile gets a KeyError.    *)
(* The monitor looks for a process by reading every command line there is, *)
(* and a process that ends meanwhile makes psutil raise.                   *)
(* cron starts a monitor every 5 minutes, and task_monitor.py is run again *)
(* and again; neither is started while it still runs.  The order in which  *)
(* they go through the sensors is left open.                               *)
(***************************************************************************)
EXTENDS Naturals

CONSTANTS
  Sensors,     \* the sensors of the node, each with its .ini
  Tasks,       \* the lists of tasks a sensor may be given, by sensor
  Empty,       \* QueueKey = [], as the configuration generator writes it
  Truncated,   \* an .ini between open and close
  Starting,    \* a process that has not read its configuration
  None,        \* no sensor
  MaxPlans,    \* bound: how often the dispatcher changes its plan
  MaxFaults    \* bound: how often task_monitor is killed or psutil raises

ASSUME ValuesAssumption ==
  /\ Tasks = [s \in Sensors |-> Tasks[s]]
  /\ Truncated # Empty
  /\ Starting # Empty
  /\ \A s \in Sensors : Tasks[s] \cap {Empty, Truncated, Starting} = {}
  /\ None \notin Sensors

ASSUME BoundAssumption == MaxPlans \in Nat /\ MaxFaults \in Nat

VARIABLES
  ini,        \* QueueKey in the .ini of each sensor
  marks,      \* which of .lock and .unlock exist, by sensor
  plan,       \* recv_dict: what the dispatcher answered last
  plans,      \* how many plans it has made
  writer,     \* write2file: its next step, the keys still to come, and the
              \* one whose files it is writing
  monitor,    \* ros2_monitor.run: its next step, the sensors still to come,
              \* the one being served, and its flag running
  listener,   \* the tasks each listener feeds; Empty if none runs
  control,    \* the tasks control.py schedules, by sensor
  overlapped, \* history: whether writer and monitor were at work on the
              \* sensor together when the monitor last served it
  cut,        \* history: whether psutil has ended a run of the monitor that
              \* had started a listener, since control.py was started last
  faults      \* how often task_monitor was killed or psutil raised

vars == <<ini, marks, plan, plans, writer, monitor, listener, control, overlapped, cut, faults>>

\* The values of QueueKey.
Queues == {Empty} \cup UNION {Tasks[s] : s \in Sensors}

\* What deploy_tasks makes for a node: a sensor without tasks has no entry.
Plans == UNION {{p \in [D -> Queues] : \A s \in D : p[s] \in Tasks[s]} : D \in SUBSET Sensors}

WriterIdle == [step |-> "idle", todo |-> {}, at |-> None]
MonitorIdle == [step |-> "idle", todo |-> {}, at |-> None, running |-> FALSE]

Init ==
  /\ ini = [s \in Sensors |-> Empty]
  /\ marks = [s \in Sensors |-> {}]
  /\ plan = [s \in {} |-> Empty]
  /\ plans = 0
  /\ writer = WriterIdle
  /\ monitor = MonitorIdle
  /\ listener = [s \in Sensors |-> Empty]
  /\ control = [s \in Sensors |-> Empty]
  /\ overlapped = [s \in Sensors |-> FALSE]
  /\ cut = FALSE
  /\ faults = 0

\* The writer is between the rename of s's mark and the close of its .ini.
Writing(s) == writer.step \in {"open", "close"} /\ writer.at = s

\* The monitor is between finding s's .lock and renaming it back.
Serving(s) == monitor.step \in {"read", "unlock"} /\ monitor.at = s

\* A step of the writer changes the files of s.
Noted(s) == overlapped' = [overlapped EXCEPT ![s] = @ \/ Serving(s)]

----------------------------------------------------------------------------
(* The dispatcher, and TaskMonitor.write2file.                             *)

\* send_handler answers with the newest plan; the allocator may have made
\* another one since the node asked last.  A node without tasks is not answered.
Receive ==
  /\ writer.step = "idle"
  /\ \/ UNCHANGED <<plan, plans>>
     \/ /\ plans < MaxPlans
        /\ plans' = plans + 1
        /\ plan' \in Plans \ {plan}
  /\ DOMAIN plan' # {}
  /\ writer' = [WriterIdle EXCEPT !.step = "compare"]
  /\ UNCHANGED <<ini, marks, monitor, listener, control, overlapped, cut, faults>>

\* The first loop gives the keys whose tasks change a mark to rename.  It is one
\* step: nobody else writes an .ini or looks for an .unlock.
Changed == {s \in DOMAIN plan : ini[s] # plan[s]}

\* mutant: a .lock is renamed to .unlock, instead of a new file
CompareTakesLock ==
  /\ writer.step = "compare"
  /\ \A s \in DOMAIN plan : ini[s] # Truncated
  /\ marks' = [s \in Sensors |-> IF s \in Changed THEN {"unlock"} ELSE marks[s]]
  /\ writer' = IF Changed = {} THEN WriterIdle
                ELSE [writer EXCEPT !.step = "rename", !.todo = DOMAIN plan]
  /\ UNCHANGED <<ini, plan, plans, monitor, listener, control, overlapped, cut, faults>>

Compare ==
  /\ writer.step = "compare"
  /\ \A s \in DOMAIN plan : ini[s] # Truncated
  /\ marks' = [s \in Sensors |-> IF s \in Changed THEN marks[s] \cup {"unlock"} ELSE marks[s]]
  /\ writer' = IF Changed = {} THEN WriterIdle
                ELSE [writer EXCEPT !.step = "rename", !.todo = DOMAIN plan]
  /\ UNCHANGED <<ini, plan, plans, monitor, listener, control, overlapped, cut, faults>>

\* KeyError: a run that was killed has left an .ini truncated.
CompareRaises ==
  /\ writer.step = "compare"
  /\ \E s \in DOMAIN plan : ini[s] = Truncated
  /\ \E D \in SUBSET {s \in Changed : ini[s] # Truncated} :
       marks' = [s \in Sensors |-> IF s \in D THEN marks[s] \cup {"unlock"} ELSE marks[s]]
  /\ writer' = WriterIdle
  /\ UNCHANGED <<ini, plan, plans, monitor, listener, control, overlapped, cut, faults>>

\* mutant: the mark is not renamed
RenameNothing(s) ==
  /\ writer.step = "rename"
  /\ s \in writer.todo
  /\ "unlock" \in marks[s]
  /\ writer' = [writer EXCEPT !.step = "open", !.at = s]
  /\ Noted(s)
  /\ UNCHANGED <<ini, marks, plan, plans, monitor, listener, control, cut, faults>>

\* The second loop goes through all the keys, those that do not change too.
Rename(s) ==
  /\ writer.step = "rename"
  /\ s \in writer.todo
  /\ "unlock" \in marks[s]
  /\ marks' = [marks EXCEPT ![s] = {"lock"}]
  /\ writer' = [writer EXCEPT !.step = "open", !.at = s]
  /\ Noted(s)
  /\ UNCHANGED <<ini, plan, plans, monitor, listener, control, cut, faults>>

\* There is nothing to rename: FileNotFoundError ends the run.
RenameRaises(s) ==
  /\ writer.step = "rename"
  /\ s \in writer.todo
  /\ "unlock" \notin marks[s]
  /\ writer' = WriterIdle
  /\ UNCHANGED <<ini, marks, plan, plans, monitor, listener, control, overlapped, cut, faults>>

Open(s) ==
  /\ writer.step = "open"
  /\ writer.at = s
  /\ ini' = [ini EXCEPT ![s] = Truncated]
  /\ writer' = [writer EXCEPT !.step = "close"]
  /\ Noted(s)
  /\ UNCHANGED <<marks, plan, plans, monitor, listener, control, cut, faults>>

Close(s) ==
  /\ writer.step = "close"
  /\ writer.at = s
  /\ ini' = [ini EXCEPT ![s] = plan[s]]
  /\ writer' = IF writer.todo = {s} THEN WriterIdle
                ELSE [step |-> "rename", at |-> None, todo |-> writer.todo \ {s}]
  /\ Noted(s)
  /\ UNCHANGED <<marks, plan, plans, monitor, listener, control, cut, faults>>

\* The process is killed: what it has written stays.
Killed ==
  /\ faults < MaxFaults
  /\ writer.step # "idle"
  /\ faults' = faults + 1
  /\ writer' = WriterIdle
  /\ UNCHANGED <<ini, marks, plan, plans, monitor, listener, control, overlapped, cut>>

----------------------------------------------------------------------------
(* ros2_monitor.run.                                                       *)

Cron ==
  /\ monitor.step = "idle"
  /\ monitor' = [MonitorIdle EXCEPT !.step = "check", !.todo = Sensors]
  /\ UNCHANGED <<ini, marks, plan, plans, writer, listener, control, overlapped, cut, faults>>

Pass(s) ==
  /\ monitor.step = "check"
  /\ s \in monitor.todo
  /\ "lock" \notin marks[s]
  /\ monitor' = [monitor EXCEPT !.todo = @ \ {s}]
  /\ UNCHANGED <<ini, marks, plan, plans, writer, listener, control, overlapped, cut, faults>>

KillListener(s) ==
  /\ monitor.step = "check"
  /\ s \in monitor.todo
  /\ "lock" \in marks[s]
  /\ listener' = [listener EXCEPT ![s] = Empty]
  /\ monitor' = [monitor EXCEPT !.step = "read", !.at = s]
  /\ overlapped' = [overlapped EXCEPT ![s] = Writing(s)]
  /\ UNCHANGED <<ini, marks, plan, plans, writer, control, cut, faults>>

\* The monitor reads QueueKey to decide whether to start a listener.
StartListener(s) ==
  /\ monitor.step = "read"
  /\ monitor.at = s
  /\ \/ /\ ini[s] = Truncated               \* KeyError
        /\ monitor' = MonitorIdle
        /\ UNCHANGED listener
     \/ /\ ini[s] = Empty
        /\ monitor' = [monitor EXCEPT !.step = "unlock"]
        /\ UNCHANGED listener
     \/ /\ ini[s] \in Tasks[s]
        /\ monitor' = [monitor EXCEPT !.step = "unlock", !.running = TRUE]
        /\ listener' = [listener EXCEPT ![s] = Starting]
  /\ UNCHANGED <<ini, marks, plan, plans, writer, control, overlapped, cut, faults>>

\* mutant: the .lock is removed
RemoveMark(s) ==
  /\ monitor.step = "unlock"
  /\ monitor.at = s
  /\ marks' = [marks EXCEPT ![s] = @ \ {"lock"}]
  /\ monitor' = [monitor EXCEPT !.step = "check", !.at = None, !.todo = @ \ {s}]
  /\ UNCHANGED <<ini, plan, plans, writer, listener, control, overlapped, cut, faults>>

Unlock(s) ==
  /\ monitor.step = "unlock"
  /\ monitor.at = s
  /\ marks' = [marks EXCEPT ![s] = {"unlock"}]
  /\ monitor' = [monitor EXCEPT !.step = "check", !.at = None, !.todo = @ \ {s}]
  /\ UNCHANGED <<ini, plan, plans, writer, listener, control, overlapped, cut, faults>>

\* mutant: preprocessing_run is skipped although a listener was started
StopEarly ==
  /\ monitor.step = "check"
  /\ monitor.todo = {}
  /\ monitor' = MonitorIdle
  /\ UNCHANGED <<ini, marks, plan, plans, writer, listener, control, overlapped, cut, faults>>

\* Nothing was started, or preprocessing_run meets a truncated file.
Stop ==
  /\ monitor.step = "check"
  /\ monitor.todo = {}
  /\ monitor.running => \E s \in Sensors : ini[s] = Truncated
  /\ monitor' = MonitorIdle
  /\ UNCHANGED <<ini, marks, plan, plans, writer, listener, control, overlapped, cut, faults>>

\* preprocessing_run parses every .ini, for the tasks to pre-process for, and
\* then kills and starts control.py.  It is one step: what counts of the parsing
\* is a KeyError, and the writer truncates one file at a time.
RestartControl ==
  /\ monitor.step = "check"
  /\ monitor.todo = {}
  /\ monitor.running
  /\ \A s \in Sensors : ini[s] # Truncated
  /\ control' = [s \in Sensors |-> Starting]
  /\ cut' = FALSE
  /\ monitor' = MonitorIdle
  /\ UNCHANGED <<ini, marks, plan, plans, writer, listener, overlapped, faults>>

\* psutil raises before, between or after kill() of the listeners of s.
ListenerSearchRaises(s) ==
  /\ faults < MaxFaults
  /\ monitor.step = "check"
  /\ s \in monitor.todo
  /\ "lock" \in marks[s]
  /\ listener' \in {listener, [listener EXCEPT ![s] = Empty]}
  /\ faults' = faults + 1
  /\ monitor' = MonitorIdle
  /\ cut' = (cut \/ monitor.running)
  /\ UNCHANGED <<ini, marks, plan, plans, writer, control, overlapped>>

\* psutil raises in preprocessing_run: over the pre-processing of a task, and
\* control.py runs on, or once control.py was terminated.
ControlSearchRaises ==
  /\ faults < MaxFaults
  /\ monitor.step = "check"
  /\ monitor.todo = {}
  /\ monitor.running
  /\ \A s \in Sensors : ini[s] # Truncated
  /\ control' \in {control, [s \in Sensors |-> Empty]}
  /\ faults' = faults + 1
  /\ monitor' = MonitorIdle
  /\ cut' = TRUE
  /\ UNCHANGED <<ini, marks, plan, plans, writer, listener, overlapped>>

Raised == ControlSearchRaises \/ \E s \in Sensors : ListenerSearchRaises(s)

----------------------------------------------------------------------------
(* The processes started read the files for themselves.                    *)

ListenerReads(s) ==
  /\ listener[s] = Starting
  /\ listener' = [listener EXCEPT ![s] = IF ini[s] = Truncated THEN Empty ELSE ini[s]]
  /\ UNCHANGED <<ini, marks, plan, plans, writer, monitor, control, overlapped, cut, faults>>

ControlReads(s) ==
  /\ control[s] = Starting
  /\ control' = IF ini[s] = Truncated
                  THEN [t \in Sensors |-> Empty]
                  ELSE [control EXCEPT ![s] = ini[s]]
  /\ UNCHANGED <<ini, marks, plan, plans, writer, monitor, listener, overlapped, cut, faults>>

Writer ==
  \/ Receive \/ Compare \/ CompareRaises
  \/ \E s \in Sensors : Rename(s) \/ RenameRaises(s) \/ Open(s) \/ Close(s)

Monitor ==
  \/ Cron \/ Stop \/ RestartControl
  \/ \E s \in Sensors : Pass(s) \/ KillListener(s) \/ StartListener(s) \/ Unlock(s)

Reader == \E s \in Sensors : ListenerReads(s) \/ ControlReads(s)

Next ==
  \/ Writer
  \/ Killed
  \/ Monitor
  \/ Raised
  \/ Reader

Spec == Init /\ [][Next]_vars

\* Processes that run get on with it; cron starts monitors, and
\* task_monitor.py is started for ever.
Fairness ==
  /\ WF_vars(Writer)
  /\ WF_vars(Monitor)
  /\ WF_vars(Reader)

FairSpec == Spec /\ Fairness

----------------------------------------------------------------------------
(* Properties.                                                             *)

\* Every variable holds a value of its type.
TypeOK ==
  /\ ini \in [Sensors -> Queues \cup {Truncated}]
  /\ marks \in [Sensors -> SUBSET {"lock", "unlock"}]
  /\ plan \in Plans
  /\ plans \in 0..MaxPlans
  /\ writer \in [step : {"idle", "compare", "rename", "open", "close"}, todo : SUBSET Sensors, at : Sensors \cup {None}]
  /\ monitor \in [step : {"idle", "check", "read", "unlock"},
                  todo : SUBSET Sensors, at : Sensors \cup {None}, running : BOOLEAN]
  /\ listener \in [Sensors -> Queues \cup {Starting}]
  /\ control \in [Sensors -> Queues \cup {Starting}]
  /\ overlapped \in [Sensors -> BOOLEAN]
  /\ cut \in BOOLEAN
  /\ faults \in 0..MaxFaults

\* ros2_monitor never misses the file it renames back: nobody else removes a
\* .lock it has found.
UnlockFindsMark == \A s \in Sensors : Serving(s) => "lock" \in marks[s]

\* A listener that runs without the tasks in its sensor's file is about to be
\* restarted, as the file's .lock tells, unless task_monitor rewrote the file
\* while ros2_monitor was serving the sensor.  (In that case the monitor's
\* rename takes away the mark of the new configuration, and the old listener
\* stays.)
OutdatedOnlyIfOverlapped ==
  \A s \in Sensors :
    ~Writing(s) /\ ~Serving(s) /\ listener[s] # Starting =>
      listener[s] = ini[s] \/ "lock" \in marks[s] \/ overlapped[s]

\* control.py too schedules what the files say, or a restart is marked, unless
\* writer and monitor met, or psutil ended a run that had restarted a listener:
\* the mark is renamed then, and no later run comes to control.py.  Runs that a
\* KeyError cut short are no excuse.
ControlOutdatedOnlyIfMetOrCut ==
  (/\ monitor.step = "idle"
   /\ \A s \in Sensors : ~Writing(s) /\ control[s] # Starting) =>
      \/ control = ini
      \/ cut
      \/ \E s \in Sensors : "lock" \in marks[s] \/ overlapped[s]

\* The dispatcher keeps to its plan, nobody kills task_monitor any more, and
\* psutil does not raise: a run that ends does so by itself.
Settled == <>[][plan' = plan /\ ~Killed /\ ~Raised]_vars

\* No .ini is left as a killed writer truncated it.  (With one, every run of
\* write2file that comes to it ends in a KeyError.)
FilesWhole == <>[](\A s \in Sensors : ini[s] = Truncated => Writing(s))

\* Once the dispatcher keeps to a plan, the files come to agree with it,
\* although FileNotFoundErrors cut runs of write2file short; and what was not
\* overlapped or cut, listeners and control.py come to run.
PlanRuns ==
  Settled /\ FilesWhole =>
    <>[](/\ \A s \in DOMAIN plan : ini[s] = plan[s] /\ (listener[s] = plan[s] \/ overlapped[s])
         /\ control = ini \/ cut \/ \E s \in Sensors : overlapped[s])
=============================================================================
