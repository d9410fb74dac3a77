-------------------------- MODULE NodeConfigProofs --------------------------
(***************************************************************************)
(* Theorems about NodeConfig, for any sensors, tasks and number of plans.  *)
(*                                                                         *)
(* The argument: a mark that the writer sets goes away only in Unlock, so  *)
(* while the monitor serves the sensor; and if the writer did not touch    *)
(* the sensor meanwhile, then what the monitor read, the listener reads.   *)
(* control.py goes stale only with an .ini that is no longer "[]" (the     *)
(* writer never writes that), and serving such a sensor sets running; the  *)
(* run then comes to control.py, or psutil cuts it.                        *)
(***************************************************************************)
EXTENDS NodeConfig, TLAPS

----------------------------------------------------------------------------
(* Types.                                                                  *)

\* What a plan gives a sensor is a list of its tasks, and not "[]".
LEMMA PlanEntries ==
  ASSUME NEW p \in Plans
  PROVE  /\ DOMAIN p \subseteq Sensors
         /\ \A s \in DOMAIN p : p[s] \in Tasks[s] /\ p[s] \in Queues /\ p[s] # Empty
<1>1. PICK D \in SUBSET Sensors : p \in [D -> Queues] /\ \A s \in D : p[s] \in Tasks[s]
  BY DEF Plans
<1>2. ASSUME NEW s \in D PROVE p[s] \in Tasks[s] /\ p[s] \in Queues /\ p[s] # Empty
  BY <1>1, <1>2, ValuesAssumption
<1> QED
  BY <1>1, <1>2

\* The writer is at a key of the dictionary that it has not done yet.
WriterPlace ==
  /\ writer.step \in {"rename", "open", "close"} => writer.todo \subseteq DOMAIN plan
  /\ writer.step \in {"open", "close"} => writer.at \in writer.todo

TypeInv == TypeOK /\ WriterPlace

\* The shared files and processes keep their types, and the writer its place.
LEMMA TypeInductive == ASSUME TypeInv, [Next]_vars PROVE TypeInv'
<1> USE ValuesAssumption, BoundAssumption DEF TypeInv, TypeOK, WriterPlace, WriterIdle, MonitorIdle
<1>1. CASE Receive
  BY <1>1, SMT DEF Receive
<1>2. CASE Compare
  <2>1. DOMAIN plan \subseteq Sensors
    BY PlanEntries
  <2>2. marks' \in [Sensors -> SUBSET {"lock", "unlock"}]
    BY <1>2 DEF Compare
  <2>3. CASE Changed = {}
    BY <1>2, <2>1, <2>2, <2>3 DEF Compare
  <2>4. CASE Changed # {}
    BY <1>2, <2>1, <2>2, <2>4 DEF Compare
  <2> QED
    BY <2>3, <2>4
<1>3. CASE CompareRaises
  BY <1>3 DEF CompareRaises, Changed
<1>4. ASSUME NEW s \in Sensors, Rename(s) PROVE TypeInv'
  BY <1>4 DEF Rename, Noted, Serving
<1>5. ASSUME NEW s \in Sensors, RenameRaises(s) PROVE TypeInv'
  BY <1>5 DEF RenameRaises
<1>6. ASSUME NEW s \in Sensors, Open(s) PROVE TypeInv'
  BY <1>6 DEF Open, Noted, Serving
<1>7. ASSUME NEW s \in Sensors, Close(s) PROVE TypeInv'
  <2>1. s \in DOMAIN plan /\ plan[s] \in Queues
    BY <1>7, PlanEntries DEF Close
  <2>2. CASE writer.todo = {s}
    BY <1>7, <2>1, <2>2 DEF Close, Noted, Serving
  <2>3. CASE writer.todo # {s}
    BY <1>7, <2>1, <2>3 DEF Close, Noted, Serving
  <2> QED
    BY <2>2, <2>3
<1>8. CASE Killed
  BY <1>8 DEF Killed
<1>9. CASE Cron
  BY <1>9 DEF Cron
<1>10. ASSUME NEW s \in Sensors, Pass(s) PROVE TypeInv'
  BY <1>10 DEF Pass
<1>11. ASSUME NEW s \in Sensors, KillListener(s) PROVE TypeInv'
  BY <1>11 DEF KillListener, Writing, Queues
<1>12. ASSUME NEW s \in Sensors, StartListener(s) PROVE TypeInv'
  <2>1. CASE ini[s] = Truncated
    <3>1. ini[s] \notin Tasks[s] /\ ini[s] # Empty
      BY <2>1
    <3>2. monitor' = MonitorIdle /\ UNCHANGED listener
      BY <1>12, <2>1, <3>1 DEF StartListener
    <3> QED
      BY <1>12, <3>2 DEF StartListener
  <2>2. CASE ini[s] = Empty
    BY <1>12, <2>2 DEF StartListener
  <2>3. CASE ini[s] \in Tasks[s]
    <3>1. ini[s] # Truncated /\ ini[s] # Empty
      BY <2>3
    <3>2. listener' \in [Sensors -> Queues \cup {Starting}]
      BY <1>12 DEF StartListener
    <3>3. monitor' \in [step : {"idle", "check", "read", "unlock"}, todo : SUBSET Sensors,
                        at : Sensors \cup {None}, running : BOOLEAN]
      <4>1. monitor' = [monitor EXCEPT !.step = "unlock", !.running = TRUE]
        BY <1>12, <3>1, Zenon DEF StartListener
      <4> QED
        BY <4>1
    <3> HIDE DEF WriterIdle, MonitorIdle
    <3> QED
      BY <1>12, <3>2, <3>3 DEF StartListener
  <2> QED
    BY <1>12, <2>1, <2>2, <2>3 DEF StartListener
<1>13. ASSUME NEW s \in Sensors, Unlock(s) PROVE TypeInv'
  BY <1>13 DEF Unlock
<1>14. CASE Stop
  BY <1>14 DEF Stop
<1>15. CASE RestartControl
  BY <1>15 DEF RestartControl
<1>16. ASSUME NEW s \in Sensors, ListenerReads(s) PROVE TypeInv'
  BY <1>16 DEF ListenerReads, Queues
<1>17. ASSUME NEW s \in Sensors, ControlReads(s) PROVE TypeInv'
  BY <1>17 DEF ControlReads, Queues
<1>18. ASSUME NEW s \in Sensors, ListenerSearchRaises(s) PROVE TypeInv'
  BY <1>18 DEF ListenerSearchRaises, Queues
<1>19. CASE ControlSearchRaises
  BY <1>19 DEF ControlSearchRaises, Queues
<1>20. CASE UNCHANGED vars
  BY <1>20 DEF vars
<1> QED
  BY <1>1, <1>2, <1>3, <1>4, <1>5, <1>6, <1>7, <1>8, <1>9, <1>10, <1>11, <1>12, <1>13,
     <1>14, <1>15, <1>16, <1>17, <1>18, <1>19, <1>20 DEF Next, Writer, Monitor, Raised, Reader

\* The program starts well-typed.
LEMMA TypeInit == ASSUME Init PROVE TypeInv
<1>1. plan \in Plans
  <2>1. plan \in [{} -> Queues] /\ {} \in SUBSET Sensors
    BY DEF Init
  <2> QED
    BY <2>1 DEF Plans
<1>2. ini \in [Sensors -> Queues \cup {Truncated}] /\ listener \in [Sensors -> Queues \cup {Starting}]
      /\ control \in [Sensors -> Queues \cup {Starting}]
  BY DEF Init, Queues
<1>3. plans \in 0..MaxPlans /\ faults \in 0..MaxFaults
  BY BoundAssumption DEF Init
<1> QED
  BY <1>1, <1>2, <1>3 DEF Init, TypeInv, TypeOK, WriterPlace, WriterIdle, MonitorIdle

\* TypeOK is invariant.
THEOREM TypeCorrect == Spec => []TypeOK
<1>1. Init => TypeInv
  BY TypeInit
<1>2. TypeInv /\ [Next]_vars => TypeInv'
  BY TypeInductive
<1>3. TypeInv => TypeOK
  BY DEF TypeInv
<1> QED
  BY <1>1, <1>2, <1>3, PTL DEF Spec

----------------------------------------------------------------------------
(* Marks and listeners.                                                    *)

\* A restart of s's listener is marked, or writer and monitor met at s.
Noticed(s) == "lock" \in marks[s] \/ overlapped[s]

\* s while the monitor serves it: the mark is still there, and the listener is
\* killed first; if the writer is at work as well, that is noted; and if it was
\* not, then once the monitor has read the file, it and the listener agree with
\* it.
Served(s) ==
  /\ Serving(s) => "lock" \in marks[s]
  /\ monitor.step = "read" /\ monitor.at = s => listener[s] = Empty
  /\ Serving(s) /\ Writing(s) => overlapped[s]
  /\ monitor.step = "unlock" /\ monitor.at = s /\ ~overlapped[s] =>
       /\ ini[s] # Truncated
       /\ listener[s] \in {Starting, ini[s]}
       /\ ini[s] # Empty => monitor.running

\* A file that is being written, or was left truncated, is noticed, and so is
\* a listener that does not follow its file.
Followed(s) ==
  /\ Writing(s) \/ ini[s] = Truncated => Noticed(s)
  /\ ~Writing(s) /\ ~Serving(s) /\ listener[s] # Starting => listener[s] = ini[s] \/ Noticed(s)

\* control.py follows the files, or a file that is no longer "[]" is noticed,
\* or the monitor is going to restart control.py, or was cut before it did.
ControlFollows ==
  \/ \A s \in Sensors : control[s] \in {Starting, ini[s]}
  \/ \E s \in Sensors : ini[s] # Empty /\ Noticed(s)
  \/ monitor.running
  \/ cut

ConfigInv ==
  /\ \A s \in Sensors : Served(s) /\ Followed(s)
  /\ ControlFollows
  /\ monitor.step = "idle" => ~monitor.running

LEMMA ConfigInit == Init => ConfigInv
  BY ValuesAssumption
     DEF Init, ConfigInv, Served, Followed, ControlFollows, Serving, Writing, Noticed, WriterIdle, MonitorIdle

\* Steps of the writer that touch the files of s, or start and end its run.
LEMMA WriterKeeps == ASSUME TypeInv, ConfigInv, Writer PROVE ConfigInv'
<1> USE ValuesAssumption DEF ConfigInv, Served, Followed, Serving, Writing, Noticed, WriterIdle
<1>1. CASE Receive
  BY <1>1 DEF Receive, ControlFollows
<1>2. CASE Compare
  <2>1. \A t \in Sensors : "lock" \in marks'[t] <=> "lock" \in marks[t]
    BY <1>2 DEF Compare, TypeInv, TypeOK
  <2>2. ~\E t \in Sensors : Writing(t) \/ Writing(t)'
    BY <1>2 DEF Compare
  <2>3. UNCHANGED <<ini, monitor, listener, control, overlapped, cut>>
    BY <1>2 DEF Compare
  <2> QED
    BY <2>1, <2>2, <2>3 DEF ControlFollows
<1>3. CASE CompareRaises
  <2>1. \A t \in Sensors : "lock" \in marks'[t] <=> "lock" \in marks[t]
    BY <1>3 DEF CompareRaises, TypeInv, TypeOK
  <2>2. ~\E t \in Sensors : Writing(t) \/ Writing(t)'
    BY <1>3 DEF CompareRaises
  <2>3. UNCHANGED <<ini, monitor, listener, control, overlapped, cut>>
    BY <1>3 DEF CompareRaises
  <2> QED
    BY <2>1, <2>2, <2>3 DEF ControlFollows
<1>4. ASSUME NEW s \in Sensors, Rename(s) PROVE ConfigInv'
  <2>1. /\ UNCHANGED <<ini, monitor, listener, control, cut>>
        /\ marks' = [marks EXCEPT ![s] = {"lock"}]
        /\ overlapped' = [overlapped EXCEPT ![s] = @ \/ Serving(s)]
        /\ \A t \in Sensors : ~Writing(t) /\ (Writing(t)' <=> t = s)
    BY <1>4 DEF Rename, Noted, TypeInv, TypeOK
  <2>2. \A t \in Sensors : Noticed(t) => Noticed(t)'
    BY <2>1 DEF TypeInv, TypeOK
  <2>3. ASSUME NEW t \in Sensors PROVE Served(t)' /\ Followed(t)'
    BY <2>1, <2>2 DEF TypeInv, TypeOK
  <2>4. ControlFollows'
    BY <2>1, <2>2 DEF ControlFollows
  <2> QED
    BY <2>1, <2>3, <2>4
<1>5. ASSUME NEW s \in Sensors, RenameRaises(s) PROVE ConfigInv'
  BY <1>5 DEF RenameRaises, ControlFollows
<1>6. ASSUME NEW s \in Sensors, Open(s) PROVE ConfigInv'
  <2>1. /\ UNCHANGED <<marks, monitor, listener, control, cut>>
        /\ ini' = [ini EXCEPT ![s] = Truncated]
        /\ overlapped' = [overlapped EXCEPT ![s] = @ \/ Serving(s)]
        /\ Writing(s) /\ \A t \in Sensors : Writing(t)' <=> Writing(t)
    BY <1>6 DEF Open, Noted, TypeInv, TypeOK
  <2>2. \A t \in Sensors : Noticed(t) => Noticed(t)'
    BY <2>1 DEF TypeInv, TypeOK
  <2>3. ASSUME NEW t \in Sensors PROVE Served(t)' /\ Followed(t)'
    BY <2>1, <2>2 DEF TypeInv, TypeOK
  <2>4. ini'[s] # Empty /\ Noticed(s)'
    BY <2>1, <2>2 DEF TypeInv, TypeOK
  <2> QED
    BY <2>1, <2>3, <2>4 DEF ControlFollows
<1>7. ASSUME NEW s \in Sensors, Close(s) PROVE ConfigInv'
  <2>1. s \in DOMAIN plan /\ plan[s] \notin {Empty, Truncated}
    BY <1>7, PlanEntries DEF Close, TypeInv, TypeOK, WriterPlace
  <2>2. /\ UNCHANGED <<marks, monitor, listener, control, cut>>
        /\ ini' = [ini EXCEPT ![s] = plan[s]]
        /\ overlapped' = [overlapped EXCEPT ![s] = @ \/ Serving(s)]
        /\ Writing(s) /\ \A t \in Sensors : ~Writing(t)' /\ (Writing(t) => t = s)
    BY <1>7 DEF Close, Noted, TypeInv, TypeOK
  <2>3. \A t \in Sensors : Noticed(t) => Noticed(t)'
    BY <2>2 DEF TypeInv, TypeOK
  <2>4. ASSUME NEW t \in Sensors PROVE Served(t)' /\ Followed(t)'
    BY <2>1, <2>2, <2>3 DEF TypeInv, TypeOK
  <2>5. ini'[s] # Empty /\ Noticed(s)'
    BY <2>1, <2>2, <2>3 DEF TypeInv, TypeOK
  <2> QED
    BY <2>2, <2>4, <2>5 DEF ControlFollows
<1> QED
  BY <1>1, <1>2, <1>3, <1>4, <1>5, <1>6, <1>7 DEF Writer

\* Steps of the monitor.
LEMMA MonitorKeeps == ASSUME TypeInv, ConfigInv, Monitor PROVE ConfigInv'
<1> USE ValuesAssumption DEF ConfigInv, Served, Followed, Serving, Writing, Noticed, MonitorIdle
<1>1. CASE Cron
  BY <1>1 DEF Cron, ControlFollows
<1>2. ASSUME NEW s \in Sensors, Pass(s) PROVE ConfigInv'
  BY <1>2 DEF Pass, ControlFollows, TypeInv, TypeOK
<1>3. ASSUME NEW s \in Sensors, KillListener(s) PROVE ConfigInv'
  <2>1. /\ UNCHANGED <<ini, marks, writer, control, cut>>
        /\ "lock" \in marks[s]
        /\ listener' = [listener EXCEPT ![s] = Empty]
        /\ overlapped' = [overlapped EXCEPT ![s] = Writing(s)]
        /\ monitor.step = "check"
        /\ monitor' = [monitor EXCEPT !.step = "read", !.at = s]
    BY <1>3 DEF KillListener
  <2>2. \A t \in Sensors : Noticed(t) => Noticed(t)'
    BY <2>1 DEF TypeInv, TypeOK
  <2>3. Served(s)' /\ Followed(s)'
    <3>1. /\ listener'[s] = Empty /\ monitor'.step = "read" /\ monitor'.at = s
          /\ Writing(s) => overlapped'[s]
      BY <2>1 DEF TypeInv, TypeOK
    <3>2. Writing(s)' <=> Writing(s)
      BY <2>1
    <3> QED
      BY <2>1, <3>1, <3>2
  <2>4. ASSUME NEW t \in Sensors \ {s} PROVE Served(t)' /\ Followed(t)'
    <3>1. ~Serving(t) /\ ~Serving(t)'
      BY <2>1, <2>4 DEF TypeInv, TypeOK
    <3>2. listener'[t] = listener[t] /\ overlapped'[t] = overlapped[t] /\ monitor'.step = "read" /\ monitor'.at # t
      BY <2>1, <2>4 DEF TypeInv, TypeOK
    <3> QED
      BY <2>1, <3>1, <3>2
  <2>5. ControlFollows'
    BY <2>1, <2>2 DEF ControlFollows, TypeInv, TypeOK
  <2> QED
    BY <2>1, <2>3, <2>4, <2>5 DEF TypeInv, TypeOK
<1>4. ASSUME NEW s \in Sensors, StartListener(s) PROVE ConfigInv'
  <2>1. /\ UNCHANGED <<ini, marks, writer, control, overlapped, cut>>
        /\ monitor.step = "read" /\ monitor.at = s /\ "lock" \in marks[s]
    BY <1>4 DEF StartListener
  <2>2. CASE ini[s] = Truncated /\ monitor' = MonitorIdle /\ UNCHANGED listener
    BY <2>1, <2>2 DEF ControlFollows, TypeInv, TypeOK
  <2>3. CASE /\ ini[s] = Empty
             /\ monitor' = [monitor EXCEPT !.step = "unlock"]
             /\ UNCHANGED listener
    <3>1. /\ monitor'.step = "unlock" /\ monitor'.at = s /\ monitor'.running = monitor.running
          /\ listener[s] = Empty
      BY <2>1, <2>3 DEF TypeInv, TypeOK
    <3>2. ASSUME NEW t \in Sensors PROVE Served(t)' /\ Followed(t)'
      BY <2>1, <2>3, <3>1
    <3>3. ControlFollows'
      BY <2>1, <3>1 DEF ControlFollows
    <3> QED
      BY <3>1, <3>2, <3>3
  <2>4. CASE /\ ini[s] \in Tasks[s]
             /\ monitor' = [monitor EXCEPT !.step = "unlock", !.running = TRUE]
             /\ listener' = [listener EXCEPT ![s] = Starting]
    BY <2>1, <2>4 DEF ControlFollows, TypeInv, TypeOK
  <2> QED
    BY <1>4, <2>2, <2>3, <2>4 DEF StartListener
<1>5. ASSUME NEW s \in Sensors, Unlock(s) PROVE ConfigInv'
  <2>1. /\ UNCHANGED <<ini, writer, listener, control, overlapped, cut>>
        /\ marks' = [marks EXCEPT ![s] = {"unlock"}]
        /\ monitor.step = "unlock" /\ monitor.at = s
        /\ monitor' = [monitor EXCEPT !.step = "check", !.at = None, !.todo = @ \ {s}]
    BY <1>5 DEF Unlock
  <2>2. ASSUME NEW t \in Sensors PROVE Served(t)' /\ Followed(t)'
    BY <2>1, <2>2 DEF TypeInv, TypeOK
  <2>3. ControlFollows'
    <3>1. CASE overlapped[s]
      BY <2>1, <3>1 DEF ControlFollows, TypeInv, TypeOK
    <3>2. CASE ~overlapped[s]
      BY <2>1, <3>2 DEF ControlFollows, TypeInv, TypeOK
    <3> QED
      BY <3>1, <3>2
  <2> QED
    BY <2>1, <2>2, <2>3 DEF TypeInv, TypeOK
<1>6. CASE Stop
  BY <1>6 DEF Stop, ControlFollows, TypeInv, TypeOK
<1>7. CASE RestartControl
  BY <1>7 DEF RestartControl, ControlFollows, TypeInv, TypeOK
<1> QED
  BY <1>1, <1>2, <1>3, <1>4, <1>5, <1>6, <1>7 DEF Monitor

\* The invariant that the theorems below rest on.
LEMMA ConfigInductive == ASSUME TypeInv, ConfigInv, [Next]_vars PROVE ConfigInv'
<1> USE ValuesAssumption DEF ConfigInv, Served, Followed, Serving, Writing, Noticed
<1>1. CASE Writer
  BY <1>1, WriterKeeps
<1>2. CASE Killed
  BY <1>2 DEF Killed, WriterIdle, ControlFollows
<1>3. CASE Monitor
  BY <1>3, MonitorKeeps
<1>4. ASSUME NEW s \in Sensors, ListenerReads(s) PROVE ConfigInv'
  <2>1. /\ UNCHANGED <<ini, marks, writer, monitor, control, overlapped, cut>>
        /\ listener[s] = Starting
        /\ listener' = [listener EXCEPT ![s] = IF ini[s] = Truncated THEN Empty ELSE ini[s]]
    BY <1>4 DEF ListenerReads
  <2>2. ASSUME NEW t \in Sensors PROVE Served(t)' /\ Followed(t)'
    BY <2>1, <2>2 DEF TypeInv, TypeOK
  <2> QED
    BY <2>1, <2>2 DEF ControlFollows
<1>5. ASSUME NEW s \in Sensors, ControlReads(s) PROVE ConfigInv'
  <2>1. UNCHANGED <<ini, marks, writer, monitor, listener, overlapped, cut>>
    BY <1>5 DEF ControlReads
  <2>2. CASE ini[s] = Truncated
    BY <2>1, <2>2 DEF ControlFollows
  <2>3. CASE ini[s] # Truncated
    <3>1. control' = [control EXCEPT ![s] = ini[s]]
      BY <1>5, <2>3 DEF ControlReads
    <3> QED
      BY <2>1, <3>1 DEF ControlFollows, TypeInv, TypeOK
  <2> QED
    BY <2>2, <2>3
<1>6. ASSUME NEW s \in Sensors, ListenerSearchRaises(s) PROVE ConfigInv'
  <2>1. /\ UNCHANGED <<ini, marks, writer, control, overlapped>>
        /\ "lock" \in marks[s] /\ monitor.step = "check"
        /\ listener' \in {listener, [listener EXCEPT ![s] = Empty]}
        /\ monitor' = MonitorIdle
        /\ cut' = (cut \/ monitor.running)
    BY <1>6 DEF ListenerSearchRaises
  <2>2. ASSUME NEW t \in Sensors PROVE Served(t)' /\ Followed(t)'
    BY <2>1, <2>2 DEF MonitorIdle, TypeInv, TypeOK
  <2> QED
    BY <2>1, <2>2 DEF MonitorIdle, ControlFollows
<1>7. CASE ControlSearchRaises
  <2>1. /\ UNCHANGED <<ini, marks, writer, listener, overlapped>>
        /\ monitor.step = "check" /\ monitor' = MonitorIdle /\ cut'
    BY <1>7 DEF ControlSearchRaises
  <2> QED
    BY <2>1 DEF MonitorIdle, ControlFollows
<1>8. CASE UNCHANGED vars
  BY <1>8 DEF vars, ControlFollows
<1> QED
  BY <1>1, <1>2, <1>3, <1>4, <1>5, <1>6, <1>7, <1>8 DEF Next, Raised, Reader

\* ConfigInv is invariant.
THEOREM ConfigSafe == Spec => [](TypeInv /\ ConfigInv)
<1>1. Init => TypeInv
  BY TypeInit
<1>2. TypeInv /\ ConfigInv /\ [Next]_vars => (TypeInv /\ ConfigInv)'
  BY TypeInductive, ConfigInductive
<1> QED
  BY <1>1, <1>2, ConfigInit, PTL DEF Spec

\* ros2_monitor.py always finds the .lock that it renames back.
THEOREM UnlockSucceeds == Spec => []UnlockFindsMark
<1>1. ConfigInv => UnlockFindsMark
  BY DEF ConfigInv, Served, UnlockFindsMark
<1> QED
  BY <1>1, ConfigSafe, PTL

\* A listener is out of date only until its marked restart, or because the
\* writer and the monitor met at its sensor.
THEOREM ListenersFollow == Spec => []OutdatedOnlyIfOverlapped
<1>1. ConfigInv => OutdatedOnlyIfOverlapped
  BY DEF ConfigInv, Followed, Noticed, OutdatedOnlyIfOverlapped
<1> QED
  BY <1>1, ConfigSafe, PTL

\* The same for control.py, which psutil's exceptions may leave out of date as
\* well: of the runs that restarted a listener, only those keep from it.
THEOREM ControlFollowsFiles == Spec => []ControlOutdatedOnlyIfMetOrCut
<1>1. TypeInv /\ ConfigInv => ControlOutdatedOnlyIfMetOrCut
  <2> SUFFICES ASSUME TypeInv, ConfigInv, monitor.step = "idle",
                      \A s \in Sensors : ~Writing(s) /\ control[s] # Starting
               PROVE  control = ini \/ cut \/ \E s \in Sensors : Noticed(s)
    BY DEF ControlOutdatedOnlyIfMetOrCut, Noticed
  <2>1. ~monitor.running
    BY DEF ConfigInv
  <2>2. CASE \A s \in Sensors : control[s] \in {Starting, ini[s]}
    BY <2>2 DEF TypeInv, TypeOK
  <2>3. CASE \E s \in Sensors : ini[s] # Empty /\ Noticed(s)
    BY <2>3
  <2> QED
    BY <2>1, <2>2, <2>3 DEF ConfigInv, ControlFollows
<1> QED
  BY <1>1, ConfigSafe, PTL
----------------------------------------------------------------------------
(* The safety half of PlanRuns: what a run of write2file leaves behind.    *)

\* The keys the second loop has done are written, and those still to come that
\* differ from their file have a mark to rename.
LoopKnows ==
  writer.step \in {"rename", "open", "close"} =>
    \A s \in DOMAIN plan :
      /\ s \notin writer.todo => ini[s] = plan[s]
      /\ s \in writer.todo /\ ini[s] # plan[s] => "unlock" \in marks[s] \/ Writing(s)

\* A run that comes to its end has written the whole plan, and a
\* FileNotFoundError meets a key only that needed no writing: what differs is
\* renamed and written, unless the run is cut short before.
RunsWritePlan ==
  [][\A s \in Sensors :
       /\ Close(s) /\ writer'.step = "idle" => \A t \in DOMAIN plan : ini'[t] = plan'[t]
       /\ RenameRaises(s) => s \in DOMAIN plan /\ ini[s] = plan[s]]_vars

LEMMA LoopInductive == ASSUME TypeInv, LoopKnows, [Next]_vars PROVE LoopKnows'
<1> USE DEF TypeInv, TypeOK, WriterPlace, LoopKnows, Writing, WriterIdle, MonitorIdle
<1>0. DOMAIN plan \subseteq Sensors
  BY PlanEntries
<1>1. CASE Receive \/ CompareRaises \/ Killed \/ \E s \in Sensors : RenameRaises(s)
  BY <1>1 DEF Receive, CompareRaises, Killed, RenameRaises
<1>2. CASE Compare
  <2>1. CASE Changed = {}
    BY <1>2, <2>1 DEF Compare
  <2>2. CASE Changed # {}
    <3>1. writer'.todo = DOMAIN plan /\ UNCHANGED <<ini, plan>>
      BY <1>2, <2>2 DEF Compare
    <3>2. ASSUME NEW s \in DOMAIN plan, ini[s] # plan[s] PROVE "unlock" \in marks'[s]
      BY <1>0, <1>2, <3>2 DEF Compare, Changed
    <3> QED
      BY <3>1, <3>2
  <2> QED
    BY <2>1, <2>2
<1>3. ASSUME NEW s \in Sensors, Rename(s) PROVE LoopKnows'
  BY <1>0, <1>3 DEF Rename
<1>4. ASSUME NEW s \in Sensors, Open(s) PROVE LoopKnows'
  BY <1>0, <1>4 DEF Open
<1>5. ASSUME NEW s \in Sensors, Close(s) PROVE LoopKnows'
  <2>1. UNCHANGED <<marks, plan>> /\ ini' = [ini EXCEPT ![s] = plan[s]]
    BY <1>5 DEF Close
  <2>2. CASE writer.todo = {s}
    BY <1>5, <2>2 DEF Close
  <2>3. CASE writer.todo # {s}
    BY <1>0, <1>5, <2>1, <2>3 DEF Close
  <2> QED
    BY <2>2, <2>3
<1>6. CASE Cron \/ Stop \/ RestartControl
  BY <1>6 DEF Cron, Stop, RestartControl
<1>7. ASSUME NEW s \in Sensors, Pass(s) \/ KillListener(s) \/ StartListener(s)
      PROVE  LoopKnows'
  BY <1>7 DEF Pass, KillListener, StartListener
<1>8. ASSUME NEW s \in Sensors, Unlock(s) PROVE LoopKnows'
  BY <1>0, <1>8 DEF Unlock
<1>9. ASSUME NEW s \in Sensors, ListenerReads(s) \/ ControlReads(s) PROVE LoopKnows'
  BY <1>9 DEF ListenerReads, ControlReads
<1>10. CASE Raised
  BY <1>10 DEF Raised, ListenerSearchRaises, ControlSearchRaises
<1>11. CASE UNCHANGED vars
  BY <1>11 DEF vars
<1> QED
  BY <1>1, <1>2, <1>3, <1>4, <1>5, <1>6, <1>7, <1>8, <1>9, <1>10, <1>11 DEF Next, Writer, Monitor, Reader

\* A run of task_monitor.py writes the plan, or stops at a key that needs
\* nothing (task_monitor.py:58-68).
THEOREM PlanIsWritten == Spec => RunsWritePlan
<1>1. Init => LoopKnows
  BY DEF Init, LoopKnows, WriterIdle
<1>2. TypeInv /\ LoopKnows /\ [Next]_vars => LoopKnows'
  BY LoopInductive
<1>3. TypeInv /\ LoopKnows =>
        \A s \in Sensors :
          /\ Close(s) /\ writer'.step = "idle" => \A t \in DOMAIN plan : ini'[t] = plan'[t]
          /\ RenameRaises(s) => s \in DOMAIN plan /\ ini[s] = plan[s]
  <2> SUFFICES ASSUME TypeInv, LoopKnows, NEW s \in Sensors
               PROVE  /\ Close(s) /\ writer'.step = "idle" => \A t \in DOMAIN plan : ini'[t] = plan'[t]
                      /\ RenameRaises(s) => s \in DOMAIN plan /\ ini[s] = plan[s]
    OBVIOUS
  <2> USE DEF TypeInv, TypeOK, WriterPlace, LoopKnows
  <2>1. ASSUME Close(s), writer'.step = "idle", NEW t \in DOMAIN plan PROVE ini'[t] = plan'[t]
    <3>1. writer.todo = {s} /\ UNCHANGED plan /\ ini' = [ini EXCEPT ![s] = plan[s]]
      BY <2>1 DEF Close
    <3>2. t # s => ini[t] = plan[t]
      BY <2>1, <3>1 DEF Close
    <3>3. t \in Sensors
      BY PlanEntries
    <3> QED
      BY <3>1, <3>2, <3>3
  <2>2. ASSUME RenameRaises(s) PROVE s \in DOMAIN plan /\ ini[s] = plan[s]
    BY <2>2 DEF RenameRaises, Writing
  <2> QED
    BY <2>1, <2>2
<1> QED
  BY <1>1, <1>2, <1>3, ConfigSafe, PTL DEF Spec, RunsWritePlan
=============================================================================
