# A verification development of Soar, a smart roadside infrastructure system

Soar runs deep-learning tasks on roadside lampposts.  On each node, containers
exchange sensor frames through shared-memory rings; a scheduler dispatches one
inference at a time to model processes so that frames meet their deadlines; a
central dispatcher places tasks on nodes; results and point clouds go to
vehicles over a lossy broadcast link.  This directory holds TLA+ modules that
model that code, TLC configurations that check them, and TLAPS proofs.

## 1. Inventory

Paths are relative to `src/`.  `LS` is `computing/local_exe/local_scheduler`,
`PP` is `computing/local_exe/pre_processing`, `DM` is
`computing/local_exe/data_manager/ros2-foxy-sensor`, `NT` is
`computing/local_exe/network_test`, `TD` is `computing/task_dispatcher`,
`I2V` is `communication/I2V`.

| Component | State | Operations | What is hard |
|---|---|---|---|
| Cross-container queue, `LS/utils/crossqueue.py`, `LS/inferqueue.py` (copies in `PP/utils`, `DM`) | slots of data and time segments, rear word, a front word and semaphore per consumer key, rear semaphore | put, get (two versions), isEmpty, gettime, size, isFull, remove | reads outside locks, drop of the oldest frame under a reader, size read in two halves, segments re-created under a peer |
| Local scheduler, `LS/local_scheduler.py` | start and end flags and conditions, selected task, per-task queues, miss counters | select task (EDF), select model variant, drop, dispatch, write_to_results | signals between processes, frame dropped between selection and execution, sentinels 0 / -1 / inf |
| Model processes, `LS/model_inference.py`, `LS/control.py` | start flag taken, queue, result socket | wait for start, read frame, detect, send, notify end | lost wake-up, a read that blocks or an exception that leaves the scheduler waiting |
| Miss-rate upload, `LS/control.py`, `NT/task_monitor.py` | miss queue, MISSING_RATE | count, upload every 500 | shared counters, division by a zeroed counter |
| Pre-processing, `PP/pre_processing.py`, `PP/data_processer.py` | last accepted timestamp, output queue | get, rate limit, process, put | rate limit on a lossy input |
| Sensor side, `DM/.../sensor_sub.py`, `DM/ros2_monitor/*` | listener processes, lock files, config files | cron monitor, start and stop of listeners and pre-processing | two processes and the file system: rename and rewrite are not atomic |
| Node task monitor, `NT/task_monitor.py`, `NT/iperf/client.py` | .ini and .lock/.unlock files, sockets | receive tasks, write2file, report | the other half of the file protocol |
| Task dispatcher, `TD/allocation/*.py`, `TD/env/edgenode.py`, `TD/run.py`, `TD/demo.py` | per-node bandwidth queues, task queues, shared dict | receive reports, allocate, deploy, serve nodes | handler threads race on queues they test and then use |
| Config generator, `computing/config_gen/config_generate_gen.py` | shared-memory key layout | generate | one pass over the configuration, with nothing that another actor changes |
| Lidar forwarding, `I2V/libroad_tx.cpp`, `I2V/libroad_rx.cpp`, `I2V/libroad_tx_demo.cpp` | bounded packet queue, two conditions | producers push, the sender pops | bounded buffer with two kinds of producers |
| Broadcast coding, `I2V/src/*.cpp` | encoder matrix, receive buffers by batch | LDPC / network coding, send, receive, decode | loss, reordering, batch ids that wrap |
| Handover, `I2V/gps.py` | current channel | nearest lamppost, switch | hysteresis |

Not Soar's own logic and not modelled: `I2V/8814au` (Realtek Wi-Fi driver),
`I2V/livox_sdk` (vendor SDK with its third-party libraries), `I2V/result`
(measurements and plots), the ONNX models and the TensorRT plugin, Dockerfiles.

### How the components interact

    sensor listener --put--> sensor ring --get--> pre-processing
       --put--> task ring --size/gettime--> local scheduler
       local scheduler --start_flag--> model process --get--> task ring
       model process --end_flag--> local scheduler --miss rate--> dispatcher
    iperf client --delay--> dispatcher --tasks--> task monitor
       --.ini and .lock files--> ros2_monitor --start/kill--> sensor listener
    lidar + result socket --push--> packet queue --pop--> LDPC sender --air--> receiver

### What makes each component correct

* Queue: a consumer gets whole frames, in order, each once; a frame is lost
  only when the ring of that consumer is full; put and get return.  Its
  processes come and go: a consumer works on one ring or raises, a kill costs a
  restart and no more.
* Scheduler and models: one inference at a time; each dispatch is answered by
  exactly one end signal of the same model; a dispatched model finds a frame;
  a frame that can still meet its deadline is not dropped.
* Dispatcher: tasks land on nodes that can run them in time, urgent ones first;
  a node's tasks reach it; a node's newest report is the one used.
* Node configuration: what the monitor runs is the last configuration written.
* Link: what the receiver delivers is what was sent, a batch at most once.

## 2. Modules

| Module | Models | Uses |
|---|---|---|
| `FrameQueue` | the promise of the ring: a lossy first-in-first-out queue per consumer | |
| `TaskRing` | one consumer's ring as the scheduler's specification assumes it | |
| `CrossQueue` | the ring, at the grain of one semaphore operation or segment access | implements `FrameQueue`, and `TaskRing` for each consumer |
| `RingRestart` | a sensor's ring while its listener and its pre-processing are killed and started: creation, removal and opening of segments and semaphores | |
| `ModelCall` | the promise of a dispatch: one call of one model at a time, which takes one frame and answers once | |
| `InferDispatch` | the scheduler and the model processes over the rings of `TaskRing` | implements `ModelCall`, assumes `TaskRing` |
| `EdfBackoff` | the scheduler's decisions in time, with pre-processing's rate limit | |
| `NodeConfig` | `task_monitor.py`, `ros2_monitor.py`, listeners and `control.py` over the configuration files of a node | |
| `Allocation` | the placement of tasks on nodes | |
| `TxQueue` | the packet queue of the point cloud transmitter | |
| `V2xReceiver` | the receiver of coded broadcasts: node and batch switch, decoding | |
| `<Module>Proofs` | theorems about `<Module>` | TLAPS |
| `MC<Module>` | instances for TLC | |

### How state and actions correspond to the code

**CrossQueue.**  `data`, `time`, `rear` and `front` are the shared segments,
`rearLock` and `frontLock` the owners of the System V semaphores, `cFront` is
`self.fronts[key]`.  One action is one semaphore operation or one access to a
segment, in the order of `put`, `get`, `isEmpty`, `size`, `gettime`; a read of
a word that only the holder of a semaphore writes is joined to its
acquisition.  `memory.write` is two actions with the value `Partial` between
them.  Consumers in `Unlocked` use `CrossQueue.get`, the others
`InferQueue.get`.  A frame is its number.  The reader of a segment stops at
`NULL_CHAR`, which a payload may contain by chance: a frame in `Malformed` is cut
between two items, does not reshape, and `get` tries again with the next; one in
`Unreadable` is cut within an item, and `np.frombuffer` raises (`GetRaise`): out
of `InferQueue.get` with the front semaphore taken, which nobody releases, out of
`CrossQueue.get` with none.

**RingRestart.**  A key (`Data`, `Rear`, `RearLock`, `Front(c)`, `FrontLock(c)`)
names its newest object, or none; `handle[c]` is the object a consumer has
opened under each key, which stays with it after the key has come to mean
another one.  `Remove` and `MakeNew` are the two steps of `IPC_CREX`; between
them a consumer with `IPC_CREAT` may make the segment, and then `MakeRaises`.
The constructor's steps are in the order of `CrossQueue.__init__`.  Put and get
are coarser than in `CrossQueue`, where nobody comes or goes: one step per
semaphore operation, and `PutWrite` between them.  All data and time segments are one key, as every put and
get opens them anew.  A read of a segment that is gone is swallowed by
`read_from_memory`, so the consumer keeps its old number (`Reads`); a semaphore
that is gone raises (`Raises`).  `broken` holds the slots that cannot be read: the
one put is writing, and those whose frame `np.frombuffer` would reject; `get`
raises there with no semaphore taken.  An image that `cv2.imdecode` could not
decode is `None`, and `put` raises with the rear semaphore taken (`PutRaises`).  `KillProducer` is the SIGKILL of
`ros2_monitor.py:108`, `KillConsumer` the `terminate` of `prepro4call.py`; either
may come at any step.  `whole`, `met`, `moved` and `spoilt` are history.

**InferDispatch.**  `startFlag` and `endFlag` are the shared arrays,
`startLock` and `endLock` the locks of the two conditions.  A wait is three
actions: test, go to sleep (which gives the lock up), wake.  The scan of the
rings is as in the code two reads for `size` and one for `gettime`, between
which the rings move.  Which task is selected and whether its frame is dropped
depends on times, so every choice the scan allows is taken here; `EdfBackoff`
says says which is.  A process that meets an `Unreadable` frame, a model in its get or
the scheduler in a drop, ends in the exception with the front semaphore taken,
and the ring takes no more frames (`TakeRaise`, `FrontLeft`).

**EdfBackoff.**  The clock may move between any two steps of the scheduler, but
a run of a model takes at most its profiled time and the start of a model at
most `Overhead`.  Reading a ring and running a model are one step each, which
`InferDispatch` justifies (one inference at a time, and the frame is there).
`method` is `method_selection`: 1 is back-off, 2 full models only, 3 small ones.

**NodeConfig.**  A step opens, closes or renames one file or parses the files.
An `.ini` between open and close is `Truncated`, and parsing it raises a
KeyError: the end of the run of `task_monitor.py` or of `ros2_monitor.py`, or of
the process that was to be started.  `task_monitor.py` may be killed between any
two steps.  `ros2_monitor.py` looks for processes by the command line of every
process there is, and `psutil` raises for one that ends meanwhile, such as the
one just terminated: `ListenerSearchRaises` and `ControlSearchRaises` end the run
there.  `overlapped` and `cut` are history variables, no state of the code;
`faults` counts kills and exceptions of `psutil`.

**Allocation.**  One step is one round of the loop of `demo.py:61-122`, which is
sequential and reads nothing that changes.  A task is its place in the order of
priorities.  `CommTime` is frame size by bandwidth, as `get_comm_time` computes
it along the links of the cluster; `task_list`, the configuration, is chosen in
`Init`.  `Fits` tests every task of the node with the transfer time of the new
one, as `demo.py:103` does.

**TxQueue.**  A critical section under `packet_mutex` is one step; going to
sleep is part of it, as `condition_variable::wait` gives the mutex up.
`notify_all` is called after the unlock and is a step.  Sleepers may wake
spuriously.  `recv_result` pushes a pointer to its only array, so `buffer` holds
the datagram there now.  After it has sent a pointer of `recv_result`, main
`delete[]`s an array that `new` did not allocate: the model lets the program end
there or go on.  When `recv` fails, `recv_result` returns and its array is gone:
what main then sends for a pointer still queued is any value (`Readable`).

**V2xReceiver.**  `Receive` is the body of `recv` for one packet up to the test
of the number of packets; a decode is one step per column of
`gaussianElimination` on `mat` and `invMat`, then `Hand`.  A packet carries its
node, its batch and the place of its coefficients; the receiver sees the batch
modulo `IdRange`.  The air loses and mixes packets at will and delivers up to
`MaxLate` of them late or twice.  Field, parity rows and source packets are
constants; one symbol stands for a payload.  `newest`, `heard`, `upset` and
`late` are history or belong to the air.  `recv` does not compare the number of
packets with the rows of `inputPkts`: a packet beyond them is `Overrun`, after
which the process is not followed.  Two packets with the same coefficients
share a row of the matrix (`Spoil`), as in `LDPC.cpp:64`.

## 3. What the runs show

| Run | Question |
|---|---|
| `ring_safety` | an `InferQueue` consumer beside one with `CrossQueue.get`: whole frames, in order, lost only when the ring is full (`ImplementsFrameQueue`); `gettime` keeps the promise of an earlier `size`; unguarded reads pair frames whole laps apart; nobody waits for semaphores in a circle |
| `ring_live` | `put` returns unless it comes to a front semaphore that an exception of `InferQueue.get` left taken; short of that a waiting `get` takes a frame or ends |
| `ring_restart` | kills and restarts at any step: one ring or an exception, a semaphore left taken only by a kill, a put of no image or a consumer that met a creation, promised frames there, except those that cannot be read; working consumers take frames |
| `dispatch` | one inference at a time, no wake-up lost, a frame where one was promised, the frame selected or a newer one, each dispatch one call of one model (`ImplementsModelCall`), every dispatch answered unless its own model raised, in `sendto` or in `get`, or its ring ended in a broken frame |
| `edf_safety` | deadlines in order, what is dropped or overwritten was late, full models are on time and leave room for the next frame |
| `edf_live` | frames leave their rings |
| `edf_hopeless` | refutes `HopelessNotRun` (see Findings) |
| `tx_queue` | packets in order, newest datagram pending, no wake-up lost, packets go out |
| `node_config` | the monitor finds its mark; a listener is outdated only if writer and monitor met, `control.py` only if they met or `psutil` ended a run; a plan that stays comes to run |
| `v2x` | the rows of the receive buffer are overrun only after a late packet or a lap of ids; what is delivered was sent; nothing solvable waits; a batch comes again only after another node or a late packet |
| `allocation` | a placed task is late by its own link only; a task is left out for more urgent ones only, and fits nowhere in the end |
| `allocation_late` | refutes `MeetsDeadline` (see Findings) |

### Bounds, and why they are enough

* `MaxPuts`, `MaxFrames`, `MaxTime`, `MaxPlans`, `MaxBatch`, `MaxLate`,
  `MaxFaults`, `MaxProducer` and `MaxConsumer` bound counters that the code does not bound;
  nothing else in the models depends on them.
* A ring of three slots holds two frames.  Five puts (`ring_safety`) and four
  (`ring_live`) lap it, so that drops, a front at every slot and a rear that
  passes a reader occur; the code has five slots.  One frame does not reshape and
  one is rejected by `np.frombuffer`; in `ring_live` that is the first, so that
  `put` meets the abandoned semaphore while it has still puts to do.  Processes
  may have ended in an exception, hence `CHECK_DEADLOCK FALSE`.
  With two slots a drop would empty the ring under a consumer
  (`LengthAssumption` excludes it; the code never has it).
* `RingRestart`: one consumer, two slots, two starts of each side.  The second
  start is the one that meets objects of the first, and a kill may leave any
  part of either.  Drops do not matter here (`CrossQueue` has them), so two
  slots do.  A frame in slot 0 may be one that cannot be read (`MayBreak`).
  With three slots, and with two consumers, only the invariant that
  the proofs rest on was tried on the states TLC reaches in some minutes; the
  theorems cover every size.
* Two tasks and both variants give the scheduler a choice and a wrong model to
  wake.  Rings of two frames overrun with three; one ring overruns, one model
  may raise, the first frame of each ring does not reshape, and the third,
  which only the ring that overruns has, is rejected by `np.frombuffer`.
* Deadlines 4 and 6 with model times 3/2 and 2/1: a frame can be late, on time
  with the small model only, or delay the next one; the older frame is not
  always the more urgent one.  The clock runs far enough for a ring to overrun.
* A packet queue of two and ids modulo five: full, empty and wrapped ids.
* Two sensors, one of which changes its tasks and one of which does not, and
  two plans: an unchanged key in the second loop, a plan that comes while the
  first is served.  One fault, a kill or an exception of `psutil`, at any step.
* Two lampposts, batches 0 to 2 with ids modulo two (so 2 is a lap after 0), two
  source packets and one parity packet over the field of four elements, one late
  packet: singular and regular sets of packets, one of each kind of interference.
  `MaxRows` is 3, as many as a batch has packets and the least that
  `SizeAssumption` admits, so one packet too many overruns the rows; the code has
  100 rows.
* Every list of six tasks from the five configuration files of the repository,
  in every order of priorities, on three nodes in a line, in tenths of
  milliseconds: nodes fill up, tasks are left out, and slow links are used.
  `Workload` divides after scaling by 1000; on this instance it orders every list
  as exact fractions, and as the floats of `demo.py:113`, do.

### Fairness

Weak fairness of each process: semaphores, conditions and the operating
system's scheduler let a process run that can.  In `CrossQueue` the acquisition
of a semaphore is strongly fair: several processes contend for the rear
semaphore, the kernel queues its waiters in order, and `release` sleeps
(`LS/utils/crossqueue.py:96`), so the one that released it does not overtake
them for ever.  `RingRestart` has the same for `PutBegin`, `PutVisit` and
`TakeStep`, and none for starts, kills and creation: nobody promises that a
killed process comes back.  In `TxQueue` weak fairness lets a stream of
datagrams starve the packet thread, so `PacketsGoOut` is claimed from the point
where datagrams stop.  In `NodeConfig` cron starts a monitor again and again,
somebody `task_monitor.py`, and the listeners and `control.py` that were started
read their files.  In `InferDispatch` a new put is not promised, and the scheduler
waits for ever (`Stranded`) if its model ended in an exception, of `sendto` or
`post_queue` (`LS/model_inference.py:80-83`) or of `np.frombuffer` in `get`
(`LS/inferqueue.py:37`), or if the model passed a frame that does not reshape and
found none behind it.  `DispatchReturns` says that no other step of the model
strands it, and the run has `CHECK_DEADLOCK FALSE`.  A `post_queue.put` that
blocks is not modelled.  Nor does fairness promise anything of exceptions: they
may come or not.

### Findings

* `LS/local_scheduler.py:263` binds `next_remain_times` to the list
  `remain_times` itself.  What the selection then returns for the test "drop
  it?" is not the remaining time of the selected frame, so under back-off only
  frames whose deadline has passed are dropped.  `LS/local_demo.py:154` says of
  the same policy that a frame is skipped when it "cannot finish on time
  anyway", tested with the small model.  `edf_hopeless` shows a hopeless frame
  being run.
* `TD/demo.py:103` tests the tasks that are already on a node with the transfer
  time of the new task.  `TD/allocation/allocator.py:131` says "If the total
  delay of the task is less than its deadline, allocating it on the node".
  `allocation_late` shows a task that came over a slow link and is late after a
  task with a faster link has joined it.  `LateByLinkOnly` says what remains
  true.  In the configuration that `demo.py` itself loads no task is late.

## 4. What is proved

For every value of the constants that satisfies the assumptions named in the
modules (not only for TLC's instances).  Each module has a theorem of type
correctness, `TypeCorrect`; the type invariants are not run by themselves.

* **CrossQueue** (`RingSafe`, inductive invariant `RingInv`): who holds which
  semaphore in which step, what a holder knows of its words, that put has made
  room for the keys it has visited, and that data and time agree in every slot
  but the one being written.  From it: `FramesAreWhole`, `FoundFramesStay`.
  `FoundFrameStays` needs the ring's room: put drops at most one frame of a
  ring that it found full, so a consumer that found one frame keeps one.
  On top of it three more invariants.  `NumberInv` counts slots backwards from
  the rear: the slot at distance d holds frame `Published + 1 - d`, and every
  front is behind the rear by what its consumer has not yet taken.  This makes
  every step of the ring a step of `FrameQueue` or a stutter
  (`RingIsFrameQueue`).  `AskInv` follows a consumer from `size` to `gettime`: a
  front that moved between the two reads of `size` was moved by an overrun, so
  the ring is full (`TopKeepsPromise`).  `SlotLaps` says that the frames a slot
  ever held differ by whole laps (`RawReadsLapsApart`).
  `NobodyWaitsInCircle`: `put` asks for front semaphores while it holds the rear
  one, everybody else asks for a front semaphore only while holding the rear one
  or none, and nobody asks for the rear one while holding a front one; so a chain
  of waiting has two links at most, and ends at somebody who can go on or at a
  consumer that raised with its front semaphore taken.  `PutIsBounded`: each step of a `put` leaves
  it fewer steps, and no consumer leaves it more.  `GetIsBounded`: so does each
  step of a get, unless the ring was empty under both semaphores, or the frame it
  has just taken does not reshape; an exception is the last step of its process.
* **The link between CrossQueue and InferDispatch.**  `InferDispatch` assumes of
  a ring that its frames are `gone`+1..`made`, that a put first makes room and
  then publishes, and that nothing else adds or loses a frame.  `TaskRing` states
  this by itself.  `RingsAreTaskRings` proves it of every task's ring in
  `InferDispatch`, and `RingIsTaskRing` of every consumer's ring in `CrossQueue`,
  with the mapping `made` to the frames published, `gone` to those less the
  distance from front to rear, `putting` to "put has passed this consumer's key".
  A `put` that has made room holds the rear semaphore, which is why `Poll`,
  `ScanRear` and `ScanTimes` wait for `~ putting`.  The scheduler and the model
  processes of a task use one key, and `ExclusiveInference` says that only one of
  them is at the ring at a time: together they are one consumer of it.
* **RingRestart** (`Invariance`): which objects are of the present creation,
  what a consumer may hold of an earlier one given where it is in opening, and
  who holds a semaphore or left it.  From it `OneRingOrNone`,
  `LeftTakenOnlyByFaults` (a kill, a put of no image, a consumer that met a
  creation) and `PromiseKept` (a get that was promised a frame raises only if the
  ring was made again under it or the frame cannot be read).  `met`, `moved` and
  `broken` are needed: without them the properties fail, as section 5 tells.
* **InferDispatch** (`DispatchSafe`, `DispatchInv`): a dispatch is in exactly
  one place (`Handshake`).  From it: exclusive inference, no lost wake-up, and
  the two facts about rings that the code relies on without a lock: the frame is
  there, and `queue_times[0]`, `[1]` exist.  Those rest on `Overrun`: a front
  that moves under the scan was moved by an overrun, after which the ring is
  full.  `SelectedFrameTaken` adds `SeenInv`: from the scan to the taking, frames
  leave the selected ring only by an overrun or because they are broken.
  `DispatchIsModelCall` maps flags, locks and process steps to the phases of one
  call and checks every action against `ModelCall`: it needs `Handshake`, since
  only there a flag that is up belongs to the present call.  `DispatchNotBlocked`:
  while a dispatch is under way one of the processes can take a step, unless the
  process of the model called has ended in an exception, or has passed a broken
  frame and found the ring empty.
  `DispatchIsBounded`: what each process has still to do is a number that its own
  steps reduce and no step raises, a wake-up included.
* **EdfBackoff** (`EdfSafe`, `EdfInv`): the rate limit keeps the frames of a
  ring a deadline apart (`RateLimitHolds`), so only the newest can be live;
  hence what is dropped or overwritten was late (`OnlyExpiredLost`).  Further
  the order by deadline, full models on time, room for the next frame, drops
  counted as misses.
* **TxQueue** (`TypeCorrect`, `WakeUps`, `PacketsOrdered`, `NewestGoesOut`):
  the ids in the line of pointers are consecutive, for any queue size and any
  modulus that exceeds the packets under way by the margin in
  `SizesAssumption`.  `SentOneByOne` draws from it what the link sees: each
  packet transmitted bears the id after the one before.  `SomebodyAwake`: the
  threads are never all asleep.  `NewestGoesOut` ends with the result thread: once
  `recv` has failed, its array is gone and pending pointers dangle.
* **NodeConfig** (`ConfigSafe`, `ConfigInv`): a mark goes away only while the
  monitor serves the sensor; if the writer did not touch the sensor meanwhile,
  monitor and listener read the same file; serving a sensor with tasks sets
  `running`, so `control.py` is restarted, unless `psutil` ends the run first (`cut`).  From
  it: `UnlockSucceeds`,
  `ListenersFollow`, `ControlFollowsFiles`.  `PlanIsWritten` adds `LoopKnows`: in
  the second loop of `write2file`, the keys done are written, and those to come
  that differ from their file still have a mark to rename, whatever the monitor
  renames.  So a run that ends at its last key has written the whole plan, and a
  FileNotFoundError meets only keys that needed nothing.
* **V2xReceiver** (`ReceiverSafe`): each row of the matrices says a true equation
  about the sources, row operations keep the set of solutions of the packets and
  the kernel, and columns left of `col` are reduced.  From it, for any field of
  characteristic 2, any parity rows and any loss: `LapsApart` (only batches a
  whole lap of ids apart are ever mixed), `RowsEnough` (while neither that nor a
  late packet happens, a batch fits its rows; `TypeCorrect` bounds the packets
  kept up to such an overrun only),
  `DeliveriesRight` (what is decoded is what was sent), `SolvableDelivered` (a
  decode fails only if the packets leave the sources undetermined) and
  `AgainOnlyIfDisturbed`.
* **Allocation** (`AllocSafe`): tasks are looked at in order, each is in one
  place, and what the tests found of a node's list stays true as tasks less
  urgent join it.  From it `LatenessBounded` and `UrgentFirst`.
  `NothingLeftFits` needs more: that the work of a node grows with its tasks.
  That work is a fold over a finite set; the recursion it satisfies is shown to
  have one solution, and the number of a set's units of work (pairs of a task and
  a number up to its time) is one, so that growth is that of a cardinality.  An
  argument by a least counterexample takes the place of an induction rule.

Only model-checked: the seven liveness properties (`PutReturns`,
`GetTakesFrame`, `DispatchReturns`, `FramesLeave`, `PacketsGoOut`, `PlanRuns`,
`WorkingConsumerTakes`).  They rest on fairness and so on ENABLED, which the
prover does not handle.  What of them is safety is proved for the first three,
and in part for `PacketsGoOut` and `PlanRuns`: somebody can go on (a circle of
waiting, or a sleep of everybody, is excluded), and an operation takes boundedly
many steps.  What fairness adds, that somebody who can go on does, stays with TLC.
Every other property of a passing run is a theorem.

Assumptions on constants that stand for facts of the configuration or of a
library: `ProfileAssumption` of `EdfBackoff` (the small model is no slower than
the full one and fits the deadline, as in every configuration of the
repository), `ProfileAssumption` of `Allocation` (times are natural numbers),
`LengthAssumption` (three slots or more; two in `RingRestart`),
`CapacityAssumption` (two frames or more), `SizesAssumption`, `FieldAssumption`
and `DotAssumption` of `V2xReceiver` (the arithmetic of `FiniteField`, a sum of
products that is linear; TLC evaluates both for the field of four elements).
`FullIsOnTime` has the premise `PromptStart` (a model starts within the task's
`posttime`), and a run keeps to its profile; no code enforces either.

## 5. What a reader of the code should know

* A plan that arrives while `ros2_monitor.py` serves the sensor (it sleeps 3.1 s
  with the `.lock` still there) is lost to that sensor: the monitor renames the
  new mark away, and the old listener stays.
* `write2file` renames the mark of every key of the plan, but makes one only for
  the keys that change: an unchanged key that is still marked `.lock` raises
  FileNotFoundError, and the keys after it wait for a later run.
* `task_monitor.py` killed while it writes an `.ini` never repairs it: each
  later run raises a KeyError on that file.
* Sensors and tasks that leave the plan are never stopped.
* Own-task back-off in the scheduler never matters: with the rate limit the
  second frame of a ring is live only when the first has expired.
* `CrossQueue.get` (the consumer of post-processed results) can pair the data
  of one frame with the timestamp of another, whole laps apart.
* A consumer that opens a ring while its listener makes it may keep a rear word
  that is removed a moment later; its reads swallow the exception.  It then waits
  for ever, or moves its front past the true rear, and the next process of its
  key fetches a slot nobody has written, and raises.
* `IPC_CREX` raises in the listener if a consumer's `IPC_CREAT` makes the segment
  between the removal and the creation.
* A process killed between `acquire` and `release` blocks put and every other
  get of that ring until the listener is started again.
* A float frame that contains `NULL_CHAR` is cut there, and unless the cut falls
  between two items `np.frombuffer` raises in `InferQueue.get`
  (`LS/inferqueue.py:37`) with the front semaphore taken: the model, or the
  scheduler in a drop, ends, and the next put that comes to that semaphore keeps
  the rear one for ever.  Every application of the repository has float rings.
* `cv2.imdecode` returns `None` for an image it cannot decode, and the listener's
  `put` (`DM/sensor_subscriber/src/sensor_subscriber/sensor_subscriber/sensor_sub.py:361`)
  raises a TypeError on it with the rear semaphore taken.
* `CrossQueue.get` (`PP/utils/crossqueue.py:218-219`) reads without a semaphore: it
  may meet half a timestamp, or half a frame, and raise on a ring that nobody
  made again.
* `psutil` raises in `ros2_monitor.py` for a process that ends while it looks for
  one (`DM/ros2_monitor/prepro4call.py:34`), for instance the pre-processing it
  has just terminated.  The marks are renamed by then, so `control.py` keeps its
  old configuration until another plan comes.
* `inputPkts` has 100 rows (`I2V/src/v2x_receiver.cpp:63`) and nothing compares
  `pktNum` with them.  Packets that come late or twice, or whose id has wrapped,
  can overrun it.
* When `recv` fails in `recv_result` (`I2V/libroad_tx.cpp:231-237`), its array
  goes out of scope while main may still have to send from it.
* The selection returns `-1` for "no frame" (`LS/local_scheduler.py:110`), and a
  remaining time otherwise, which could be `-1` too; the fractions of the time of
  day make that unlikely.
* The history of the receiver (`I2V/src/v2x_receiver.cpp:44-49`) has no effect:
  its `continue` is that of the inner loop.  A straggler restarts its old batch
  and throws away the packets of the current one.
* Two packets of a batch with equal coefficients share a row of the matrix
  (`I2V/src/LDPC.cpp:64`): elimination zeroes the row of its own pivot, and the
  decode fails or delivers what was not sent.
* A frame dropped or selected by the scheduler may be newer than the one whose
  time it looked at, after an overrun.

## 6. Not modelled

See the components of `PROJECT.json` with status `not_modelled` and its notes.

* `I2V/8814au` (the Realtek driver), `I2V/livox_sdk`, models, plug-ins and plots
  are vendored code, numeric kernels or data.  They are nearly all of the
  repository's lines of C, so the modules map only a small part of those.
* Task deployment: `TD/run.py:95` and `:98` pass `args=(bw_queue)`, no tuple, so
  `Process` raises a TypeError and no process of the dispatcher starts.  There is
  no behaviour of `master_server.py` to model; `NodeConfig` takes plans from
  outside, and `Allocation` follows `demo.py`.
* The configuration generator and the handover (`I2V/gps.py`) are sequential,
  with no state that a second actor could disturb.
* The snapshot and upload of miss rates.
* `clear_sharedmemory` of `start_up.py`, which runs before any process of the
  node; the rings of results under restarts; Livox callbacks and rate pacing of
  the transmitter; image operations.
* The encoder: `I2V/src/LDPC.cpp:26` clears the row pointers it then writes
  through.  The receiver is modelled against packets as the encoder is meant to
  make them.

Known in the code, sequential and deterministic, so left to a test:
`I2V/libroad_tx.cpp:367` binds a socket file that outlives the process;
`LS/control.py:49` uploads to the port on which the dispatcher serves deployments
(`TD/run.py:19`), and `NT/task_monitor.py:73` asks for plans at one where nobody
listens; equal priorities raise in `TD/allocation/allocator.py:86`; a consumer's
`data_size` must be the producer's.

## 7. Plan

1. `MissRate`: the counters of `write_to_results`, the snapshot every 500
   results, the reset of one task only, and the uploader that divides.
2. The process list of a node: pre-processing and listeners of tasks that left
   the plan, composed with `NodeConfig` and `RingRestart`.
3. `RingRestart` with the rings of results, whose producer is the
   pre-processing, and with drops.
4. `TaskDeploy`, once `run.py` starts its processes: report and deployment
   queues, handler threads, two `update_comm_time`; composed with `NodeConfig`
   through `Receive` and with `Allocation`.
5. The Livox callbacks and rate pacing of `TxQueue`.
