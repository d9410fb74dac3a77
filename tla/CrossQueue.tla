----------------------------- MODULE CrossQueue -----------------------------
(***************************************************************************)
(* The shared-memory ring that carries frames between containers           *)
(* (utils/crossqueue.py, and inferqueue.py, which overrides get).          *)
(*                                                                         *)
(* One producer puts frames; every consumer owns a front word and a front  *)
(* semaphore, named by its key.  The rear word is guarded by the rear      *)
(* semaphore.  A step below is one semaphore operation or one access to a  *)
(* shared segment; reads of a word that only the holders of a semaphore    *)
(* write are joined to the acquisition of that semaphore.                  *)
(*                                                                         *)
(* A frame is its sequence number 1, 2, ...; a data or time segment holds  *)
(* the number of the frame last written to it, 0 before the first write,   *)
(* or Partial while memory.write is copying.                               *)
(***************************************************************************)
EXTENDS Integers, Sequences, FiniteSets

CONSTANTS
  Consumers,   \* front_keys: the keys that read this queue
  Unlocked,    \* the keys that read it with CrossQueue.get, not InferQueue.get
  Producer,    \* the process that puts
  Free,        \* the owner of a semaphore nobody holds
  L,           \* max_length: slots of the ring
  MaxPuts,     \* bound: calls of put
  Malformed,   \* frames that NULL_CHAR inside the payload cuts between two items
  Unreadable   \* frames that it cuts within an item of the ring's type

ASSUME ActorsAssumption ==
  /\ Unlocked \subseteq Consumers
  /\ Producer \notin Consumers
  /\ Free \notin Consumers \cup {Producer}
  /\ IsFiniteSet(Consumers)

\* The code always passes max_length=5.  With two slots a drop would empty
\* the ring under a consumer that has just found it non-empty.
ASSUME LengthAssumption == L \in Nat /\ L >= 3

ASSUME PutsAssumption ==
  /\ MaxPuts \in Nat
  /\ Malformed \subseteq 1..MaxPuts /\ Unreadable \subseteq 1..MaxPuts

VARIABLES
  data,       \* data segments, by slot
  time,       \* time segments, by slot
  rear,       \* the rear word
  front,      \* the front words, by key
  rearLock,   \* owner of the rear semaphore
  frontLock,  \* owners of the front semaphores, by key
  pc,         \* the next step of each process
  puts,       \* calls of put so far; the number of the frame being put
  todo,       \* put: keys its loop has still to visit
  pFront,     \* put: the front it read for the key it is visiting
  cFront,     \* consumers: self.fronts[key], or gettime's cursor
  gotData,    \* consumers: bytes read from the data segment
  gotTime,    \* consumers: value read from the time segment
  out,        \* consumers: the (data, timestamp) get last returned
  sized,      \* consumers: the result of the last size() since the last get
  want,       \* consumers: gettime's argument top
  times       \* consumers: the list gettime is building

ring     == <<data, time, rear, front>>
locks    == <<rearLock, frontLock>>
putVars  == <<puts, todo, pFront>>
getVars  == <<cFront, gotData, gotTime, out>>
infoVars == <<sized, want, times>>
vars     == <<ring, locks, pc, putVars, getVars, infoVars>>

Slots   == 0..(L - 1)
Procs   == Consumers \cup {Producer}
Partial == -1
MaxTop  == 2   \* the scheduler asks gettime for one or two timestamps

Inc(i)       == (i + 1) % L

\* Frames from a front to a rear.
Distance(f, r) == (r - f + L) % L

\* put opens a slot; is the ring full for a front; where the front goes then.
SlotToFill     == rear
NeverFull(f)   == FALSE            \* mutant: the test is left out
FullFor(f)     == Inc(rear) = f
DroppedTwo(f)  == Inc(Inc(f))      \* mutant: two frames are dropped
Dropped(f)     == Inc(f)

\* The keys put visits, and those left after one of them.
NoKeys         == {}               \* mutant: the loop is left out
KeysToVisit    == Consumers
SameKeys(c)    == todo             \* mutant: the loop does not move on
KeysAfter(c)   == todo \ {c}

\* isEmpty's test; what get makes of the front; the slot CrossQueue.get reads;
\* what size returns.
EmptyOrOne(f)  == rear \in {f, Inc(f)}  \* mutant: a single frame is not seen
EmptyAt(f)     == rear = f
Taken(f)       == Inc(f)
SlotNow(c)     == front[c]         \* mutant: the slot is looked up again
RawSlot(c)     == cFront[c]
SizeSwapped(c) == Distance(rear, cFront[c])   \* mutant: exchanged operands
SizeSeen(c)    == Distance(cFront[c], rear)

Goto(p, label) == pc' = [pc EXCEPT ![p] = label]
Step(p, from, to) == pc[p] = from /\ Goto(p, to)

Init ==
  /\ data = [s \in Slots |-> 0]
  /\ time = [s \in Slots |-> 0]
  /\ rear = 0
  /\ front = [c \in Consumers |-> 0]
  /\ rearLock = Free
  /\ frontLock = [c \in Consumers |-> Free]
  /\ pc = [p \in Procs |-> "idle"]
  /\ puts = 0
  /\ todo = {}
  /\ pFront = 0
  /\ cFront = [c \in Consumers |-> 0]
  /\ gotData = [c \in Consumers |-> 0]
  /\ gotTime = [c \in Consumers |-> 0]
  /\ out = [c \in Consumers |-> [data |-> 0, time |-> 0]]
  /\ sized = [c \in Consumers |-> 0]
  /\ want = [c \in Consumers |-> 0]
  /\ times = [c \in Consumers |-> <<>>]

-----------------------------------------------------------------------------
(* put                                                                     *)

PutCall ==
  /\ Step(Producer, "idle", "putLock")
  /\ puts < MaxPuts
  /\ puts' = puts + 1
  /\ UNCHANGED <<ring, locks, todo, pFront, getVars, infoVars>>

PutLock ==
  /\ Step(Producer, "putLock", "dataBegin")
  /\ rearLock = Free
  /\ rearLock' = Producer
  /\ UNCHANGED <<ring, frontLock, putVars, getVars, infoVars>>

WriteData(value) ==
  /\ data' = [data EXCEPT ![SlotToFill] = value]
  /\ UNCHANGED <<time, rear, front, locks, putVars, getVars, infoVars>>

PutDataBegin == Step(Producer, "dataBegin", "dataEnd") /\ WriteData(Partial)
PutDataEnd   == Step(Producer, "dataEnd", "timeBegin") /\ WriteData(puts)

WriteTime(value) ==
  /\ time' = [time EXCEPT ![SlotToFill] = value]
  /\ UNCHANGED <<data, rear, front, locks, puts, pFront, getVars, infoVars>>

PutTimeBegin ==
  Step(Producer, "timeBegin", "timeEnd") /\ WriteTime(Partial) /\ UNCHANGED todo

PutTimeEnd ==
  Step(Producer, "timeEnd", "visit") /\ WriteTime(puts) /\ todo' = KeysToVisit

\* The loop over front_keys, in any order.
PutVisit(c) ==
  /\ Step(Producer, "visit", "ifFull")
  /\ c \in todo
  /\ frontLock[c] = Free
  /\ frontLock' = [frontLock EXCEPT ![c] = Producer]
  /\ pFront' = front[c]
  /\ UNCHANGED <<ring, rearLock, puts, todo, getVars, infoVars>>

LeaveKey(c) ==
  /\ Step(Producer, "ifFull", "visit")
  /\ frontLock[c] = Producer
  /\ frontLock' = [frontLock EXCEPT ![c] = Free]
  /\ todo' = KeysAfter(c)
  /\ UNCHANGED <<data, time, rear, rearLock, puts, pFront, getVars, infoVars>>

PutDropOldest(c) ==
  /\ FullFor(pFront)
  /\ front' = [front EXCEPT ![c] = Dropped(pFront)]
  /\ LeaveKey(c)

PutKeepOldest(c) == ~ FullFor(pFront) /\ UNCHANGED front /\ LeaveKey(c)

PutPublish ==
  /\ Step(Producer, "visit", "idle")
  /\ todo = {}
  /\ rear' = Inc(rear)
  /\ rearLock' = Free
  /\ UNCHANGED <<data, time, front, frontLock, putVars, getVars, infoVars>>

-----------------------------------------------------------------------------
(* How a consumer takes its semaphores                                     *)

LockRear(c) ==
  /\ rearLock = Free
  /\ rearLock' = c
  /\ UNCHANGED <<ring, frontLock, putVars, getVars, infoVars>>

LockFront(c) ==
  /\ frontLock[c] = Free
  /\ frontLock' = [frontLock EXCEPT ![c] = c]
  /\ cFront' = [cFront EXCEPT ![c] = front[c]]
  /\ UNCHANGED <<ring, rearLock, putVars, gotData, gotTime, out, infoVars>>

ReleaseFront(c) ==   \* mutant: a return keeps the rear semaphore
  /\ frontLock' = [frontLock EXCEPT ![c] = Free]
  /\ UNCHANGED <<ring, rearLock, putVars, getVars, sized>>

ReleaseBoth(c) ==
  /\ rearLock' = Free
  /\ frontLock' = [frontLock EXCEPT ![c] = Free]
  /\ UNCHANGED <<ring, putVars, getVars, sized>>

(* isEmpty, the polling loop both gets start with                          *)

GetCall(c) ==
  /\ Step(c, "idle", "poll")
  /\ sized' = [sized EXCEPT ![c] = 0]
  /\ UNCHANGED <<ring, locks, putVars, getVars, want, times>>

EmptyLockRear(c)  == Step(c, "poll", "pollFront") /\ LockRear(c)
EmptyLockFront(c) == Step(c, "pollFront", "pollTest") /\ LockFront(c)

EmptyReturn(c) ==
  /\ \/ EmptyAt(cFront[c]) /\ Step(c, "pollTest", "poll")
     \/ ~ EmptyAt(cFront[c]) /\ c \notin Unlocked /\ Step(c, "pollTest", "getLock")
     \/ ~ EmptyAt(cFront[c]) /\ c \in Unlocked /\ Step(c, "pollTest", "rawData")
  /\ ReleaseBoth(c)
  /\ UNCHANGED <<want, times>>

-----------------------------------------------------------------------------
(* InferQueue.get: the front semaphore is held from the read of the front  *)
(* word to its update.  np.frombuffer raises for a payload that is not a   *)
(* whole number of items (see GetRaise); one that is, but too short, is    *)
(* read, and fails to reshape.                                             *)

ReadData(c) ==
  /\ gotData' = [gotData EXCEPT ![c] = data[cFront[c]]]
  /\ UNCHANGED <<ring, locks, putVars, cFront, gotTime, out, infoVars>>

ReadTime(c, slot) ==
  /\ gotTime' = [gotTime EXCEPT ![c] = time[slot]]
  /\ UNCHANGED <<ring, locks, putVars, cFront, gotData, out, infoVars>>

\* Advance the front word and release, then reshape: get returns what it
\* read, or throws it away and calls itself again.  Bytes copied while the
\* producer was writing may do either.
Deliver(c) ==
  /\ gotData[c] \notin Malformed
  /\ out' = [out EXCEPT ![c] = [data |-> gotData[c], time |-> gotTime[c]]]
  /\ Goto(c, "idle")

Retry(c) ==
  /\ gotData[c] \in Malformed \cup {Partial}
  /\ Goto(c, "poll")
  /\ UNCHANGED out

Advance(c) ==
  /\ front' = [front EXCEPT ![c] = Taken(cFront[c])]
  /\ frontLock' = [frontLock EXCEPT ![c] = Free]
  /\ Deliver(c) \/ Retry(c)
  /\ gotData' = [gotData EXCEPT ![c] = 0]
  /\ gotTime' = [gotTime EXCEPT ![c] = 0]
  /\ UNCHANGED <<data, time, rear, rearLock, putVars, cFront, infoVars>>

GetLock(c) == Step(c, "getLock", "getData") /\ LockFront(c)

GetData(c) ==
  Step(c, "getData", "getTime") /\ data[cFront[c]] \notin Unreadable /\ ReadData(c)

GetTime(c) == Step(c, "getTime", "getNext") /\ ReadTime(c, cFront[c])
GetNext(c) == pc[c] = "getNext" /\ Advance(c)

(* CrossQueue.get: the segments of the slot isEmpty saw are read with no   *)
(* semaphore, and the front word is re-read and advanced afterwards.       *)

RawData(c) ==
  Step(c, "rawData", "rawTime") /\ data[cFront[c]] \notin Unreadable /\ ReadData(c)

RawTime(c) == Step(c, "rawTime", "rawLock") /\ ReadTime(c, RawSlot(c))
RawLock(c) == Step(c, "rawLock", "rawNext") /\ LockFront(c)
RawNext(c) == pc[c] = "rawNext" /\ Advance(c)

\* Nothing handles an exception of get, and the consumer's process ends.
\* InferQueue.get raises with its front semaphore taken, and nobody releases
\* it; CrossQueue.get holds none, but may meet half a frame, or half the
\* digits of a timestamp, and float() of those may raise too.
GetRaise(c) ==
  /\ \/ Step(c, "getData", "raised") /\ data[cFront[c]] \in Unreadable
     \/ Step(c, "rawData", "dead") /\ data[cFront[c]] \in Unreadable \cup {Partial}
     \/ Step(c, "rawTime", "dead") /\ time[cFront[c]] = Partial
  /\ UNCHANGED <<ring, locks, putVars, getVars, infoVars>>

-----------------------------------------------------------------------------
(* gettime(top)                                                            *)

GetTimeCall(c, n) ==
  /\ Step(c, "idle", "topRear")
  /\ want' = [want EXCEPT ![c] = n]
  /\ UNCHANGED <<ring, locks, putVars, getVars, sized, times>>

TopLockRear(c)  == Step(c, "topRear", "topFront") /\ LockRear(c)
TopLockFront(c) == Step(c, "topFront", "topRead") /\ LockFront(c)

TopDone(c) == Len(times[c]) = want[c] \/ cFront[c] = rear

TopRead(c) ==
  /\ pc[c] = "topRead"
  /\ ~ TopDone(c)
  /\ times' = [times EXCEPT ![c] = Append(times[c], time[cFront[c]])]
  /\ cFront' = [cFront EXCEPT ![c] = Inc(cFront[c])]
  /\ UNCHANGED <<ring, locks, pc, putVars, gotData, gotTime, out, sized, want>>

TopReturn(c) ==
  /\ Step(c, "topRead", "idle")
  /\ TopDone(c)
  /\ ReleaseBoth(c)
  /\ times' = [times EXCEPT ![c] = <<>>]
  /\ want' = [want EXCEPT ![c] = 0]

(* size(): the two words are read under their semaphores, one after the    *)
(* other, so the producer may move both in between.                        *)

SizeCall(c) ==
  /\ Step(c, "idle", "sizeFront")
  /\ UNCHANGED <<ring, locks, putVars, getVars, infoVars>>

SizeFront(c) ==
  /\ Step(c, "sizeFront", "sizeRear")
  /\ frontLock[c] = Free
  /\ cFront' = [cFront EXCEPT ![c] = front[c]]
  /\ UNCHANGED <<ring, locks, putVars, gotData, gotTime, out, infoVars>>

SizeRear(c) ==
  /\ Step(c, "sizeRear", "idle")
  /\ rearLock = Free
  /\ sized' = [sized EXCEPT ![c] = SizeSeen(c)]
  /\ UNCHANGED <<ring, locks, putVars, getVars, want, times>>

-----------------------------------------------------------------------------
Put ==
  \/ PutLock \/ PutDataBegin \/ PutDataEnd \/ PutTimeBegin \/ PutTimeEnd
  \/ \E c \in Consumers : PutVisit(c) \/ PutDropOldest(c) \/ PutKeepOldest(c)
  \/ PutPublish

Consume(c) ==
  \/ EmptyLockRear(c) \/ EmptyLockFront(c) \/ EmptyReturn(c)
  \/ GetLock(c) \/ GetData(c) \/ GetTime(c) \/ GetNext(c)
  \/ RawData(c) \/ RawTime(c) \/ GetRaise(c) \/ RawLock(c) \/ RawNext(c)
  \/ TopLockRear(c) \/ TopLockFront(c) \/ TopRead(c) \/ TopReturn(c)
  \/ SizeFront(c) \/ SizeRear(c)

\* Only the scheduler, which reads its rings with InferQueue.get, asks for
\* sizes and times.
Call(c) ==
  \/ GetCall(c)
  \/ c \notin Unlocked /\ (SizeCall(c) \/ \E n \in 1..MaxTop : GetTimeCall(c, n))

Next ==
  \/ PutCall
  \/ Put
  \/ \E c \in Consumers : Call(c) \/ Consume(c)

Spec == Init /\ [][Next]_vars

(***************************************************************************)
(* A semaphore that is released again and again is eventually granted: the *)
(* kernel queues the waiters of a SysV semaphore, and every release is     *)
(* followed by usleep(1) to let one of them run.                           *)
(***************************************************************************)
LockStep(c) ==
  \/ EmptyLockRear(c) \/ EmptyLockFront(c) \/ GetLock(c) \/ RawLock(c)
  \/ TopLockRear(c) \/ TopLockFront(c) \/ SizeFront(c) \/ SizeRear(c)

Fairness ==
  /\ WF_vars(Put)
  /\ SF_vars(PutLock)
  /\ \A c \in Consumers :
       SF_vars(PutVisit(c)) /\ WF_vars(Consume(c)) /\ SF_vars(LockStep(c))

FairSpec == Spec /\ Fairness
-----------------------------------------------------------------------------
(* Properties                                                              *)

PutLabels == {"idle", "putLock", "dataBegin", "dataEnd", "timeBegin",
              "timeEnd", "visit", "ifFull"}

GetLabels == {"idle", "poll", "pollFront", "pollTest", "getLock", "getData",
              "getTime", "getNext", "rawData", "rawTime", "rawLock", "rawNext",
              "topRear", "topFront", "topRead", "sizeFront", "sizeRear", "dead",
              "raised"}

Frames == 1..MaxPuts
Cells  == Frames \cup {0, Partial}

\* The variables hold values of their types, as crossqueue.py uses them.
TypeOK ==
  /\ data \in [Slots -> Cells] /\ time \in [Slots -> Cells]
  /\ rear \in Slots /\ front \in [Consumers -> Slots]
  /\ rearLock \in Procs \cup {Free}
  /\ frontLock \in [Consumers -> Procs \cup {Free}]
  /\ pc \in [Procs -> PutLabels \cup GetLabels]
  /\ pc[Producer] \in PutLabels
  /\ \A c \in Consumers : pc[c] \in GetLabels
  /\ puts \in 0..MaxPuts /\ todo \subseteq Consumers /\ pFront \in Slots
  /\ cFront \in [Consumers -> Slots]
  /\ gotData \in [Consumers -> Cells] /\ gotTime \in [Consumers -> Cells]
  /\ out \in [Consumers -> [data : Cells, time : Cells]]
  /\ sized \in [Consumers -> Slots]
  /\ want \in [Consumers -> 0..MaxTop]
  /\ times \in [Consumers -> Seq(Cells)]

\* InferQueue.get never returns the bytes of one frame with the timestamp of
\* another, nor bytes copied while put was writing them, although put writes
\* the segments before it takes any front semaphore.
NoTornFrame ==
  \A c \in Consumers \ Unlocked :
    out[c].data = out[c].time /\ out[c].data # Partial

\* The steps of the two gets after isEmpty has returned False.
LockedGet == {"getLock", "getData", "getTime", "getNext"}
RawGet    == {"rawData", "rawTime", "rawLock", "rawNext"}

\* InferQueue.get releases both semaphores between isEmpty and the read.  The
\* ring it found non-empty still is when it reads, whatever the producer has
\* put and dropped in between.
FoundFrameStays ==
  \A c \in Consumers :
    pc[c] \in LockedGet \cup RawGet => front[c] # rear

-----------------------------------------------------------------------------
(* The inductive invariant behind NoTornFrame and FoundFrameStays          *)

RearHeld == {"dataBegin", "dataEnd", "timeBegin", "timeEnd", "visit", "ifFull",
             "pollFront", "pollTest", "topFront", "topRead"}
FrontHeld == {"pollTest", "getData", "getTime", "getNext", "rawNext", "topRead",
              "raised"}

\* Who owns which semaphore at which step; put holds at most one front
\* semaphore, of a key it has still to finish.
SemaphoresHeld ==
  /\ \A p \in Procs : rearLock = p <=> pc[p] \in RearHeld
  /\ \A c \in Consumers :
       /\ frontLock[c] = c <=> pc[c] \in FrontHeld
       /\ frontLock[c] \in {Free, Producer, c}
       /\ frontLock[c] = Producer =>
            pc[Producer] = "ifFull" /\ c \in todo /\ pFront = front[c]
  /\ \A c, d \in Consumers :
       frontLock[c] = Producer /\ frontLock[d] = Producer => c = d

\* A consumer that holds its front semaphore knows its front word.
FrontKnown ==
  \A c \in Consumers :
    pc[c] \in FrontHeld \ {"topRead"} => cFront[c] = front[c]

\* Before put publishes, the keys it has visited have room for one more frame.
RoomMade ==
  pc[Producer] \in {"visit", "ifFull"} =>
    \A c \in Consumers \ todo : Inc(rear) # front[c]

\* Each consumer runs the get of its own class.
GetKind ==
  \A c \in Consumers :
    /\ pc[c] \in LockedGet => c \notin Unlocked
    /\ pc[c] \in RawGet => c \in Unlocked

\* Only the slot put is writing may hold two frames, or part of one.
SlotsWhole ==
  \A s \in Slots :
    \/ s = rear /\ pc[Producer] \in {"dataEnd", "timeBegin", "timeEnd"}
    \/ data[s] = time[s] /\ data[s] # Partial

\* put writes the data segment before the time segment.
DataPut == pc[Producer] \in {"timeBegin", "timeEnd"} => data[rear] = puts

\* What InferQueue.get has read so far is still in the segments.
BytesRead ==
  \A c \in Consumers :
    /\ pc[c] \in {"getTime", "getNext"} => gotData[c] = data[cFront[c]]
    /\ pc[c] = "getNext" => gotTime[c] = time[cFront[c]]

RingInv == /\ SemaphoresHeld
           /\ FrontKnown /\ RoomMade /\ GetKind /\ FoundFrameStays
           /\ SlotsWhole /\ DataPut /\ BytesRead /\ NoTornFrame

-----------------------------------------------------------------------------
\* Processes hold a semaphore while they wait for another: put the rear one
\* while it visits the keys, isEmpty and gettime while they take the front one
\* (crossqueue.py:163-164, :236, :285).  Still nobody waits in a circle: a
\* chain of waiting ends, after two processes at most, at one that is within
\* an operation and waits for nobody, or at one that raised in
\* InferQueue.get and whose front semaphore nobody will release.
AwaitsRear  == {"putLock", "poll", "topRear", "sizeRear"}
AwaitsFront == {"pollFront", "getLock", "rawLock", "topFront", "sizeFront"}

\* The holders of the semaphores p waits for.
Blockers(p) ==
  {q \in Procs :
     \/ pc[p] \in AwaitsRear /\ rearLock = q
     \/ pc[p] \in AwaitsFront /\ frontLock[p] = q
     \/ pc[p] = "visit" /\ \E c \in todo : frontLock[c] = q}

NoCircularWait ==
  \A p \in Procs : \A q \in Blockers(p) :
    /\ pc[q] \notin {"idle", "dead"}
    /\ \A r \in Blockers(q) : pc[r] \notin {"idle", "dead"} /\ Blockers(r) = {}

-----------------------------------------------------------------------------
\* gettime(top) returns consecutive frames starting with the oldest one, and
\* as many as an earlier size() of the same consumer promised: the scheduler
\* indexes queue_times[0] and queue_times[1] on the strength of that size.
TopKeepsSizesPromise ==
  \A c \in Consumers : pc[c] = "topRead" /\ TopDone(c) =>
    /\ \A i \in 1..Len(times[c]) : times[c][i] = time[(front[c] + i - 1) % L]
    /\ want[c] <= sized[c] => Len(times[c]) = want[c]

\* CrossQueue.get may pair the data of one frame with the timestamp of
\* another, but only of one put in the same slot a whole number of laps before
\* or after: the producer overtook the reader around its two unguarded reads.
RawPairsLapsApart ==
  \A c \in Unlocked : Partial \notin {out[c].data, out[c].time} =>
    (out[c].time - out[c].data) % L = 0

\* To the consumers that use InferQueue.get the ring is a first-in-first-out
\* queue of L - 1 frames that loses a frame only when it is full.
Window(c) == [i \in 1..Distance(front[c], rear) |-> data[(front[c] + i - 1) % L]]

Queue == INSTANCE FrameQueue WITH
  Readers  <- Consumers \ Unlocked,
  Capacity <- L - 1,
  Broken   <- Malformed,
  queue    <- [c \in Consumers \ Unlocked |-> Window(c)],
  newest   <- IF pc[Producer] = "idle" THEN puts ELSE puts - 1,
  taken    <- [c \in Consumers \ Unlocked |-> out[c].data]

ImplementsFrameQueue == Queue!AbsSpec

\* put waits, with the rear semaphore taken, for the front semaphore of a
\* consumer whose process has ended in InferQueue.get.
PutStuck ==
  pc[Producer] = "visit" /\ \E c \in todo : pc[c] = "raised"

\* Every put returns, however the consumers interleave their semaphores and
\* however often the ring is full, unless it comes to the front semaphore that
\* a consumer has left taken in np.frombuffer.
PutReturns == pc[Producer] = "putLock" ~> pc[Producer] = "idle" \/ PutStuck

\* A get that waits while the ring holds a frame takes a frame, meets one it
\* cannot read, or waits for the rear semaphore of a put that is stuck.
GetTakesFrame ==
  \A c \in Consumers :
    pc[c] = "poll" /\ front[c] # rear
      ~> pc[c] \in {"idle", "dead", "raised"} \/ front[c] = rear \/ PutStuck
=============================================================================
