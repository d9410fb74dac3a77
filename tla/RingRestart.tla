---------------------------- MODULE RingRestart ----------------------------
(***************************************************************************)
(* The ring of a sensor when its processes are killed and started again.   *)
(* The producer is the listener (sensor_sub.py), which ros2_monitor.py     *)
(* kills and starts; the consumers are the pre-processing processes, which *)
(* prepro4call.py terminates and starts.  What stays are the System V      *)
(* segments and semaphores.                                                *)
(*                                                                         *)
(* The producer (flag IPC_CREX) removes and makes the object of each key,  *)
(* one after the other.  A consumer (IPC_CREAT) opens them in the same     *)
(* order; it makes a segment that is missing, and waits for a semaphore    *)
(* that is.  Then they put and get as in CrossQueue.tla, where nobody      *)
(* comes or goes.  An object stays with those that have opened it when its *)
(* key has come to mean another one.                                       *)
(*                                                                         *)
(* The data and time segments of all slots are one key; they are opened    *)
(* anew by every put and get.                                              *)
(***************************************************************************)
EXTENDS Integers, Sequences, FiniteSets

CONSTANTS
  Consumer,    \* address_keys of the plan: the pre-processing processes
  Producer,    \* the listener
  Free,        \* no holder of a semaphore
  Length,      \* max_length: slots of the ring
  MayBreak,    \* bound: slots in which a frame may be cut off
  MaxProducer, \* bound: how often the listener is started
  MaxConsumer  \* bound: how often each consumer is started

ASSUME ProcessAssumption ==
  /\ Producer \notin Consumer /\ Free \notin Consumer \cup {Producer}
  /\ Consumer # {}

ASSUME LengthAssumption == Length \in Nat /\ Length >= 2

ASSUME BoundAssumption == MaxProducer \in Nat /\ MaxConsumer \in Nat

Process == Consumer \cup {Producer}
Slot == 0..(Length - 1)
Inc(i) == (i + 1) % Length

\* The keys, in the order in which both sides go through them.
Data == <<"data">>
Rear == <<"rear">>
RearLock == <<"rearLock">>
Front(c) == <<"front", c>>
FrontLock(c) == <<"frontLock", c>>

Segment == {Data, Rear} \cup {Front(c) : c \in Consumer}
Semaphore == {RearLock} \cup {FrontLock(c) : c \in Consumer}
Key == Segment \cup Semaphore

VARIABLES
  there,      \* the keys that have an object
  words,      \* of each key: what its objects hold, the newest last
  filled,     \* slots of the present data segments that put has begun to fill
  broken,     \* those that may not be read as a frame and a number: what is
              \* there is half written, or is cut off at a chance NULL_CHAR
  holder,     \* who took the present semaphore of a key
  ppc,        \* the producer's next step
  making,     \* the key it is making
  gap,        \* it has removed the old object, and made no new one yet
  todo,       \* front keys it has still to make or to visit
  pc, handle, \* of each consumer: its next step, the objects it has opened
  front,      \* self.fronts
  rear,       \* self.rear
  starts,     \* how often each process was started
  whole,      \* history: one run of the producer has made all objects
  met,        \* history: consumers that opened objects while it was not whole
  moved,      \* history: consumers whose front was moved by one of those
  spoilt      \* history: semaphores taken by a process that was killed, by
              \* a put that raised, or by a consumer that raised and had met
              \* a creation

objects == <<there, words, filled, broken, holder>>
producer == <<ppc, making, gap, todo>>
consumer == <<pc, handle, front, rear>>
history == <<whole, met, moved, spoilt>>
vars == <<objects, producer, consumer, starts, history>>

\* The number of the object that a key means; none is 0.
Newest(k) == Len(words[k])
Present(k) == IF k \in there THEN Newest(k) ELSE 0
Word(k) == words[k][Newest(k)]

\* Whether what a consumer has opened under a key is still the key's object.
Live(c, k) == handle[c][k] # 0 /\ handle[c][k] = Present(k)

Closed == [k \in Key |-> 0]

Init ==
  /\ there = {} /\ words = [k \in Key |-> <<>>] /\ filled = {} /\ broken = {}
  /\ holder = [k \in Semaphore |-> Free]
  /\ ppc = "off" /\ making = Data /\ gap = FALSE /\ todo = {}
  /\ pc = [c \in Consumer |-> "off"] /\ handle = [c \in Consumer |-> Closed]
  /\ front = [c \in Consumer |-> 0] /\ rear = [c \in Consumer |-> 0]
  /\ starts = [p \in Process |-> 0]
  /\ whole = FALSE /\ met = {} /\ moved = {} /\ spoilt = {}

\* A new object: a segment of zeros, which the code reads as no number and so
\* as its own 0; or a semaphore of value 1.
Make(k) ==
  /\ there' = there \cup {k}
  /\ words' = [words EXCEPT ![k] = Append(words[k], 0)]

MaxStarts(p) == IF p = Producer THEN MaxProducer ELSE MaxConsumer
Start(p) == starts[p] < MaxStarts(p) /\ starts' = [starts EXCEPT ![p] = starts[p] + 1]

----------------------------------------------------------------------------
(* The producer: create_shared_memory and CrossContainerLock with IPC_CREX. *)

StartProducer ==
  /\ ppc = "off"
  /\ Start(Producer)
  /\ ppc' = "make" /\ making' = Data /\ gap' = FALSE /\ todo' = Consumer
  /\ UNCHANGED <<objects, consumer, history>>

Opening == {c \in Consumer : pc[c] \in {"data", "rear", "rearLock", "front", "frontLock"}}

Remove ==
  /\ ppc = "make" /\ ~gap
  /\ there' = there \ {making}
  /\ gap' = TRUE
  /\ IF making = Data THEN filled' = {} /\ broken' = {} ELSE UNCHANGED <<filled, broken>>
  /\ holder' = [k \in Semaphore |-> IF k = making THEN Free ELSE holder[k]]
  /\ spoilt' = spoilt \ {making}
  /\ whole' = FALSE
  /\ met' = met \cup Opening
  /\ moved' = {c \in moved : making # Front(c)}
  /\ UNCHANGED <<words, ppc, making, todo, consumer, starts>>

ToFront(c) == making' = Front(c) /\ todo' = todo \ {c}

\* mutant: the semaphore of the rear is used again if it is there
AfterRearKept ==
  IF RearLock \in there THEN \E c \in todo : ToFront(c)
  ELSE making' = RearLock /\ UNCHANGED todo
AfterRear == making' = RearLock /\ UNCHANGED todo

\* From one key to the next.  front_keys are made in the order of the plan.
LockMade == making = RearLock \/ \E c \in Consumer : making = FrontLock(c)
MakeNext ==
  \/ making = Data /\ making' = Rear /\ UNCHANGED <<ppc, todo, whole>>
  \/ making = Rear /\ AfterRear /\ UNCHANGED <<ppc, whole>>
  \/ LockMade /\ (\E c \in todo : ToFront(c)) /\ UNCHANGED <<ppc, whole>>
  \/ \E c \in Consumer :
       making = Front(c) /\ making' = FrontLock(c) /\ UNCHANGED <<ppc, todo, whole>>
  \/ /\ LockMade /\ todo = {}
     /\ ppc' = "ready" /\ making' = Data /\ whole' = TRUE /\ UNCHANGED todo

MakeNew ==
  /\ ppc = "make" /\ gap /\ making \notin there
  /\ Make(making)
  /\ gap' = FALSE
  /\ MakeNext
  /\ UNCHANGED <<filled, broken, holder, consumer, starts, met, moved, spoilt>>

\* A consumer has made the segment meanwhile: ExistentialError.
MakeRaises ==
  /\ ppc = "make" /\ gap /\ making \in there
  /\ ppc' = "off"
  /\ UNCHANGED <<objects, making, gap, todo, consumer, starts, history>>

----------------------------------------------------------------------------
(* The producer: put.                                                       *)

Take(p, k) == holder[k] = Free /\ holder' = [holder EXCEPT ![k] = p]
Written(k, v) == [words EXCEPT ![k][Newest(k)] = v]

\* mutant: the frame goes to the slot after the rear
SlotNext == Inc(Word(Rear))
SlotToFill == Word(Rear)

PutBegin ==
  /\ ppc = "ready"
  /\ Take(Producer, RearLock)
  /\ filled' = filled \cup {SlotToFill}
  /\ broken' = broken \cup {SlotToFill}
  /\ ppc' = "fill"
  /\ UNCHANGED <<there, words, making, gap, todo, consumer, starts, history>>

\* Data and timestamp are written; what the data hold may still not be read.
PutWrite ==
  /\ ppc = "fill"
  /\ \/ broken' = broken \ {SlotToFill}
     \/ SlotToFill \in MayBreak /\ UNCHANGED broken
  /\ ppc' = "visit" /\ todo' = Consumer
  /\ UNCHANGED <<there, words, filled, holder, making, gap, consumer, starts, history>>

\* imdecode has made no image of the message, and None has no bytes: TypeError,
\* with the semaphore taken and nothing written.
PutRaises ==
  /\ ppc = "ready"
  /\ Take(Producer, RearLock)
  /\ ppc' = "off"
  /\ spoilt' = spoilt \cup {RearLock}
  /\ UNCHANGED <<there, words, filled, broken, making, gap, todo, consumer, starts, whole, met, moved>>

PutVisit(c) ==
  /\ ppc = "visit" /\ c \in todo
  /\ Take(Producer, FrontLock(c))
  /\ ppc' = "leave" /\ todo' = todo \ {c} /\ making' = FrontLock(c)
  /\ UNCHANGED <<there, words, filled, broken, gap, consumer, starts, history>>

\* The front semaphore is given back, the oldest frame dropped if full.
PutLeave(c) ==
  /\ ppc = "leave" /\ making = FrontLock(c)
  /\ words' = IF Inc(Word(Rear)) = Word(Front(c))
              THEN Written(Front(c), Inc(Word(Front(c)))) ELSE words
  /\ holder' = [holder EXCEPT ![FrontLock(c)] = Free]
  /\ ppc' = "visit" /\ making' = Data
  /\ UNCHANGED <<there, filled, broken, gap, todo, consumer, starts, history>>

PutEnd ==
  /\ ppc = "visit" /\ todo = {}
  /\ words' = Written(Rear, Inc(Word(Rear)))
  /\ holder' = [holder EXCEPT ![RearLock] = Free]
  /\ ppc' = "ready"
  /\ UNCHANGED <<there, filled, broken, making, gap, todo, consumer, starts, history>>

KillProducer ==
  /\ ppc # "off"
  /\ ppc' = "off"
  /\ spoilt' = spoilt \cup {k \in Semaphore : holder[k] = Producer}
  /\ UNCHANGED <<objects, making, gap, todo, consumer, starts, whole, met, moved>>

----------------------------------------------------------------------------
(* A consumer: create_shared_memory and CrossContainerLock with IPC_CREAT.  *)

Gone(c) ==
  /\ pc' = [pc EXCEPT ![c] = "off"]
  /\ handle' = [handle EXCEPT ![c] = Closed]
  /\ front' = [front EXCEPT ![c] = 0] /\ rear' = [rear EXCEPT ![c] = 0]

StartConsumer(c) ==
  /\ pc[c] = "off"
  /\ Start(c)
  /\ pc' = [pc EXCEPT ![c] = "data"]
  /\ met' = IF whole THEN met \ {c} ELSE met \cup {c}
  /\ UNCHANGED <<objects, producer, handle, front, rear, whole, moved, spoilt>>

Opened(c, k, next) ==
  /\ handle' = IF k = Data THEN handle ELSE [handle EXCEPT ![c][k] = Present(k)']
  /\ pc' = [pc EXCEPT ![c] = next]
  /\ UNCHANGED <<filled, broken, holder, producer, front, rear, starts, history>>

OpenSegment(c, step, k, next) ==
  /\ pc[c] = step
  /\ IF k \in there THEN UNCHANGED <<there, words>> ELSE Make(k)
  /\ Opened(c, k, next)

OpenLock(c, step, k, next) ==
  /\ pc[c] = step /\ k \in there
  /\ UNCHANGED <<there, words>>
  /\ Opened(c, k, next)

Open(c) ==
  \/ OpenSegment(c, "data", Data, "rear")
  \/ OpenSegment(c, "rear", Rear, "rearLock")
  \/ OpenLock(c, "rearLock", RearLock, "front")
  \/ OpenSegment(c, "front", Front(c), "frontLock")
  \/ OpenLock(c, "frontLock", FrontLock(c), "poll")

----------------------------------------------------------------------------
(* A consumer: isEmpty and get.                                             *)

\* The semaphores that are given back before a consumer raises or goes on.
GiveBack(ks) == holder' = [k \in Semaphore |-> IF k \in ks THEN Free ELSE holder[k]]

Raise(c, back) ==
  /\ Gone(c)
  /\ GiveBack(back)
  /\ spoilt' = IF c \in met
               THEN spoilt \cup {k \in Semaphore : holder[k] = c /\ k \notin back}
               ELSE spoilt
  /\ UNCHANGED <<there, filled, broken, producer, starts, whole, met>>

GoOn(c, next) ==
  /\ pc' = [pc EXCEPT ![c] = next]
  /\ UNCHANGED <<there, filled, broken, producer, handle, starts, whole, met, spoilt>>

\* A word that was removed: either some process still has the segment
\* attached, or attach raises and the value read last is kept.
Reads(c, k, mine) ==
  IF Live(c, k) THEN {Word(k)} ELSE {words[k][handle[c][k]], mine}

Poll(c) ==
  /\ pc[c] = "poll" /\ Live(c, RearLock)
  /\ Take(c, RearLock)
  /\ GoOn(c, "pollFront")
  /\ UNCHANGED <<words, moved, front, rear>>

PollFront(c) ==
  /\ pc[c] = "pollFront" /\ Live(c, FrontLock(c))
  /\ Take(c, FrontLock(c))
  /\ \E f \in Reads(c, Front(c), front[c]), r \in Reads(c, Rear, rear[c]) :
       /\ front' = [front EXCEPT ![c] = f]
       /\ rear' = [rear EXCEPT ![c] = r]
  /\ GoOn(c, "polled")
  /\ UNCHANGED <<words, moved>>

Empty(c) == front[c] = rear[c]

\* mutant: a frame is found and the rear semaphore is kept
KeepsRear(c) == IF Empty(c) THEN {RearLock, FrontLock(c)} ELSE {FrontLock(c)}
Returned(c) == {RearLock, FrontLock(c)}

PollReturn(c) ==
  /\ pc[c] = "polled" /\ Live(c, RearLock) /\ Live(c, FrontLock(c))
  /\ GiveBack(Returned(c))
  /\ GoOn(c, IF Empty(c) THEN "poll" ELSE "fetch")
  /\ UNCHANGED <<words, moved, front, rear>>

Fetch(c) ==
  /\ pc[c] = "fetch" /\ Data \in there /\ front[c] \in filled
  /\ GoOn(c, "advance")
  /\ UNCHANGED <<words, moved, holder, front, rear>>

Advance(c) ==
  /\ pc[c] = "advance" /\ Live(c, FrontLock(c))
  /\ Take(c, FrontLock(c))
  /\ \E f \in Reads(c, Front(c), front[c]) : front' = [front EXCEPT ![c] = Inc(f)]
  /\ GoOn(c, "write")
  /\ UNCHANGED <<words, moved, rear>>

\* A write to a removed front goes nowhere, when it does not raise.
MoveFront(c) ==
  /\ words' = IF Live(c, Front(c)) THEN Written(Front(c), front[c]) ELSE words
  /\ moved' = IF Live(c, Front(c)) /\ c \in met THEN moved \cup {c} ELSE moved

WriteFront(c) ==
  /\ pc[c] = "write" /\ Live(c, FrontLock(c))
  /\ MoveFront(c)
  /\ GiveBack({FrontLock(c)})
  /\ GoOn(c, "poll")
  /\ UNCHANGED <<front, rear>>

\* A semaphore that was removed raises; so does a frame that is not there, and
\* one that frombuffer or float() cannot make anything of.
GetRaises(c) ==
  \/ pc[c] = "poll" /\ ~Live(c, RearLock) /\ Raise(c, {})
  \/ pc[c] \in {"pollFront", "advance"} /\ ~Live(c, FrontLock(c)) /\ Raise(c, {})
  \/ pc[c] = "fetch" /\ (Data \notin there \/ front[c] \notin filled \ broken) /\ Raise(c, {})

\* isEmpty gives back the rear first if it returns True, and else the front.
FirstBack(c) == IF Empty(c) THEN RearLock ELSE FrontLock(c)

ReturnRaises(c) ==
  /\ pc[c] = "polled" /\ ~(Live(c, RearLock) /\ Live(c, FrontLock(c)))
  /\ Raise(c, IF Live(c, FirstBack(c)) THEN {FirstBack(c)} ELSE {})

WriteRaises(c) ==
  /\ pc[c] = "write" /\ ~(Live(c, Front(c)) /\ Live(c, FrontLock(c)))
  /\ MoveFront(c)
  /\ Raise(c, {})

Raises(c) == WriteRaises(c) \/ ((GetRaises(c) \/ ReturnRaises(c)) /\ UNCHANGED <<words, moved>>)

KillConsumer(c) ==
  /\ pc[c] # "off"
  /\ Gone(c)
  /\ spoilt' = spoilt \cup {k \in Semaphore : holder[k] = c}
  /\ UNCHANGED <<objects, producer, starts, whole, met, moved>>

Get(c) ==
  \/ Poll(c) \/ PollFront(c) \/ PollReturn(c) \/ Fetch(c)
  \/ Advance(c) \/ WriteFront(c) \/ Raises(c)

Create == Remove \/ MakeNew \/ MakeRaises
Put == PutBegin \/ PutWrite \/ PutRaises \/ PutEnd \/ \E c \in Consumer : PutVisit(c) \/ PutLeave(c)
Fault == StartProducer \/ KillProducer \/ \E c \in Consumer : StartConsumer(c) \/ KillConsumer(c)

Next == Create \/ Put \/ Fault \/ \E c \in Consumer : Open(c) \/ Get(c)

Spec == Init /\ [][Next]_vars

PutStep == PutWrite \/ PutEnd \/ \E c \in Consumer : PutLeave(c)
TakeStep(c) == Poll(c) \/ PollFront(c) \/ Advance(c)

\* No fairness for starts, kills and images that are none.  The kernel queues
\* those that wait for a semaphore.
Fairness ==
  /\ WF_vars(PutStep) /\ SF_vars(PutBegin) /\ \A c \in Consumer : SF_vars(PutVisit(c))
  /\ \A c \in Consumer : WF_vars(Get(c)) /\ SF_vars(TakeStep(c))

FairSpec == Spec /\ Fairness

----------------------------------------------------------------------------
(* Properties.                                                             *)

Getting == {c \in Consumer : pc[c] \in {"poll", "pollFront", "polled", "fetch", "advance", "write"}}

TypeOK ==
  /\ there \in SUBSET Key
  /\ words \in [Key -> Seq(Slot)]
  /\ \A k \in there : words[k] # <<>>
  /\ filled \in SUBSET Slot /\ broken \in SUBSET Slot
  /\ holder \in [Semaphore -> Process \cup {Free}]
  /\ ppc \in {"off", "make", "ready", "fill", "visit", "leave"}
  /\ making \in Key /\ gap \in BOOLEAN /\ todo \in SUBSET Consumer
  /\ pc \in [Consumer -> {"off", "data", "rear", "rearLock", "front", "frontLock", "poll",
                          "pollFront", "polled", "fetch", "advance", "write"}]
  /\ handle \in [Consumer -> [Key -> Nat]]
  /\ \A c \in Consumer, k \in Key : handle[c][k] <= Newest(k)
  /\ front \in [Consumer -> Slot] /\ rear \in [Consumer -> Slot]
  /\ starts \in [Process -> Nat] /\ \A p \in Process : starts[p] <= MaxStarts(p)
  /\ whole \in BOOLEAN /\ met \in SUBSET Consumer /\ moved \in SUBSET Consumer
  /\ spoilt \in SUBSET Semaphore

AllLive(c) == \A k \in {Rear, RearLock, Front(c), FrontLock(c)} : Live(c, k)

\* Once a ring is made, a consumer that was started on a whole ring works on
\* the words and semaphores of this one, or its next poll raises; only one that
\* opened the ring while it was being made may wait for ever on words that
\* nobody writes (crossqueue.py:45-148, its reads swallow every exception).
RingOrNone ==
  whole => \A c \in Getting \ met : Live(c, RearLock) => AllLive(c)

Inside(p, k) ==
  \/ p = Producer /\ ppc \in {"fill", "visit", "leave"} /\ k = RearLock
  \/ p = Producer /\ ppc = "leave" /\ k = making
  \/ /\ p \in Consumer /\ Live(p, k)
     /\ \/ k = RearLock /\ pc[p] \in {"pollFront", "polled"}
        \/ k = FrontLock(p) /\ pc[p] \in {"polled", "write"}

\* A semaphore stays taken by nobody only if its holder was killed, was a put
\* that raised over None, or raised after it had opened a ring that was being
\* made: the exceptions of a consumer of a whole ring leave none behind, those
\* over its frames included, and no creation does
\* (pre_processing/utils/crossqueue.py:91-96, :218-219, :305-325).
LeftTakenOnlyIfSpoilt ==
  whole => \A k \in Semaphore :
    holder[k] # Free => k \in spoilt \/ Inside(holder[k], k)

\* A consumer that was started on a whole ring finds a frame where isEmpty
\* promised one: it raises only while the ring is made again, or after, or over
\* a frame that put is writing or whose bytes cannot be read.  This holds as
\* long as no consumer of its key before it, which opened the ring while it was
\* being made, has moved its front past the rear (pre_processing.py:46, which
\* has no handler).
RaisesOnlyIfRemadeOrBroken ==
  [][\A c \in Consumer :
       Raises(c) => \/ c \in met \cup moved \/ ~whole \/ ~Live(c, RearLock)
                    \/ pc[c] = "fetch" /\ front[c] \in broken]_vars

\* Restarts heal: as long as a ring is whole, its producer runs, a consumer has
\* it open and no semaphore is left taken, that consumer takes frames, whatever
\* kills, restarts and exceptions came before.
Works(c) ==
  whole /\ ppc \in {"ready", "fill", "visit", "leave"} /\ c \in Getting /\ AllLive(c) /\ spoilt = {}
WorkingConsumerTakes ==
  \A c \in Consumer : Works(c) ~> (pc[c] = "advance" \/ ~Works(c))
=============================================================================
