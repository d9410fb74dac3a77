------------------------- MODULE RingRestartProofs -------------------------
(***************************************************************************)
(* Theorems about RingRestart, for any set of consumers and any length of  *)
(* the ring: what a consumer has open is one ring or none, semaphores are  *)
(* left behind only by faults that are named, and a consumer finds the     *)
(* frame that isEmpty promised, readable or not, until the ring is made    *)
(* again.                                                                  *)
(***************************************************************************)
EXTENDS RingRestart, TLAPS

----------------------------------------------------------------------------
(* Keys, words and slots.                                                   *)

\* The keys are distinct.
LEMMA KeyFacts ==
  /\ Data \in Key /\ Rear \in Key /\ RearLock \in Semaphore /\ Semaphore \subseteq Key
  /\ Data \notin Semaphore /\ Rear \notin Semaphore
  /\ Data # Rear /\ Data # RearLock /\ Rear # RearLock
  /\ \A c \in Consumer :
       /\ Front(c) \in Key /\ Front(c) \notin Semaphore /\ FrontLock(c) \in Semaphore
       /\ Front(c) \notin {Data, Rear, RearLock} /\ FrontLock(c) \notin {Data, Rear, RearLock}
  /\ \A c, d \in Consumer :
       /\ Front(c) # FrontLock(d)
       /\ Front(c) = Front(d) => c = d
       /\ FrontLock(c) = FrontLock(d) => c = d
  /\ \A k \in Key :
       k \in {Data, Rear, RearLock} \/ \E c \in Consumer : k \in {Front(c), FrontLock(c)}
  /\ \A k \in Semaphore : k = RearLock \/ \E c \in Consumer : k = FrontLock(c)
BY DEF Key, Segment, Semaphore, Data, Rear, RearLock, Front, FrontLock

LEMMA SlotFacts ==
  /\ Length \in Nat /\ Length >= 2 /\ 0 \in Slot
  /\ \A i \in Slot : i \in Nat /\ i < Length /\ Inc(i) \in Slot
  /\ \A i \in Slot : Inc(i) = IF i = Length - 1 THEN 0 ELSE i + 1
<1>1. Length \in Nat /\ Length >= 2
  BY LengthAssumption
<1>2. ASSUME NEW i \in Slot PROVE Inc(i) = IF i = Length - 1 THEN 0 ELSE i + 1
  <2>1. i \in Nat /\ i < Length
    BY <1>1 DEF Slot
  <2>2. CASE i = Length - 1
    BY <2>1, <2>2, <1>1 DEF Inc
  <2>3. CASE i # Length - 1
    BY <2>1, <2>3, <1>1 DEF Inc
  <2> QED
    BY <2>2, <2>3
<1> QED
  BY <1>1, <1>2 DEF Slot

\* Writing a word changes no other, and makes no object.
LEMMA WordWritten ==
  ASSUME NEW w \in [Key -> Seq(Slot)], NEW k \in Key, w[k] # <<>>, NEW v \in Slot,
         NEW n, n = [w EXCEPT ![k][Len(w[k])] = v]
  PROVE  /\ n \in [Key -> Seq(Slot)]
         /\ \A j \in Key : Len(n[j]) = Len(w[j])
         /\ \A j \in Key \ {k} : n[j] = w[j]
         /\ n[k][Len(n[k])] = v
<1>1. w[k] \in Seq(Slot) /\ Len(w[k]) \in Nat /\ Len(w[k]) # 0
  OBVIOUS
<1>2. n[k] = [w[k] EXCEPT ![Len(w[k])] = v]
  OBVIOUS
<1>3. n[k] \in Seq(Slot) /\ Len(n[k]) = Len(w[k]) /\ n[k][Len(w[k])] = v
  BY <1>1, <1>2
<1> QED
  BY <1>3

\* The words of objects.
LEMMA WordType ==
  ASSUME NEW w \in [Key -> Seq(Slot)], NEW k \in Key
  PROVE  /\ Len(w[k]) \in Nat
         /\ \A i \in 1..Len(w[k]) : w[k][i] \in Slot
         /\ w[k] # <<>> => Len(w[k]) # 0 /\ w[k][Len(w[k])] \in Slot
OBVIOUS

----------------------------------------------------------------------------
(* The inductive invariant.                                                 *)

\* The keys that the creation under way is through with, and has begun with.
Done ==
  {k \in Key :
     \/ k = Data /\ making # Data
     \/ k = Rear /\ making \notin {Data, Rear}
     \/ k = RearLock /\ making \notin {Data, Rear, RearLock}
     \/ \E c \in Consumer \ todo :
          \/ k = Front(c) /\ making # Front(c)
          \/ k = FrontLock(c) /\ making \notin {Front(c), FrontLock(c)}}

Renewed == IF gap THEN Done \cup {making} ELSE Done

\* The keys of a ring that a consumer uses, and those it has opened so far.
Mine(c) == {Rear, RearLock, Front(c), FrontLock(c)}
Held(c) ==
  IF pc[c] \in {"off", "data", "rear"} THEN {}
  ELSE IF pc[c] = "rearLock" THEN {Rear}
  ELSE IF pc[c] = "front" THEN {Rear, RearLock}
  ELSE IF pc[c] = "frontLock" THEN {Rear, RearLock, Front(c)}
  ELSE Mine(c)

\* It has opened them: none is the number of no object.
HandleOK == \A c \in Consumer : \A k \in Held(c) : handle[c][k] # 0

\* The producer goes through the keys in order, on a ring that is whole or not.
MakeShape ==
  /\ ppc \in {"ready", "fill", "visit", "leave"} => whole
  /\ ppc = "make" =>
       /\ whole => making = Data /\ ~gap
       /\ making \in {Data, Rear, RearLock} => todo = Consumer
       /\ \A c \in Consumer : making \in {Front(c), FrontLock(c)} => c \notin todo
  /\ whole => Key \subseteq there
  /\ ppc = "make" => Done \subseteq there
  /\ ~whole => Opening \subseteq met

\* What a consumer that has met no creation has open is the whole ring, or it
\* is gone, key by key.
OneRing ==
  /\ ppc = "make" /\ ~whole =>
       \A c \in Getting \ met, k \in Renewed : ~Live(c, k)
  /\ whole =>
       \A c \in Consumer \ met : pc[c] # "off" =>
         \/ \A k \in Held(c) : Live(c, k)
         \/ c \in Getting /\ \A k \in Mine(c) : ~Live(c, k)

\* Who has a semaphore of the ring is inside, or gone.
HeldInside ==
  \A k \in Semaphore :
    /\ whole \/ (ppc = "make" /\ k \in Renewed)
    /\ holder[k] # Free
    => k \in spoilt \/ Inside(holder[k], k)

\* From the front to the rear put has filled the slots: all, once the rear has
\* come round.
Laps(c) ==
  filled = Slot \/ (Word(Front(c)) <= Word(Rear) /\ 0..(Word(Rear) - 1) \subseteq filled)

FilledToRear ==
  /\ ppc = "make" /\ ~whole =>
       /\ Rear \in Done => Word(Rear) = 0
       /\ \A c \in Consumer \ moved : Front(c) \in Done => Word(Front(c)) = 0
  /\ whole =>
       /\ \A c \in Consumer \ moved : Laps(c)
       /\ ppc \in {"fill", "visit", "leave"} => Word(Rear) \in filled

\* What a consumer has read of it still holds.
ReadHolds(c) ==
  \/ filled = Slot
  \/ /\ pc[c] = "polled" =>
          front[c] = Word(Front(c)) /\ front[c] <= rear[c] /\ rear[c] <= Word(Rear)
     /\ pc[c] \in {"fetch", "advance"} =>
          front[c] = Word(Front(c)) /\ front[c] < Word(Rear)
     /\ pc[c] = "write" => front[c] <= Word(Rear)

Registers ==
  whole => \A c \in Consumer \ (met \cup moved) : AllLive(c) => ReadHolds(c)

IInv ==
  /\ TypeOK /\ HandleOK /\ MakeShape /\ OneRing /\ HeldInside /\ FilledToRear /\ Registers

----------------------------------------------------------------------------
(* What the longer actions do.                                              *)

LEMMA OpenEffect ==
  ASSUME NEW c \in Consumer, DOMAIN pc = Consumer, Open(c)
  PROVE  \E k \in {Data} \cup Mine(c), next \in {"rear", "rearLock", "front", "frontLock", "poll"} :
           /\ IF k \in there THEN UNCHANGED <<there, words>>
              ELSE k \notin Semaphore /\ Make(k)
           /\ Opened(c, k, next)
           /\ c \in Opening
           /\ pc' = [pc EXCEPT ![c] = next]
           /\ Held(c)' = Held(c) \cup ({k} \ {Data})
<1>1. CASE OpenSegment(c, "data", Data, "rear")
  <2>1. pc[c] = "data" /\ pc'[c] = "rear" /\ pc' = [pc EXCEPT ![c] = "rear"]
    BY <1>1 DEF OpenSegment, Opened
  <2> QED
    BY <1>1, <2>1, KeyFacts DEF OpenSegment, Held, Opening
<1>2. CASE OpenSegment(c, "rear", Rear, "rearLock")
  <2>1. pc[c] = "rear" /\ pc'[c] = "rearLock" /\ pc' = [pc EXCEPT ![c] = "rearLock"]
    BY <1>2 DEF OpenSegment, Opened
  <2> QED
    BY <1>2, <2>1, KeyFacts DEF OpenSegment, Held, Mine, Opening
<1>3. CASE OpenLock(c, "rearLock", RearLock, "front")
  <2>1. pc[c] = "rearLock" /\ pc'[c] = "front" /\ pc' = [pc EXCEPT ![c] = "front"]
    BY <1>3 DEF OpenLock, Opened
  <2> QED
    BY <1>3, <2>1, KeyFacts DEF OpenLock, Held, Mine, Opening
<1>4. CASE OpenSegment(c, "front", Front(c), "frontLock")
  <2>1. pc[c] = "front" /\ pc'[c] = "frontLock" /\ pc' = [pc EXCEPT ![c] = "frontLock"]
    BY <1>4 DEF OpenSegment, Opened
  <2> QED
    BY <1>4, <2>1, KeyFacts DEF OpenSegment, Held, Mine, Opening
<1>5. CASE OpenLock(c, "frontLock", FrontLock(c), "poll")
  <2>1. pc[c] = "frontLock" /\ pc'[c] = "poll" /\ pc' = [pc EXCEPT ![c] = "poll"]
    BY <1>5 DEF OpenLock, Opened
  <2> QED
    BY <1>5, <2>1, KeyFacts DEF OpenLock, Held, Mine, Opening
<1> QED
  BY <1>1, <1>2, <1>3, <1>4, <1>5 DEF Open

\* A consumer that raises or is killed.
Leaves(c) == Raises(c) \/ KillConsumer(c)

LEMMA LeaveEffect ==
  ASSUME NEW c \in Consumer, Leaves(c)
  PROVE  /\ pc[c] # "off"
         /\ Gone(c)
         /\ UNCHANGED <<there, filled, broken, producer, starts, whole, met>>
         /\ UNCHANGED <<words, moved>> \/ (pc[c] = "write" /\ MoveFront(c))
         /\ \/ Raises(c) /\ \E back \in {{}, {RearLock}, {FrontLock(c)}} : GiveBack(back) /\ Raise(c, back)
            \/ UNCHANGED holder /\ spoilt' = spoilt \cup {k \in Semaphore : holder[k] = c}
<1>1. CASE WriteRaises(c)
  BY <1>1 DEF WriteRaises, Raise, Raises
<1>2. CASE GetRaises(c) /\ UNCHANGED <<words, moved>>
  BY <1>2 DEF GetRaises, Raise, Raises
<1>3. CASE ReturnRaises(c) /\ UNCHANGED <<words, moved>>
  BY <1>3 DEF ReturnRaises, Raise, FirstBack, Raises
<1>4. CASE KillConsumer(c)
  BY <1>4 DEF KillConsumer, objects
<1> QED
  BY <1>1, <1>2, <1>3, <1>4 DEF Leaves, Raises

\* The steps of the system, one by one.
LEMMA StepCases ==
  ASSUME Next
  PROVE  \/ StartProducer \/ Remove \/ MakeNew \/ MakeRaises
         \/ PutBegin \/ PutWrite \/ PutRaises \/ PutEnd \/ KillProducer
         \/ \E c \in Consumer :
              \/ PutVisit(c) \/ PutLeave(c) \/ StartConsumer(c) \/ Open(c)
              \/ Poll(c) \/ PollFront(c) \/ PollReturn(c) \/ Fetch(c)
              \/ Advance(c) \/ WriteFront(c) \/ Leaves(c)
BY DEF Next, Create, Put, Fault, Get, Leaves

----------------------------------------------------------------------------
(* Type correctness.                                                        *)

\* What every step that writes a word, or none, leaves as it was.
SameObjects ==
  /\ there' = there
  /\ words' \in [Key -> Seq(Slot)]
  /\ \A k \in Key : Len(words'[k]) = Len(words[k])

LEMMA Writes ==
  ASSUME TypeOK, NEW k \in there, NEW v \in Slot, words' = Written(k, v), there' = there
  PROVE  /\ SameObjects
         /\ \A j \in Key \ {k} : words'[j] = words[j]
         /\ Word(k)' = v
<1>1. k \in Key /\ words \in [Key -> Seq(Slot)] /\ words[k] # <<>>
  BY DEF TypeOK
<1>2. words' = [words EXCEPT ![k][Len(words[k])] = v]
  BY DEF Written, Newest
<1> QED
  BY <1>1, <1>2, WordWritten DEF SameObjects, Word, Newest

LEMMA Makes ==
  ASSUME TypeOK, NEW k \in Key, Make(k)
  PROVE  /\ there' = there \cup {k} /\ there' \in SUBSET Key
         /\ words' \in [Key -> Seq(Slot)]
         /\ \A j \in Key \ {k} : words'[j] = words[j]
         /\ Newest(k)' = Newest(k) + 1 /\ words'[k] # <<>>
         /\ Word(k)' = 0
<1>1. words \in [Key -> Seq(Slot)] /\ there \in SUBSET Key
  BY DEF TypeOK
<1>2. words' = [words EXCEPT ![k] = Append(words[k], 0)] /\ there' = there \cup {k}
  BY DEF Make
<1>3. /\ words' \in [Key -> Seq(Slot)]
      /\ \A j \in Key \ {k} : words'[j] = words[j]
      /\ Len(words'[k]) = Len(words[k]) + 1 /\ words'[k] # <<>>
      /\ words'[k][Len(words'[k])] = 0
  <2>1. words[k] \in Seq(Slot) /\ words'[k] = Append(words[k], 0)
    BY <1>1, <1>2
  <2> QED
    BY <1>1, <1>2, <2>1, SlotFacts
<1>4. there' \in SUBSET Key
  BY <1>1, <1>2
<1> QED
  BY <1>2, <1>3, <1>4 DEF Word, Newest

\* The words of the keys.
LEMMA WordOK ==
  ASSUME TypeOK
  PROVE  /\ \A k \in Key : Newest(k) \in Nat /\ Present(k) \in Nat
         /\ \A k \in there : k \in Key /\ Newest(k) # 0 /\ Word(k) \in Slot /\ Present(k) = Newest(k)
         /\ \A c \in Consumer, k \in Key : handle[c][k] \in Nat /\ handle[c][k] <= Newest(k)
         /\ \A c \in Consumer, k \in Key : Live(c, k) => k \in there
<1>1. words \in [Key -> Seq(Slot)] /\ there \in SUBSET Key
  BY DEF TypeOK
<1>2. \A k \in Key : Newest(k) \in Nat /\ Present(k) \in Nat
  BY <1>1, WordType DEF Newest, Present
<1>3. \A k \in there : k \in Key /\ Newest(k) # 0 /\ Word(k) \in Slot /\ Present(k) = Newest(k)
  BY <1>1, WordType DEF Newest, Present, Word, TypeOK
<1>4. \A c \in Consumer, k \in Key : handle[c][k] \in Nat /\ handle[c][k] <= Newest(k)
  BY DEF TypeOK
<1>5. \A c \in Consumer, k \in Key : Live(c, k) => k \in there
  BY DEF Live, Present
<1> QED
  BY <1>2, <1>3, <1>4, <1>5

\* What a consumer reads is a number of a slot.
LEMMA ReadsOK ==
  ASSUME TypeOK, HandleOK, NEW c \in Consumer, NEW k \in Held(c) \cap Key, NEW mine \in Slot
  PROVE  Reads(c, k, mine) \subseteq Slot
<1>1. handle[c][k] \in 1..Newest(k)
  BY WordOK DEF HandleOK
<1>2. words[k][handle[c][k]] \in Slot
  BY <1>1, WordType DEF TypeOK, Newest
<1>3. Live(c, k) => Word(k) \in Slot
  BY WordOK
<1> QED
  BY <1>2, <1>3 DEF Reads

LEMMA MoveOK ==
  ASSUME TypeOK, NEW c \in Consumer, MoveFront(c), there' = there
  PROVE  /\ SameObjects
         /\ \A j \in Key \ {Front(c)} : words'[j] = words[j]
         /\ moved \subseteq moved' /\ moved' \subseteq moved \cup {c}
         /\ Live(c, Front(c)) => Word(Front(c))' = front[c]
         /\ ~Live(c, Front(c)) => words' = words
         /\ Live(c, Front(c)) /\ c \in met => c \in moved'
<1>1. CASE Live(c, Front(c))
  <2>1. Front(c) \in there /\ front[c] \in Slot
    BY <1>1, WordOK, KeyFacts DEF TypeOK
  <2> QED
    BY <1>1, <2>1, Writes DEF MoveFront
<1>2. CASE ~Live(c, Front(c))
  BY <1>2 DEF MoveFront, SameObjects, TypeOK
<1> QED
  BY <1>1, <1>2

\* TypeOK, of the objects and of the rest.
ObjectsOK ==
  /\ there \in SUBSET Key
  /\ words \in [Key -> Seq(Slot)]
  /\ \A k \in there : words[k] # <<>>
  /\ \A c \in Consumer, k \in Key : handle[c][k] <= Newest(k)

LEMMA ObjectsStay ==
  ASSUME TypeOK, SameObjects \/ UNCHANGED <<there, words>>, UNCHANGED handle
  PROVE  ObjectsOK' /\ SameObjects
<1>1. CASE UNCHANGED <<there, words>>
  BY <1>1 DEF TypeOK, ObjectsOK, Newest, SameObjects
<1>2. CASE SameObjects
  <2>1. \A k \in Key : Newest(k)' = Newest(k)
    BY <1>2 DEF SameObjects, Newest
  <2>2. \A k \in there : words'[k] # <<>>
    <3> SUFFICES ASSUME NEW k \in there PROVE words'[k] # <<>>
      OBVIOUS
    <3>1. k \in Key /\ Len(words'[k]) # 0
      BY <1>2, WordOK DEF SameObjects, Newest
    <3> QED
      BY <3>1
  <2>3. there \in SUBSET Key
    BY DEF TypeOK
  <2> QED
    BY <1>2, <2>1, <2>2, <2>3, WordOK DEF SameObjects, ObjectsOK
<1> QED
  BY <1>1, <1>2

LEMMA HandlesStay ==
  ASSUME TypeOK, HandleOK, UNCHANGED handle,
         \/ UNCHANGED pc
         \/ \E c \in Getting, next \in {"poll", "pollFront", "polled", "fetch", "advance", "write"} :
              pc' = [pc EXCEPT ![c] = next]
  PROVE  HandleOK'
<1>1. CASE UNCHANGED pc
  BY <1>1 DEF HandleOK, Held, Mine
<1>2. ASSUME NEW c \in Getting,
             NEW next \in {"poll", "pollFront", "polled", "fetch", "advance", "write"},
             pc' = [pc EXCEPT ![c] = next]
      PROVE HandleOK'
  <2>1. c \in Consumer /\ Held(c) = Mine(c) /\ Held(c)' = Mine(c)
    BY <1>2 DEF Getting, Held, TypeOK, Mine
  <2>2. \A d \in Consumer \ {c} : Held(d)' = Held(d)
    BY <1>2 DEF Held, TypeOK, Mine
  <2> QED
    BY <2>1, <2>2 DEF HandleOK
<1> QED
  BY <1>1, <1>2

LEMMA TypeInit == Init => TypeOK /\ HandleOK
<1> SUFFICES ASSUME Init PROVE TypeOK /\ HandleOK
  OBVIOUS
<1>1. words = [k \in Key |-> <<>>] /\ there = {} /\ handle = [c \in Consumer |-> [k \in Key |-> 0]]
  BY DEF Init, Closed
<1>2. words \in [Key -> Seq(Slot)] /\ \A k \in Key : Newest(k) = 0
  BY <1>1 DEF Newest
<1>3. \A c \in Consumer, k \in Key : handle[c][k] = 0
  BY <1>1
<1>4. handle \in [Consumer -> [Key -> Nat]] /\ \A c \in Consumer, k \in Key : handle[c][k] <= Newest(k)
  BY <1>1, <1>2, <1>3
<1>5. starts \in [Process -> Nat] /\ \A p \in Process : starts[p] <= MaxStarts(p)
  BY BoundAssumption DEF Init, MaxStarts
<1>6. holder \in [Semaphore -> Process \cup {Free}]
  BY DEF Init
<1>7. making \in Key
  BY KeyFacts DEF Init
<1>8. HandleOK
  BY DEF Init, HandleOK, Held
<1> QED
  BY <1>1, <1>2, <1>4, <1>5, <1>6, <1>7, <1>8, SlotFacts DEF Init, TypeOK

LEMMA TypeProducer ==
  ASSUME TypeOK, HandleOK, MakeShape,
         \/ StartProducer \/ Remove \/ MakeNew \/ MakeRaises \/ PutBegin \/ PutWrite
         \/ PutRaises \/ PutEnd \/ KillProducer \/ \E c \in Consumer : PutVisit(c) \/ PutLeave(c)
  PROVE  TypeOK' /\ HandleOK'
<1> USE DEF objects, producer, consumer, history
<1>p. Process = Consumer \cup {Producer}
  BY DEF Process
<1>1. CASE StartProducer
  <2>1. ObjectsOK' /\ HandleOK'
    BY <1>1, ObjectsStay, HandlesStay DEF StartProducer
  <2>2. starts' \in [Process -> Nat] /\ \A p \in Process : starts'[p] <= MaxStarts(p)'
    BY <1>1, BoundAssumption DEF StartProducer, Start, TypeOK, MaxStarts, Process
  <2> QED
    BY <1>1, <2>1, <2>2, KeyFacts DEF StartProducer, TypeOK, ObjectsOK, MaxStarts
<1>2. CASE Remove
  <2>1. ObjectsOK' /\ HandleOK'
    BY <1>2, HandlesStay DEF Remove, TypeOK, ObjectsOK, Newest
  <2>2. holder' \in [Semaphore -> Process \cup {Free}]
    BY <1>2 DEF Remove, TypeOK
  <2> QED
    BY <1>2, <2>1, <2>2 DEF Remove, TypeOK, ObjectsOK, MaxStarts, Opening
<1>3. CASE MakeNew
  <2>1. making \in Key /\ Make(making) /\ making \notin there
    BY <1>3 DEF MakeNew, TypeOK
  <2>2. ObjectsOK'
    <3>1. \A k \in Key : Newest(k)' >= Newest(k)
      BY <2>1, Makes, WordOK DEF Newest
    <3>2. \A c \in Consumer, k \in Key : handle'[c][k] <= Newest(k)'
      <4>1. \A c \in Consumer, k \in Key : Newest(k)' \in Int
        BY <2>1, Makes, WordType DEF Newest
      <4> QED
        BY <1>3, <3>1, <4>1, WordOK DEF MakeNew
    <3>3. \A k \in there' : words'[k] # <<>>
      BY <2>1, Makes DEF TypeOK
    <3> QED
      BY <2>1, <3>2, <3>3, Makes DEF ObjectsOK
  <2>3. HandleOK'
    BY <1>3, HandlesStay DEF MakeNew
  <2>4. making' \in Key /\ todo' \in SUBSET Consumer /\ ppc' \in {"make", "ready"} /\ whole' \in BOOLEAN
    BY <1>3, KeyFacts DEF MakeNew, MakeNext, AfterRear, ToFront, TypeOK
  <2> QED
    BY <1>3, <2>2, <2>3, <2>4 DEF MakeNew, TypeOK, ObjectsOK, MaxStarts
<1>4. CASE MakeRaises
  <2>1. ObjectsOK' /\ HandleOK'
    BY <1>4, ObjectsStay, HandlesStay DEF MakeRaises
  <2> QED
    BY <1>4, <2>1 DEF MakeRaises, TypeOK, ObjectsOK, MaxStarts
<1>5. CASE PutBegin
  <2>1. ObjectsOK' /\ HandleOK'
    BY <1>5, ObjectsStay, HandlesStay DEF PutBegin
  <2>2. holder' \in [Semaphore -> Process \cup {Free}]
    BY <1>5, <1>p DEF PutBegin, Take, TypeOK
  <2>3. Word(Rear) \in Slot
    BY <1>5, WordOK, KeyFacts DEF PutBegin, MakeShape
  <2>4. filled' \in SUBSET Slot /\ broken' \in SUBSET Slot
    BY <1>5, <2>3 DEF PutBegin, SlotToFill, TypeOK
  <2> QED
    BY <1>5, <2>1, <2>2, <2>4 DEF PutBegin, TypeOK, ObjectsOK, MaxStarts
<1>6. CASE PutEnd
  <2>3. Rear \in there /\ Inc(Word(Rear)) \in Slot
    BY <1>6, WordOK, KeyFacts, SlotFacts DEF PutEnd, MakeShape
  <2>4. SameObjects
    BY <1>6, <2>3, Writes DEF PutEnd
  <2>1. ObjectsOK' /\ HandleOK'
    BY <1>6, <2>4, ObjectsStay, HandlesStay DEF PutEnd
  <2>2. holder' \in [Semaphore -> Process \cup {Free}]
    BY <1>6, <1>p DEF PutEnd, TypeOK
  <2> QED
    BY <1>6, <2>1, <2>2 DEF PutEnd, TypeOK, ObjectsOK, MaxStarts
<1>7. CASE KillProducer
  <2>1. ObjectsOK' /\ HandleOK'
    BY <1>7, ObjectsStay, HandlesStay DEF KillProducer
  <2> QED
    BY <1>7, <2>1 DEF KillProducer, TypeOK, ObjectsOK, MaxStarts
<1>8. ASSUME NEW c \in Consumer, PutVisit(c) PROVE TypeOK' /\ HandleOK'
  <2>1. ObjectsOK' /\ HandleOK'
    BY <1>8, ObjectsStay, HandlesStay DEF PutVisit
  <2>2. holder' \in [Semaphore -> Process \cup {Free}] /\ making' \in Key
    BY <1>8, <1>p, KeyFacts DEF PutVisit, Take, TypeOK
  <2> QED
    BY <1>8, <2>1, <2>2 DEF PutVisit, TypeOK, ObjectsOK, MaxStarts
<1>9. ASSUME NEW c \in Consumer, PutLeave(c) PROVE TypeOK' /\ HandleOK'
  <2>3. Front(c) \in there /\ Inc(Word(Front(c))) \in Slot
    BY <1>9, WordOK, KeyFacts, SlotFacts DEF PutLeave, MakeShape
  <2>4. SameObjects \/ UNCHANGED <<there, words>>
    BY <1>9, <2>3, Writes DEF PutLeave
  <2>1. ObjectsOK' /\ HandleOK'
    BY <1>9, <2>4, ObjectsStay, HandlesStay DEF PutLeave
  <2>2. holder' \in [Semaphore -> Process \cup {Free}] /\ making' \in Key
    BY <1>9, <1>p, KeyFacts DEF PutLeave, TypeOK
  <2> QED
    BY <1>9, <2>1, <2>2 DEF PutLeave, TypeOK, ObjectsOK, MaxStarts
<1>10. CASE PutWrite
  <2>1. ObjectsOK' /\ HandleOK'
    BY <1>10, ObjectsStay, HandlesStay DEF PutWrite
  <2>2. broken' \in SUBSET Slot
    BY <1>10 DEF PutWrite, TypeOK
  <2> QED
    BY <1>10, <2>1, <2>2 DEF PutWrite, TypeOK, ObjectsOK, MaxStarts
<1>11. CASE PutRaises
  <2>1. ObjectsOK' /\ HandleOK'
    BY <1>11, ObjectsStay, HandlesStay DEF PutRaises
  <2>2. holder' \in [Semaphore -> Process \cup {Free}] /\ spoilt' \in SUBSET Semaphore
    BY <1>11, <1>p, KeyFacts DEF PutRaises, Take, TypeOK
  <2> QED
    BY <1>11, <2>1, <2>2 DEF PutRaises, TypeOK, ObjectsOK, MaxStarts
<1> QED
  BY <1>1, <1>2, <1>3, <1>4, <1>5, <1>6, <1>7, <1>8, <1>9, <1>10, <1>11

LEMMA TypeConsumer ==
  ASSUME TypeOK, HandleOK, NEW c \in Consumer,
         \/ StartConsumer(c) \/ Open(c) \/ Poll(c) \/ PollFront(c) \/ PollReturn(c)
         \/ Fetch(c) \/ Advance(c) \/ WriteFront(c) \/ Leaves(c)
  PROVE  TypeOK' /\ HandleOK'
<1> USE DEF objects, producer, consumer, history
<1>p. c \in Process
  BY DEF Process
<1>g. ASSUME GoOn(c, pc'[c]), c \in Getting, SameObjects \/ UNCHANGED <<there, words>>,
             pc'[c] \in {"poll", "pollFront", "polled", "fetch", "advance", "write"},
             holder' \in [Semaphore -> Process \cup {Free}],
             front' \in [Consumer -> Slot], rear' \in [Consumer -> Slot], moved' \in SUBSET Consumer
      PROVE  TypeOK' /\ HandleOK'
  <2>1. ObjectsOK' /\ HandleOK'
    BY <1>g, ObjectsStay, HandlesStay DEF GoOn
  <2>2. pc' \in [Consumer -> {"off", "data", "rear", "rearLock", "front", "frontLock", "poll",
                          "pollFront", "polled", "fetch", "advance", "write"}]
    BY <1>g DEF GoOn, TypeOK
  <2> QED
    BY <1>g, <2>1, <2>2 DEF GoOn, TypeOK, ObjectsOK, MaxStarts
<1>1. CASE StartConsumer(c)
  <2>1. ObjectsOK'
    BY <1>1, ObjectsStay DEF StartConsumer
  <2>2. HandleOK'
    <3>1. Held(c)' = {} /\ \A d \in Consumer \ {c} : Held(d)' = Held(d)
      BY <1>1 DEF StartConsumer, Held, Mine, TypeOK
    <3> QED
      BY <1>1, <3>1 DEF StartConsumer, HandleOK
  <2>3. starts' \in [Process -> Nat] /\ \A p \in Process : starts'[p] <= MaxStarts(p)'
    BY <1>1, <1>p, BoundAssumption DEF StartConsumer, Start, TypeOK, MaxStarts
  <2> QED
    BY <1>1, <2>1, <2>2, <2>3 DEF StartConsumer, TypeOK, ObjectsOK
<1>2. CASE Open(c)
  <2>0. DOMAIN pc = Consumer
    BY DEF TypeOK
  <2>1. PICK k \in {Data} \cup Mine(c), next \in {"rear", "rearLock", "front", "frontLock", "poll"} :
           /\ IF k \in there THEN UNCHANGED <<there, words>>
              ELSE k \notin Semaphore /\ Make(k)
           /\ Opened(c, k, next)
           /\ pc' = [pc EXCEPT ![c] = next]
           /\ Held(c)' = Held(c) \cup ({k} \ {Data})
    BY <1>2, <2>0, OpenEffect
  <2>2. k \in Key
    BY KeyFacts DEF Mine
  <2>3. /\ there' \in SUBSET Key /\ there \subseteq there' /\ k \in there'
        /\ words' \in [Key -> Seq(Slot)]
        /\ \A j \in Key : Newest(j)' \in Nat /\ Newest(j)' >= Newest(j)
        /\ \A j \in there' : words'[j] # <<>>
    <3>1. CASE k \in there
      BY <2>1, <3>1, WordOK DEF TypeOK, Newest
    <3>2. CASE k \notin there
      <4>1. Make(k)
        BY <2>1, <3>2
      <4>2. \A j \in Key \ {k} : Newest(j)' = Newest(j)
        BY <2>2, <4>1, Makes DEF Newest
      <4>3. Newest(k)' = Newest(k) + 1 /\ Newest(k) \in Nat
        BY <2>2, <4>1, Makes, WordOK
      <4>4. \A j \in there' : words'[j] # <<>>
        BY <2>2, <4>1, Makes DEF TypeOK
      <4> QED
        <5>1. /\ there' \in SUBSET Key /\ there' = there \cup {k}
              /\ words' \in [Key -> Seq(Slot)]
          BY <2>2, <4>1, Makes
        <5>2. \A j \in Key : Newest(j)' \in Nat /\ Newest(j)' >= Newest(j)
          BY <2>2, <4>2, <4>3, WordOK
        <5> QED
          BY <4>4, <5>1, <5>2
    <3> QED
      BY <3>1, <3>2
  <2>4. Present(k)' = Newest(k)' /\ Newest(k)' # 0
    <3>1. words'[k] \in Seq(Slot) /\ words'[k] # <<>>
      BY <2>2, <2>3
    <3>2. Len(words'[k]) # 0
      BY <3>1
    <3> QED
      BY <2>3, <3>2 DEF Present, Newest
  <2>5. CASE k = Data
    <3>1. handle' = handle
      BY <2>1, <2>5 DEF Opened
    <3>2. HandleOK'
      <4>1. \A d \in Consumer \ {c} : Held(d)' = Held(d)
        BY <2>1 DEF Held, Mine, TypeOK
      <4> QED
        BY <2>1, <2>5, <3>1, <4>1 DEF HandleOK
    <3>3. \A d \in Consumer, j \in Key : handle'[d][j] <= Newest(j)'
      BY <2>3, <3>1, WordOK
    <3> QED
      BY <2>1, <2>3, <3>1, <3>2, <3>3 DEF Opened, TypeOK, MaxStarts
  <2>6. CASE k # Data
    <3>1. handle' = [handle EXCEPT ![c][k] = Newest(k)']
      BY <2>1, <2>4, <2>6 DEF Opened
    <3>2. handle' \in [Consumer -> [Key -> Nat]] /\ handle'[c][k] = Newest(k)'
      BY <2>2, <2>3, <3>1 DEF TypeOK
    <3>3. \A d \in Consumer, j \in Key : d # c \/ j # k => handle'[d][j] = handle[d][j]
      BY <2>2, <3>1 DEF TypeOK
    <3>4. HandleOK'
      <4>1. \A d \in Consumer \ {c} : Held(d)' = Held(d)
        BY <2>1 DEF Held, Mine, TypeOK
      <4>2. \A d \in Consumer : Held(d) \subseteq Key
        BY KeyFacts DEF Held, Mine
      <4> QED
        BY <2>1, <2>4, <3>2, <3>3, <4>1, <4>2 DEF HandleOK
    <3>5. \A d \in Consumer, j \in Key : handle'[d][j] <= Newest(j)'
      <4> SUFFICES ASSUME NEW d \in Consumer, NEW j \in Key
                   PROVE  handle'[d][j] <= Newest(j)'
        OBVIOUS
      <4>1. CASE d = c /\ j = k
        BY <2>2, <2>3, <3>2, <4>1
      <4>2. CASE ~(d = c /\ j = k)
        <5>1. handle'[d][j] = handle[d][j]
          BY <3>3, <4>2
        <5>2. Newest(j) \in Nat /\ handle[d][j] \in Nat /\ handle[d][j] <= Newest(j)
          BY WordOK
        <5> QED
          BY <2>3, <5>1, <5>2
      <4> QED
        BY <4>1, <4>2
    <3> QED
      BY <2>1, <2>3, <3>2, <3>4, <3>5 DEF Opened, TypeOK, MaxStarts
  <2> QED
    BY <2>5, <2>6
<1>3. CASE Poll(c)
  <2>1. c \in Getting /\ pc'[c] = "pollFront"
    BY <1>3 DEF Poll, GoOn, Getting, TypeOK
  <2>2. holder' \in [Semaphore -> Process \cup {Free}]
    BY <1>3, <1>p DEF Poll, Take, TypeOK
  <2> QED
    BY <1>3, <1>g, <2>1, <2>2 DEF Poll, GoOn, TypeOK
<1>4. CASE PollFront(c)
  <2>1. c \in Getting /\ pc'[c] = "polled" /\ Held(c) = Mine(c)
    BY <1>4 DEF PollFront, GoOn, Getting, TypeOK, Held
  <2>2. holder' \in [Semaphore -> Process \cup {Free}]
    BY <1>4, <1>p DEF PollFront, Take, TypeOK
  <2>3. front' \in [Consumer -> Slot] /\ rear' \in [Consumer -> Slot]
    <3>1. front[c] \in Slot /\ rear[c] \in Slot
      BY DEF TypeOK
    <3>2. Front(c) \in Held(c) \cap Key /\ Rear \in Held(c) \cap Key
      BY <2>1, KeyFacts DEF Mine
    <3>3. Reads(c, Front(c), front[c]) \subseteq Slot /\ Reads(c, Rear, rear[c]) \subseteq Slot
      BY <3>1, <3>2, ReadsOK
    <3> QED
      BY <1>4, <3>3 DEF PollFront, TypeOK
  <2> QED
    BY <1>4, <1>g, <2>1, <2>2, <2>3 DEF PollFront, GoOn, TypeOK
<1>5. CASE PollReturn(c)
  <2>1. c \in Getting /\ pc'[c] \in {"poll", "fetch"}
    BY <1>5 DEF PollReturn, GoOn, Getting, TypeOK
  <2>2. holder' \in [Semaphore -> Process \cup {Free}]
    BY <1>5 DEF PollReturn, GiveBack, TypeOK
  <2>3. GoOn(c, pc'[c])
    BY <1>5 DEF PollReturn, GoOn, TypeOK
  <2>4. /\ UNCHANGED <<there, words>> /\ front' \in [Consumer -> Slot]
        /\ rear' \in [Consumer -> Slot] /\ moved' \in SUBSET Consumer
    BY <1>5 DEF PollReturn, GoOn, TypeOK
  <2> QED
    BY <1>g, <2>1, <2>2, <2>3, <2>4
<1>6. CASE Fetch(c)
  <2>1. c \in Getting /\ pc'[c] = "advance"
    BY <1>6 DEF Fetch, GoOn, Getting, TypeOK
  <2> QED
    BY <1>6, <1>g, <2>1 DEF Fetch, GoOn, TypeOK
<1>7. CASE Advance(c)
  <2>1. c \in Getting /\ pc'[c] = "write" /\ Held(c) = Mine(c)
    BY <1>7 DEF Advance, GoOn, Getting, TypeOK, Held
  <2>2. holder' \in [Semaphore -> Process \cup {Free}]
    BY <1>7, <1>p DEF Advance, Take, TypeOK
  <2>3. front' \in [Consumer -> Slot]
    <3>1. front[c] \in Slot
      BY DEF TypeOK
    <3>2. Front(c) \in Held(c) \cap Key
      BY <2>1, KeyFacts DEF Mine
    <3>3. \A f \in Reads(c, Front(c), front[c]) : Inc(f) \in Slot
      BY <3>1, <3>2, ReadsOK, SlotFacts
    <3> QED
      BY <1>7, <3>3 DEF Advance, TypeOK
  <2> QED
    BY <1>7, <1>g, <2>1, <2>2, <2>3 DEF Advance, GoOn, TypeOK
<1>8. CASE WriteFront(c)
  <2>1. c \in Getting /\ pc'[c] = "poll"
    BY <1>8 DEF WriteFront, GoOn, Getting, TypeOK
  <2>2. holder' \in [Semaphore -> Process \cup {Free}]
    BY <1>8 DEF WriteFront, GiveBack, TypeOK
  <2>3. SameObjects /\ moved' \in SUBSET Consumer
    BY <1>8, MoveOK DEF WriteFront, GoOn, TypeOK
  <2> QED
    BY <1>8, <1>g, <2>1, <2>2, <2>3 DEF WriteFront, GoOn, TypeOK
<1>9. CASE Leaves(c)
  <2>1. Gone(c) /\ UNCHANGED <<there, filled, broken, producer, starts, whole, met>>
    BY <1>9, LeaveEffect
  <2>2. SameObjects /\ moved' \in SUBSET Consumer
    <3>1. CASE UNCHANGED <<words, moved>>
      BY <2>1, <3>1 DEF SameObjects, TypeOK
    <3>2. CASE MoveFront(c)
      BY <2>1, <3>2, MoveOK DEF TypeOK
    <3> QED
      BY <1>9, <3>1, <3>2, LeaveEffect
  <2>3. /\ holder' \in [Semaphore -> Process \cup {Free}] /\ spoilt' \in SUBSET Semaphore
    <3>1. ASSUME NEW back, GiveBack(back), Raise(c, back)
          PROVE holder' \in [Semaphore -> Process \cup {Free}] /\ spoilt' \in SUBSET Semaphore
      BY <3>1 DEF GiveBack, Raise, TypeOK
    <3>2. CASE UNCHANGED holder /\ spoilt' = spoilt \cup {k \in Semaphore : holder[k] = c}
      BY <3>2 DEF TypeOK
    <3> QED
      BY <1>9, <3>1, <3>2, LeaveEffect
  <2>4. handle' \in [Consumer -> [Key -> Nat]] /\ \A d \in Consumer, j \in Key : handle'[d][j] <= Newest(j)'
    <3>1. \A d \in Consumer, j \in Key : handle'[d][j] = (IF d = c THEN 0 ELSE handle[d][j])
      BY <2>1 DEF Gone, Closed, TypeOK
    <3>2. handle' \in [Consumer -> [Key -> Nat]]
      BY <2>1 DEF Gone, Closed, TypeOK
    <3>3. \A j \in Key : Newest(j)' = Newest(j)
      BY <2>2 DEF SameObjects, Newest
    <3> QED
      BY <3>1, <3>2, <3>3, WordOK
  <2>5. HandleOK'
    <3>1. Held(c)' = {} /\ \A d \in Consumer \ {c} : Held(d)' = Held(d) /\ handle'[d] = handle[d]
      BY <2>1 DEF Gone, Held, Mine, TypeOK
    <3> QED
      BY <3>1 DEF HandleOK
  <2>6. \A k \in there' : words'[k] # <<>>
    <3> SUFFICES ASSUME NEW k \in there' PROVE words'[k] # <<>>
      OBVIOUS
    <3>1. k \in Key /\ k \in there /\ Len(words'[k]) # 0
      BY <2>1, <2>2, WordOK DEF SameObjects, Newest
    <3> QED
      BY <3>1
  <2>7. front' \in [Consumer -> Slot] /\ rear' \in [Consumer -> Slot]
    BY <2>1, SlotFacts DEF Gone, TypeOK
  <2> QED
    BY <2>1, <2>2, <2>3, <2>4, <2>5, <2>6, <2>7 DEF Gone, TypeOK, SameObjects, MaxStarts
<1> QED
  BY <1>1, <1>2, <1>3, <1>4, <1>5, <1>6, <1>7, <1>8, <1>9

----------------------------------------------------------------------------
(* The order of a creation.                                                 *)

LEMMA MakingNotDone ==
  ASSUME TypeOK, MakeShape, ppc = "make"
  PROVE  making \notin Done
BY KeyFacts DEF Done, MakeShape, TypeOK

\* The keys that are done grow by the one that was made, and are all in the end.
LEMMA DoneGrows ==
  ASSUME TypeOK, MakeShape, MakeNew
  PROVE  /\ \/ ppc' = "make" /\ Done' = Done \cup {making} /\ whole' = whole
            \/ ppc' = "ready" /\ Key \subseteq Done \cup {making} /\ whole'
         /\ ppc' = "make" =>
              /\ making' \notin {Data} /\ (making' \in {Rear, RearLock} => todo' = Consumer)
              /\ \A c \in Consumer : making' \in {Front(c), FrontLock(c)} => c \notin todo'
         /\ ~whole
<1>0. ppc = "make" /\ gap /\ MakeNext /\ making \in Key /\ todo \in SUBSET Consumer
  BY DEF MakeNew, TypeOK
<1>s. /\ ~whole
      /\ making \in {Data, Rear, RearLock} => todo = Consumer
      /\ \A c \in Consumer : making \in {Front(c), FrontLock(c)} => c \notin todo
  BY <1>0 DEF MakeShape, TypeOK
<1>1. CASE making = Data /\ making' = Rear /\ UNCHANGED <<ppc, todo, whole>>
  <2>1. Done = {} /\ Done' = {Data}
    BY <1>s, <1>1, KeyFacts DEF Done
  <2> QED
    BY <1>0, <1>s, <1>1, <2>1, KeyFacts
<1>2. CASE making = Rear /\ AfterRear /\ UNCHANGED <<ppc, whole>>
  <2>0. making' = RearLock /\ todo' = Consumer
    BY <1>s, <1>2 DEF AfterRear
  <2>1. Done = {Data} /\ Done' = {Data, Rear}
    BY <1>s, <1>2, <2>0, KeyFacts DEF Done
  <2> QED
    BY <1>0, <1>s, <1>2, <2>0, <2>1, KeyFacts
<1>3. ASSUME NEW c \in todo, LockMade, ToFront(c), UNCHANGED <<ppc, whole>>
      PROVE  /\ making' = Front(c) /\ todo' = todo \ {c} /\ c \in Consumer
             /\ Done' = Done \cup {making}
  <2>1. making' = Front(c) /\ todo' = todo \ {c} /\ c \in Consumer
    BY <1>0, <1>3 DEF ToFront
  <2>2. CASE making = RearLock
    <3>1. todo = Consumer /\ Done = {Data, Rear}
      BY <1>s, <2>2, KeyFacts DEF Done
    <3>2. Done' = {Data, Rear, RearLock}
      BY <2>1, <3>1, KeyFacts DEF Done
    <3> QED
      BY <2>1, <2>2, <3>1, <3>2
  <2>3. ASSUME NEW b \in Consumer, making = FrontLock(b)
        PROVE  Done' = Done \cup {making}
    <3>1. b \notin todo /\ b # c
      BY <1>s, <2>3
    <3>2. ASSUME NEW k \in Key
          PROVE  k \in Done' <=> k \in Done \cup {making}
      <4>1. CASE k \in {Data, Rear, RearLock}
        BY <2>1, <2>3, <4>1, KeyFacts DEF Done
      <4>2. ASSUME NEW d \in Consumer, k = Front(d)
            PROVE  k \in Done' <=> k \in Done \cup {making}
        BY <2>1, <2>3, <3>1, <4>2, KeyFacts DEF Done
      <4>3. ASSUME NEW d \in Consumer, k = FrontLock(d)
            PROVE  k \in Done' <=> k \in Done \cup {making}
        BY <2>1, <2>3, <3>1, <4>3, KeyFacts DEF Done
      <4> QED
        BY <4>1, <4>2, <4>3, KeyFacts
    <3> QED
      BY <1>0, <3>2 DEF Done
  <2> QED
    BY <1>3, <2>1, <2>2, <2>3 DEF LockMade
<1>4. ASSUME NEW c \in Consumer, making = Front(c), making' = FrontLock(c),
             UNCHANGED <<ppc, todo, whole>>
      PROVE  Done' = Done \cup {making}
  <2>1. c \notin todo
    BY <1>s, <1>4
  <2>2. ASSUME NEW k \in Key
        PROVE  k \in Done' <=> k \in Done \cup {making}
    <3>1. CASE k \in {Data, Rear, RearLock}
      BY <1>4, <3>1, KeyFacts DEF Done
    <3>2. ASSUME NEW d \in Consumer, k = Front(d)
          PROVE  k \in Done' <=> k \in Done \cup {making}
      BY <1>4, <2>1, <3>2, KeyFacts DEF Done
    <3>3. ASSUME NEW d \in Consumer, k = FrontLock(d)
          PROVE  k \in Done' <=> k \in Done \cup {making}
      BY <1>4, <2>1, <3>3, KeyFacts DEF Done
    <3> QED
      BY <3>1, <3>2, <3>3, KeyFacts
  <2> QED
    BY <1>0, <2>2 DEF Done
<1>5. CASE LockMade /\ todo = {} /\ ppc' = "ready" /\ making' = Data /\ whole' = TRUE /\ UNCHANGED todo
  <2>1. PICK b \in Consumer : making = FrontLock(b)
    BY <1>s, <1>5, ProcessAssumption DEF LockMade
  <2>2. ASSUME NEW k \in Key PROVE k \in Done \cup {making}
    BY <1>5, <2>1, KeyFacts DEF Done
  <2> QED
    BY <1>s, <1>5, <2>2
<1>6. CASE LockMade /\ (\E c \in todo : ToFront(c)) /\ UNCHANGED <<ppc, whole>>
  <2>1. PICK c \in todo : ToFront(c)
    BY <1>6
  <2>2. making' = Front(c) /\ todo' = todo \ {c} /\ c \in Consumer /\ Done' = Done \cup {making}
    BY <1>3, <1>6, <2>1
  <2> QED
    BY <1>0, <1>s, <1>6, <2>2, KeyFacts
<1>7. CASE \E c \in Consumer : making = Front(c) /\ making' = FrontLock(c) /\ UNCHANGED <<ppc, todo, whole>>
  <2>1. PICK c \in Consumer : making = Front(c) /\ making' = FrontLock(c)
    BY <1>7
  <2>2. c \notin todo /\ Done' = Done \cup {making}
    BY <1>4, <1>7, <1>s, <2>1
  <2> QED
    BY <1>0, <1>s, <1>7, <2>1, <2>2, KeyFacts
<1> QED
  BY <1>0, <1>1, <1>2, <1>5, <1>6, <1>7 DEF MakeNext

\* Which keys a creation has begun with decides what may be relied on; only its
\* own steps, and starts and openings, touch it.
LEMMA ShapeNext ==
  ASSUME TypeOK, HandleOK, MakeShape, Next
  PROVE  MakeShape'
<1> USE DEF objects, producer, consumer, history
<1>c. ASSUME UNCHANGED <<there, whole, met, gap>>,
             UNCHANGED <<ppc, making, todo>> \/ (ppc' \in {"ready", "fill", "visit", "leave"} /\ whole)
                \/ ppc' = "off",
             Opening' \subseteq Opening
      PROVE  MakeShape'
  <2>1. ppc' = "make" => Done' = Done
    BY <1>c DEF Done
  <2> QED
    BY <1>c, <2>1 DEF MakeShape
<1>g. ASSUME NEW c \in Getting, NEW next, next \notin {"data", "rear", "rearLock", "front", "frontLock"},
             pc' = [pc EXCEPT ![c] = next]
      PROVE  Opening' \subseteq Opening
  BY <1>g DEF Opening, Getting, TypeOK
<1>1. CASE StartProducer
  <2>1. Done' = {}
    <3>1. making' = Data /\ todo' = Consumer
      BY <1>1 DEF StartProducer
    <3> QED
      BY <3>1, KeyFacts DEF Done
  <2> QED
    BY <1>1, <2>1, KeyFacts DEF StartProducer, MakeShape, Opening
<1>2. CASE Remove
  <2>1. Done' = Done /\ making \notin Done
    BY <1>2, MakingNotDone DEF Remove, Done
  <2>2. Opening' = Opening
    BY <1>2 DEF Remove, Opening
  <2> QED
    BY <1>2, <2>1, <2>2 DEF Remove, MakeShape
<1>3. CASE MakeNew
  <2>1. there' = there \cup {making} /\ Opening' = Opening /\ ppc = "make" /\ ~gap'
    BY <1>3 DEF MakeNew, Make, Opening
  <2>2. Done \cup {making} \subseteq there'
    BY <2>1 DEF MakeShape
  <2>3. UNCHANGED met
    BY <1>3 DEF MakeNew
  <2> QED
    BY <1>3, <2>1, <2>2, <2>3, DoneGrows DEF MakeShape
<1>4. CASE MakeRaises
  BY <1>4, <1>c DEF MakeRaises, Opening
<1>5. CASE PutBegin \/ PutWrite \/ PutRaises \/ PutEnd \/ KillProducer
  <2>1. PutBegin \/ PutWrite \/ PutEnd => whole
    BY DEF PutBegin, PutWrite, PutEnd, MakeShape
  <2> QED
    BY <1>5, <1>c, <2>1 DEF PutBegin, PutWrite, PutRaises, PutEnd, KillProducer, Opening
<1>6. ASSUME NEW c \in Consumer, PutVisit(c) \/ PutLeave(c)
      PROVE  MakeShape'
  <2>1. whole
    BY <1>6 DEF PutVisit, PutLeave, MakeShape
  <2> QED
    BY <1>6, <1>c, <2>1 DEF PutVisit, PutLeave, Opening
<1>7. ASSUME NEW c \in Consumer, StartConsumer(c)
      PROVE  MakeShape'
  <2>1. Opening' = Opening \cup {c}
    BY <1>7 DEF StartConsumer, Opening, TypeOK
  <2>2. Done' = Done
    BY <1>7 DEF StartConsumer, Done
  <2> QED
    BY <1>7, <2>1, <2>2 DEF StartConsumer, MakeShape
<1>8. ASSUME NEW c \in Consumer, Open(c)
      PROVE  MakeShape'
  <2>1. DOMAIN pc = Consumer
    BY DEF TypeOK
  <2>2. PICK k \in {Data} \cup Mine(c), next \in {"rear", "rearLock", "front", "frontLock", "poll"} :
           /\ IF k \in there THEN UNCHANGED <<there, words>>
              ELSE k \notin Semaphore /\ Make(k)
           /\ Opened(c, k, next)
           /\ c \in Opening
           /\ pc' = [pc EXCEPT ![c] = next]
    BY <1>8, <2>1, OpenEffect
  <2>3. Opening' \subseteq Opening
    BY <2>1, <2>2 DEF Opening
  <2>4. there \subseteq there' /\ UNCHANGED <<producer, whole, met>>
    BY <2>2 DEF Make, Opened
  <2>5. Done' = Done
    BY <2>4 DEF Done
  <2> QED
    BY <2>3, <2>4, <2>5 DEF MakeShape
<1>9. ASSUME NEW c \in Consumer,
             \/ Poll(c) \/ PollFront(c) \/ PollReturn(c) \/ Fetch(c) \/ Advance(c) \/ WriteFront(c)
      PROVE  MakeShape'
  <2>1. c \in Getting
    BY <1>9 DEF Poll, PollFront, PollReturn, Fetch, Advance, WriteFront, Getting
  <2>2. PICK next : /\ next \notin {"data", "rear", "rearLock", "front", "frontLock"}
                    /\ GoOn(c, next)
    BY <1>9 DEF Poll, PollFront, PollReturn, Fetch, Advance, WriteFront
  <2> QED
    BY <1>c, <1>g, <2>1, <2>2 DEF GoOn
<1>10. ASSUME NEW c \in Consumer, Leaves(c)
       PROVE  MakeShape'
  <2>1. Gone(c) /\ UNCHANGED <<there, producer, whole, met>>
    BY <1>10, LeaveEffect
  <2>2. Opening' \subseteq Opening
    BY <2>1 DEF Gone, Opening, TypeOK
  <2> QED
    BY <1>c, <2>1, <2>2
<1> QED
  BY <1>1, <1>2, <1>3, <1>4, <1>5, <1>6, <1>7, <1>8, <1>9, <1>10, StepCases

----------------------------------------------------------------------------
(* One ring or none.                                                        *)

LEMMA LiveStays ==
  ASSUME TypeOK, SameObjects \/ UNCHANGED <<there, words>>,
         NEW c \in Consumer, handle'[c] = handle[c]
  PROVE  \A k \in Key : Live(c, k)' = Live(c, k)
BY DEF SameObjects, Live, Present, Newest

LEMMA LiveNotMade ==
  ASSUME TypeOK, NEW k \in Key, k \notin there, Make(k),
         NEW c \in Consumer, handle'[c] = handle[c]
  PROVE  /\ \A j \in Key : Live(c, j)' => Live(c, j)
         /\ ~Live(c, k)'
         /\ \A j \in Key \ {k} : Live(c, j)' = Live(c, j)
<1>1. ~Live(c, k)'
  <2>1. Newest(k)' = Newest(k) + 1 /\ k \in there'
    BY Makes
  <2>2. handle[c][k] \in Nat /\ Newest(k) \in Nat /\ handle[c][k] <= Newest(k)
    BY WordOK
  <2> QED
    BY <2>1, <2>2 DEF Live, Present
<1>2. \A j \in Key \ {k} : Live(c, j)' = Live(c, j)
  BY Makes DEF Live, Present, Newest
<1> QED
  BY <1>1, <1>2

\* A step in which no object comes or goes, nothing is opened, and at most one
\* process goes on: it is gone, or stays in its loop.
RingStays(b) ==
  /\ UNCHANGED <<whole, met>>
  /\ SameObjects \/ UNCHANGED <<there, words>>
  /\ UNCHANGED <<ppc, gap, making, todo>> \/ whole \/ ppc' = "off"
  /\ \A c \in Consumer \ {b} : handle'[c] = handle[c] /\ pc'[c] = pc[c]
  /\ \/ pc'[b] = "off"
     \/ handle'[b] = handle[b] /\ (pc'[b] = pc[b] \/ (b \in Getting /\ b \in Getting'))

LEMMA OneRingStays ==
  ASSUME TypeOK, OneRing, NEW b \in Consumer, RingStays(b)
  PROVE  OneRing'
<1> USE DEF RingStays
<1>1. \A c \in Consumer, k \in Key : handle'[c] = handle[c] => Live(c, k)' = Live(c, k)
  BY LiveStays
<1>2. ppc' = "make" /\ ~whole => Renewed' = Renewed
  BY DEF Renewed, Done
<1>3. Renewed \subseteq Key
  BY DEF Renewed, Done, TypeOK
<1>4. \A c \in Consumer : Mine(c) \subseteq Key /\ Held(c) \subseteq Mine(c)
  BY KeyFacts DEF Mine, Held
<1>5. \A c \in Consumer :
        pc'[c] # "off" => /\ handle'[c] = handle[c]
                          /\ Held(c)' = Held(c) /\ pc[c] # "off"
                          /\ c \in Getting' <=> c \in Getting
  BY DEF Getting, Held, Mine
<1>6. ASSUME ppc' = "make", ~whole', NEW c \in Getting' \ met', NEW k \in Renewed'
      PROVE  ~Live(c, k)'
  <2>1. c \in Consumer /\ pc'[c] # "off"
    BY <1>6 DEF Getting
  <2>2. c \in Getting \ met /\ k \in Renewed /\ ppc = "make" /\ ~whole
    BY <1>2, <1>5, <1>6, <2>1
  <2>3. ~Live(c, k)
    BY <2>2 DEF OneRing
  <2> QED
    BY <1>1, <1>3, <1>5, <2>1, <2>2, <2>3
<1>7. ASSUME whole', NEW c \in Consumer \ met', pc'[c] # "off"
      PROVE  \/ \A k \in Held(c)' : Live(c, k)'
             \/ c \in Getting' /\ \A k \in Mine(c)' : ~Live(c, k)'
  <2>1. \/ \A k \in Held(c) : Live(c, k)
        \/ c \in Getting /\ \A k \in Mine(c) : ~Live(c, k)
    BY <1>5, <1>7 DEF OneRing
  <2>2. Mine(c)' = Mine(c)
    BY DEF Mine
  <2> QED
    BY <1>1, <1>4, <1>5, <1>7, <2>1, <2>2
<1> QED
  BY <1>6, <1>7 DEF OneRing

LEMMA OneRingQuiet ==
  ASSUME TypeOK, OneRing, UNCHANGED <<whole, met, pc, handle>>,
         SameObjects \/ UNCHANGED <<there, words>>,
         UNCHANGED <<ppc, gap, making, todo>> \/ whole \/ ppc' = "off"
  PROVE  OneRing'
<1>1. PICK b \in Consumer : TRUE
  BY ProcessAssumption
<1>2. RingStays(b)
  BY DEF RingStays
<1> QED
  BY <1>1, <1>2, OneRingStays

LEMMA OneRingNext ==
  ASSUME TypeOK, HandleOK, MakeShape, OneRing, Next
  PROVE  OneRing'
<1> USE DEF objects, producer, consumer, history
<1>k. /\ Renewed \subseteq Key
      /\ \A c \in Consumer : Mine(c) \subseteq Key /\ Held(c) \subseteq Mine(c)
  BY KeyFacts DEF Renewed, Done, TypeOK, Mine, Held
<1>1. CASE StartProducer
  <2>1. Renewed' = {}
    <3>1. making' = Data /\ todo' = Consumer /\ gap' = FALSE
      BY <1>1 DEF StartProducer
    <3> QED
      BY <3>1, KeyFacts DEF Renewed, Done
  <2>2. CASE whole
    BY <1>1, <2>2, OneRingQuiet DEF StartProducer
  <2>3. CASE ~whole
    BY <1>1, <2>1, <2>3 DEF StartProducer, OneRing
  <2> QED
    BY <2>2, <2>3
<1>2. CASE Remove
  <2>0. ppc = "make" /\ ~gap /\ there' = there \ {making} /\ ~whole'
    BY <1>2 DEF Remove
  <2>1. Done' = Done /\ Renewed' = Done \cup {making} /\ Renewed = Done
    BY <1>2 DEF Remove, Done, Renewed
  <2>2. ASSUME NEW c \in Getting' \ met', NEW k \in Renewed'
        PROVE  ~Live(c, k)'
    <3>1. c \in Getting \ met
      BY <1>2, <2>2 DEF Remove, Getting
    <3>2. CASE k = making
      BY <2>0, <3>2 DEF Live, Present
    <3>3. CASE k # making
      <4>1. k \in Done
        BY <2>1, <3>3
      <4>2. ~whole
        BY <2>0, <4>1, KeyFacts DEF MakeShape, Done
      <4>3. ~Live(c, k)
        BY <2>0, <2>1, <3>1, <4>1, <4>2 DEF OneRing
      <4>4. UNCHANGED <<handle, words>> /\ (k \in there' <=> k \in there)
        BY <1>2, <3>3, <2>0 DEF Remove
      <4> QED
        BY <4>3, <4>4 DEF Live, Present, Newest
    <3> QED
      BY <3>2, <3>3
  <2> QED
    BY <2>0, <2>2 DEF OneRing
<1>3. CASE MakeNew
  <2>0. /\ Make(making) /\ making \in Key /\ making \notin there /\ gap /\ gap' = FALSE
        /\ ppc = "make" /\ UNCHANGED <<pc, handle, met>>
    BY <1>3 DEF MakeNew, TypeOK
  <2>1. /\ \/ ppc' = "make" /\ Done' = Done \cup {making} /\ whole' = whole
           \/ ppc' = "ready" /\ Key \subseteq Done \cup {making} /\ whole'
        /\ ~whole
    BY <1>3, DoneGrows
  <2>2. Renewed = Done \cup {making}
    BY <2>0 DEF Renewed
  <2>3. ASSUME NEW c \in Getting \ met, NEW k \in Renewed
        PROVE  ~Live(c, k)'
    <3>1. c \in Consumer /\ ~Live(c, k) /\ k \in Key
      BY <1>k, <2>0, <2>1 DEF OneRing, Getting
    <3> QED
      BY <2>0, <3>1, LiveNotMade
  <2>4. Getting' = Getting
    BY <2>0 DEF Getting
  <2>5. CASE ppc' = "make" /\ Done' = Done \cup {making} /\ whole' = whole
    <3>1. Renewed' = Renewed
      BY <2>0, <2>2, <2>5 DEF Renewed
    <3> QED
      BY <2>0, <2>1, <2>3, <2>4, <2>5, <3>1 DEF OneRing
  <2>6. CASE ppc' = "ready" /\ Key \subseteq Done \cup {making} /\ whole'
    <3>1. ASSUME NEW c \in Consumer \ met', pc'[c] # "off"
          PROVE  c \in Getting' /\ \A k \in Mine(c)' : ~Live(c, k)'
      <4>1. c \notin Opening
        BY <2>0, <2>1, <3>1 DEF MakeShape
      <4>2. c \in Getting \ met
        BY <2>0, <3>1, <4>1 DEF Getting, Opening, TypeOK
      <4>3. Mine(c)' = Mine(c) /\ Mine(c) \subseteq Renewed
        BY <1>k, <2>2, <2>6 DEF Mine
      <4> QED
        BY <2>3, <2>4, <4>2, <4>3
    <3> QED
      BY <2>6, <3>1 DEF OneRing
  <2> QED
    BY <2>1, <2>5, <2>6
<1>4. CASE MakeRaises \/ KillProducer \/ PutRaises
  BY <1>4, OneRingQuiet DEF MakeRaises, KillProducer, PutRaises
<1>5. CASE PutBegin \/ PutWrite
  <2>1. whole
    BY <1>5 DEF PutBegin, PutWrite, MakeShape
  <2> QED
    BY <1>5, <2>1, OneRingQuiet DEF PutBegin, PutWrite
<1>6. CASE PutEnd
  <2>1. whole
    BY <1>6 DEF PutEnd, MakeShape
  <2>2. Rear \in there /\ Inc(Word(Rear)) \in Slot
    BY <1>6, <2>1, WordOK, KeyFacts, SlotFacts DEF MakeShape
  <2>3. SameObjects
    BY <1>6, <2>2, Writes DEF PutEnd
  <2> QED
    BY <1>6, <2>1, <2>3, OneRingQuiet DEF PutEnd
<1>7. ASSUME NEW c \in Consumer, PutVisit(c) PROVE OneRing'
  <2>1. whole
    BY <1>7 DEF PutVisit, MakeShape
  <2> QED
    BY <1>7, <2>1, OneRingQuiet DEF PutVisit
<1>8. ASSUME NEW c \in Consumer, PutLeave(c) PROVE OneRing'
  <2>1. whole
    BY <1>8 DEF PutLeave, MakeShape
  <2>2. Front(c) \in there /\ Inc(Word(Front(c))) \in Slot
    BY <1>8, <2>1, WordOK, KeyFacts, SlotFacts DEF MakeShape
  <2>3. SameObjects \/ UNCHANGED <<there, words>>
    BY <1>8, <2>2, Writes DEF PutLeave
  <2> QED
    BY <1>8, <2>1, <2>3, OneRingQuiet DEF PutLeave
<1>9. ASSUME NEW c \in Consumer, StartConsumer(c) PROVE OneRing'
  <2>0. /\ UNCHANGED <<there, words, handle, ppc, gap, making, todo, whole>> /\ pc[c] = "off"
        /\ pc' = [pc EXCEPT ![c] = "data"] /\ met' = (IF whole THEN met \ {c} ELSE met \cup {c})
    BY <1>9 DEF StartConsumer
  <2>1. /\ Held(c)' = {} /\ pc'[c] = "data" /\ c \notin Getting' /\ c \notin Getting
        /\ \A d \in Consumer \ {c} : Held(d)' = Held(d) /\ pc'[d] = pc[d] /\ (d \in Getting' <=> d \in Getting)
    BY <2>0 DEF Held, Mine, Getting, TypeOK
  <2>2. Renewed' = Renewed /\ \A d \in Consumer, k \in Key : Live(d, k)' = Live(d, k)
    BY <2>0 DEF Renewed, Done, Live, Present, Newest
  <2>3. ASSUME ppc' = "make", ~whole', NEW d \in Getting' \ met', NEW k \in Renewed'
        PROVE  ~Live(d, k)'
    <3>1. d \in Consumer /\ d # c /\ d \in Getting \ met
      BY <2>0, <2>1, <2>3 DEF Getting
    <3> QED
      BY <1>k, <2>0, <2>2, <2>3, <3>1 DEF OneRing
  <2>4. ASSUME whole', NEW d \in Consumer \ met', pc'[d] # "off"
        PROVE  \/ \A k \in Held(d)' : Live(d, k)'
               \/ d \in Getting' /\ \A k \in Mine(d)' : ~Live(d, k)'
    <3>1. CASE d = c
      BY <2>1, <3>1
    <3>2. CASE d # c
      <4>1. \/ \A k \in Held(d) : Live(d, k)
            \/ d \in Getting /\ \A k \in Mine(d) : ~Live(d, k)
        BY <2>0, <2>1, <2>4, <3>2 DEF OneRing
      <4>2. Mine(d)' = Mine(d)
        BY DEF Mine
      <4> QED
        BY <1>k, <2>1, <2>2, <3>2, <4>1, <4>2
    <3> QED
      BY <3>1, <3>2
  <2> QED
    BY <2>3, <2>4 DEF OneRing
<1>10. ASSUME NEW c \in Consumer, Open(c) PROVE OneRing'
  <2>1. DOMAIN pc = Consumer
    BY DEF TypeOK
  <2>2. PICK k \in {Data} \cup Mine(c), next \in {"rear", "rearLock", "front", "frontLock", "poll"} :
           /\ IF k \in there THEN UNCHANGED <<there, words>>
              ELSE k \notin Semaphore /\ Make(k)
           /\ Opened(c, k, next)
           /\ c \in Opening
           /\ pc' = [pc EXCEPT ![c] = next]
           /\ Held(c)' = Held(c) \cup ({k} \ {Data})
    BY <1>10, <2>1, OpenEffect
  <2>3. /\ UNCHANGED <<ppc, gap, making, todo, whole, met>> /\ k \in Key
        /\ handle' = IF k = Data THEN handle ELSE [handle EXCEPT ![c][k] = Present(k)']
        /\ c \notin Getting
    BY <1>k, <2>2, KeyFacts DEF Opened, Opening, Getting
  <2>4. \A d \in Consumer \ {c} :
          handle'[d] = handle[d] /\ Held(d)' = Held(d) /\ pc'[d] = pc[d] /\ (d \in Getting' <=> d \in Getting)
    BY <2>2, <2>3 DEF Held, Mine, Getting, TypeOK
  <2>5. Renewed' = Renewed
    BY <2>3 DEF Renewed, Done
  <2>6. ASSUME ppc' = "make", ~whole', NEW d \in Getting' \ met', NEW j \in Renewed'
        PROVE  ~Live(d, j)'
    <3>1. c \in met /\ d # c /\ d \in Consumer /\ d \in Getting \ met /\ j \in Key
      BY <1>k, <2>2, <2>3, <2>4, <2>5, <2>6 DEF MakeShape, Getting
    <3>2. ~Live(d, j)
      BY <2>3, <2>5, <2>6, <3>1 DEF OneRing
    <3>3. CASE k \in there
      BY <2>2, <2>4, <3>1, <3>2, <3>3, LiveStays
    <3>4. CASE k \notin there
      BY <2>2, <2>3, <2>4, <3>1, <3>2, <3>4, LiveNotMade
    <3> QED
      BY <3>3, <3>4
  <2>7. ASSUME whole', NEW d \in Consumer \ met', pc'[d] # "off"
        PROVE  \/ \A j \in Held(d)' : Live(d, j)'
               \/ d \in Getting' /\ \A j \in Mine(d)' : ~Live(d, j)'
    <3>1. k \in there /\ UNCHANGED <<there, words>> /\ Mine(d)' = Mine(d)
      BY <2>2, <2>3, <2>7 DEF MakeShape, Mine
    <3>2. CASE d = c
      <4>1. \A j \in Held(c) : Live(c, j)
        BY <2>2, <2>3, <2>7, <3>2 DEF OneRing, Opening
      <4>2. Present(k)' = Present(k) /\ Present(k) # 0
        BY <3>1, WordOK DEF Present, Newest
      <4>3. ASSUME NEW j \in Held(c)' PROVE Live(c, j)'
        <5>0. j \in Held(c) \cup ({k} \ {Data}) /\ j \in Key /\ handle \in [Consumer -> [Key -> Nat]]
          BY <1>k, <2>2, <2>3 DEF TypeOK
        <5>1. CASE j = k /\ k # Data
          <6>1. handle'[c][k] = Present(k)'
            BY <2>3, <5>0, <5>1
          <6> QED
            BY <4>2, <5>1, <6>1 DEF Live
        <5>2. CASE ~(j = k /\ k # Data)
          <6>1. handle'[c][j] = handle[c][j] /\ j \in Held(c)
            BY <2>3, <5>0, <5>2
          <6> QED
            BY <3>1, <4>1, <6>1 DEF Live, Present, Newest
        <5> QED
          BY <5>1, <5>2
      <4> QED
        BY <3>2, <4>3
    <3>3. CASE d # c
      <4>1. \/ \A j \in Held(d) : Live(d, j)
            \/ d \in Getting /\ \A j \in Mine(d) : ~Live(d, j)
        BY <2>3, <2>4, <2>7, <3>3 DEF OneRing
      <4>2. \A j \in Key : Live(d, j)' = Live(d, j)
        BY <2>4, <3>1, <3>3, LiveStays
      <4> QED
        BY <1>k, <2>4, <3>1, <3>3, <4>1, <4>2
    <3> QED
      BY <3>2, <3>3
  <2> QED
    BY <2>6, <2>7 DEF OneRing
<1>11. ASSUME NEW c \in Consumer,
              \/ Poll(c) \/ PollFront(c) \/ PollReturn(c) \/ Fetch(c) \/ Advance(c) \/ WriteFront(c)
       PROVE  OneRing'
  <2>1. c \in Getting
    BY <1>11 DEF Poll, PollFront, PollReturn, Fetch, Advance, WriteFront, Getting
  <2>2. PICK next \in {"poll", "pollFront", "polled", "fetch", "advance", "write"} : GoOn(c, next)
    BY <1>11 DEF Poll, PollFront, PollReturn, Fetch, Advance, WriteFront
  <2>3. SameObjects \/ UNCHANGED <<there, words>>
    BY <1>11, <2>2, MoveOK DEF Poll, PollFront, PollReturn, Fetch, Advance, WriteFront, GoOn
  <2>4. /\ \A d \in Consumer \ {c} : handle'[d] = handle[d] /\ pc'[d] = pc[d]
        /\ handle' = handle /\ c \in Getting' /\ UNCHANGED <<whole, met, ppc, gap, making, todo>>
    BY <2>1, <2>2 DEF GoOn, Getting, TypeOK
  <2>5. RingStays(c)
    BY <2>1, <2>3, <2>4 DEF RingStays
  <2> QED
    BY <2>5, OneRingStays
<1>12. ASSUME NEW c \in Consumer, Leaves(c) PROVE OneRing'
  <2>1. Gone(c) /\ UNCHANGED <<there, producer, whole, met>>
    BY <1>12, LeaveEffect
  <2>2. SameObjects \/ UNCHANGED <<there, words>>
    BY <1>12, <2>1, LeaveEffect, MoveOK
  <2>3. pc'[c] = "off" /\ \A d \in Consumer \ {c} : handle'[d] = handle[d] /\ pc'[d] = pc[d]
    BY <2>1 DEF Gone, TypeOK
  <2>4. UNCHANGED <<whole, met, ppc, gap, making, todo>>
    BY <2>1
  <2>5. RingStays(c)
    BY <2>2, <2>3, <2>4 DEF RingStays
  <2> QED
    BY <2>5, OneRingStays
<1> QED
  BY <1>1, <1>2, <1>3, <1>4, <1>5, <1>6, <1>7, <1>8, <1>9, <1>10, <1>11, <1>12, StepCases

----------------------------------------------------------------------------
(* Who has a semaphore.                                                     *)

\* On a ring that is all there, only a frame that is not there, or is broken,
\* raises.
LEMMA RaisesOnLive ==
  ASSUME NEW c \in Consumer, Raises(c), AllLive(c)
  PROVE  pc[c] = "fetch" /\ (Data \notin there \/ front[c] \notin filled \ broken)
<1>1. Live(c, RearLock) /\ Live(c, Front(c)) /\ Live(c, FrontLock(c))
  BY DEF AllLive
<1> QED
  BY <1>1 DEF Raises, WriteRaises, GetRaises, ReturnRaises

\* A consumer that has met no creation and is inside has all of the ring.
LEMMA InsideLive ==
  ASSUME TypeOK, OneRing, NEW c \in Consumer \ met, NEW k \in Semaphore,
         whole \/ (ppc = "make" /\ k \in Renewed), Inside(c, k)
  PROVE  AllLive(c)
<1>1. c \in Getting /\ pc[c] # "off" /\ Held(c) = Mine(c) /\ Live(c, k) /\ k \in Mine(c)
  BY ProcessAssumption DEF Inside, Getting, Held, Mine
<1> QED
  BY <1>1 DEF OneRing, AllLive, Mine

\* One semaphore, in a step that leaves its holder where it was.
Guarded(k) == whole \/ (ppc = "make" /\ k \in Renewed)
Kept(k) == Guarded(k) /\ holder[k] # Free => k \in spoilt \/ Inside(holder[k], k)

LEMMA ConsumerInside ==
  ASSUME NEW d \in Consumer, NEW k, pc'[d] = pc[d], Live(d, k)' = Live(d, k)
  PROVE  Inside(d, k)' = Inside(d, k)
BY ProcessAssumption DEF Inside

LEMMA ProducerInside ==
  ASSUME NEW k
  PROVE  Inside(Producer, k) <=>
           \/ ppc \in {"fill", "visit", "leave"} /\ k = RearLock
           \/ ppc = "leave" /\ k = making
BY ProcessAssumption DEF Inside

LEMMA HeldByProducer ==
  ASSUME TypeOK, MakeShape, HeldInside,
         \/ StartProducer \/ Remove \/ MakeNew \/ MakeRaises \/ PutBegin \/ PutWrite
         \/ PutRaises \/ PutEnd \/ KillProducer \/ \E c \in Consumer : PutVisit(c) \/ PutLeave(c)
  PROVE  HeldInside'
<1> USE DEF objects, producer, consumer, history
<1> SUFFICES ASSUME NEW k \in Semaphore PROVE Kept(k)'
  BY DEF HeldInside, Kept, Guarded
<1>k. /\ k \in Key /\ Kept(k)
      /\ holder[k] \in Consumer \cup {Producer, Free}
      /\ Free # Producer /\ Producer \notin Consumer /\ Free \notin Consumer
  BY KeyFacts, ProcessAssumption DEF HeldInside, Kept, Guarded, TypeOK, Process
<1>h. /\ UNCHANGED <<pc, handle>>
      /\ \A d \in Consumer : Live(d, k)' = Live(d, k) => Inside(d, k)' = Inside(d, k)
  <2>1. UNCHANGED <<pc, handle>>
    BY DEF StartProducer, Remove, MakeNew, MakeRaises, PutBegin, PutWrite, PutRaises, PutEnd,
           KillProducer, PutVisit, PutLeave
  <2> QED
    BY <2>1, ConsumerInside
<1>l. ASSUME SameObjects \/ UNCHANGED <<there, words>>
      PROVE  \A d \in Consumer : Live(d, k)' = Live(d, k)
  BY <1>l, <1>k, <1>h, LiveStays
<1>w. PutBegin \/ PutWrite \/ PutEnd \/ (\E c \in Consumer : PutVisit(c) \/ PutLeave(c)) => whole
  BY DEF PutBegin, PutWrite, PutEnd, PutVisit, PutLeave, MakeShape
<1>1. CASE StartProducer
  <2>1. Guarded(k)' => whole
    <3>1. making' = Data /\ todo' = Consumer /\ gap' = FALSE /\ whole' = whole
      BY <1>1 DEF StartProducer
    <3> QED
      BY <3>1, KeyFacts DEF Guarded, Renewed, Done
  <2>2. Inside(Producer, k) = FALSE
    BY <1>1, ProducerInside DEF StartProducer
  <2>3. UNCHANGED <<there, words, holder, spoilt>>
    BY <1>1 DEF StartProducer
  <2> QED
    BY <1>k, <1>h, <1>l, <2>1, <2>2, <2>3 DEF Kept, Guarded
<1>2. CASE Remove
  <2>1. /\ ppc = "make" /\ ~whole' /\ Renewed' = Done \cup {making} /\ Renewed = Done
        /\ holder'[k] = (IF k = making THEN Free ELSE holder[k])
        /\ spoilt' = spoilt \ {making}
    BY <1>2 DEF Remove, Renewed, Done
  <2>2. CASE k = making
    BY <2>1, <2>2 DEF Kept
  <2>3. CASE k # making
    <3>1. \A d \in Consumer : Live(d, k)' = Live(d, k)
      BY <1>2, <2>3 DEF Remove, Live, Present, Newest
    <3>2. Guarded(k)' => Guarded(k)
      BY <2>1, <2>3 DEF Guarded
    <3>3. ~Inside(Producer, k)
      BY <2>1, ProducerInside
    <3> QED
      BY <1>k, <1>h, <2>1, <2>3, <3>1, <3>2, <3>3 DEF Kept
  <2> QED
    BY <2>2, <2>3
<1>3. CASE MakeNew
  <2>1. /\ ppc = "make" /\ Make(making) /\ making \notin there /\ making \in Key
        /\ gap /\ gap' = FALSE /\ UNCHANGED <<holder, spoilt>>
    BY <1>3 DEF MakeNew, TypeOK
  <2>2. Guarded(k)' => Guarded(k)
    BY <1>3, <1>k, <2>1, DoneGrows DEF Guarded, Renewed
  <2>3. ~Inside(Producer, k)
    BY <2>1, ProducerInside
  <2>4. CASE k = making
    <3>1. \A d \in Consumer : ~Inside(d, k)
      BY <1>k, <2>1, <2>4, WordOK DEF Inside
    <3> QED
      BY <1>k, <2>1, <2>2, <2>3, <3>1 DEF Kept
  <2>5. CASE k # making
    <3>1. \A d \in Consumer : Live(d, k)' = Live(d, k)
      <4> SUFFICES ASSUME NEW d \in Consumer PROVE Live(d, k)' = Live(d, k)
        OBVIOUS
      <4>1. handle'[d] = handle[d]
        BY <1>h
      <4> QED
        BY <1>k, <2>1, <2>5, <4>1, LiveNotMade
    <3> QED
      BY <1>k, <1>h, <2>1, <2>2, <2>3, <3>1 DEF Kept
  <2> QED
    BY <2>4, <2>5
<1>4. CASE MakeRaises
  <2>1. ~whole' /\ ppc' = "off"
    BY <1>4 DEF MakeRaises, MakeShape
  <2> QED
    BY <2>1 DEF Kept, Guarded
<1>5. CASE PutBegin
  <2>1. /\ ppc = "ready" /\ ppc' = "fill" /\ UNCHANGED <<there, words, whole, spoilt>>
        /\ holder' = [holder EXCEPT ![RearLock] = Producer]
    BY <1>5 DEF PutBegin, Take
  <2>2. CASE k = RearLock
    BY <2>1, <2>2, KeyFacts DEF Kept, Inside, TypeOK
  <2>3. CASE k # RearLock
    <3>1. holder'[k] = holder[k] /\ ~Inside(Producer, k)
      BY <2>1, <2>3, ProducerInside DEF TypeOK
    <3> QED
      BY <1>5, <1>k, <1>h, <1>l, <1>w, <2>1, <3>1 DEF Kept, Guarded
  <2> QED
    BY <2>2, <2>3
<1>6. CASE PutEnd
  <2>1. /\ ppc = "visit" /\ there' = there /\ UNCHANGED <<whole, spoilt>>
        /\ holder' = [holder EXCEPT ![RearLock] = Free]
    BY <1>6 DEF PutEnd
  <2>2. SameObjects
    <3>1. Rear \in there /\ Inc(Word(Rear)) \in Slot
      BY <1>6, <1>w, WordOK, KeyFacts, SlotFacts DEF MakeShape
    <3> QED
      BY <1>6, <3>1, Writes DEF PutEnd
  <2>3. CASE k = RearLock
    BY <2>1, <2>3 DEF Kept, TypeOK
  <2>4. CASE k # RearLock
    <3>1. holder'[k] = holder[k] /\ ~Inside(Producer, k)
      BY <2>1, <2>4, ProducerInside DEF TypeOK
    <3> QED
      BY <1>6, <1>k, <1>h, <1>l, <1>w, <2>1, <2>2, <3>1 DEF Kept, Guarded
  <2> QED
    BY <2>3, <2>4
<1>7. CASE KillProducer
  <2>1. /\ ppc' = "off" /\ UNCHANGED <<there, words, holder, whole>>
        /\ spoilt' = spoilt \cup {j \in Semaphore : holder[j] = Producer}
    BY <1>7 DEF KillProducer
  <2>2. Guarded(k)' => Guarded(k)
    BY <2>1 DEF Guarded
  <2>3. CASE holder[k] = Producer
    BY <2>1, <2>3 DEF Kept
  <2>4. CASE holder[k] # Producer
    BY <1>k, <1>h, <1>l, <2>1, <2>2, <2>4 DEF Kept
  <2> QED
    BY <2>3, <2>4
<1>8. ASSUME NEW c \in Consumer, PutVisit(c) PROVE Kept(k)'
  <2>1. /\ ppc = "visit" /\ ppc' = "leave" /\ making' = FrontLock(c)
        /\ UNCHANGED <<there, words, whole, spoilt>>
        /\ holder' = [holder EXCEPT ![FrontLock(c)] = Producer]
    BY <1>8 DEF PutVisit, Take
  <2>2. CASE k = FrontLock(c)
    BY <2>1, <2>2 DEF Kept, Inside, TypeOK
  <2>3. CASE k # FrontLock(c)
    <3>1. holder'[k] = holder[k] /\ (Inside(Producer, k) => Inside(Producer, k)')
      BY <2>1, <2>3, ProducerInside DEF TypeOK, Inside
    <3> QED
      BY <1>8, <1>k, <1>h, <1>l, <1>w, <2>1, <3>1 DEF Kept, Guarded
  <2> QED
    BY <2>2, <2>3
<1>9. ASSUME NEW c \in Consumer, PutLeave(c) PROVE Kept(k)'
  <2>1. /\ ppc = "leave" /\ ppc' = "visit" /\ making = FrontLock(c)
        /\ there' = there /\ UNCHANGED <<whole, spoilt>>
        /\ holder' = [holder EXCEPT ![FrontLock(c)] = Free]
    BY <1>9 DEF PutLeave
  <2>2. SameObjects \/ UNCHANGED <<there, words>>
    <3>1. Front(c) \in there /\ Inc(Word(Front(c))) \in Slot
      BY <1>9, <1>w, WordOK, KeyFacts, SlotFacts DEF MakeShape
    <3> QED
      BY <1>9, <3>1, Writes DEF PutLeave
  <2>3. CASE k = FrontLock(c)
    BY <2>1, <2>3 DEF Kept, TypeOK
  <2>4. CASE k # FrontLock(c)
    <3>1. holder'[k] = holder[k] /\ (Inside(Producer, k) => Inside(Producer, k)')
      BY <2>1, <2>4, ProducerInside DEF TypeOK, Inside
    <3> QED
      BY <1>9, <1>k, <1>h, <1>l, <1>w, <2>1, <2>2, <3>1 DEF Kept, Guarded
  <2> QED
    BY <2>3, <2>4
<1>10. CASE PutWrite
  <2>1. /\ ppc = "fill" /\ ppc' = "visit" /\ making' = making
        /\ UNCHANGED <<there, words, holder, whole, spoilt>>
    BY <1>10 DEF PutWrite
  <2>2. Inside(Producer, k) => Inside(Producer, k)'
    BY <2>1, ProducerInside DEF Inside
  <2> QED
    BY <1>10, <1>k, <1>h, <1>l, <1>w, <2>1, <2>2 DEF Kept, Guarded
<1>11. CASE PutRaises
  <2>1. /\ ppc = "ready" /\ ppc' = "off" /\ UNCHANGED <<there, words, whole>>
        /\ holder' = [holder EXCEPT ![RearLock] = Producer]
        /\ spoilt' = spoilt \cup {RearLock}
    BY <1>11 DEF PutRaises, Take
  <2>2. CASE k = RearLock
    BY <2>1, <2>2 DEF Kept
  <2>3. CASE k # RearLock
    <3>1. holder'[k] = holder[k] /\ ~Inside(Producer, k)
      BY <2>1, <2>3, ProducerInside DEF TypeOK
    <3>2. Guarded(k)' => Guarded(k)
      BY <2>1 DEF Guarded
    <3> QED
      BY <1>k, <1>h, <1>l, <2>1, <3>1, <3>2 DEF Kept
  <2> QED
    BY <2>2, <2>3
<1> QED
  BY <1>1, <1>2, <1>3, <1>4, <1>5, <1>6, <1>7, <1>8, <1>9, <1>10, <1>11

LEMMA HeldByConsumer ==
  ASSUME TypeOK, MakeShape, OneRing, HeldInside, NEW c \in Consumer,
         \/ StartConsumer(c) \/ Open(c) \/ Poll(c) \/ PollFront(c) \/ PollReturn(c)
         \/ Fetch(c) \/ Advance(c) \/ WriteFront(c) \/ Leaves(c)
  PROVE  HeldInside'
<1> USE DEF objects, producer, consumer, history
<1> SUFFICES ASSUME NEW k \in Semaphore PROVE Kept(k)'
  BY DEF HeldInside, Kept, Guarded
<1>k. /\ k \in Key /\ Kept(k)
      /\ holder[k] \in Consumer \cup {Producer, Free}
      /\ Free # Producer /\ Producer \notin Consumer /\ Free \notin Consumer
      /\ RearLock \in Semaphore /\ FrontLock(c) \in Semaphore /\ RearLock # FrontLock(c)
  BY KeyFacts, ProcessAssumption DEF HeldInside, Kept, Guarded, TypeOK, Process
\* The others are where they were.
<1>o. ASSUME UNCHANGED <<producer, whole>>, holder'[k] = holder[k], spoilt \subseteq spoilt',
             \A d \in Consumer \ {c} : pc'[d] = pc[d] /\ Live(d, k)' = Live(d, k),
             holder[k] = c => (k \in spoilt' \/ Inside(c, k)')
      PROVE  Kept(k)'
  <2>1. Guarded(k)' = Guarded(k) /\ Inside(Producer, k)' = Inside(Producer, k)
    <3>1. Guarded(k)' = Guarded(k)
      BY <1>o DEF Guarded, Renewed, Done
    <3>2. Inside(Producer, k)' = Inside(Producer, k)
      BY <1>o, ProcessAssumption DEF Inside
    <3> QED
      BY <3>1, <3>2
  <2>2. \A d \in Consumer \ {c} : Inside(d, k)' = Inside(d, k)
    BY <1>o, ConsumerInside
  <2> QED
    BY <1>k, <1>o, <2>1, <2>2 DEF Kept
<1>g. ASSUME NEW next, GoOn(c, next)
      PROVE  /\ UNCHANGED <<producer, whole>> /\ spoilt' = spoilt /\ handle' = handle
             /\ \A d \in Consumer \ {c} : pc'[d] = pc[d]
             /\ pc'[c] = next
             /\ (SameObjects \/ UNCHANGED <<there, words>>) => \A d \in Consumer : Live(d, k)' = Live(d, k)
  BY <1>g, <1>k, LiveStays DEF GoOn, TypeOK
<1>i. /\ Inside(c, k) => Live(c, k)
      /\ Inside(c, k) => \/ k = RearLock /\ pc[c] \in {"pollFront", "polled"}
                         \/ k = FrontLock(c) /\ pc[c] \in {"polled", "write"}
  BY <1>k DEF Inside
<1>1. CASE StartConsumer(c)
  <2>1. /\ UNCHANGED <<producer, whole, there, words, handle, spoilt, holder>> /\ pc[c] = "off"
        /\ \A d \in Consumer \ {c} : pc'[d] = pc[d]
    BY <1>1 DEF StartConsumer
  <2>2. \A d \in Consumer : Live(d, k)' = Live(d, k)
    BY <1>k, <2>1, LiveStays
  <2>3. ~Inside(c, k)
    BY <1>i, <2>1
  <2>4. Guarded(k)' = Guarded(k)
    BY <2>1 DEF Guarded, Renewed, Done
  <2>5. holder[k] = c => k \in spoilt \/ ~Guarded(k)
    BY <1>k, <2>3 DEF Kept
  <2>6. CASE Guarded(k)
    BY <1>o, <2>1, <2>2, <2>5, <2>6
  <2> QED
    BY <2>4, <2>6 DEF Kept
<1>2. CASE Open(c)
  <2>1. DOMAIN pc = Consumer
    BY DEF TypeOK
  <2>2. PICK j \in {Data} \cup Mine(c), next \in {"rear", "rearLock", "front", "frontLock", "poll"} :
           /\ IF j \in there THEN UNCHANGED <<there, words>>
              ELSE j \notin Semaphore /\ Make(j)
           /\ Opened(c, j, next)
           /\ c \in Opening
           /\ pc' = [pc EXCEPT ![c] = next]
           /\ Held(c)' = Held(c) \cup ({j} \ {Data})
    BY <1>2, <2>1, OpenEffect
  <2>3. /\ UNCHANGED <<producer, whole, spoilt, holder>>
        /\ \A d \in Consumer \ {c} : pc'[d] = pc[d] /\ handle'[d] = handle[d]
    BY <2>2 DEF Opened, TypeOK
  <2>4. \A d \in Consumer \ {c} : Live(d, k)' = Live(d, k)
    <3>1. CASE j \in there
      BY <1>k, <2>2, <2>3, <3>1, LiveStays
    <3>2. CASE j \notin there
      <4>1. j \in Key /\ j # k /\ Make(j)
        BY <2>2, <3>2, KeyFacts DEF Mine
      <4> QED
        BY <1>k, <2>3, <3>2, <4>1, LiveNotMade
    <3> QED
      BY <3>1, <3>2
  <2>5. ~Inside(c, k)
    BY <1>i, <2>2 DEF Opening
  <2>6. Guarded(k)' = Guarded(k)
    BY <2>3 DEF Guarded, Renewed, Done
  <2>7. holder[k] = c => k \in spoilt \/ ~Guarded(k)
    BY <1>k, <2>5 DEF Kept
  <2>8. CASE Guarded(k)
    BY <1>o, <2>3, <2>4, <2>7, <2>8
  <2> QED
    BY <2>6, <2>8 DEF Kept
<1>s. ASSUME ~Guarded(k), UNCHANGED <<producer, whole>>
      PROVE  Kept(k)'
  <2>1. Guarded(k)' = Guarded(k)
    BY <1>s DEF Guarded, Renewed, Done
  <2> QED
    BY <1>s, <2>1 DEF Kept
<1>3. CASE Poll(c)
  <2>1. /\ GoOn(c, "pollFront") /\ UNCHANGED <<there, words>> /\ Live(c, RearLock)
        /\ holder' = [holder EXCEPT ![RearLock] = c] /\ pc[c] = "poll"
    BY <1>3 DEF Poll, Take, GoOn
  <2>2. \A d \in Consumer : Live(d, k)' = Live(d, k)
    BY <1>g, <2>1
  <2>3. CASE k = RearLock
    BY <1>g, <2>1, <2>2, <2>3 DEF Kept, Inside, TypeOK
  <2>4. CASE k # RearLock
    <3>1. holder'[k] = holder[k] /\ ~Inside(c, k)
      BY <1>i, <2>1, <2>4 DEF TypeOK
    <3>2. CASE Guarded(k)
      BY <1>g, <1>k, <1>o, <2>1, <2>2, <3>1, <3>2 DEF Kept
    <3> QED
      BY <1>g, <1>s, <2>1, <3>2
  <2> QED
    BY <2>3, <2>4
<1>4. CASE PollFront(c)
  <2>1. /\ GoOn(c, "polled") /\ UNCHANGED <<there, words>> /\ Live(c, FrontLock(c))
        /\ holder' = [holder EXCEPT ![FrontLock(c)] = c] /\ pc[c] = "pollFront"
    BY <1>4 DEF PollFront, Take, GoOn
  <2>2. \A d \in Consumer : Live(d, k)' = Live(d, k)
    BY <1>g, <2>1
  <2>3. CASE k = FrontLock(c)
    BY <1>g, <2>1, <2>2, <2>3 DEF Kept, Inside, TypeOK
  <2>4. CASE k # FrontLock(c)
    <3>1. holder'[k] = holder[k] /\ (Inside(c, k) => Inside(c, k)')
      BY <1>g, <1>i, <1>k, <2>1, <2>2, <2>4 DEF TypeOK, Inside
    <3>2. CASE Guarded(k)
      BY <1>g, <1>k, <1>o, <2>1, <2>2, <3>1, <3>2 DEF Kept
    <3> QED
      BY <1>g, <1>s, <2>1, <3>2
  <2> QED
    BY <2>3, <2>4
<1>5. CASE PollReturn(c)
  <2>0. PICK next : GoOn(c, next) /\ next = IF Empty(c) THEN "poll" ELSE "fetch"
    BY <1>5 DEF PollReturn
  <2>1. /\ UNCHANGED <<there, words>>
        /\ holder' = [j \in Semaphore |-> IF j \in {RearLock, FrontLock(c)} THEN Free ELSE holder[j]]
    BY <1>5, <2>0 DEF PollReturn, GiveBack, Returned, GoOn
  <2>2. \A d \in Consumer : Live(d, k)' = Live(d, k)
    BY <1>g, <2>0, <2>1
  <2>3. CASE k \in {RearLock, FrontLock(c)}
    BY <2>1, <2>3 DEF Kept
  <2>4. CASE k \notin {RearLock, FrontLock(c)}
    <3>1. holder'[k] = holder[k] /\ ~Inside(c, k)
      BY <1>i, <2>1, <2>4
    <3>2. CASE Guarded(k)
      BY <1>g, <1>k, <1>o, <2>0, <2>1, <2>2, <3>1, <3>2 DEF Kept
    <3> QED
      BY <1>g, <1>s, <2>0, <3>2
  <2> QED
    BY <2>3, <2>4
<1>6. CASE Fetch(c)
  <2>1. /\ GoOn(c, "advance") /\ UNCHANGED <<there, words, holder>> /\ pc[c] = "fetch"
    BY <1>6 DEF Fetch, GoOn
  <2>2. (\A d \in Consumer : Live(d, k)' = Live(d, k)) /\ ~Inside(c, k)
    BY <1>g, <1>i, <2>1
  <2>3. CASE Guarded(k)
    BY <1>g, <1>k, <1>o, <2>1, <2>2, <2>3 DEF Kept
  <2> QED
    BY <1>g, <1>s, <2>1, <2>3
<1>7. CASE Advance(c)
  <2>1. /\ GoOn(c, "write") /\ UNCHANGED <<there, words>> /\ Live(c, FrontLock(c))
        /\ holder' = [holder EXCEPT ![FrontLock(c)] = c] /\ pc[c] = "advance"
    BY <1>7 DEF Advance, Take, GoOn
  <2>2. \A d \in Consumer : Live(d, k)' = Live(d, k)
    BY <1>g, <2>1
  <2>3. CASE k = FrontLock(c)
    BY <1>g, <2>1, <2>2, <2>3 DEF Kept, Inside, TypeOK
  <2>4. CASE k # FrontLock(c)
    <3>1. holder'[k] = holder[k] /\ ~Inside(c, k)
      BY <1>i, <2>1, <2>4 DEF TypeOK
    <3>2. CASE Guarded(k)
      BY <1>g, <1>k, <1>o, <2>1, <2>2, <3>1, <3>2 DEF Kept
    <3> QED
      BY <1>g, <1>s, <2>1, <3>2
  <2> QED
    BY <2>3, <2>4
<1>8. CASE WriteFront(c)
  <2>1. /\ GoOn(c, "poll") /\ pc[c] = "write"
        /\ holder' = [j \in Semaphore |-> IF j \in {FrontLock(c)} THEN Free ELSE holder[j]]
    BY <1>8 DEF WriteFront, GiveBack
  <2>2. \A d \in Consumer : Live(d, k)' = Live(d, k)
    <3>1. SameObjects
      BY <1>8, MoveOK DEF WriteFront, GoOn
    <3> QED
      BY <1>g, <2>1, <3>1
  <2>3. CASE k = FrontLock(c)
    BY <2>1, <2>3 DEF Kept
  <2>4. CASE k # FrontLock(c)
    <3>1. holder'[k] = holder[k] /\ ~Inside(c, k)
      BY <1>i, <2>1, <2>4
    <3>2. CASE Guarded(k)
      BY <1>g, <1>k, <1>o, <2>1, <2>2, <3>1, <3>2 DEF Kept
    <3> QED
      BY <1>g, <1>s, <2>1, <3>2
  <2> QED
    BY <2>3, <2>4
<1>9. CASE Leaves(c)
  <2>1. Gone(c) /\ UNCHANGED <<there, producer, whole, met>>
    BY <1>9, LeaveEffect
  <2>2. \A d \in Consumer \ {c} : pc'[d] = pc[d] /\ Live(d, k)' = Live(d, k)
    <3>1. SameObjects \/ UNCHANGED <<there, words>>
      BY <1>9, <2>1, LeaveEffect, MoveOK
    <3>2. \A d \in Consumer \ {c} : pc'[d] = pc[d] /\ handle'[d] = handle[d]
      BY <2>1 DEF Gone, TypeOK
    <3> QED
      BY <1>k, <3>1, <3>2, LiveStays
  <2>3. CASE UNCHANGED holder /\ spoilt' = spoilt \cup {j \in Semaphore : holder[j] = c}
    BY <1>o, <2>1, <2>2, <2>3
  <2>4. ASSUME NEW back, Raises(c), GiveBack(back), Raise(c, back)
        PROVE  Kept(k)'
    <3>1. /\ holder' = [j \in Semaphore |-> IF j \in back THEN Free ELSE holder[j]]
          /\ spoilt' = IF c \in met
                       THEN spoilt \cup {j \in Semaphore : holder[j] = c /\ j \notin back}
                       ELSE spoilt
      BY <2>4 DEF GiveBack, Raise
    <3>2. CASE k \in back
      BY <3>1, <3>2 DEF Kept
    <3>3. CASE k \notin back /\ c \in met
      BY <1>o, <2>1, <2>2, <3>1, <3>3
    <3>4. CASE k \notin back /\ c \notin met
      <4>1. CASE Guarded(k)
        <5>1. ~Inside(c, k)
          BY <1>i, <2>4, <3>4, <4>1, InsideLive, RaisesOnLive DEF Guarded
        <5> QED
          BY <1>k, <1>o, <2>1, <2>2, <3>1, <3>4, <4>1, <5>1 DEF Kept
      <4> QED
        BY <1>s, <2>1, <4>1
    <3> QED
      BY <3>2, <3>3, <3>4
  <2> QED
    BY <1>9, <2>3, <2>4, LeaveEffect
<1> QED
  BY <1>1, <1>2, <1>3, <1>4, <1>5, <1>6, <1>7, <1>8, <1>9

----------------------------------------------------------------------------
(* The frames of a ring.                                                    *)

\* On the first lap the rear is not behind the front; when the producer finds
\* the ring full, or the rear comes round, every slot has a frame.
LEMMA FullIsRound ==
  ASSUME NEW f \in Slot, NEW r \in Slot, filled \in SUBSET Slot, r \in filled,
         f <= r, 0..(r - 1) \subseteq filled
  PROVE  /\ Inc(r) = f => filled = Slot
         /\ filled # Slot => Inc(r) = r + 1 /\ 0..r \subseteq filled
<1>1. r \in Nat /\ f \in Nat /\ Length \in Nat /\ r < Length /\ f < Length /\ Length >= 2
  BY SlotFacts
<1>2. 0..r \subseteq filled
  <2>1. \A i \in 0..r : i = r \/ i \in 0..(r - 1)
    BY <1>1
  <2> QED
    BY <2>1
<1>3. CASE r = Length - 1
  <2>1. Slot = 0..r
    BY <1>3 DEF Slot
  <2> QED
    BY <1>2, <2>1
<1>4. CASE r # Length - 1
  <2>1. Inc(r) = r + 1
    BY <1>4, SlotFacts
  <2> QED
    BY <1>1, <1>2, <2>1
<1> QED
  BY <1>3, <1>4

\* The words of a whole ring.
LEMMA WholeWords ==
  ASSUME TypeOK, MakeShape, whole
  PROVE  /\ Rear \in there /\ Word(Rear) \in Slot
         /\ \A c \in Consumer : Front(c) \in there /\ Word(Front(c)) \in Slot
BY WordOK, KeyFacts DEF MakeShape

\* A consumer moves the front of a ring that is being made only if it has met
\* the creation, and else that of a whole ring.
LEMMA MoverHasRing ==
  ASSUME TypeOK, MakeShape, OneRing, NEW c \in Consumer, pc[c] = "write",
         Live(c, Front(c)), c \notin met
  PROVE  /\ ppc = "make" /\ ~whole => Front(c) \notin Done
         /\ whole => AllLive(c)
<1>1. c \in Getting \ met /\ Held(c) = Mine(c) /\ Front(c) \in Mine(c)
  BY DEF Getting, Held, Mine
<1>2. ppc = "make" /\ ~whole => Front(c) \notin Done
  BY <1>1 DEF OneRing, Renewed
<1>3. whole => AllLive(c)
  BY <1>1 DEF OneRing, AllLive, Mine
<1> QED
  BY <1>2, <1>3

\* A step that leaves the words, the slots and the creation.
LEMMA FilledQuiet ==
  ASSUME TypeOK, FilledToRear, UNCHANGED <<words, filled, whole>>, moved \subseteq moved',
         UNCHANGED <<ppc, making, todo>> \/ ppc' = "off" \/ whole,
         ppc' \in {"fill", "visit", "leave"} => ppc \in {"fill", "visit", "leave"}
  PROVE  FilledToRear'
<1>1. ppc' = "make" /\ ~whole => Done' = Done /\ ppc = "make"
  BY DEF Done
<1>2. \A k \in Key : Word(k)' = Word(k)
  BY DEF Word, Newest
<1>3. \A c \in Consumer : Laps(c)' = Laps(c)
  BY <1>2, KeyFacts DEF Laps
<1> QED
  BY <1>1, <1>2, <1>3, KeyFacts DEF FilledToRear

LEMMA FilledByProducer ==
  ASSUME TypeOK, MakeShape, FilledToRear,
         \/ StartProducer \/ Remove \/ MakeNew \/ MakeRaises \/ PutBegin \/ PutWrite
         \/ PutRaises \/ PutEnd \/ KillProducer \/ \E c \in Consumer : PutVisit(c) \/ PutLeave(c)
  PROVE  FilledToRear'
<1> USE DEF objects, producer, consumer, history
<1>1. CASE StartProducer
  <2>1. Done' = {}
    <3>1. making' = Data /\ todo' = Consumer
      BY <1>1 DEF StartProducer
    <3> QED
      BY <3>1, KeyFacts DEF Done
  <2>2. CASE whole
    BY <1>1, <2>2, FilledQuiet DEF StartProducer
  <2>3. CASE ~whole
    BY <1>1, <2>1, <2>3 DEF StartProducer, FilledToRear
  <2> QED
    BY <2>2, <2>3
<1>2. CASE Remove
  <2>1. /\ Done' = Done /\ making \notin Done /\ ~whole' /\ ppc = "make"
        /\ \A k \in Key : Word(k)' = Word(k)
        /\ \A c \in moved \ moved' : Front(c) = making
    BY <1>2, MakingNotDone DEF Remove, Done, Word, Newest
  <2>2. whole => Done = {}
    BY <2>1, KeyFacts DEF MakeShape, Done
  <2>3. CASE whole
    BY <2>1, <2>2, <2>3 DEF FilledToRear
  <2>4. CASE ~whole
    BY <2>1, <2>4, KeyFacts DEF FilledToRear
  <2> QED
    BY <2>3, <2>4
<1>3. CASE MakeNew
  <2>0. PICK m \in Key : m = making
    BY DEF TypeOK
  <2>1. /\ Make(m) /\ ppc = "make" /\ UNCHANGED <<moved, filled>>
    BY <1>3, <2>0 DEF MakeNew
  <2>2. /\ \/ ppc' = "make" /\ Done' = Done \cup {m} /\ whole' = whole
           \/ ppc' = "ready" /\ Key \subseteq Done \cup {m} /\ whole'
        /\ ~whole
    BY <1>3, <2>0, DoneGrows
  <2>3. Word(m)' = 0 /\ \A k \in Key \ {m} : Word(k)' = Word(k)
    BY <2>1, Makes DEF Word, Newest
  <2>4. /\ Rear \in Done \cup {m} => Word(Rear)' = 0
        /\ \A c \in Consumer \ moved : Front(c) \in Done \cup {m} => Word(Front(c))' = 0
    BY <2>1, <2>2, <2>3, KeyFacts DEF FilledToRear
  <2>5. CASE ppc' = "make" /\ Done' = Done \cup {m} /\ whole' = whole
    BY <2>1, <2>2, <2>4, <2>5 DEF FilledToRear
  <2>6. CASE ppc' = "ready" /\ Key \subseteq Done \cup {m} /\ whole'
    <3>1. \A c \in Consumer \ moved : Laps(c)'
      <4> SUFFICES ASSUME NEW c \in Consumer \ moved PROVE Laps(c)'
        OBVIOUS
      <4>1. Word(Rear)' = 0 /\ Word(Front(c))' = 0
        BY <2>4, <2>6, KeyFacts
      <4>2. 0..(0 - 1) = {}
        OBVIOUS
      <4> QED
        BY <4>1, <4>2 DEF Laps
    <3> QED
      BY <2>1, <2>6, <3>1 DEF FilledToRear
  <2> QED
    BY <2>2, <2>5, <2>6
<1>4. CASE MakeRaises
  <2>1. ~whole' /\ ppc' = "off"
    BY <1>4 DEF MakeRaises, MakeShape
  <2> QED
    BY <2>1 DEF FilledToRear
<1>5. CASE PutBegin
  <2>1. /\ whole /\ whole' = whole /\ filled' = filled \cup {Word(Rear)} /\ words' = words
        /\ Word(Rear) \in Slot /\ moved' = moved
    BY <1>5, WholeWords DEF PutBegin, MakeShape, SlotToFill
  <2>2. \A k : Word(k)' = Word(k)
    BY <2>1 DEF Word, Newest
  <2>3. \A c \in Consumer \ moved : Laps(c)'
    BY <2>1, <2>2 DEF FilledToRear, Laps
  <2> QED
    BY <2>1, <2>2, <2>3 DEF FilledToRear
<1>6. CASE PutEnd
  <2>1. /\ whole /\ whole' = whole /\ filled' = filled /\ moved' = moved /\ ppc' = "ready"
        /\ Rear \in there /\ Word(Rear) \in Slot /\ Word(Rear) \in filled
        /\ words' = Written(Rear, Inc(Word(Rear))) /\ there' = there
    BY <1>6, WholeWords DEF PutEnd, MakeShape, FilledToRear
  <2>2. /\ Word(Rear)' = Inc(Word(Rear)) /\ Inc(Word(Rear)) \in Slot
        /\ \A c \in Consumer : Word(Front(c))' = Word(Front(c))
    BY <2>1, Writes, SlotFacts, KeyFacts DEF Word, Newest
  <2>3. ASSUME NEW c \in Consumer \ moved PROVE Laps(c)'
    <3>1. Laps(c) /\ Word(Front(c)) \in Slot
      BY <2>1, WholeWords DEF FilledToRear
    <3>2. CASE filled = Slot
      BY <2>1, <3>2 DEF Laps
    <3>3. CASE filled # Slot
      <4>1. /\ Word(Front(c)) <= Word(Rear) /\ 0..(Word(Rear) - 1) \subseteq filled
            /\ filled \in SUBSET Slot
        BY <3>1, <3>3 DEF Laps, TypeOK
      <4>2. Inc(Word(Rear)) = Word(Rear) + 1 /\ 0..Word(Rear) \subseteq filled
        BY <2>1, <3>1, <3>3, <4>1, FullIsRound
      <4>3. Word(Rear) \in Nat /\ Word(Front(c)) \in Nat
        BY <2>1, <3>1, SlotFacts
      <4>4. Word(Rear)' - 1 = Word(Rear) /\ Word(Front(c))' <= Word(Rear)'
        BY <2>2, <4>1, <4>2, <4>3
      <4> QED
        BY <2>1, <4>2, <4>4 DEF Laps
    <3> QED
      BY <3>2, <3>3
  <2> QED
    BY <2>1, <2>3 DEF FilledToRear
<1>7. CASE KillProducer \/ PutRaises
  BY <1>7, FilledQuiet DEF KillProducer, PutRaises
<1>10. CASE PutWrite
  <2>1. whole
    BY <1>10 DEF PutWrite, MakeShape
  <2> QED
    BY <1>10, <2>1, FilledQuiet DEF PutWrite
<1>8. ASSUME NEW c \in Consumer, PutVisit(c) PROVE FilledToRear'
  <2>1. whole
    BY <1>8 DEF PutVisit, MakeShape
  <2> QED
    BY <1>8, <2>1, FilledQuiet DEF PutVisit
<1>9. ASSUME NEW c \in Consumer, PutLeave(c) PROVE FilledToRear'
  <2>1. /\ whole /\ whole' = whole /\ filled' = filled /\ moved' = moved /\ ppc = "leave"
        /\ Rear \in there /\ Word(Rear) \in Slot /\ Word(Rear) \in filled
        /\ Front(c) \in there /\ Word(Front(c)) \in Slot /\ there' = there
    BY <1>9, WholeWords DEF PutLeave, MakeShape, FilledToRear
  <2>2. CASE words' = words
    BY <1>9, <2>1, <2>2, FilledQuiet DEF PutLeave
  <2>3. CASE words' # words
    <3>1. words' = Written(Front(c), Inc(Word(Front(c)))) /\ Inc(Word(Rear)) = Word(Front(c))
      BY <1>9, <2>3 DEF PutLeave
    <3>2. /\ Word(Rear)' = Word(Rear)
          /\ \A d \in Consumer \ {c} : Word(Front(d))' = Word(Front(d))
      BY <2>1, <3>1, Writes, SlotFacts, KeyFacts DEF Word, Newest
    <3>3. c \notin moved => filled = Slot
      <4> SUFFICES ASSUME c \notin moved, filled # Slot PROVE FALSE
        OBVIOUS
      <4>1. /\ Word(Front(c)) <= Word(Rear) /\ 0..(Word(Rear) - 1) \subseteq filled
            /\ filled \in SUBSET Slot
        BY <2>1 DEF Laps, TypeOK, FilledToRear
      <4> QED
        BY <2>1, <3>1, <4>1, FullIsRound
    <3>4. \A d \in Consumer \ moved : Laps(d)'
      BY <2>1, <3>2, <3>3 DEF FilledToRear, Laps
    <3> QED
      BY <2>1, <3>2, <3>4 DEF FilledToRear
  <2> QED
    BY <2>2, <2>3
<1> QED
  BY <1>1, <1>2, <1>3, <1>4, <1>5, <1>6, <1>7, <1>8, <1>9, <1>10

LEMMA FilledByConsumer ==
  ASSUME TypeOK, MakeShape, OneRing, FilledToRear, Registers, NEW c \in Consumer,
         \/ StartConsumer(c) \/ Open(c) \/ Poll(c) \/ PollFront(c) \/ PollReturn(c)
         \/ Fetch(c) \/ Advance(c) \/ WriteFront(c) \/ Leaves(c)
  PROVE  FilledToRear'
<1> USE DEF objects, producer, consumer, history
<1>1. CASE StartConsumer(c)
  BY <1>1, FilledQuiet DEF StartConsumer
<1>2. CASE Open(c)
  <2>1. DOMAIN pc = Consumer
    BY DEF TypeOK
  <2>2. PICK k \in {Data} \cup Mine(c), next \in {"rear", "rearLock", "front", "frontLock", "poll"} :
           /\ IF k \in there THEN UNCHANGED <<there, words>>
              ELSE k \notin Semaphore /\ Make(k)
           /\ Opened(c, k, next)
    BY <1>2, <2>1, OpenEffect
  <2>3. UNCHANGED <<producer, whole, filled, moved>> /\ k \in Key
    BY <2>2, KeyFacts DEF Opened, Mine
  <2>4. CASE k \in there
    BY <2>2, <2>3, <2>4, FilledQuiet
  <2>5. CASE k \notin there
    <3>1. ~whole /\ Make(k) /\ Done' = Done
      BY <2>2, <2>3, <2>5 DEF MakeShape, Done
    <3>2. \A j \in Key \ {k} : Word(j)' = Word(j)
      BY <2>3, <3>1, Makes DEF Word, Newest
    <3>3. ppc = "make" => k \notin Done
      BY <2>5 DEF MakeShape
    <3> QED
      BY <2>3, <3>1, <3>2, <3>3, KeyFacts DEF FilledToRear
  <2> QED
    BY <2>4, <2>5
<1>3. CASE Poll(c) \/ PollFront(c) \/ PollReturn(c) \/ Fetch(c) \/ Advance(c)
  BY <1>3, FilledQuiet DEF Poll, PollFront, PollReturn, Fetch, Advance, GoOn
<1>m. ASSUME pc[c] = "write", MoveFront(c), UNCHANGED <<producer, there, filled, whole>>
      PROVE  FilledToRear'
  <2>1. /\ \A j \in Key \ {Front(c)} : words'[j] = words[j]
        /\ moved \subseteq moved'
        /\ Live(c, Front(c)) => Word(Front(c))' = front[c]
        /\ ~Live(c, Front(c)) => words' = words
        /\ Live(c, Front(c)) /\ c \in met => c \in moved'
    BY <1>m, MoveOK
  <2>2. CASE ~Live(c, Front(c))
    BY <1>m, <2>1, <2>2, FilledQuiet
  <2>3. CASE Live(c, Front(c))
    <3>1. /\ Word(Rear)' = Word(Rear) /\ Done' = Done
          /\ \A d \in Consumer \ {c} : Word(Front(d))' = Word(Front(d))
      BY <1>m, <2>1, KeyFacts DEF Word, Newest, Done
    <3>2. ASSUME c \notin moved', ppc = "make", ~whole PROVE Front(c) \notin Done
      BY <1>m, <2>1, <2>3, <3>2, MoverHasRing
    <3>3. ASSUME c \notin moved', whole PROVE Laps(c)'
      <4>1. c \notin met \cup moved /\ AllLive(c)
        BY <1>m, <2>1, <2>3, <3>3, MoverHasRing
      <4>2. filled = Slot \/ front[c] <= Word(Rear)
        BY <1>m, <3>3, <4>1 DEF Registers, ReadHolds
      <4>3. Laps(c)
        BY <3>3, <4>1 DEF FilledToRear
      <4> QED
        BY <1>m, <2>1, <2>3, <3>1, <4>2, <4>3 DEF Laps
    <3>4. \A d \in Consumer \ {c} : Laps(d) => Laps(d)'
      BY <1>m, <3>1 DEF Laps
    <3> QED
      BY <1>m, <2>1, <3>1, <3>2, <3>3, <3>4 DEF FilledToRear
  <2> QED
    BY <2>2, <2>3
<1>4. CASE WriteFront(c)
  BY <1>4, <1>m DEF WriteFront, GoOn
<1>5. CASE Leaves(c)
  <2>1. UNCHANGED <<there, filled, producer, whole>>
    BY <1>5, LeaveEffect
  <2>2. CASE UNCHANGED <<words, moved>>
    BY <2>1, <2>2, FilledQuiet
  <2>3. CASE pc[c] = "write" /\ MoveFront(c)
    BY <1>m, <2>1, <2>3
  <2> QED
    BY <1>5, <2>2, <2>3, LeaveEffect
<1> QED
  BY <1>1, <1>2, <1>3, <1>4, <1>5

----------------------------------------------------------------------------
(* What consumers have read.                                                *)

\* A consumer that stays where it is, in a step that moves the rear of a ring
\* at most on, and its front only when every slot has a frame.
LEMMA ReadStays ==
  ASSUME TypeOK, NEW c \in Consumer,
         pc'[c] = pc[c], front'[c] = front[c], rear'[c] = rear[c], handle'[c] = handle[c],
         SameObjects \/ UNCHANGED <<there, words>>,
         AllLive(c) => ReadHolds(c),
         filled = Slot => filled' = Slot,
         filled' # Slot => Word(Front(c))' = Word(Front(c))
                           /\ (Word(Rear)' = Word(Rear) \/ Word(Rear)' = Word(Rear) + 1),
         Word(Rear) \in Slot
  PROVE  AllLive(c)' => ReadHolds(c)'
<1>1. AllLive(c)' = AllLive(c)
  <2>1. \A k \in Key : Live(c, k)' = Live(c, k)
    BY LiveStays
  <2> QED
    BY <2>1, KeyFacts DEF AllLive
<1>2. front[c] \in Nat /\ rear[c] \in Nat /\ Word(Rear) \in Nat
  BY SlotFacts DEF TypeOK
<1> QED
  BY <1>1, <1>2 DEF ReadHolds

LEMMA RegistersNext ==
  ASSUME TypeOK, HandleOK, MakeShape, OneRing, FilledToRear, Registers, Next
  PROVE  Registers'
<1> USE DEF objects, producer, consumer, history
<1>o. ASSUME pc' = pc \/ \E b \in Consumer : \E next : pc' = [pc EXCEPT ![b] = next],
             NEW c \in Consumer, pc'[c] \notin {"polled", "fetch", "advance", "write"}
      PROVE  ReadHolds(c)'
  BY <1>o DEF ReadHolds
<1>1. CASE StartProducer \/ MakeRaises \/ KillProducer \/ PutWrite \/ PutRaises
  <2>1. UNCHANGED <<there, words, filled, consumer, whole, met, moved>>
    BY <1>1 DEF StartProducer, MakeRaises, KillProducer, PutWrite, PutRaises
  <2>2. ASSUME whole, NEW c \in Consumer \ (met \cup moved) PROVE AllLive(c)' => ReadHolds(c)'
    BY <2>1, <2>2, ReadStays, WholeWords DEF Registers, Word, Newest
  <2> QED
    BY <2>1, <2>2 DEF Registers
<1>2. CASE Remove
  BY <1>2 DEF Remove, Registers
<1>3. CASE MakeNew
  <2>0. PICK m \in Key : m = making
    BY DEF TypeOK
  <2>1. /\ Make(m) /\ ppc = "make" /\ gap /\ m \notin there /\ UNCHANGED <<consumer, met, moved>>
    BY <1>3, <2>0 DEF MakeNew
  <2>2. /\ ~whole
        /\ whole' => Key \subseteq Done \cup {m}
    BY <1>3, <2>0, DoneGrows
  <2>3. ASSUME whole', NEW c \in Consumer \ (met \cup moved) PROVE AllLive(c)' => ReadHolds(c)'
    <3>1. CASE c \in Getting
      <4>1. Rear \in Renewed
        BY <2>0, <2>1, <2>2, <2>3, KeyFacts DEF Renewed
      <4>2. ~Live(c, Rear)
        BY <2>1, <2>2, <2>3, <3>1, <4>1 DEF OneRing
      <4>3. ~Live(c, Rear)'
        BY <2>1, <4>2, LiveNotMade, KeyFacts
      <4> QED
        BY <4>3 DEF AllLive
    <3>2. CASE c \notin Getting
      BY <2>1, <3>2 DEF ReadHolds, Getting
    <3> QED
      BY <3>1, <3>2
  <2> QED
    BY <2>1, <2>3 DEF Registers
<1>4. CASE PutBegin
  <2>1. /\ UNCHANGED <<there, words, consumer, whole, met, moved>>
        /\ filled' = filled \cup {Word(Rear)} /\ whole
    BY <1>4 DEF PutBegin, SlotToFill, MakeShape
  <2>2. Word(Rear) \in Slot
    BY <2>1, WholeWords
  <2>3. ASSUME NEW c \in Consumer \ (met \cup moved) PROVE AllLive(c)' => ReadHolds(c)'
    <3>1. filled = Slot => filled' = Slot
      BY <2>1, <2>2
    <3> QED
      BY <2>1, <2>2, <2>3, <3>1, ReadStays DEF Registers, Word, Newest
  <2> QED
    BY <2>1, <2>3 DEF Registers
<1>5. CASE PutEnd
  <2>1. /\ whole /\ whole' = whole /\ filled' = filled /\ UNCHANGED <<consumer, met, moved>>
        /\ Rear \in there /\ Word(Rear) \in Slot /\ Word(Rear) \in filled
        /\ words' = Written(Rear, Inc(Word(Rear))) /\ there' = there
    BY <1>5, WholeWords DEF PutEnd, MakeShape, FilledToRear
  <2>2. /\ Word(Rear)' = Inc(Word(Rear)) /\ SameObjects
        /\ \A c \in Consumer : Word(Front(c))' = Word(Front(c))
    BY <2>1, Writes, SlotFacts, KeyFacts DEF Word, Newest
  <2>3. ASSUME NEW c \in Consumer \ (met \cup moved) PROVE AllLive(c)' => ReadHolds(c)'
    <3>1. Laps(c) /\ Word(Front(c)) \in Slot /\ filled \in SUBSET Slot
      BY <2>1, WholeWords DEF FilledToRear, TypeOK
    <3>2. filled # Slot => Inc(Word(Rear)) = Word(Rear) + 1
      BY <2>1, <3>1, FullIsRound DEF Laps
    <3> QED
      BY <2>1, <2>2, <3>2, ReadStays DEF Registers
  <2> QED
    BY <2>1, <2>3 DEF Registers
<1>6. ASSUME NEW b \in Consumer, PutVisit(b) PROVE Registers'
  <2>1. UNCHANGED <<there, words, filled, consumer, whole, met, moved>>
    BY <1>6 DEF PutVisit
  <2>2. ASSUME whole, NEW c \in Consumer \ (met \cup moved) PROVE AllLive(c)' => ReadHolds(c)'
    BY <2>1, <2>2, ReadStays, WholeWords DEF Registers, Word, Newest
  <2> QED
    BY <2>1, <2>2 DEF Registers
<1>7. ASSUME NEW b \in Consumer, PutLeave(b) PROVE Registers'
  <2>1. /\ whole /\ whole' = whole /\ filled' = filled /\ UNCHANGED <<consumer, met, moved>>
        /\ Rear \in there /\ Word(Rear) \in Slot /\ Word(Rear) \in filled
        /\ Front(b) \in there /\ Word(Front(b)) \in Slot /\ there' = there /\ filled \in SUBSET Slot
    BY <1>7, WholeWords DEF PutLeave, MakeShape, FilledToRear, TypeOK
  <2>2. \/ words' = words
        \/ words' = Written(Front(b), Inc(Word(Front(b)))) /\ Inc(Word(Rear)) = Word(Front(b))
    BY <1>7 DEF PutLeave
  <2>3. /\ SameObjects \/ UNCHANGED <<there, words>>
        /\ Word(Rear)' = Word(Rear)
        /\ \A c \in Consumer \ {b} : Word(Front(c))' = Word(Front(c))
        /\ words' = words => Word(Front(b))' = Word(Front(b))
    <3>1. CASE words' = words
      BY <2>1, <3>1 DEF Word, Newest
    <3>2. CASE words' # words
      BY <2>1, <2>2, <3>2, Writes, SlotFacts, KeyFacts DEF Word, Newest
    <3> QED
      BY <3>1, <3>2
  <2>4. ASSUME NEW c \in Consumer \ (met \cup moved) PROVE AllLive(c)' => ReadHolds(c)'
    <3>1. filled # Slot => Word(Front(c))' = Word(Front(c))
      <4>1. CASE c # b \/ words' = words
        BY <2>3, <4>1
      <4>2. CASE c = b /\ words' # words
        <5>1. Laps(c) /\ Inc(Word(Rear)) = Word(Front(c))
          BY <2>1, <2>2, <4>2 DEF FilledToRear
        <5> QED
          BY <2>1, <4>2, <5>1, FullIsRound DEF Laps
      <4> QED
        BY <4>1, <4>2
    <3> QED
      BY <2>1, <2>3, <3>1, ReadStays DEF Registers
  <2> QED
    BY <2>1, <2>4 DEF Registers
\* A step of one consumer: the others, and its own words, are as they were.
<1>c. ASSUME NEW b \in Consumer, UNCHANGED <<whole, filled>>, met \subseteq met' \cup {b}, moved \subseteq moved',
             SameObjects \/ UNCHANGED <<there, words>>,
             \A c \in Consumer \ {b} :
               pc'[c] = pc[c] /\ front'[c] = front[c] /\ rear'[c] = rear[c] /\ handle'[c] = handle[c],
             \A k \in Key \ {Front(b)} : words'[k] = words[k],
             whole /\ b \notin met' \cup moved' /\ AllLive(b)' => ReadHolds(b)'
      PROVE  Registers'
  <2>1. ASSUME whole, NEW c \in Consumer \ (met' \cup moved'), c # b PROVE AllLive(c)' => ReadHolds(c)'
    <3>1. Word(Front(c))' = Word(Front(c)) /\ Word(Rear)' = Word(Rear)
      BY <1>c, <2>1, KeyFacts DEF Word, Newest
    <3>2. AllLive(c) => ReadHolds(c)
      BY <1>c, <2>1 DEF Registers
    <3>3. Word(Rear) \in Slot
      BY <2>1, WholeWords
    <3> QED
      BY <1>c, <2>1, <3>1, <3>2, <3>3, ReadStays
  <2> QED
    BY <1>c, <2>1 DEF Registers
<1>8. ASSUME NEW b \in Consumer, StartConsumer(b) PROVE Registers'
  <2>1. /\ UNCHANGED <<there, words, filled, whole, moved, handle, front, rear>>
        /\ pc' = [pc EXCEPT ![b] = "data"] /\ met \subseteq met' \cup {b}
    BY <1>8 DEF StartConsumer
  <2>2. pc'[b] = "data" /\ \A c \in Consumer \ {b} : pc'[c] = pc[c]
    BY <2>1 DEF TypeOK
  <2>3. ReadHolds(b)'
    BY <2>2 DEF ReadHolds
  <2> QED
    BY <1>c, <2>1, <2>2, <2>3
<1>9. ASSUME NEW b \in Consumer, Open(b) PROVE Registers'
  <2>1. DOMAIN pc = Consumer
    BY DEF TypeOK
  <2>2. PICK k \in {Data} \cup Mine(b), next \in {"rear", "rearLock", "front", "frontLock", "poll"} :
           /\ IF k \in there THEN UNCHANGED <<there, words>>
              ELSE k \notin Semaphore /\ Make(k)
           /\ Opened(b, k, next)
           /\ pc' = [pc EXCEPT ![b] = next]
    BY <1>9, <2>1, OpenEffect
  <2>3. /\ UNCHANGED <<filled, whole, met, moved, front, rear>> /\ k \in Key
        /\ \A c \in Consumer \ {b} : pc'[c] = pc[c] /\ handle'[c] = handle[c]
        /\ pc'[b] = next
    BY <2>2, KeyFacts DEF Opened, Mine, TypeOK
  <2>4. ReadHolds(b)'
    BY <2>2, <2>3 DEF ReadHolds
  <2>5. CASE ~whole
    BY <2>3, <2>5 DEF Registers
  <2>6. CASE whole
    <3>1. UNCHANGED <<there, words>>
      BY <2>2, <2>3, <2>6 DEF MakeShape
    <3> QED
      BY <1>c, <2>3, <2>4, <3>1
  <2> QED
    BY <2>5, <2>6
\* A step of a consumer's loop that writes no word.
<1>g. ASSUME NEW b \in Consumer, NEW next, GoOn(b, next), UNCHANGED <<words, moved>>,
             \A c \in Consumer \ {b} : front'[c] = front[c] /\ rear'[c] = rear[c],
             whole /\ b \notin met \cup moved /\ AllLive(b) => ReadHolds(b)'
      PROVE  Registers'
  <2>1. /\ UNCHANGED <<there, filled, whole, met, handle>>
        /\ \A c \in Consumer \ {b} : pc'[c] = pc[c]
    BY <1>g DEF GoOn, TypeOK
  <2>2. AllLive(b)' = AllLive(b)
    BY <1>g, <2>1 DEF AllLive, Live, Present, Newest
  <2> QED
    BY <1>c, <1>g, <2>1, <2>2
<1>r. ASSUME NEW b \in Consumer, whole, b \notin met \cup moved, AllLive(b), pc[b] # "off"
      PROVE  /\ ReadHolds(b) /\ Laps(b)
             /\ Word(Front(b)) \in Slot /\ Word(Rear) \in Slot /\ front[b] \in Slot /\ rear[b] \in Slot
             /\ Live(b, Front(b)) /\ Live(b, Rear)
  BY <1>r, WholeWords DEF Registers, FilledToRear, TypeOK, AllLive
<1>10. ASSUME NEW b \in Consumer, Poll(b) PROVE Registers'
  <2>1. GoOn(b, "pollFront") /\ UNCHANGED <<words, moved, front, rear>>
    BY <1>10 DEF Poll
  <2>2. ReadHolds(b)'
    BY <2>1 DEF GoOn, ReadHolds, TypeOK
  <2> QED
    BY <1>g, <2>1, <2>2
<1>11. ASSUME NEW b \in Consumer, PollFront(b) PROVE Registers'
  <2>1. /\ GoOn(b, "polled") /\ UNCHANGED <<words, moved>> /\ pc[b] = "pollFront"
    BY <1>11 DEF PollFront
  <2>2. PICK f \in Reads(b, Front(b), front[b]), r \in Reads(b, Rear, rear[b]) :
          front' = [front EXCEPT ![b] = f] /\ rear' = [rear EXCEPT ![b] = r]
    BY <1>11 DEF PollFront
  <2>3. front'[b] = f /\ rear'[b] = r /\ \A c \in Consumer \ {b} : front'[c] = front[c] /\ rear'[c] = rear[c]
    BY <2>2 DEF TypeOK
  <2>4. ASSUME whole, b \notin met \cup moved, AllLive(b) PROVE ReadHolds(b)'
    <3>1. /\ Laps(b) /\ Word(Front(b)) \in Nat /\ Word(Rear) \in Nat
          /\ Live(b, Front(b)) /\ Live(b, Rear)
      BY <1>r, <2>1, <2>4, SlotFacts
    <3>2. front'[b] = Word(Front(b)) /\ rear'[b] = Word(Rear)
      BY <2>2, <2>3, <3>1 DEF Reads
    <3>3. /\ Word(Front(b))' = Word(Front(b)) /\ Word(Rear)' = Word(Rear) /\ filled' = filled
          /\ pc'[b] = "polled"
      BY <2>1 DEF Word, Newest, GoOn, TypeOK
    <3> QED
      BY <3>1, <3>2, <3>3 DEF ReadHolds, Laps
  <2> QED
    BY <1>g, <2>1, <2>3, <2>4
<1>12. ASSUME NEW b \in Consumer, PollReturn(b) PROVE Registers'
  <2>1. PICK next : GoOn(b, next) /\ next = IF Empty(b) THEN "poll" ELSE "fetch"
    BY <1>12 DEF PollReturn
  <2>2. UNCHANGED <<words, moved, front, rear>> /\ pc[b] = "polled"
    BY <1>12 DEF PollReturn
  <2>3. ASSUME whole, b \notin met \cup moved, AllLive(b) PROVE ReadHolds(b)'
    <3>1. /\ ReadHolds(b) /\ Word(Front(b)) \in Nat /\ Word(Rear) \in Nat
          /\ front[b] \in Nat /\ rear[b] \in Nat
      BY <1>r, <2>2, <2>3, SlotFacts
    <3>2. /\ Word(Front(b))' = Word(Front(b)) /\ Word(Rear)' = Word(Rear) /\ filled' = filled
          /\ pc'[b] = next
      BY <2>1, <2>2 DEF Word, Newest, GoOn, TypeOK
    <3>3. next = "poll" \/ (next = "fetch" /\ front[b] # rear[b])
      BY <2>1 DEF Empty
    <3> QED
      BY <2>2, <3>1, <3>2, <3>3 DEF ReadHolds
  <2> QED
    BY <1>g, <2>1, <2>2, <2>3
<1>13. ASSUME NEW b \in Consumer, Fetch(b) PROVE Registers'
  <2>1. GoOn(b, "advance") /\ UNCHANGED <<words, moved, front, rear>> /\ pc[b] = "fetch"
    BY <1>13 DEF Fetch
  <2>2. ASSUME whole, b \notin met \cup moved, AllLive(b) PROVE ReadHolds(b)'
    <3>1. ReadHolds(b)
      BY <1>r, <2>1, <2>2
    <3>2. /\ Word(Front(b))' = Word(Front(b)) /\ Word(Rear)' = Word(Rear) /\ filled' = filled
          /\ pc'[b] = "advance"
      BY <2>1 DEF Word, Newest, GoOn, TypeOK
    <3> QED
      BY <2>1, <3>1, <3>2 DEF ReadHolds
  <2> QED
    BY <1>g, <2>1, <2>2
<1>14. ASSUME NEW b \in Consumer, Advance(b) PROVE Registers'
  <2>1. GoOn(b, "write") /\ UNCHANGED <<words, moved, rear>> /\ pc[b] = "advance"
    BY <1>14 DEF Advance
  <2>2. PICK f \in Reads(b, Front(b), front[b]) : front' = [front EXCEPT ![b] = Inc(f)]
    BY <1>14 DEF Advance
  <2>3. front'[b] = Inc(f) /\ \A c \in Consumer \ {b} : front'[c] = front[c]
    BY <2>2 DEF TypeOK
  <2>4. ASSUME whole, b \notin met \cup moved, AllLive(b) PROVE ReadHolds(b)'
    <3>1. /\ ReadHolds(b) /\ Word(Front(b)) \in Slot /\ Word(Rear) \in Slot /\ Live(b, Front(b))
      BY <1>r, <2>1, <2>4
    <3>2. f = Word(Front(b))
      BY <2>2, <3>1 DEF Reads
    <3>3. /\ Word(Front(b))' = Word(Front(b)) /\ Word(Rear)' = Word(Rear) /\ filled' = filled
          /\ pc'[b] = "write"
      BY <2>1 DEF Word, Newest, GoOn, TypeOK
    <3>4. filled = Slot \/ Word(Front(b)) < Word(Rear)
      BY <2>1, <3>1 DEF ReadHolds
    <3>5. Word(Front(b)) < Word(Rear) => Inc(f) <= Word(Rear)
      BY <3>1, <3>2, SlotFacts
    <3> QED
      BY <2>3, <3>3, <3>4, <3>5 DEF ReadHolds
  <2> QED
    BY <1>g, <2>1, <2>3, <2>4
<1>15. ASSUME NEW b \in Consumer, WriteFront(b) PROVE Registers'
  <2>1. GoOn(b, "poll") /\ MoveFront(b) /\ UNCHANGED <<front, rear>>
    BY <1>15 DEF WriteFront
  <2>2. /\ UNCHANGED <<there, filled, whole, met, handle>> /\ pc'[b] = "poll"
        /\ \A c \in Consumer \ {b} : pc'[c] = pc[c]
    BY <2>1 DEF GoOn, TypeOK
  <2>3. SameObjects /\ moved \subseteq moved' /\ \A j \in Key \ {Front(b)} : words'[j] = words[j]
    BY <2>1, <2>2, MoveOK
  <2>4. ReadHolds(b)'
    BY <2>2 DEF ReadHolds
  <2> QED
    BY <1>c, <2>1, <2>2, <2>3, <2>4
<1>16. ASSUME NEW b \in Consumer, Leaves(b) PROVE Registers'
  <2>1. Gone(b) /\ UNCHANGED <<there, filled, whole, met>>
    BY <1>16, LeaveEffect
  <2>2. /\ pc'[b] = "off"
        /\ \A c \in Consumer \ {b} :
             pc'[c] = pc[c] /\ front'[c] = front[c] /\ rear'[c] = rear[c] /\ handle'[c] = handle[c]
    BY <2>1 DEF Gone, TypeOK
  <2>3. /\ SameObjects \/ UNCHANGED <<there, words>>
        /\ moved \subseteq moved' /\ \A j \in Key \ {Front(b)} : words'[j] = words[j]
    BY <1>16, <2>1, LeaveEffect, MoveOK
  <2>4. ReadHolds(b)'
    BY <2>2 DEF ReadHolds
  <2> QED
    BY <1>c, <2>1, <2>2, <2>3, <2>4
<1> QED
  BY <1>1, <1>2, <1>3, <1>4, <1>5, <1>6, <1>7, <1>8, <1>9, <1>10, <1>11, <1>12, <1>13, <1>14,
     <1>15, <1>16, StepCases

----------------------------------------------------------------------------
(* The theorems.                                                            *)

LEMMA InvInit == Init => IInv
<1> SUFFICES ASSUME Init PROVE IInv
  OBVIOUS
<1>1. TypeOK /\ HandleOK
  BY TypeInit
<1>2. ppc = "off" /\ ~whole /\ \A c \in Consumer : pc[c] = "off"
  BY DEF Init
<1> QED
  BY <1>1, <1>2 DEF IInv, MakeShape, OneRing, HeldInside, FilledToRear, Registers, Opening

LEMMA InvNext == IInv /\ [Next]_vars => IInv'
<1> SUFFICES ASSUME IInv, [Next]_vars PROVE IInv'
  OBVIOUS
<1>1. TypeOK /\ HandleOK /\ MakeShape /\ OneRing /\ HeldInside /\ FilledToRear /\ Registers
  BY DEF IInv
<1>2. CASE Next
  <2>1. TypeOK' /\ HandleOK'
    BY <1>1, <1>2, StepCases, TypeProducer, TypeConsumer
  <2>2. MakeShape' /\ OneRing' /\ Registers'
    BY <1>1, <1>2, ShapeNext, OneRingNext, RegistersNext
  <2>3. HeldInside'
    BY <1>1, <1>2, StepCases, HeldByProducer, HeldByConsumer
  <2>4. FilledToRear'
    BY <1>1, <1>2, StepCases, FilledByProducer, FilledByConsumer
  <2> QED
    BY <2>1, <2>2, <2>3, <2>4 DEF IInv
<1>3. CASE UNCHANGED vars
  <2>1. UNCHANGED <<there, words, filled, broken, holder, ppc, making, gap, todo, pc, handle, front, rear,
                    starts, whole, met, moved, spoilt>>
    BY <1>3 DEF vars, objects, producer, consumer, history
  <2>2. TypeOK' /\ HandleOK' /\ MakeShape'
    BY <1>1, <2>1 DEF TypeOK, Newest, MaxStarts, HandleOK, Held, Mine, MakeShape, Done, Opening
  <2>3. OneRing' /\ HeldInside'
    BY <1>1, <2>1 DEF OneRing, HeldInside, Inside, Getting, Renewed, Done, Held, Mine, Live, Present, Newest
  <2>4. FilledToRear' /\ Registers'
    BY <1>1, <2>1 DEF FilledToRear, Registers, Laps, ReadHolds, AllLive, Live, Present, Word, Newest, Done
  <2> QED
    BY <2>2, <2>3, <2>4 DEF IInv
<1> QED
  BY <1>2, <1>3

\* The inductive invariant holds of every behaviour.
THEOREM Invariance == Spec => []IInv
  BY InvInit, InvNext, PTL DEF Spec

\* Every variable keeps its type: a word is the number of a slot, whatever was
\* killed, removed and made again.
THEOREM TypeCorrect == Spec => []TypeOK
<1>1. IInv => TypeOK
  BY DEF IInv
<1> QED
  BY <1>1, Invariance, PTL

\* A consumer that was started on a whole ring has all of the present ring, or
\* none of its semaphores.
THEOREM OneRingOrNone == Spec => []RingOrNone
<1>1. IInv => RingOrNone
  <2> SUFFICES ASSUME IInv, whole, NEW c \in Getting \ met, Live(c, RearLock) PROVE AllLive(c)
    BY DEF RingOrNone
  <2>1. c \in Consumer /\ pc[c] # "off" /\ Held(c) = Mine(c) /\ RearLock \in Mine(c)
    BY DEF Getting, Held, Mine
  <2> QED
    BY <2>1 DEF IInv, OneRing, AllLive, Mine
<1> QED
  BY <1>1, Invariance, PTL

\* A semaphore of a whole ring is left taken only by a kill, by a put that
\* raised, or by a consumer that raised after it had met the creation of a ring.
THEOREM LeftTakenOnlyByFaults == Spec => []LeftTakenOnlyIfSpoilt
<1>1. IInv => LeftTakenOnlyIfSpoilt
  BY DEF IInv, HeldInside, LeftTakenOnlyIfSpoilt
<1> QED
  BY <1>1, Invariance, PTL

\* On a whole ring a consumer that has met no creation finds the frame it was
\* promised: what it raises over there is a frame that is broken.
THEOREM PromiseKept == Spec => RaisesOnlyIfRemadeOrBroken
<1> DEFINE Reason(c) == \/ c \in met \cup moved \/ ~whole \/ ~Live(c, RearLock)
                        \/ pc[c] = "fetch" /\ front[c] \in broken
<1>1. ASSUME IInv, NEW c \in Consumer, Raises(c) PROVE Reason(c)
  <2> SUFFICES ASSUME whole, c \notin met \cup moved, Live(c, RearLock)
               PROVE  pc[c] = "fetch" /\ front[c] \in broken
    OBVIOUS
  <2>0. TypeOK /\ MakeShape /\ OneRing /\ FilledToRear /\ Registers
    BY <1>1 DEF IInv
  <2>1. c \in Getting
    BY <1>1, <2>0 DEF Raises, WriteRaises, GetRaises, ReturnRaises, Getting
  <2>2. Held(c) = Mine(c) /\ pc[c] # "off" /\ RearLock \in Mine(c)
    BY <2>1 DEF Getting, Held, Mine
  <2>3. AllLive(c)
    BY <2>0, <2>2 DEF OneRing, AllLive, Mine
  <2>4. pc[c] = "fetch" /\ (Data \notin there \/ front[c] \notin filled \ broken)
    BY <1>1, <2>3, RaisesOnLive
  <2>5. Data \in there
    BY <2>0, KeyFacts DEF MakeShape
  <2>6. /\ filled = Slot \/ (front[c] = Word(Front(c)) /\ front[c] < Word(Rear))
        /\ filled = Slot \/ 0..(Word(Rear) - 1) \subseteq filled
        /\ front[c] \in Slot /\ Word(Rear) \in Slot
    BY <2>0, <2>3, <2>4, WholeWords DEF Registers, ReadHolds, FilledToRear, Laps, TypeOK
  <2>7. front[c] \in filled
    BY <2>6, SlotFacts
  <2> QED
    BY <2>4, <2>5, <2>7
<1>2. IInv => \A c \in Consumer : Raises(c) => Reason(c)
  BY <1>1
<1> QED
  BY <1>2, Invariance, PTL DEF Spec, RaisesOnlyIfRemadeOrBroken
=============================================================================
