------------------------------ MODULE TxQueue ------------------------------
(***************************************************************************)
(* The packet queue of the transmitter (libroad_tx.cpp, and                *)
(* libroad_tx_demo.cpp, which has no result thread).  One thread makes     *)
(* point-cloud packets, one relays the datagrams of the result socket, and *)
(* main pops and transmits.  They share a std::queue under one mutex, with *)
(* one condition variable for room and one for packets.                    *)
(*                                                                         *)
(* A critical section is one step: the queue is touched under the mutex    *)
(* only, and a wait gives the mutex up as it goes to sleep.  The           *)
(* notify_all calls come after the unlock, and are steps of their own.     *)
(* Sleepers may also wake for no reason.                                   *)
(***************************************************************************)
EXTENDS Integers, Sequences

CONSTANTS
  Source,        \* the thread that makes packets: GetLidarData or simulate_data
  Results,       \* the threads that run recv_result: one, or none in the demo
  Sender,        \* main
  MaxQueue,      \* max_queue_size, 100 in the code
  IdMod          \* packet ids are taken modulo this: 2^24 in pktHdr

ASSUME ThreadsAssumption ==
  /\ Source \notin Results
  /\ Sender \notin Results \cup {Source}

\* The ids of the packets under way are distinct.
ASSUME SizesAssumption ==
  /\ MaxQueue \in Nat \ {0}
  /\ IdMod \in Nat /\ IdMod > MaxQueue + 2

VARIABLES
  queue,     \* packet_queue: the thread each pointer came from, and for a
             \* packet its id; the pointers of recv_result are all the same
  pc,        \* the next step of each thread
  pktId,     \* the id of the next packet Source makes
  held,      \* buf: the pointer main popped
  buffer,    \* the datagram in recv_result's array, by thread
  sentId,    \* the id of the last packet transmitted
  relayed,   \* the last datagram transmitted, by thread
  running    \* whether the program still runs

vars == <<queue, pc, pktId, held, buffer, sentId, relayed, running>>

Pushers == Results \cup {Source}
Threads == Pushers \cup {Sender}

Ids == 0..(IdMod - 1)
Following(n) == IF n = IdMod - 1 THEN 0 ELSE n + 1
Preceding(n) == IF n = 0 THEN IdMod - 1 ELSE n - 1
Pointers == [from : Pushers, id : Ids]

Init ==
  /\ queue = <<>>
  /\ pc = [t \in Threads |-> IF t = Sender THEN "enter" ELSE "make"]
  /\ pktId = 0
  /\ held = [from |-> Source, id |-> 0]
  /\ buffer = [t \in Results |-> 0]
  /\ sentId = IdMod - 1
  /\ relayed = [t \in Results |-> 0]
  /\ running = TRUE

At(t, step) == running /\ pc[t] = step
Goto(t, step) == pc' = [pc EXCEPT ![t] = step]

NotifyNobody(sleepers, t, step) == Goto(t, step)   \* mutant: no notify_all

\* What notify_all does to the threads asleep on a condition.
WakeAll(sleepers, t, step) ==
  pc' = [u \in Threads |-> IF u = t THEN step
                           ELSE IF u \in sleepers /\ pc[u] = "asleep" THEN "enter"
                           ELSE pc[u]]

HasRoom == Len(queue) < MaxQueue

----------------------------------------------------------------------------
(* The threads that push.                                                  *)

\* A packet is made, and numbered, before the mutex is taken.
MakePacket ==
  /\ At(Source, "make")
  /\ pktId' = Following(pktId)
  /\ Goto(Source, "enter")
  /\ UNCHANGED <<queue, held, buffer, sentId, relayed, running>>

\* mutant: a datagram that finds the queue full is dropped
RecvUnlessFull(t) ==
  /\ At(t, "make")
  /\ buffer' = [buffer EXCEPT ![t] = Following(@)]
  /\ IF HasRoom THEN Goto(t, "enter") ELSE UNCHANGED pc
  /\ UNCHANGED <<queue, pktId, held, sentId, relayed, running>>

\* recv overwrites the array, whatever pointers to it are still queued.
RecvResult(t) ==
  /\ At(t, "make")
  /\ buffer' = [buffer EXCEPT ![t] = Following(@)]
  /\ Goto(t, "enter")
  /\ UNCHANGED <<queue, pktId, held, sentId, relayed, running>>

\* A failing recv ends the thread, and with it the life of its array, to which
\* pointers may still be queued.
RecvFails(t) ==
  /\ At(t, "make")
  /\ Goto(t, "ended")
  /\ UNCHANGED <<queue, pktId, held, buffer, sentId, relayed, running>>

\* mutant: the id is read after pktId++
NextPointer(t) == [from |-> t, id |-> IF t = Source THEN pktId ELSE 0]

\* The pointer a thread is about to push.
Pointer(t) == [from |-> t, id |-> IF t = Source THEN Preceding(pktId) ELSE 0]

Push(t) ==
  /\ At(t, "enter")
  /\ HasRoom
  /\ queue' = Append(queue, Pointer(t))
  /\ Goto(t, "notify")
  /\ UNCHANGED <<pktId, held, buffer, sentId, relayed, running>>

WaitForRoom(t) ==
  /\ At(t, "enter")
  /\ ~HasRoom
  /\ Goto(t, "asleep")
  /\ UNCHANGED <<queue, pktId, held, buffer, sentId, relayed, running>>

NotifyPop(t) ==
  /\ At(t, "notify")
  /\ WakeAll({Sender}, t, "make")
  /\ UNCHANGED <<queue, pktId, held, buffer, sentId, relayed, running>>

----------------------------------------------------------------------------
(* main.                                                                   *)

Pop ==
  /\ At(Sender, "enter")
  /\ queue # <<>>
  /\ held' = Head(queue)
  /\ queue' = Tail(queue)
  /\ Goto(Sender, "notify")
  /\ UNCHANGED <<pktId, buffer, sentId, relayed, running>>

WaitForPacket ==
  /\ At(Sender, "enter")
  /\ queue = <<>>
  /\ Goto(Sender, "asleep")
  /\ UNCHANGED <<queue, pktId, held, buffer, sentId, relayed, running>>

NotifyPush ==
  /\ At(Sender, "notify")
  /\ WakeAll(Pushers, Sender, "send")
  /\ UNCHANGED <<queue, pktId, held, buffer, sentId, relayed, running>>

\* What a pointer of t gives: the datagram in the array, or anything at all once
\* recv_result has returned.
Readable(t) == IF pc[t] = "ended" THEN Ids ELSE {buffer[t]}

\* What goes out is what the buffer holds now, outside the mutex.  (A recv that
\* overwrites the array during this very read mixes two datagrams; its thread
\* then pushes the pointer again.)
Send ==
  /\ At(Sender, "send")
  /\ \/ held.from = Source /\ sentId' = held.id /\ UNCHANGED relayed
     \/ /\ held.from \in Results
        /\ \E datagram \in Readable(held.from) :
             relayed' = [relayed EXCEPT ![held.from] = datagram]
        /\ UNCHANGED sentId
  /\ Goto(Sender, "free")
  /\ UNCHANGED <<queue, pktId, held, buffer, running>>

\* pcap_inject fails, and the exception leaves main; or a pointer into an array
\* that is no more ends the program.
SendRaises ==
  /\ At(Sender, "send")
  /\ running' = FALSE
  /\ UNCHANGED <<queue, pc, pktId, held, buffer, sentId, relayed>>

\* delete[] of an array that new did not return, as recv_result's, may end
\* the program or go unnoticed.
Free ==
  /\ At(Sender, "free")
  /\ running' \in IF held.from \in Results THEN BOOLEAN ELSE {TRUE}
  /\ Goto(Sender, "enter")
  /\ UNCHANGED <<queue, pktId, held, buffer, sentId, relayed>>

Wake(t) ==
  /\ At(t, "asleep")
  /\ Goto(t, "enter")
  /\ UNCHANGED <<queue, pktId, held, buffer, sentId, relayed, running>>

Main == Pop \/ WaitForPacket \/ NotifyPush \/ Send \/ Free

Pusher(t) == Push(t) \/ WaitForRoom(t) \/ NotifyPop(t)

Next ==
  \/ MakePacket
  \/ \E t \in Results : RecvResult(t) \/ RecvFails(t)
  \/ \E t \in Pushers : Pusher(t)
  \/ Main
  \/ SendRaises
  \/ \E t \in Threads : Wake(t)

Spec == Init /\ [][Next]_vars

\* Threads that can run do; the lidar keeps sending, datagrams need not come,
\* and nothing is assumed of spurious wake-ups.
Fairness ==
  /\ WF_vars(Main)
  /\ WF_vars(MakePacket)
  /\ \A t \in Pushers : WF_vars(Pusher(t))

LiveSpec == Spec /\ Fairness

----------------------------------------------------------------------------
(* Properties.                                                             *)

\* Every variable holds a value of its type; the queue never exceeds
\* max_queue_size, though two threads push.
TypeOK ==
  /\ queue \in Seq(Pointers)
  /\ Len(queue) <= MaxQueue
  /\ pc \in [Threads -> {"make", "enter", "asleep", "notify", "send", "free", "ended"}]
  /\ \A t \in Pushers : pc[t] \notin {"send", "free"}
  /\ pc[Sender] \notin {"make", "ended"}
  /\ pc[Source] # "ended"
  /\ pktId \in Ids
  /\ held \in Pointers
  /\ buffer \in [Results -> Ids]
  /\ sentId \in Ids
  /\ relayed \in [Results -> Ids]
  /\ running \in BOOLEAN

\* Nobody sleeps through the event it waits for: if main sleeps though the
\* queue holds a packet, a pusher has its notify_all still to call, and if a
\* pusher sleeps though there is room, main has.
NoLostWakeUp ==
  /\ pc[Sender] = "asleep" /\ queue # <<>> => \E t \in Pushers : pc[t] = "notify"
  /\ \A t \in Pushers : pc[t] = "asleep" /\ HasRoom => pc[Sender] = "notify"

\* The pointers on their way out, oldest first.
Line == IF pc[Sender] \in {"notify", "send"} THEN <<held>> \o queue ELSE queue

\* The places of t's pointers in the sequence s.
Places(t, s) == {i \in DOMAIN s : s[i].from = t}

\* The packets in s are numbered without a gap, from the one that follows
\* last to newest; there are none if last is newest.
Numbered(s, last, newest) ==
  LET P == Places(Source, s) IN
  /\ \A i \in P : (\A j \in P : i <= j) => s[i].id = Following(last)
  /\ \A i \in P : (\A j \in P : j <= i) => s[i].id = newest
  /\ \A i, j \in P : i < j /\ (\A k \in P : k <= i \/ j <= k) => s[j].id = Following(s[i].id)
  /\ P = {} => last = newest

\* The id of the newest packet that Source has pushed.
Pushed ==
  IF pc[Source] \in {"enter", "asleep"} THEN Preceding(Preceding(pktId)) ELSE Preceding(pktId)

\* Packets go out in the order in which they were made, none skipped and none
\* twice, whatever the result thread interleaves: the packets in the line are
\* numbered without a gap from the one transmitted last to the one pushed last.
PacketsInOrder == Numbered(Line, sentId, Pushed)

\* A datagram that is overwritten in recv_result's array before it went out
\* gives way to a newer one, which a queued pointer or the thread itself still
\* brings: as long as recv_result runs, the newest datagram is never left
\* behind.  (When recv fails it returns, and what is still queued is lost.)
NewestResultPending ==
  \A t \in Results :
    \/ relayed[t] = buffer[t]
    \/ Places(t, Line) # {}
    \/ pc[t] \in {"enter", "asleep", "ended"}

\* Unless the program ends, every packet made is transmitted, provided that
\* datagrams stop coming.  (Each time the packet thread wakes, it may find the
\* place taken by a datagram: a condition variable does not give turns.)
PacketsGoOut ==
  <>[][\A t \in Results : ~RecvResult(t)]_vars =>
    \A n \in Ids : (running /\ pktId = n) ~> (~running \/ sentId = n)
=============================================================================
