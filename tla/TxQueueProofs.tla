--------------------------- MODULE TxQueueProofs ---------------------------
(***************************************************************************)
(* Proofs about the transmitter's packet queue, for a queue and ids of any *)
(* size and any number of result threads.                                  *)
(***************************************************************************)
EXTENDS TxQueue, SequenceTheorems, TLAPS

Steps == {"make", "enter", "asleep", "notify", "send", "free", "ended"}

\* Ids wrap within their range, and Preceding undoes Following.
LEMMA IdFacts ==
  \A n \in Ids :
    /\ Following(n) \in Ids /\ Preceding(n) \in Ids
    /\ Following(Preceding(n)) = n /\ Preceding(Following(n)) = n
  BY SizesAssumption, SMT DEF Ids, Following, Preceding

-----------------------------------------------------------------------------
(* The variables stay typed, and the queue within its bound.               *)

\* notify_all leaves every thread but its caller where it was, or wakes it.
LEMMA WakeAllType ==
  ASSUME TypeOK, NEW sleepers, NEW t \in Threads, NEW step \in Steps,
         WakeAll(sleepers, t, step),
         t = Sender => step \notin {"make", "ended"},
         t \in Pushers => step \notin {"send", "free"},
         t = Source => step # "ended"
  PROVE  /\ pc' \in [Threads -> Steps]
         /\ \A u \in Pushers : pc'[u] \notin {"send", "free"}
         /\ pc'[Sender] \notin {"make", "ended"}
         /\ pc'[Source] # "ended"
  BY ThreadsAssumption DEF TypeOK, WakeAll, Threads, Pushers, Steps

\* A step of one thread that calls no notify_all.
LEMMA GotoType ==
  ASSUME TypeOK, NEW t \in Threads, NEW step \in Steps, Goto(t, step),
         t = Sender => step \notin {"make", "ended"},
         t \in Pushers => step \notin {"send", "free"},
         t = Source => step # "ended"
  PROVE  /\ pc' \in [Threads -> Steps]
         /\ \A u \in Pushers : pc'[u] \notin {"send", "free"}
         /\ pc'[Sender] \notin {"make", "ended"}
         /\ pc'[Source] # "ended"
  BY ThreadsAssumption DEF TypeOK, Goto, Threads, Pushers, Steps

\* Init is typed.
LEMMA InitType == Init => TypeOK
  <1> SUFFICES ASSUME Init PROVE TypeOK
    OBVIOUS
  <1>1. 0 \in Ids /\ IdMod - 1 \in Ids
    BY SizesAssumption DEF Ids
  <1>2. /\ pc \in [Threads -> {"make", "enter", "asleep", "notify", "send", "free", "ended"}]
        /\ \A t \in Pushers : pc[t] = "make"
        /\ pc[Sender] = "enter" /\ pc[Source] = "make"
    BY ThreadsAssumption DEF Init, Pushers, Threads
  <1>3. queue \in Seq(Pointers) /\ Len(queue) <= MaxQueue
    BY SizesAssumption DEF Init
  <1>4. held \in Pointers
    BY <1>1 DEF Init, Pointers, Pushers
  <1> QED
    BY <1>1, <1>2, <1>3, <1>4 DEF Init, TypeOK

\* Every step of every thread keeps the variables typed.
LEMMA TypeStep == TypeOK /\ [Next]_vars => TypeOK'
  <1> SUFFICES ASSUME TypeOK, [Next]_vars PROVE TypeOK'
    OBVIOUS
  <1> USE ThreadsAssumption, SizesAssumption
  <1>a. Source \in Pushers /\ Source \in Threads /\ Sender \in Threads /\ Sender \notin Pushers
    BY DEF Pushers, Threads
  <1>b. \A t \in Pushers : t \in Threads /\ t # Sender
    BY DEF Pushers, Threads
  <1>1. CASE MakePacket
    <2>1. pktId' \in Ids
      BY <1>1, IdFacts DEF MakePacket, TypeOK
    <2> QED
      BY <1>1, <2>1, <1>a, GotoType DEF MakePacket, TypeOK, Steps
  <1>2. ASSUME NEW t \in Results, RecvResult(t) PROVE TypeOK'
    <2>1. buffer' \in [Results -> Ids]
      BY <1>2, IdFacts DEF RecvResult, TypeOK
    <2> QED
      BY <1>2, <2>1, <1>b, GotoType DEF RecvResult, TypeOK, Steps, Pushers
  <1>3. ASSUME NEW t \in Results, RecvFails(t) PROVE TypeOK'
    BY <1>3, <1>b, GotoType DEF RecvFails, TypeOK, Steps, Pushers
  <1>4. ASSUME NEW t \in Pushers, Push(t) PROVE TypeOK'
    <2>1. Preceding(pktId) \in Ids
      BY IdFacts DEF TypeOK
    <2>2. 0 \in Ids
      BY DEF Ids
    <2>3. Pointer(t) \in Pointers
      BY <2>1, <2>2 DEF Pointer, Pointers
    <2>4. queue' \in Seq(Pointers) /\ Len(queue') <= MaxQueue
      BY <1>4, <2>3 DEF Push, HasRoom, TypeOK
    <2> QED
      BY <1>4, <2>4, <1>b, GotoType DEF Push, TypeOK, Steps
  <1>5. ASSUME NEW t \in Pushers, WaitForRoom(t) PROVE TypeOK'
    BY <1>5, <1>b, GotoType DEF WaitForRoom, TypeOK, Steps
  <1>6. ASSUME NEW t \in Pushers, NotifyPop(t) PROVE TypeOK'
    BY <1>6, <1>b, WakeAllType DEF NotifyPop, TypeOK, Steps
  <1>7. CASE Pop
    <2>1. held' \in Pointers /\ queue' \in Seq(Pointers) /\ Len(queue') <= MaxQueue
      BY <1>7 DEF Pop, TypeOK
    <2> QED
      BY <1>7, <2>1, <1>a, GotoType DEF Pop, TypeOK, Steps
  <1>8. CASE WaitForPacket
    BY <1>8, <1>a, GotoType DEF WaitForPacket, TypeOK, Steps
  <1>9. CASE NotifyPush
    BY <1>9, <1>a, WakeAllType DEF NotifyPush, TypeOK, Steps
  <1>10. CASE Send
    <2>1. sentId' \in Ids /\ relayed' \in [Results -> Ids]
      BY <1>10 DEF Send, Readable, TypeOK, Pointers
    <2> QED
      BY <1>10, <2>1, <1>a, GotoType DEF Send, TypeOK, Steps
  <1>11. CASE Free
    <2>1. running' \in BOOLEAN
      BY <1>11 DEF Free
    <2> QED
      BY <1>11, <2>1, <1>a, GotoType DEF Free, TypeOK, Steps
  <1>12. CASE SendRaises
    BY <1>12 DEF SendRaises, TypeOK
  <1>13. ASSUME NEW t \in Threads, Wake(t) PROVE TypeOK'
    BY <1>13, GotoType DEF Wake, TypeOK, Steps
  <1>14. CASE UNCHANGED vars
    BY <1>14 DEF vars, TypeOK
  <1> QED
    BY <1>1, <1>2, <1>3, <1>4, <1>5, <1>6, <1>7, <1>8, <1>9, <1>10, <1>11, <1>12, <1>13, <1>14
    DEF Next, Main, Pusher

\* The queue holds at most max_queue_size pointers, and every variable has a
\* value of its type (GetLidarData, recv_result, main).
THEOREM TypeCorrect == Spec => []TypeOK
  BY InitType, TypeStep, PTL DEF Spec

-----------------------------------------------------------------------------
(* No thread sleeps through the event it waits for.                        *)

LEMMA InitWakeUp == Init => NoLostWakeUp
  BY ThreadsAssumption DEF Init, NoLostWakeUp, Threads, Pushers

LEMMA WakeUpStep == TypeOK /\ NoLostWakeUp /\ [Next]_vars => NoLostWakeUp'
  <1> SUFFICES ASSUME TypeOK, NoLostWakeUp, [Next]_vars PROVE NoLostWakeUp'
    OBVIOUS
  <1> USE ThreadsAssumption, SizesAssumption DEF NoLostWakeUp, HasRoom, At
  <1>a. Source \in Pushers /\ Source \in Threads /\ Sender \in Threads /\ Sender \notin Pushers
    BY DEF Pushers, Threads
  <1>b. \A t \in Pushers : t \in Threads /\ t # Sender
    BY DEF Pushers, Threads
  <1>t. pc \in [Threads -> Steps] /\ queue \in Seq(Pointers)
    BY DEF TypeOK, Steps
  <1>1. CASE MakePacket
    BY <1>1, <1>a, <1>b, <1>t DEF MakePacket, Goto
  <1>2. ASSUME NEW t \in Results, RecvResult(t) PROVE NoLostWakeUp'
    BY <1>2, <1>b, <1>t DEF RecvResult, Goto, Pushers
  <1>3. ASSUME NEW t \in Results, RecvFails(t) PROVE NoLostWakeUp'
    BY <1>3, <1>b, <1>t DEF RecvFails, Goto, Pushers
  <1>4. ASSUME NEW t \in Pushers, Push(t) PROVE NoLostWakeUp'
    <2>1. pc'[t] = "notify" /\ \A u \in Threads : u # t => pc'[u] = pc[u]
      BY <1>4, <1>b, <1>t DEF Push, Goto
    <2>2. Len(queue') = Len(queue) + 1
      BY <1>4, <1>t DEF Push
    <2> QED  BY <2>1, <2>2, <1>a, <1>b, <1>t
  <1>5. ASSUME NEW t \in Pushers, WaitForRoom(t) PROVE NoLostWakeUp'
    BY <1>5, <1>b, <1>t DEF WaitForRoom, Goto
  <1>6. ASSUME NEW t \in Pushers, NotifyPop(t) PROVE NoLostWakeUp'
    <2>1. /\ pc'[Sender] # "asleep"
          /\ \A u \in Pushers : pc'[u] = "asleep" => pc[u] = "asleep"
          /\ pc[Sender] = "notify" => pc'[Sender] = "notify"
      BY <1>6, <1>a, <1>b, <1>t DEF NotifyPop, WakeAll
    <2> QED  BY <1>6, <2>1 DEF NotifyPop
  <1>7. CASE Pop
    BY <1>7, <1>a, <1>b, <1>t DEF Pop, Goto
  <1>8. CASE WaitForPacket
    BY <1>8, <1>a, <1>b, <1>t DEF WaitForPacket, Goto
  <1>9. CASE NotifyPush
    BY <1>9, <1>a, <1>b, <1>t DEF NotifyPush, WakeAll
  <1>10. CASE Send
    BY <1>10, <1>a, <1>b, <1>t DEF Send, Goto
  <1>11. CASE Free
    BY <1>11, <1>a, <1>b, <1>t DEF Free, Goto
  <1>12. CASE SendRaises
    BY <1>12 DEF SendRaises
  <1>13. ASSUME NEW t \in Threads, Wake(t) PROVE NoLostWakeUp'
    BY <1>13, <1>a, <1>b, <1>t DEF Wake, Goto
  <1>14. CASE UNCHANGED vars
    BY <1>14 DEF vars
  <1> QED
    BY <1>1, <1>2, <1>3, <1>4, <1>5, <1>6, <1>7, <1>8, <1>9, <1>10, <1>11, <1>12, <1>13, <1>14
    DEF Next, Main, Pusher

\* If main sleeps on a queue that holds a packet, or a pusher sleeps while
\* there is room, the notify_all that wakes it is still to come.
THEOREM WakeUps == Spec => []NoLostWakeUp
  BY TypeCorrect, InitWakeUp, WakeUpStep, PTL DEF Spec

-----------------------------------------------------------------------------
(* Packets go out in order: what a push and a transmission do to the line. *)

\* A push of a packet extends the numbering by one.
LEMMA AppendPacket ==
  ASSUME NEW s \in Seq(Pointers), NEW last, NEW newest, NEW e \in Pointers,
         Numbered(s, last, newest), e.from = Source, e.id = Following(newest)
  PROVE  Numbered(Append(s, e), last, Following(newest))
  <1> DEFINE a == Append(s, e)
  <1>1. /\ Len(a) = Len(s) + 1 /\ DOMAIN a = 1..Len(a) /\ DOMAIN s = 1..Len(s)
        /\ \A i \in DOMAIN s : a[i] = s[i]
        /\ a[Len(a)] = e
    OBVIOUS
  <1>2. Places(Source, a) = Places(Source, s) \cup {Len(a)}
    BY <1>1 DEF Places
  <1>3. \A i \in Places(Source, s) : i \in Nat /\ i < Len(a) /\ a[i] = s[i]
    BY <1>1 DEF Places
  <1>4. Len(a) \in Nat
    BY <1>1
  <1> HIDE DEF a
  <1>5. \A i \in Places(Source, a) :
          (\A j \in Places(Source, a) : i <= j) => a[i].id = Following(last)
    BY <1>1, <1>2, <1>3, <1>4 DEF Numbered
  <1>6. \A i \in Places(Source, a) :
          (\A j \in Places(Source, a) : j <= i) => a[i].id = Following(newest)
    BY <1>1, <1>2, <1>3, <1>4
  <1>7. \A i, j \in Places(Source, a) :
          i < j /\ (\A k \in Places(Source, a) : k <= i \/ j <= k) => a[j].id = Following(a[i].id)
    <2> SUFFICES ASSUME NEW i \in Places(Source, a), NEW j \in Places(Source, a), i < j,
                        \A k \in Places(Source, a) : k <= i \/ j <= k
                 PROVE  a[j].id = Following(a[i].id)
      OBVIOUS
    <2>1. i \in Places(Source, s)
      BY <1>2, <1>3, <1>4
    <2>2. CASE j \in Places(Source, s)
      BY <2>1, <2>2, <1>2, <1>3 DEF Numbered
    <2>3. CASE j = Len(a)
      <3>1. \A k \in Places(Source, s) : k <= i
        BY <2>3, <1>2, <1>3, <1>4
      <3>2. s[i].id = newest
        BY <2>1, <3>1 DEF Numbered
      <3> QED  BY <2>1, <2>3, <3>2, <1>1, <1>3
    <2> QED  BY <2>2, <2>3, <1>2
  <1>8. Places(Source, a) # {}
    BY <1>2
  <1> QED
    BY <1>5, <1>6, <1>7, <1>8 DEF Numbered, a

\* A push of a result does not touch it.
LEMMA AppendResult ==
  ASSUME NEW s \in Seq(Pointers), NEW last, NEW newest, NEW e \in Pointers,
         Numbered(s, last, newest), e.from # Source
  PROVE  Numbered(Append(s, e), last, newest)
  <1> DEFINE a == Append(s, e)
  <1>1. /\ Len(a) = Len(s) + 1 /\ DOMAIN a = 1..Len(a) /\ DOMAIN s = 1..Len(s)
        /\ \A i \in DOMAIN s : a[i] = s[i]
        /\ a[Len(a)] = e
    OBVIOUS
  <1>2. Places(Source, a) = Places(Source, s)
    BY <1>1 DEF Places
  <1>3. \A i \in Places(Source, s) : a[i] = s[i]
    BY <1>1 DEF Places
  <1> QED
    BY <1>2, <1>3 DEF Numbered

\* The places of a line that loses its head move down by one.
LEMMA TailPlaces ==
  ASSUME NEW s \in Seq(Pointers), s # <<>>
  PROVE  /\ \A t : \A i \in Int : i \in Places(t, Tail(s)) <=> i >= 1 /\ i + 1 \in Places(t, s)
         /\ \A t : \A i \in Places(t, Tail(s)) : Tail(s)[i] = s[i + 1]
         /\ \A t : Places(t, s) \subseteq Int /\ Places(t, Tail(s)) \subseteq Int
         /\ \A t : \A i \in Places(t, s) : i >= 1
         /\ \A t : 1 \in Places(t, s) <=> Head(s).from = t
  <1>1. /\ Len(Tail(s)) = Len(s) - 1 /\ DOMAIN Tail(s) = 1..Len(Tail(s))
        /\ DOMAIN s = 1..Len(s) /\ Len(s) \in Nat \ {0}
        /\ \A i \in DOMAIN Tail(s) : Tail(s)[i] = s[i + 1]
        /\ Head(s) = s[1]
    OBVIOUS
  <1> QED
    BY <1>1 DEF Places

\* The transmission of a packet moves the numbering on by one.
LEMMA TailPacket ==
  ASSUME NEW s \in Seq(Pointers), s # <<>>, NEW last, NEW newest,
         Numbered(s, last, newest), Head(s).from = Source
  PROVE  Head(s).id = Following(last) /\ Numbered(Tail(s), Head(s).id, newest)
  <1> DEFINE r == Tail(s)
             P == Places(Source, s)
             Q == Places(Source, r)
  <1>1. 1 \in P /\ Head(s) = s[1] /\ \A i \in P : 1 <= i
    BY TailPlaces
  <1>2. /\ \A i \in Int : i \in Q <=> i >= 1 /\ i + 1 \in P
        /\ \A i \in Q : r[i] = s[i + 1]
        /\ P \subseteq Int /\ Q \subseteq Int
    BY TailPlaces
  <1>n. /\ \A i \in P : (\A j \in P : i <= j) => s[i].id = Following(last)
        /\ \A i \in P : (\A j \in P : j <= i) => s[i].id = newest
    BY DEF Numbered
  <1>m. \A i, j \in P : i < j /\ (\A k \in P : k <= i \/ j <= k) => s[j].id = Following(s[i].id)
    BY DEF Numbered
  <1> HIDE DEF P, Q, r
  <1>3. Head(s).id = Following(last)
    BY <1>1, <1>n
  <1>4. \A i \in Q : (\A j \in Q : i <= j) => r[i].id = Following(Head(s).id)
    <2> SUFFICES ASSUME NEW i \in Q, \A j \in Q : i <= j PROVE r[i].id = Following(s[1].id)
      BY <1>1
    <2>1. \A k \in P : k <= 1 \/ i + 1 <= k
      <3> SUFFICES ASSUME NEW k \in P, k > 1 PROVE i + 1 <= k
        BY <1>1, <1>2
      <3>1. k - 1 \in Q
        BY <1>2
      <3> QED  BY <3>1, <1>2
    <2>2. i + 1 \in P /\ 1 < i + 1
      BY <1>2
    <2>3. s[i + 1].id = Following(s[1].id)
      BY <1>1, <1>m, <2>1, <2>2
    <2> QED  BY <1>2, <2>3
  <1>5. \A i \in Q : (\A j \in Q : j <= i) => r[i].id = newest
    <2> SUFFICES ASSUME NEW i \in Q, \A j \in Q : j <= i PROVE r[i].id = newest
      OBVIOUS
    <2>1. \A k \in P : k <= i + 1
      <3> SUFFICES ASSUME NEW k \in P, k > 1 PROVE k <= i + 1
        BY <1>1, <1>2
      <3>1. k - 1 \in Q
        BY <1>2
      <3> QED  BY <3>1, <1>2
    <2> QED  BY <1>2, <1>n, <2>1
  <1>6. \A i, j \in Q : i < j /\ (\A k \in Q : k <= i \/ j <= k) => r[j].id = Following(r[i].id)
    <2> SUFFICES ASSUME NEW i \in Q, NEW j \in Q, i < j, \A k \in Q : k <= i \/ j <= k
                 PROVE  r[j].id = Following(r[i].id)
      OBVIOUS
    <2>1. \A k \in P : k <= i + 1 \/ j + 1 <= k
      <3> SUFFICES ASSUME NEW k \in P, k > 1 PROVE k <= i + 1 \/ j + 1 <= k
        BY <1>1, <1>2
      <3>1. k - 1 \in Q
        BY <1>2
      <3> QED  BY <3>1, <1>2
    <2>2. i + 1 \in P /\ j + 1 \in P /\ i + 1 < j + 1
      BY <1>2
    <2>3. s[j + 1].id = Following(s[i + 1].id)
      BY <1>m, <2>1, <2>2
    <2> QED  BY <1>2, <2>3
  <1>7. Q = {} => Head(s).id = newest
    <2> SUFFICES ASSUME Q = {} PROVE s[1].id = newest
      BY <1>1
    <2>1. \A k \in P : k <= 1
      <3> SUFFICES ASSUME NEW k \in P, k > 1 PROVE FALSE
        BY <1>1, <1>2
      <3>1. k - 1 \in Q
        BY <1>2
      <3> QED  BY <3>1
    <2> QED  BY <1>1, <1>n, <2>1
  <1> QED
    BY <1>3, <1>4, <1>5, <1>6, <1>7 DEF Numbered, P, Q, r

\* The transmission of a result does not touch it.
LEMMA TailResult ==
  ASSUME NEW s \in Seq(Pointers), s # <<>>, NEW last, NEW newest,
         Numbered(s, last, newest), Head(s).from # Source
  PROVE  Numbered(Tail(s), last, newest)
  <1> DEFINE r == Tail(s)
             P == Places(Source, s)
             Q == Places(Source, r)
  <1>1. \A i \in P : 1 < i
    BY TailPlaces
  <1>2. /\ \A i \in Int : i \in Q <=> i >= 1 /\ i + 1 \in P
        /\ \A i \in Q : r[i] = s[i + 1]
        /\ P \subseteq Int /\ Q \subseteq Int
    BY TailPlaces
  <1>n. /\ \A i \in P : (\A j \in P : i <= j) => s[i].id = Following(last)
        /\ \A i \in P : (\A j \in P : j <= i) => s[i].id = newest
        /\ \A i, j \in P : i < j /\ (\A k \in P : k <= i \/ j <= k) => s[j].id = Following(s[i].id)
        /\ P = {} => last = newest
    BY DEF Numbered
  <1> HIDE DEF P, Q, r
  <1>3. \A k \in P : k - 1 \in Q
    BY <1>1, <1>2
  <1>4. \A i \in Q : i + 1 \in P /\ r[i] = s[i + 1] /\ i \in Int
    BY <1>2
  <1>5. \A i \in Q : (\A j \in Q : i <= j) => r[i].id = Following(last)
    <2> SUFFICES ASSUME NEW i \in Q, \A j \in Q : i <= j PROVE r[i].id = Following(last)
      OBVIOUS
    <2>1. \A k \in P : i + 1 <= k
      BY <1>2, <1>3
    <2> QED  BY <1>4, <1>n, <2>1
  <1>6. \A i \in Q : (\A j \in Q : j <= i) => r[i].id = newest
    <2> SUFFICES ASSUME NEW i \in Q, \A j \in Q : j <= i PROVE r[i].id = newest
      OBVIOUS
    <2>1. \A k \in P : k <= i + 1
      BY <1>2, <1>3
    <2> QED  BY <1>4, <1>n, <2>1
  <1>7. \A i, j \in Q : i < j /\ (\A k \in Q : k <= i \/ j <= k) => r[j].id = Following(r[i].id)
    <2> SUFFICES ASSUME NEW i \in Q, NEW j \in Q, i < j, \A k \in Q : k <= i \/ j <= k
                 PROVE  r[j].id = Following(r[i].id)
      OBVIOUS
    <2>1. \A k \in P : k <= i + 1 \/ j + 1 <= k
      BY <1>2, <1>3
    <2>2. i + 1 < j + 1
      BY <1>4
    <2> QED  BY <1>4, <1>n, <2>1, <2>2
  <1>8. Q = {} => last = newest
    BY <1>3, <1>n
  <1> QED
    BY <1>5, <1>6, <1>7, <1>8 DEF Numbered, P, Q, r

\* What each step does to the line, to the last packet sent and to the last
\* one pushed.
LineStep ==
  \/ Line' = Line /\ sentId' = sentId /\ Pushed' = Pushed
  \/ \E t \in Pushers :
       /\ Line' = Append(Line, Pointer(t)) /\ sentId' = sentId
       /\ t = Source => Pushed' = Pointer(t).id /\ Pointer(t).id = Following(Pushed)
       /\ t # Source => Pushed' = Pushed
  \/ /\ Line # <<>> /\ Line' = Tail(Line) /\ Pushed' = Pushed
     /\ sentId' = IF Head(Line).from = Source THEN Head(Line).id ELSE sentId

LEMMA LineType == TypeOK => Line \in Seq(Pointers)
  BY DEF TypeOK, Line

LEMMA LineSteps == TypeOK /\ [Next]_vars => LineStep
  <1> SUFFICES ASSUME TypeOK, [Next]_vars PROVE LineStep
    OBVIOUS
  <1> USE ThreadsAssumption, SizesAssumption DEF At
  <1>a. Source \in Pushers /\ Source \in Threads /\ Sender \in Threads /\ Sender \notin Pushers /\ Source # Sender
    BY DEF Pushers, Threads
  <1>b. \A t \in Pushers : t \in Threads /\ t # Sender
    BY DEF Pushers, Threads
  <1>t. pc \in [Threads -> Steps] /\ queue \in Seq(Pointers) /\ held \in Pointers /\ pktId \in Ids
    BY DEF TypeOK, Steps
  <1>1. CASE MakePacket
    <2>1. pc'[Source] = "enter" /\ pc[Source] = "make" /\ pc'[Sender] = pc[Sender]
      BY <1>1, <1>a, <1>t DEF MakePacket, Goto
    <2>2. Pushed' = Pushed
      BY <1>1, <2>1, <1>t, IdFacts DEF Pushed, MakePacket
    <2> QED  BY <1>1, <2>1, <2>2 DEF MakePacket, Line, LineStep
  <1>2. ASSUME NEW t \in Results, RecvResult(t) \/ RecvFails(t) PROVE LineStep
    <2>1. pc'[Source] = pc[Source] /\ pc'[Sender] = pc[Sender]
      BY <1>2, <1>a, <1>b, <1>t DEF RecvResult, RecvFails, Goto, Pushers
    <2> QED  BY <1>2, <2>1 DEF RecvResult, RecvFails, Line, LineStep, Pushed
  <1>3. ASSUME NEW t \in Pushers, Push(t) PROVE LineStep
    <2>1. pc[t] = "enter" /\ pc'[t] = "notify" /\ pc'[Sender] = pc[Sender] /\ (t # Source => pc'[Source] = pc[Source])
      BY <1>3, <1>a, <1>b, <1>t DEF Push, Goto
    <2>2. Line' = Append(Line, Pointer(t))
      <3>1. queue' = Append(queue, Pointer(t)) /\ held' = held
        BY <1>3 DEF Push
      <3>2. <<held>> \o Append(queue, Pointer(t)) = Append(<<held>> \o queue, Pointer(t))
        BY <1>t
      <3> QED  BY <2>1, <3>1, <3>2 DEF Line
    <2>3. t = Source => Pushed' = Pointer(t).id /\ Pointer(t).id = Following(Pushed)
      <3> SUFFICES ASSUME t = Source PROVE Pushed' = Pointer(t).id /\ Pointer(t).id = Following(Pushed)
        OBVIOUS
      <3>1. Pushed' = Preceding(pktId) /\ Pushed = Preceding(Preceding(pktId)) /\ Pointer(t).id = Preceding(pktId)
        BY <1>3, <2>1 DEF Pushed, Push, Pointer
      <3>2. Preceding(pktId) \in Ids
        BY <1>t, IdFacts
      <3> QED  BY <3>1, <3>2, IdFacts
    <2>4. t # Source => Pushed' = Pushed
      BY <1>3, <2>1 DEF Pushed, Push
    <2> QED  BY <1>3, <2>2, <2>3, <2>4 DEF Push, LineStep
  <1>4. ASSUME NEW t \in Pushers, WaitForRoom(t) PROVE LineStep
    <2>1. /\ pc'[Sender] = pc[Sender]
          /\ pc'[Source] \in {"enter", "asleep"} <=> pc[Source] \in {"enter", "asleep"}
      BY <1>4, <1>a, <1>b, <1>t DEF WaitForRoom, Goto
    <2> QED  BY <1>4, <2>1 DEF WaitForRoom, Line, LineStep, Pushed
  <1>5. ASSUME NEW t \in Pushers, NotifyPop(t) PROVE LineStep
    <2>1. /\ pc'[Sender] \in {"notify", "send"} <=> pc[Sender] \in {"notify", "send"}
          /\ pc'[Source] \in {"enter", "asleep"} <=> pc[Source] \in {"enter", "asleep"}
      BY <1>5, <1>a, <1>b, <1>t DEF NotifyPop, WakeAll
    <2> QED  BY <1>5, <2>1 DEF NotifyPop, Line, LineStep, Pushed
  <1>6. CASE Pop
    <2>1. pc[Sender] = "enter" /\ pc'[Sender] = "notify" /\ pc'[Source] = pc[Source]
      BY <1>6, <1>a, <1>t DEF Pop, Goto
    <2>2. <<Head(queue)>> \o Tail(queue) = queue
      BY <1>6, <1>t DEF Pop
    <2> QED  BY <1>6, <2>1, <2>2 DEF Pop, Line, LineStep, Pushed
  <1>7. CASE WaitForPacket
    <2>1. pc[Sender] = "enter" /\ pc'[Sender] = "asleep" /\ pc'[Source] = pc[Source]
      BY <1>7, <1>a, <1>t DEF WaitForPacket, Goto
    <2> QED  BY <1>7, <2>1 DEF WaitForPacket, Line, LineStep, Pushed
  <1>8. CASE NotifyPush
    <2>1. /\ pc[Sender] = "notify" /\ pc'[Sender] = "send"
          /\ pc'[Source] \in {"enter", "asleep"} <=> pc[Source] \in {"enter", "asleep"}
      BY <1>8, <1>a, <1>t DEF NotifyPush, WakeAll
    <2> QED  BY <1>8, <2>1 DEF NotifyPush, Line, LineStep, Pushed
  <1>9. CASE Send
    <2>1. pc[Sender] = "send" /\ pc'[Sender] = "free" /\ pc'[Source] = pc[Source]
      BY <1>9, <1>a, <1>t DEF Send, Goto
    <2>2. Line = <<held>> \o queue /\ Line' = queue
      BY <1>9, <2>1 DEF Line, Send
    <2>3. Line # <<>> /\ Head(Line) = held /\ Tail(Line) = queue
      BY <2>2, <1>t
    <2>4. sentId' = IF held.from = Source THEN held.id ELSE sentId
      BY <1>9 DEF Send
    <2> QED  BY <1>9, <2>1, <2>2, <2>3, <2>4 DEF Send, LineStep, Pushed
  <1>10. CASE Free
    <2>1. pc[Sender] = "free" /\ pc'[Sender] = "enter" /\ pc'[Source] = pc[Source]
      BY <1>10, <1>a, <1>t DEF Free, Goto
    <2> QED  BY <1>10, <2>1 DEF Free, Line, LineStep, Pushed
  <1>11. ASSUME NEW t \in Threads, Wake(t) PROVE LineStep
    <2>1. /\ pc'[Sender] \in {"notify", "send"} <=> pc[Sender] \in {"notify", "send"}
          /\ pc'[Source] \in {"enter", "asleep"} <=> pc[Source] \in {"enter", "asleep"}
      BY <1>11, <1>a, <1>t DEF Wake, Goto
    <2> QED  BY <1>11, <2>1 DEF Wake, Line, LineStep, Pushed
  <1>12. CASE SendRaises \/ UNCHANGED vars
    BY <1>12 DEF SendRaises, vars, Line, LineStep, Pushed
  <1> QED
    BY <1>1, <1>2, <1>3, <1>4, <1>5, <1>6, <1>7, <1>8, <1>9, <1>10, <1>11, <1>12
    DEF Next, Main, Pusher

\* Only a push and a transmission change the line.
LEMMA LineStays ==
  ASSUME TypeOK, [Next]_vars, ~\E u \in Pushers : Push(u), ~Send
  PROVE  Line' = Line
  <1> USE ThreadsAssumption DEF At
  <1>a. Source \in Pushers /\ Source \in Threads /\ Sender \in Threads /\ Source # Sender
    BY DEF Pushers, Threads
  <1>b. \A t \in Pushers : t \in Threads /\ t # Sender
    BY DEF Pushers, Threads
  <1>t. pc \in [Threads -> Steps] /\ queue \in Seq(Pointers)
    BY DEF TypeOK, Steps
  <1>1. CASE Pop
    <2>1. pc[Sender] = "enter" /\ pc'[Sender] = "notify"
      BY <1>1, <1>a, <1>t DEF Pop, Goto
    <2>2. <<Head(queue)>> \o Tail(queue) = queue
      BY <1>1, <1>t DEF Pop
    <2> QED  BY <1>1, <2>1, <2>2 DEF Pop, Line
  <1>2. CASE ~Pop
    <2>1. queue' = queue /\ held' = held
      BY <1>2 DEF Next, Main, Pusher, MakePacket, RecvResult, RecvFails, WaitForRoom, NotifyPop,
                  WaitForPacket, NotifyPush, Free, SendRaises, Wake, vars
    <2>2. pc'[Sender] \in {"notify", "send"} <=> pc[Sender] \in {"notify", "send"}
      <3>1. CASE MakePacket
        BY <3>1, <1>a, <1>t DEF MakePacket, Goto
      <3>2. CASE \E t \in Pushers : RecvResult(t) \/ RecvFails(t) \/ WaitForRoom(t)
        BY <3>2, <1>a, <1>b, <1>t DEF RecvResult, RecvFails, WaitForRoom, Goto
      <3>3. CASE \E t \in Pushers : NotifyPop(t)
        BY <3>3, <1>a, <1>b, <1>t DEF NotifyPop, WakeAll
      <3>4. CASE WaitForPacket \/ Free
        BY <3>4, <1>a, <1>t DEF WaitForPacket, Free, Goto
      <3>5. CASE NotifyPush
        BY <3>5, <1>a, <1>t DEF NotifyPush, WakeAll
      <3>6. CASE SendRaises \/ UNCHANGED vars
        BY <3>6 DEF SendRaises, vars
      <3>7. CASE \E t \in Threads : Wake(t)
        BY <3>7, <1>a, <1>t DEF Wake, Goto
      <3> QED
        BY <1>2, <3>1, <3>2, <3>3, <3>4, <3>5, <3>6, <3>7 DEF Next, Main, Pusher, Pushers
    <2> QED  BY <2>1, <2>2 DEF Line
  <1> QED  BY <1>1, <1>2

LEMMA InitOrder == Init => PacketsInOrder
  <1> SUFFICES ASSUME Init PROVE PacketsInOrder
    OBVIOUS
  <1>1. pc[Sender] = "enter" /\ pc[Source] = "make"
    BY ThreadsAssumption DEF Init, Threads, Pushers
  <1>2. Line = <<>> /\ Pushed = sentId
    BY <1>1 DEF Init, Line, Pushed, Preceding
  <1>3. Places(Source, <<>>) = {}
    BY DEF Places
  <1> QED  BY <1>2, <1>3 DEF PacketsInOrder, Numbered

LEMMA OrderStep == TypeOK /\ PacketsInOrder /\ [Next]_vars => PacketsInOrder'
  <1> SUFFICES ASSUME TypeOK, PacketsInOrder, [Next]_vars PROVE PacketsInOrder'
    OBVIOUS
  <1> USE DEF PacketsInOrder
  <1>l. Line \in Seq(Pointers)
    BY LineType
  <1>n. \A s, last, newest : s = Line' /\ last = sentId' /\ newest = Pushed' /\ Numbered(s, last, newest)
                            => PacketsInOrder'
    BY DEF Numbered, Places
  <1>1. CASE Line' = Line /\ sentId' = sentId /\ Pushed' = Pushed
    BY <1>1, <1>n
  <1>2. ASSUME NEW t \in Pushers,
               Line' = Append(Line, Pointer(t)), sentId' = sentId,
               t = Source => Pushed' = Pointer(t).id /\ Pointer(t).id = Following(Pushed),
               t # Source => Pushed' = Pushed
        PROVE  PacketsInOrder'
    <2>1. Pointer(t) \in Pointers /\ Pointer(t).from = t
      <3>1. Preceding(pktId) \in Ids
        BY IdFacts DEF TypeOK
      <3>2. 0 \in Ids
        BY SizesAssumption DEF Ids
      <3> QED  BY <3>1, <3>2 DEF Pointer, Pointers
    <2>2. CASE t = Source
      BY <1>2, <2>1, <2>2, <1>l, <1>n, AppendPacket
    <2>3. CASE t # Source
      BY <1>2, <2>1, <2>3, <1>l, <1>n, AppendResult
    <2> QED  BY <2>2, <2>3
  <1>3. CASE /\ Line # <<>> /\ Line' = Tail(Line) /\ Pushed' = Pushed
             /\ sentId' = IF Head(Line).from = Source THEN Head(Line).id ELSE sentId
    <2>1. CASE Head(Line).from = Source
      BY <1>3, <2>1, <1>l, <1>n, TailPacket
    <2>2. CASE Head(Line).from # Source
      BY <1>3, <2>2, <1>l, <1>n, TailResult
    <2> QED  BY <2>1, <2>2
  <1> QED
    BY LineSteps, <1>1, <1>2, <1>3 DEF LineStep

\* Packets leave main in the order in which GetLidarData numbered them, none
\* skipped and none twice.
THEOREM PacketsOrdered == Spec => []PacketsInOrder
  BY TypeCorrect, InitOrder, OrderStep, PTL DEF Spec


\* What the roadside unit hears: each packet transmitted is the one numbered
\* after the packet transmitted before it, across the wrap of ids.
SentInOrder == [][sentId' # sentId => sentId' = Following(sentId)]_vars

\* Send transmits the head of the line.
LEMMA SendsFollowing ==
  ASSUME TypeOK, PacketsInOrder, [Next]_vars, sentId' # sentId
  PROVE  sentId' = Following(sentId)
  <1>1. Send
    BY DEF Next, vars, Main, Pusher, MakePacket, RecvResult, RecvFails, Push, WaitForRoom,
       NotifyPop, Pop, WaitForPacket, NotifyPush, SendRaises, Free, Wake
  <1>2. pc[Sender] = "send" /\ held.from = Source /\ sentId' = held.id
    BY <1>1 DEF Send, At
  <1>3. Line = <<held>> \o queue /\ held \in Pointers /\ queue \in Seq(Pointers)
    BY <1>2 DEF Line, TypeOK
  <1>4. Line \in Seq(Pointers) /\ Line # <<>> /\ Head(Line) = held
    BY <1>3
  <1>5. held.id = Following(sentId)
    BY <1>2, <1>4, TailPacket DEF PacketsInOrder
  <1> QED
    BY <1>2, <1>5

\* The ids on the link rise one by one, from the first packet on.
THEOREM SentOneByOne == Spec => SentInOrder
  BY TypeCorrect, PacketsOrdered, SendsFollowing, PTL DEF Spec, SentInOrder

-----------------------------------------------------------------------------
(* The newest datagram is never left behind.                               *)

LEMMA InitPending == Init => NewestResultPending
  BY DEF Init, NewestResultPending

LEMMA PendingStep == TypeOK /\ NewestResultPending /\ [Next]_vars => NewestResultPending'
  <1> SUFFICES ASSUME TypeOK, NewestResultPending, [Next]_vars, NEW t \in Results
               PROVE  relayed'[t] = buffer'[t] \/ Places(t, Line') # {} \/ pc'[t] \in {"enter", "asleep", "ended"}
    BY DEF NewestResultPending
  <1> USE ThreadsAssumption DEF At
  <1>a. t \in Pushers /\ t \in Threads /\ t # Sender /\ t # Source
    BY DEF Pushers, Threads
  <1>t. /\ pc \in [Threads -> Steps] /\ Line \in Seq(Pointers)
        /\ buffer \in [Results -> Ids] /\ relayed \in [Results -> Ids]
    BY LineType DEF TypeOK, Steps
  <1>i. relayed[t] = buffer[t] \/ Places(t, Line) # {} \/ pc[t] \in {"enter", "asleep", "ended"}
    BY DEF NewestResultPending
  <1>1. CASE \E u \in Results : RecvResult(u)
    <2> PICK u \in Results : RecvResult(u)
      BY <1>1
    <2>1. CASE u = t
      BY <2>1, <1>a, <1>t DEF RecvResult, Goto
    <2>2. CASE u # t
      <3>1. pc'[t] = pc[t] /\ buffer'[t] = buffer[t] /\ relayed' = relayed
        BY <2>2, <1>a, <1>t DEF RecvResult, Goto
      <3>2. pc'[Sender] = pc[Sender] /\ queue' = queue /\ held' = held
        BY <1>t DEF RecvResult, Goto
      <3>3. Line' = Line
        BY <3>2 DEF Line
      <3> QED  BY <1>i, <3>1, <3>3
    <2> QED  BY <2>1, <2>2
  <1>2. CASE \E u \in Pushers : Push(u)
    <2> PICK u \in Pushers : Push(u)
      BY <1>2
    <2>1. Line' = Append(Line, Pointer(u)) /\ buffer' = buffer /\ relayed' = relayed
      <3>1. u \in Threads /\ u # Sender /\ queue \in Seq(Pointers)
        BY DEF Pushers, Threads, TypeOK
      <3>2. pc'[Sender] = pc[Sender]
        BY <3>1, <1>t DEF Push, Goto
      <3>3. <<held>> \o Append(queue, Pointer(u)) = Append(<<held>> \o queue, Pointer(u))
        BY <3>1
      <3> QED  BY <3>2, <3>3 DEF Push, Line
    <2>2. Places(t, Line) \subseteq Places(t, Line')
      BY <2>1, <1>t DEF Places
    <2>3. CASE u = t
      <3>1. Len(Line) + 1 \in Places(t, Line')
        BY <2>1, <2>3, <1>t DEF Places, Pointer
      <3> QED  BY <3>1
    <2>4. CASE u # t
      <3>1. pc'[t] = pc[t]
        BY <2>4, <1>a, <1>t DEF Push, Goto
      <3> QED  BY <1>i, <2>1, <2>2, <3>1
    <2> QED  BY <2>3, <2>4
  <1>3. CASE Send
    <2>1. pc'[t] = pc[t] /\ buffer' = buffer
      BY <1>3, <1>a, <1>t DEF Send, Goto
    <2>2. CASE held.from = t
      <3>1. CASE pc[t] = "ended"
        BY <2>1, <3>1
      <3>2. CASE pc[t] # "ended"
        BY <1>3, <2>1, <2>2, <3>2, <1>a, <1>t DEF Send, Readable
      <3> QED  BY <3>1, <3>2
    <2>3. CASE held.from # t
      <3>1. relayed'[t] = relayed[t]
        BY <1>3, <2>3, <1>t DEF Send
      <3>2. Line # <<>> /\ Line' = Tail(Line) /\ Head(Line) = held
        <4>1. queue \in Seq(Pointers) /\ pc[Sender] = "send" /\ pc'[Sender] = "free" /\ queue' = queue
          BY <1>3, <1>t DEF Send, Goto, TypeOK, Threads
        <4>2. Line = <<held>> \o queue /\ Line' = queue
          BY <4>1 DEF Line
        <4> QED  BY <4>1, <4>2
      <3>3. Places(t, Line) # {} => Places(t, Line') # {}
        <4> SUFFICES ASSUME NEW i \in Places(t, Line) PROVE Places(t, Tail(Line)) # {}
          BY <3>2
        <4>1. i # 1 /\ i >= 1 /\ i \in Int
          BY <3>2, <2>3, <1>t, TailPlaces
        <4>2. i - 1 \in Places(t, Tail(Line))
          BY <4>1, <3>2, <1>t, TailPlaces
        <4> QED  BY <4>2
      <3> QED  BY <1>i, <2>1, <3>1, <3>3
    <2> QED  BY <2>2, <2>3
  <1>4. CASE /\ ~\E u \in Results : RecvResult(u)
             /\ ~\E u \in Pushers : Push(u)
             /\ ~Send
    <2>1. buffer' = buffer /\ relayed' = relayed
      BY <1>4 DEF Next, Main, Pusher, MakePacket, RecvFails, WaitForRoom, NotifyPop,
                  Pop, WaitForPacket, NotifyPush, Free, SendRaises, Wake, vars
    <2>2. Line' = Line
      BY <1>4, LineStays
    <2>3. pc[t] \in {"enter", "asleep", "ended"} => pc'[t] \in {"enter", "asleep", "ended"}
      BY <1>4, <1>a, <1>t DEF Next, Main, Pusher, MakePacket, RecvFails, WaitForRoom, NotifyPop,
                  Pop, WaitForPacket, NotifyPush, Free, SendRaises, Wake, Goto, WakeAll, vars
    <2> QED  BY <1>i, <2>1, <2>2, <2>3
  <1> QED
    BY <1>1, <1>2, <1>3, <1>4

\* A datagram overwritten in recv_result's array gives way to a newer one that
\* a queued pointer, or the thread itself, still brings to the link, as long as
\* recv_result has not returned.
THEOREM NewestGoesOut == Spec => []NewestResultPending
  BY TypeCorrect, InitPending, PendingStep, PTL DEF Spec
-----------------------------------------------------------------------------
(* The safety half of PacketsGoOut: the threads never wait for each other. *)

\* Somebody is awake: the packet thread or main, or a notify_all is due.
NeverAllAsleep == \E t \in Threads : pc[t] \notin {"asleep", "ended"}

\* A queue is not full and empty at once, so main and the packet thread do not
\* both wait while no notify_all is on its way, whatever the result thread does.
THEOREM SomebodyAwake == Spec => []NeverAllAsleep
  <1>1. TypeOK /\ NoLostWakeUp => NeverAllAsleep
    <2> SUFFICES ASSUME TypeOK, NoLostWakeUp, pc[Sender] = "asleep", pc[Source] = "asleep"
                 PROVE  \E t \in Threads : pc[t] \notin {"asleep", "ended"}
      BY DEF NeverAllAsleep, TypeOK, Threads, Pushers
    <2>1. ~ HasRoom
      BY DEF NoLostWakeUp, Pushers
    <2>2. queue # <<>>
      BY <2>1, SizesAssumption DEF HasRoom
    <2>3. PICK t \in Pushers : pc[t] = "notify"
      BY <2>2 DEF NoLostWakeUp
    <2> QED
      BY <2>3 DEF Threads
  <1> QED
    BY <1>1, TypeCorrect, WakeUps, PTL
=============================================================================
