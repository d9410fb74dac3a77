-------------------------- MODULE CrossQueueProofs --------------------------
(***************************************************************************)
(* Proofs about the ring for any number of consumers, any ring of three    *)
(* slots or more and any number of puts.                                   *)
(***************************************************************************)
EXTENDS CrossQueue, SequenceTheorems, FiniteSetTheorems, TLAPS

\* Inc walks round the ring (the index arithmetic of put and get).
LEMMA IncValue ==
  \A i \in Slots : Inc(i) = IF i = L - 1 THEN 0 ELSE i + 1
  BY LengthAssumption, SMT DEF Slots, Inc

\* On a ring of three slots or more, Inc stays in the ring, is injective, and
\* two steps of it do not come back.
LEMMA IncFacts ==
  /\ \A i \in Slots : Inc(i) \in Slots /\ Inc(Inc(i)) # i /\ Inc(i) # i
  /\ \A i, j \in Slots : Inc(i) = Inc(j) => i = j
  <1>1. \A i \in Slots : Inc(i) \in Slots
    BY IncValue, LengthAssumption DEF Slots
  <1>2. \A i, j \in Slots : Inc(i) = Inc(j) => i = j
    BY IncValue, LengthAssumption DEF Slots
  <1>3. \A i \in Slots : Inc(Inc(i)) # i /\ Inc(i) # i
    BY <1>1, IncValue, LengthAssumption DEF Slots
  <1> QED  BY <1>1, <1>2, <1>3

\* size() returns a number below max_length.
LEMMA DistanceType ==
  \A f, r \in Slots : Distance(f, r) \in Slots
  BY LengthAssumption, SMT DEF Slots, Distance

-----------------------------------------------------------------------------
\* The step both gets end with keeps the variables typed.
LEMMA AdvanceType ==
  ASSUME TypeOK, NEW c \in Consumers, Advance(c)
  PROVE  TypeOK'
  <1> USE ActorsAssumption, PutsAssumption, LengthAssumption
      DEF TypeOK, Procs, PutLabels, GetLabels, putVars, infoVars, Advance, Taken
  <1>1. front' \in [Consumers -> Slots]
    BY IncFacts
  <1>2. /\ gotData' \in [Consumers -> Cells]
        /\ gotTime' \in [Consumers -> Cells]
    BY DEF Cells
  <1>3. frontLock' \in [Consumers -> Procs \cup {Free}]
    OBVIOUS
  <1>4. /\ out' \in [Consumers -> [data : Cells, time : Cells]]
        /\ pc' \in [Procs -> PutLabels \cup GetLabels]
        /\ pc'[Producer] \in PutLabels
        /\ \A d \in Consumers : pc'[d] \in GetLabels
    <2>1. CASE Deliver(c)
      BY <2>1 DEF Deliver, Goto
    <2>2. CASE Retry(c)
      BY <2>2 DEF Retry, Goto
    <2> QED  BY <2>1, <2>2
  <1> QED
    BY <1>1, <1>2, <1>3, <1>4

\* Every step of put, both gets, gettime and size keeps the variables typed.
LEMMA TypeStep ==
  TypeOK /\ [Next]_vars => TypeOK'
  <1> SUFFICES ASSUME TypeOK, [Next]_vars PROVE TypeOK'
    OBVIOUS
  <1> USE ActorsAssumption, PutsAssumption, LengthAssumption
      DEF TypeOK, Procs, Goto, Step, PutLabels, GetLabels, Cells, Frames, ring, locks,
          putVars, getVars, infoVars
  <1>0. CASE UNCHANGED vars
    BY <1>0 DEF vars
  <1>1. CASE PutCall
    BY <1>1 DEF PutCall
  <1>2. CASE PutLock
    BY <1>2 DEF PutLock, Partial
  <1>3. CASE PutDataBegin
    BY <1>3 DEF PutDataBegin, WriteData, SlotToFill, Partial
  <1>4. CASE PutDataEnd
    BY <1>4 DEF PutDataEnd, WriteData, SlotToFill, Partial
  <1>5. CASE PutTimeBegin
    BY <1>5 DEF PutTimeBegin, WriteTime, SlotToFill, Partial
  <1>6. CASE PutTimeEnd
    BY <1>6 DEF PutTimeEnd, WriteTime, SlotToFill, KeysToVisit, Partial
  <1>7. ASSUME NEW c \in Consumers, PutVisit(c) PROVE TypeOK'
    BY <1>7, IncFacts DEF PutVisit
  <1>8. ASSUME NEW c \in Consumers, PutDropOldest(c) PROVE TypeOK'
    BY <1>8, IncFacts DEF PutDropOldest, LeaveKey, KeysAfter, FullFor, Dropped
  <1>9. ASSUME NEW c \in Consumers, PutKeepOldest(c) PROVE TypeOK'
    BY <1>9, IncFacts DEF PutKeepOldest, LeaveKey, KeysAfter, FullFor
  <1>10. CASE PutPublish
    BY <1>10, IncFacts DEF PutPublish
  <1>11. ASSUME NEW c \in Consumers, GetCall(c) PROVE TypeOK'
    BY <1>11, SMTT(30) DEF GetCall, Slots
  <1>12. ASSUME NEW c \in Consumers, SizeCall(c) PROVE TypeOK'
    BY <1>12 DEF SizeCall
  <1>13. ASSUME NEW c \in Consumers, EmptyLockRear(c) PROVE TypeOK'
    BY <1>13 DEF EmptyLockRear, LockRear
  <1>14. ASSUME NEW c \in Consumers, EmptyLockFront(c) PROVE TypeOK'
    BY <1>14 DEF EmptyLockFront, LockFront
  <1>15. ASSUME NEW c \in Consumers, EmptyReturn(c) PROVE TypeOK'
    <2>1. PICK label \in {"poll", "getLock", "rawData"} : Goto(c, label)
      BY <1>15 DEF EmptyReturn, EmptyAt, ReleaseBoth
    <2> QED
      BY <1>15, <2>1 DEF EmptyReturn, EmptyAt, ReleaseBoth
  <1>16. ASSUME NEW c \in Consumers, GetLock(c) PROVE TypeOK'
    BY <1>16 DEF GetLock, LockFront
  <1>17. ASSUME NEW c \in Consumers, GetData(c) PROVE TypeOK'
    BY <1>17 DEF GetData, ReadData
  <1>18. ASSUME NEW c \in Consumers, GetTime(c) PROVE TypeOK'
    BY <1>18 DEF GetTime, ReadTime
  <1>19. ASSUME NEW c \in Consumers, GetNext(c) PROVE TypeOK'
    BY <1>19, AdvanceType DEF GetNext
  <1>20. ASSUME NEW c \in Consumers, RawData(c) PROVE TypeOK'
    BY <1>20 DEF RawData, ReadData
  <1>21. ASSUME NEW c \in Consumers, RawTime(c) PROVE TypeOK'
    BY <1>21 DEF RawTime, ReadTime, RawSlot
  <1>22. ASSUME NEW c \in Consumers, GetRaise(c) PROVE TypeOK'
    <2>1. CASE pc[c] = "getData" /\ pc' = [pc EXCEPT ![c] = "raised"]
      BY <1>22, <2>1 DEF GetRaise
    <2>2. CASE pc[c] \in {"rawData", "rawTime"} /\ pc' = [pc EXCEPT ![c] = "dead"]
      BY <1>22, <2>2 DEF GetRaise
    <2> QED
      BY <1>22, <2>1, <2>2 DEF GetRaise
  <1>23. ASSUME NEW c \in Consumers, RawLock(c) PROVE TypeOK'
    BY <1>23 DEF RawLock, LockFront
  <1>24. ASSUME NEW c \in Consumers, RawNext(c) PROVE TypeOK'
    BY <1>24, AdvanceType DEF RawNext
  <1>25. ASSUME NEW c \in Consumers, TopLockRear(c) PROVE TypeOK'
    BY <1>25 DEF TopLockRear, LockRear
  <1>26. ASSUME NEW c \in Consumers, TopLockFront(c) PROVE TypeOK'
    BY <1>26 DEF TopLockFront, LockFront
  <1>27. ASSUME NEW c \in Consumers, TopRead(c) PROVE TypeOK'
    BY <1>27, IncFacts DEF TopRead
  <1>28. ASSUME NEW c \in Consumers, TopReturn(c) PROVE TypeOK'
    BY <1>28 DEF TopReturn, ReleaseBoth, MaxTop
  <1>29. ASSUME NEW c \in Consumers, SizeFront(c) PROVE TypeOK'
    BY <1>29 DEF SizeFront
  <1>30. ASSUME NEW c \in Consumers, SizeRear(c) PROVE TypeOK'
    BY <1>30, DistanceType DEF SizeRear, SizeSeen
  <1>31. ASSUME NEW c \in Consumers, NEW k \in 1..MaxTop, GetTimeCall(c, k) PROVE TypeOK'
    BY <1>31 DEF GetTimeCall, MaxTop
  <1> QED
    BY <1>0, <1>1, <1>2, <1>3, <1>4, <1>5, <1>6, <1>7, <1>8, <1>9, <1>10, <1>11, <1>12, <1>13, <1>14, <1>15, <1>16, <1>17, <1>18, <1>19, <1>20, <1>21, <1>22, <1>23, <1>24, <1>25, <1>26, <1>27, <1>28, <1>29, <1>30, <1>31 DEF Next, Put, Call, Consume

\* Type correctness of the ring and its users.
THEOREM TypeCorrect == Spec => []TypeOK
  <1>1. Init => TypeOK
    BY LengthAssumption, ActorsAssumption, PutsAssumption
    DEF Init, TypeOK, Slots, Procs, Cells, Frames, PutLabels, GetLabels, MaxTop
  <1> QED
    BY <1>1, TypeStep, PTL DEF Spec

-----------------------------------------------------------------------------
\* Every step keeps the semaphores' owners in agreement with the steps the
\* processes are at.
LEMMA SemaphoresStep ==
  TypeOK /\ SemaphoresHeld /\ [Next]_vars => SemaphoresHeld'
  <1> SUFFICES ASSUME TypeOK /\ SemaphoresHeld, [Next]_vars PROVE SemaphoresHeld'
    OBVIOUS
  <1> USE ActorsAssumption DEF TypeOK, SemaphoresHeld, Procs, Goto, Step, PutLabels, GetLabels,
         RearHeld, FrontHeld, ring, locks, putVars, getVars, infoVars
  <1>0. CASE UNCHANGED vars
    BY <1>0 DEF vars
  <1>1. CASE PutCall
    BY <1>1 DEF PutCall
  <1>2. CASE PutLock
    BY <1>2 DEF PutLock
  <1>3. CASE PutDataBegin
    BY <1>3 DEF PutDataBegin, WriteData, SlotToFill
  <1>4. CASE PutDataEnd
    BY <1>4 DEF PutDataEnd, WriteData, SlotToFill
  <1>5. CASE PutTimeBegin
    BY <1>5 DEF PutTimeBegin, WriteTime, SlotToFill
  <1>6. CASE PutTimeEnd
    BY <1>6 DEF PutTimeEnd, WriteTime, SlotToFill, KeysToVisit
  <1>7. CASE PutPublish
    BY <1>7 DEF PutPublish
  <1>8. ASSUME NEW c \in Consumers, PutVisit(c) PROVE SemaphoresHeld'
    BY <1>8 DEF PutVisit
  <1>9. ASSUME NEW c \in Consumers, PutDropOldest(c) PROVE SemaphoresHeld'
    BY <1>9 DEF PutDropOldest, LeaveKey, KeysAfter, FullFor, Dropped
  <1>10. ASSUME NEW c \in Consumers, PutKeepOldest(c) PROVE SemaphoresHeld'
    BY <1>10 DEF PutKeepOldest, LeaveKey, KeysAfter, FullFor
  <1>11. ASSUME NEW c \in Consumers, GetCall(c) PROVE SemaphoresHeld'
    BY <1>11 DEF GetCall
  <1>12. ASSUME NEW c \in Consumers, SizeCall(c) PROVE SemaphoresHeld'
    BY <1>12 DEF SizeCall
  <1>13. ASSUME NEW c \in Consumers, EmptyLockRear(c) PROVE SemaphoresHeld'
    BY <1>13 DEF EmptyLockRear, LockRear
  <1>14. ASSUME NEW c \in Consumers, EmptyLockFront(c) PROVE SemaphoresHeld'
    BY <1>14 DEF EmptyLockFront, LockFront
  <1>15. ASSUME NEW c \in Consumers, EmptyReturn(c) PROVE SemaphoresHeld'
    <2>1. PICK label \in {"poll", "getLock", "rawData"} : Goto(c, label)
      BY <1>15 DEF EmptyReturn, EmptyAt, ReleaseBoth
    <2> QED
      BY <1>15, <2>1 DEF EmptyReturn, EmptyAt, ReleaseBoth
  <1>16. ASSUME NEW c \in Consumers, GetLock(c) PROVE SemaphoresHeld'
    BY <1>16 DEF GetLock, LockFront
  <1>17. ASSUME NEW c \in Consumers, GetData(c) PROVE SemaphoresHeld'
    BY <1>17 DEF GetData, ReadData
  <1>18. ASSUME NEW c \in Consumers, GetTime(c) PROVE SemaphoresHeld'
    BY <1>18 DEF GetTime, ReadTime
  <1>19. ASSUME NEW c \in Consumers, GetNext(c) PROVE SemaphoresHeld'
    BY <1>19 DEF GetNext, Advance, Taken, Deliver, Retry
  <1>20. ASSUME NEW c \in Consumers, RawData(c) PROVE SemaphoresHeld'
    BY <1>20 DEF RawData, ReadData
  <1>21. ASSUME NEW c \in Consumers, RawTime(c) PROVE SemaphoresHeld'
    BY <1>21 DEF RawTime, ReadTime, RawSlot
  <1>22. ASSUME NEW c \in Consumers, GetRaise(c) PROVE SemaphoresHeld'
    <2>1. CASE pc[c] = "getData" /\ pc' = [pc EXCEPT ![c] = "raised"]
      BY <1>22, <2>1 DEF GetRaise
    <2>2. CASE pc[c] \in {"rawData", "rawTime"} /\ pc' = [pc EXCEPT ![c] = "dead"]
      BY <1>22, <2>2 DEF GetRaise
    <2> QED
      BY <1>22, <2>1, <2>2 DEF GetRaise
  <1>23. ASSUME NEW c \in Consumers, RawLock(c) PROVE SemaphoresHeld'
    BY <1>23 DEF RawLock, LockFront
  <1>24. ASSUME NEW c \in Consumers, RawNext(c) PROVE SemaphoresHeld'
    BY <1>24 DEF RawNext, Advance, Taken, Deliver, Retry
  <1>25. ASSUME NEW c \in Consumers, TopLockRear(c) PROVE SemaphoresHeld'
    BY <1>25 DEF TopLockRear, LockRear
  <1>26. ASSUME NEW c \in Consumers, TopLockFront(c) PROVE SemaphoresHeld'
    BY <1>26 DEF TopLockFront, LockFront
  <1>27. ASSUME NEW c \in Consumers, TopRead(c) PROVE SemaphoresHeld'
    BY <1>27 DEF TopRead
  <1>28. ASSUME NEW c \in Consumers, TopReturn(c) PROVE SemaphoresHeld'
    BY <1>28 DEF TopReturn, ReleaseBoth
  <1>29. ASSUME NEW c \in Consumers, SizeFront(c) PROVE SemaphoresHeld'
    BY <1>29 DEF SizeFront
  <1>30. ASSUME NEW c \in Consumers, SizeRear(c) PROVE SemaphoresHeld'
    BY <1>30 DEF SizeRear, SizeSeen
  <1>31. ASSUME NEW c \in Consumers, NEW k \in 1..MaxTop, GetTimeCall(c, k) PROVE SemaphoresHeld'
    BY <1>31 DEF GetTimeCall
  <1> QED
    BY <1>0, <1>1, <1>2, <1>3, <1>4, <1>5, <1>6, <1>7, <1>8, <1>9, <1>10, <1>11, <1>12, <1>13, <1>14, <1>15, <1>16, <1>17, <1>18, <1>19, <1>20, <1>21, <1>22, <1>23, <1>24, <1>25, <1>26, <1>27, <1>28, <1>29, <1>30, <1>31 DEF Next, Put, Call, Consume

\* The front words are known, unread and clear of the slot being filled.
FrontsSafe == FrontKnown /\ RoomMade /\ GetKind /\ FoundFrameStays

\* Every step keeps FrontsSafe.  The drop moves a front word two slots past
\* the rear, so it never empties the ring; a get never passes the rear.
LEMMA FrontsStep ==
  TypeOK /\ SemaphoresHeld /\ FrontsSafe /\ [Next]_vars => FrontsSafe'
  <1> SUFFICES ASSUME TypeOK /\ SemaphoresHeld /\ FrontsSafe, [Next]_vars PROVE FrontsSafe'
    OBVIOUS
  <1> USE ActorsAssumption DEF TypeOK, SemaphoresHeld, FrontsSafe, FrontKnown, RoomMade,
         GetKind, FoundFrameStays, LockedGet, RawGet, Procs, Goto, Step, FrontHeld,
         ring, locks, putVars, getVars, infoVars
  <1>0. CASE UNCHANGED vars
    BY <1>0 DEF vars
  <1>1. CASE PutCall
    BY <1>1, IncFacts DEF PutCall
  <1>2. CASE PutLock
    BY <1>2, IncFacts DEF PutLock
  <1>3. CASE PutDataBegin
    BY <1>3, IncFacts DEF PutDataBegin, WriteData, SlotToFill
  <1>4. CASE PutDataEnd
    BY <1>4, IncFacts DEF PutDataEnd, WriteData, SlotToFill
  <1>5. CASE PutTimeBegin
    BY <1>5, IncFacts DEF PutTimeBegin, WriteTime, SlotToFill
  <1>6. CASE PutTimeEnd
    BY <1>6, IncFacts DEF PutTimeEnd, WriteTime, SlotToFill, KeysToVisit
  <1>7. CASE PutPublish
    BY <1>7, IncFacts DEF PutPublish
  <1>8. ASSUME NEW c \in Consumers, PutVisit(c) PROVE FrontsSafe'
    BY <1>8, IncFacts DEF PutVisit
  <1>9. ASSUME NEW c \in Consumers, PutDropOldest(c) PROVE FrontsSafe'
    BY <1>9, IncFacts DEF PutDropOldest, LeaveKey, KeysAfter, FullFor, Dropped
  <1>10. ASSUME NEW c \in Consumers, PutKeepOldest(c) PROVE FrontsSafe'
    BY <1>10, IncFacts DEF PutKeepOldest, LeaveKey, KeysAfter, FullFor
  <1>11. ASSUME NEW c \in Consumers, GetCall(c) PROVE FrontsSafe'
    BY <1>11, IncFacts DEF GetCall
  <1>12. ASSUME NEW c \in Consumers, SizeCall(c) PROVE FrontsSafe'
    BY <1>12, IncFacts DEF SizeCall
  <1>13. ASSUME NEW c \in Consumers, EmptyLockRear(c) PROVE FrontsSafe'
    BY <1>13, IncFacts DEF EmptyLockRear, LockRear
  <1>14. ASSUME NEW c \in Consumers, EmptyLockFront(c) PROVE FrontsSafe'
    BY <1>14, IncFacts DEF EmptyLockFront, LockFront
  <1>15. ASSUME NEW c \in Consumers, EmptyReturn(c) PROVE FrontsSafe'
    <2>1. CASE rear = cFront[c] /\ Goto(c, "poll")
      BY <1>15, <2>1 DEF EmptyReturn, EmptyAt, ReleaseBoth
    <2>2. CASE rear # cFront[c] /\ c \notin Unlocked /\ Goto(c, "getLock")
      BY <1>15, <2>2 DEF EmptyReturn, EmptyAt, ReleaseBoth
    <2>3. CASE rear # cFront[c] /\ c \in Unlocked /\ Goto(c, "rawData")
      BY <1>15, <2>3 DEF EmptyReturn, EmptyAt, ReleaseBoth
    <2> QED
      BY <1>15, <2>1, <2>2, <2>3 DEF EmptyReturn, EmptyAt, ReleaseBoth
  <1>16. ASSUME NEW c \in Consumers, GetLock(c) PROVE FrontsSafe'
    BY <1>16, IncFacts DEF GetLock, LockFront
  <1>17. ASSUME NEW c \in Consumers, GetData(c) PROVE FrontsSafe'
    BY <1>17, IncFacts DEF GetData, ReadData
  <1>18. ASSUME NEW c \in Consumers, GetTime(c) PROVE FrontsSafe'
    BY <1>18, IncFacts DEF GetTime, ReadTime
  <1>19. ASSUME NEW c \in Consumers, GetNext(c) PROVE FrontsSafe'
    BY <1>19, IncFacts DEF GetNext, Advance, Taken, Deliver, Retry
  <1>20. ASSUME NEW c \in Consumers, RawData(c) PROVE FrontsSafe'
    BY <1>20, IncFacts DEF RawData, ReadData
  <1>21. ASSUME NEW c \in Consumers, RawTime(c) PROVE FrontsSafe'
    BY <1>21, IncFacts DEF RawTime, ReadTime, RawSlot
  <1>22. ASSUME NEW c \in Consumers, GetRaise(c) PROVE FrontsSafe'
    <2>1. CASE pc[c] = "getData" /\ pc' = [pc EXCEPT ![c] = "raised"]
      BY <1>22, <2>1, IncFacts DEF GetRaise
    <2>2. CASE pc[c] \in {"rawData", "rawTime"} /\ pc' = [pc EXCEPT ![c] = "dead"]
      BY <1>22, <2>2, IncFacts DEF GetRaise
    <2> QED
      BY <1>22, <2>1, <2>2 DEF GetRaise
  <1>23. ASSUME NEW c \in Consumers, RawLock(c) PROVE FrontsSafe'
    BY <1>23, IncFacts DEF RawLock, LockFront
  <1>24. ASSUME NEW c \in Consumers, RawNext(c) PROVE FrontsSafe'
    BY <1>24, IncFacts DEF RawNext, Advance, Taken, Deliver, Retry
  <1>25. ASSUME NEW c \in Consumers, TopLockRear(c) PROVE FrontsSafe'
    BY <1>25, IncFacts DEF TopLockRear, LockRear
  <1>26. ASSUME NEW c \in Consumers, TopLockFront(c) PROVE FrontsSafe'
    BY <1>26, IncFacts DEF TopLockFront, LockFront
  <1>27. ASSUME NEW c \in Consumers, TopRead(c) PROVE FrontsSafe'
    BY <1>27, IncFacts DEF TopRead
  <1>28. ASSUME NEW c \in Consumers, TopReturn(c) PROVE FrontsSafe'
    BY <1>28, IncFacts DEF TopReturn, ReleaseBoth
  <1>29. ASSUME NEW c \in Consumers, SizeFront(c) PROVE FrontsSafe'
    BY <1>29, IncFacts DEF SizeFront
  <1>30. ASSUME NEW c \in Consumers, SizeRear(c) PROVE FrontsSafe'
    BY <1>30, IncFacts DEF SizeRear, SizeSeen
  <1>31. ASSUME NEW c \in Consumers, NEW k \in 1..MaxTop, GetTimeCall(c, k) PROVE FrontsSafe'
    BY <1>31, IncFacts DEF GetTimeCall
  <1> QED
    BY <1>0, <1>1, <1>2, <1>3, <1>4, <1>5, <1>6, <1>7, <1>8, <1>9, <1>10, <1>11, <1>12, <1>13, <1>14, <1>15, <1>16, <1>17, <1>18, <1>19, <1>20, <1>21, <1>22, <1>23, <1>24, <1>25, <1>26, <1>27, <1>28, <1>29, <1>30, <1>31 DEF Next, Put, Call, Consume

\* Segments and what has been read of them agree.
BytesSafe == SlotsWhole /\ DataPut /\ BytesRead /\ NoTornFrame

\* Every step keeps BytesSafe: put writes the slot at the rear only, and no
\* consumer that is reading under its semaphore reads that slot.
LEMMA BytesStep ==
  TypeOK /\ SemaphoresHeld /\ FrontsSafe /\ BytesSafe /\ [Next]_vars => BytesSafe'
  <1> SUFFICES ASSUME TypeOK /\ SemaphoresHeld /\ FrontsSafe /\ BytesSafe, [Next]_vars PROVE BytesSafe'
    OBVIOUS
  <1> USE ActorsAssumption DEF TypeOK, SemaphoresHeld, FrontsSafe, FrontKnown, GetKind,
         FoundFrameStays, LockedGet, RawGet, BytesSafe, SlotsWhole, DataPut, BytesRead,
         NoTornFrame, Procs, Goto, Step, FrontHeld, ring, locks, putVars, getVars, infoVars
  <1>0. CASE UNCHANGED vars
    BY <1>0 DEF vars
  <1>1. CASE PutCall
    BY <1>1 DEF PutCall
  <1>2. CASE PutLock
    BY <1>2 DEF PutLock
  <1>3. CASE PutDataBegin
    BY <1>3 DEF PutDataBegin, WriteData, SlotToFill
  <1>4. CASE PutDataEnd
    BY <1>4 DEF PutDataEnd, WriteData, SlotToFill
  <1>5. CASE PutTimeBegin
    BY <1>5 DEF PutTimeBegin, WriteTime, SlotToFill
  <1>6. CASE PutTimeEnd
    <2>1. data[rear] = puts
      BY <1>6 DEF PutTimeEnd, WriteTime, SlotToFill, KeysToVisit, DataPut
    <2>2. puts # Partial
      BY PutsAssumption DEF Partial
    <2> QED
      BY <1>6, <2>1, <2>2 DEF PutTimeEnd, WriteTime, SlotToFill, KeysToVisit
  <1>7. CASE PutPublish
    BY <1>7 DEF PutPublish
  <1>8. ASSUME NEW c \in Consumers, PutVisit(c) PROVE BytesSafe'
    BY <1>8 DEF PutVisit
  <1>9. ASSUME NEW c \in Consumers, PutDropOldest(c) PROVE BytesSafe'
    BY <1>9 DEF PutDropOldest, LeaveKey, KeysAfter, FullFor, Dropped
  <1>10. ASSUME NEW c \in Consumers, PutKeepOldest(c) PROVE BytesSafe'
    BY <1>10 DEF PutKeepOldest, LeaveKey, KeysAfter, FullFor
  <1>11. ASSUME NEW c \in Consumers, GetCall(c) PROVE BytesSafe'
    BY <1>11 DEF GetCall
  <1>12. ASSUME NEW c \in Consumers, SizeCall(c) PROVE BytesSafe'
    BY <1>12 DEF SizeCall
  <1>13. ASSUME NEW c \in Consumers, EmptyLockRear(c) PROVE BytesSafe'
    BY <1>13 DEF EmptyLockRear, LockRear
  <1>14. ASSUME NEW c \in Consumers, EmptyLockFront(c) PROVE BytesSafe'
    BY <1>14 DEF EmptyLockFront, LockFront
  <1>15. ASSUME NEW c \in Consumers, EmptyReturn(c) PROVE BytesSafe'
    BY <1>15 DEF EmptyReturn, EmptyAt, ReleaseBoth
  <1>16. ASSUME NEW c \in Consumers, GetLock(c) PROVE BytesSafe'
    BY <1>16 DEF GetLock, LockFront
  <1>17. ASSUME NEW c \in Consumers, GetData(c) PROVE BytesSafe'
    BY <1>17 DEF GetData, ReadData
  <1>18. ASSUME NEW c \in Consumers, GetTime(c) PROVE BytesSafe'
    BY <1>18 DEF GetTime, ReadTime
  <1>19. ASSUME NEW c \in Consumers, GetNext(c) PROVE BytesSafe'
    <2>1. CASE Deliver(c)
      BY <1>19, <2>1 DEF GetNext, Advance, Taken, Deliver
    <2>2. CASE Retry(c)
      BY <1>19, <2>2 DEF GetNext, Advance, Taken, Retry
    <2> QED
      BY <1>19, <2>1, <2>2 DEF GetNext, Advance, Taken
  <1>20. ASSUME NEW c \in Consumers, RawData(c) PROVE BytesSafe'
    BY <1>20 DEF RawData, ReadData
  <1>21. ASSUME NEW c \in Consumers, RawTime(c) PROVE BytesSafe'
    BY <1>21 DEF RawTime, ReadTime, RawSlot
  <1>22. ASSUME NEW c \in Consumers, GetRaise(c) PROVE BytesSafe'
    BY <1>22 DEF GetRaise
  <1>23. ASSUME NEW c \in Consumers, RawLock(c) PROVE BytesSafe'
    BY <1>23 DEF RawLock, LockFront
  <1>24. ASSUME NEW c \in Consumers, RawNext(c) PROVE BytesSafe'
    <2>1. CASE Deliver(c)
      BY <1>24, <2>1 DEF RawNext, Advance, Taken, Deliver
    <2>2. CASE Retry(c)
      BY <1>24, <2>2 DEF RawNext, Advance, Taken, Retry
    <2> QED
      BY <1>24, <2>1, <2>2 DEF RawNext, Advance
  <1>25. ASSUME NEW c \in Consumers, TopLockRear(c) PROVE BytesSafe'
    BY <1>25 DEF TopLockRear, LockRear
  <1>26. ASSUME NEW c \in Consumers, TopLockFront(c) PROVE BytesSafe'
    BY <1>26 DEF TopLockFront, LockFront
  <1>27. ASSUME NEW c \in Consumers, TopRead(c) PROVE BytesSafe'
    BY <1>27 DEF TopRead
  <1>28. ASSUME NEW c \in Consumers, TopReturn(c) PROVE BytesSafe'
    BY <1>28 DEF TopReturn, ReleaseBoth
  <1>29. ASSUME NEW c \in Consumers, SizeFront(c) PROVE BytesSafe'
    BY <1>29 DEF SizeFront
  <1>30. ASSUME NEW c \in Consumers, SizeRear(c) PROVE BytesSafe'
    BY <1>30 DEF SizeRear, SizeSeen
  <1>31. ASSUME NEW c \in Consumers, NEW k \in 1..MaxTop, GetTimeCall(c, k) PROVE BytesSafe'
    BY <1>31 DEF GetTimeCall
  <1> QED
    BY <1>0, <1>1, <1>2, <1>3, <1>4, <1>5, <1>6, <1>7, <1>8, <1>9, <1>10, <1>11, <1>12, <1>13, <1>14, <1>15, <1>16, <1>17, <1>18, <1>19, <1>20, <1>21, <1>22, <1>23, <1>24, <1>25, <1>26, <1>27, <1>28, <1>29, <1>30, <1>31 DEF Next, Put, Call, Consume

\* The strengthened invariant of the ring.
THEOREM RingSafe == Spec => []RingInv
  <1>1. Init => SemaphoresHeld /\ FrontsSafe /\ BytesSafe
    BY ActorsAssumption
    DEF Init, SemaphoresHeld, FrontsSafe, FrontKnown, RoomMade, GetKind,
        FoundFrameStays, LockedGet, RawGet, BytesSafe, SlotsWhole, DataPut,
        BytesRead, NoTornFrame, Procs, RearHeld, FrontHeld, Partial
  <1>2. SemaphoresHeld /\ FrontsSafe /\ BytesSafe => RingInv
    BY DEF RingInv, FrontsSafe, BytesSafe
  <1> QED
    BY <1>1, <1>2, TypeCorrect, SemaphoresStep, FrontsStep, BytesStep, PTL DEF Spec

\* InferQueue.get never pairs the data of one frame with the timestamp of
\* another, on any ring with any consumers beside it.
THEOREM FramesAreWhole == Spec => []NoTornFrame
  <1>1. RingInv => NoTornFrame
    BY DEF RingInv
  <1> QED
    BY <1>1, RingSafe, PTL

\* What isEmpty has seen stays true until the consumer itself takes a frame.
THEOREM FoundFramesStay == Spec => []FoundFrameStays
  <1>1. RingInv => FoundFrameStays
    BY DEF RingInv
  <1> QED
    BY <1>1, RingSafe, PTL

\* Nobody waits in a circle, for any number of consumers (put, isEmpty, get,
\* gettime and size take the rear semaphore before a front one, and put gives
\* up one front semaphore before it takes the next).
THEOREM NobodyWaitsInCircle == Spec => []NoCircularWait
  <1>1. TypeOK /\ RingInv => NoCircularWait
    <2> SUFFICES ASSUME TypeOK, RingInv PROVE NoCircularWait
      OBVIOUS
    <2> USE ActorsAssumption DEF TypeOK, Procs
    <2> DEFINE Waiting == AwaitsRear \cup AwaitsFront \cup {"visit"}
    <2>1. ASSUME NEW p \in Procs, NEW q \in Blockers(p)
          PROVE  /\ pc[p] \in Waiting
                 /\ \/ rearLock = q /\ pc[p] \in AwaitsRear
                    \/ pc[q] \in FrontHeld \cup {"ifFull"}
      <3>1. pc[p] \in Waiting
        BY <2>1 DEF Blockers
      <3>2. CASE rearLock = q /\ pc[p] \in AwaitsRear
        BY <3>1, <3>2
      <3>3. CASE pc[p] \in AwaitsFront /\ frontLock[p] = q
        <4>1. p \in Consumers
          BY <3>3 DEF AwaitsFront, PutLabels
        <4>2. q = p \/ q = Producer
          BY <2>1, <3>3, <4>1 DEF RingInv, SemaphoresHeld, Blockers
        <4> QED
          BY <3>1, <3>3, <4>1, <4>2 DEF RingInv, SemaphoresHeld
      <3>4. CASE pc[p] = "visit" /\ \E c \in todo : frontLock[c] = q
        BY <2>1, <3>1, <3>4 DEF RingInv, SemaphoresHeld, Blockers
      <3> QED
        BY <2>1, <3>2, <3>3, <3>4 DEF Blockers
    <2>2. ASSUME NEW p \in Procs, NEW q \in Blockers(p)
          PROVE  q \in Procs /\ pc[q] \in RearHeld \cup FrontHeld
      BY <2>1, <2>2 DEF RingInv, SemaphoresHeld, Blockers, RearHeld
    <2>3. ASSUME NEW p \in Procs, NEW q \in Blockers(p), NEW r \in Blockers(q)
          PROVE  Blockers(r) = {}
      <3>1. q \in Procs /\ r \in Procs
        BY <2>2
      <3>2. pc[q] \in RearHeld /\ pc[q] \in Waiting
        BY <2>1, <2>2, <3>1 DEF FrontHeld, AwaitsRear, AwaitsFront, RearHeld
      <3>3. pc[r] \in FrontHeld \cup {"ifFull"}
        BY <2>1, <3>1, <3>2 DEF RearHeld, AwaitsRear
      <3>4. pc[r] \notin Waiting
        BY <3>3 DEF FrontHeld, AwaitsRear, AwaitsFront
      <3> QED
        BY <2>1, <3>1, <3>4
    <2> QED
      BY <2>2, <2>3 DEF NoCircularWait, RearHeld, FrontHeld
  <1> QED
    BY <1>1, TypeCorrect, RingSafe, PTL

-----------------------------------------------------------------------------
(* The slots are numbered backwards from the rear.                        *)

\* The frames from a front to a rear, counted round the ring.
LEMMA DistanceValue ==
  \A f, r \in Slots : Distance(f, r) = IF f <= r THEN r - f ELSE r - f + L
  BY LengthAssumption, SMT DEF Slots, Distance

\* It is a natural number.
LEMMA DistanceNat == \A f, r \in Slots : Distance(f, r) \in Nat
  BY DistanceType, LengthAssumption DEF Slots

\* How it changes when front or rear moves on; a full ring.
LEMMA DistanceFacts ==
  ASSUME NEW f \in Slots, NEW r \in Slots
  PROVE  /\ Distance(f, r) \in Slots
         /\ Distance(f, r) = 0 <=> f = r
         /\ f # r => Distance(Inc(f), r) = Distance(f, r) - 1
         /\ f # Inc(r) => Distance(f, Inc(r)) = Distance(f, r) + 1
         /\ f = Inc(r) => Distance(f, r) = L - 1
  <1>1. /\ Distance(f, r) \in Slots
        /\ Distance(f, r) = 0 <=> f = r
    BY DistanceValue, LengthAssumption DEF Slots
  <1>2. ASSUME f # r PROVE  Distance(Inc(f), r) = Distance(f, r) - 1
    <2>1. Inc(f) \in Slots /\ Inc(f) = IF f = L - 1 THEN 0 ELSE f + 1
      BY IncValue, IncFacts
    <2> DEFINE g == Inc(f)
    <2>2. Distance(g, r) = IF g <= r THEN r - g ELSE r - g + L
      BY <2>1, DistanceValue
    <2>3. Distance(f, r) = IF f <= r THEN r - f ELSE r - f + L
      BY DistanceValue
    <2> HIDE DEF g
    <2>4. g = IF f = L - 1 THEN 0 ELSE f + 1
      BY <2>1 DEF g
    <2>5. Distance(g, r) = Distance(f, r) - 1
      BY <1>2, <2>2, <2>3, <2>4, LengthAssumption DEF Slots
    <2> QED  BY <2>5 DEF g
  <1>3. ASSUME f # Inc(r) PROVE  Distance(f, Inc(r)) = Distance(f, r) + 1
    <2> DEFINE g == Inc(r)
    <2>1. g \in Slots /\ g = (IF r = L - 1 THEN 0 ELSE r + 1) /\ f # g
      BY <1>3, IncValue, IncFacts
    <2> HIDE DEF g
    <2>2. Distance(f, g) = IF f <= g THEN g - f ELSE g - f + L
      BY <2>1, DistanceValue
    <2>3. Distance(f, r) = IF f <= r THEN r - f ELSE r - f + L
      BY DistanceValue
    <2>4. Distance(f, g) = Distance(f, r) + 1
      BY <2>1, <2>2, <2>3, LengthAssumption DEF Slots
    <2> QED  BY <2>4 DEF g
  <1>4. ASSUME f = Inc(r) PROVE  Distance(f, r) = L - 1
    <2>1. f = IF r = L - 1 THEN 0 ELSE r + 1
      BY <1>4, IncValue
    <2>2. Distance(f, r) = IF f <= r THEN r - f ELSE r - f + L
      BY DistanceValue
    <2> QED  BY <2>1, <2>2, LengthAssumption DEF Slots
  <1> QED
    BY <1>1, <1>2, <1>3, <1>4

\* Where the i-th frame from a front lies.
LEMMA SlotOf ==
  ASSUME NEW f \in Slots, NEW r \in Slots, NEW i \in 1..Distance(f, r)
  PROVE  /\ (f + i - 1) % L \in Slots \ {r}
         /\ Distance((f + i - 1) % L, r) = Distance(f, r) + 1 - i
  <1> DEFINE s == (f + i - 1) % L
  <1>1. Distance(f, r) \in Slots /\ Distance(f, r) = IF f <= r THEN r - f ELSE r - f + L
    BY DistanceFacts, DistanceValue
  <1>2. i \in Int /\ i >= 1 /\ i <= Distance(f, r) /\ i < L
    BY <1>1, LengthAssumption DEF Slots
  <1>3. s = IF f + i - 1 < L THEN f + i - 1 ELSE f + i - 1 - L
    BY <1>2, LengthAssumption, SMT DEF Slots
  <1> HIDE DEF s
  <1>4. s \in Slots \ {r}
    BY <1>1, <1>2, <1>3, LengthAssumption DEF Slots
  <1>5. Distance(s, r) = IF s <= r THEN r - s ELSE r - s + L
    BY <1>4, DistanceValue
  <1>6. Distance(s, r) = Distance(f, r) + 1 - i
    BY <1>1, <1>2, <1>3, <1>4, <1>5, LengthAssumption DEF Slots
  <1> QED  BY <1>4, <1>6 DEF s

\* The number of frames that the rear word accounts for.
Published == IF pc[Producer] = "idle" THEN puts ELSE puts - 1

\* Every slot but the one at the rear holds the newest frame of its place: the
\* one put that many frames ago as it lies behind the rear; or nothing yet.
Numbered ==
  \A s \in Slots \ {rear} :
    data[s] = IF Distance(s, rear) <= Published THEN Published + 1 - Distance(s, rear) ELSE 0

\* What put has written is the frame it was called with.
RearWritten ==
  /\ pc[Producer] # "idle" => puts >= 1
  /\ pc[Producer] \in {"timeBegin", "timeEnd", "visit", "ifFull"} => data[rear] = puts

\* No consumer has more frames before it than were put.
FrontsBehind == \A c \in Consumers : Distance(front[c], rear) <= Published

NumberInv == Numbered /\ RearWritten /\ FrontsBehind

\* A consumer moves no word but its own front, when it has taken a frame.
LEMMA ConsumerLeavesRing ==
  ASSUME TypeOK, NEW c \in Consumers, Call(c) \/ Consume(c)
  PROVE  /\ UNCHANGED <<data, time, rear, puts, todo>>
         /\ pc'[Producer] = pc[Producer]
         /\ \/ UNCHANGED front
            \/ /\ GetNext(c) \/ RawNext(c)
               /\ front' = [front EXCEPT ![c] = Inc(cFront[c])]
         /\ \A d \in Consumers \ {c} :
              /\ pc'[d] = pc[d] /\ cFront'[d] = cFront[d]
              /\ gotData'[d] = gotData[d] /\ gotTime'[d] = gotTime[d] /\ out'[d] = out[d]
              /\ sized'[d] = sized[d] /\ want'[d] = want[d] /\ times'[d] = times[d]
  <1> USE ActorsAssumption DEF TypeOK, Procs, Goto, Step, ring, locks, putVars, getVars, infoVars
  <1>1. CASE GetCall(c) \/ SizeCall(c) \/ \E n \in 1..MaxTop : GetTimeCall(c, n)
    BY <1>1 DEF GetCall, SizeCall, GetTimeCall
  <1>2. CASE EmptyLockRear(c) \/ EmptyLockFront(c) \/ EmptyReturn(c)
    BY <1>2 DEF EmptyLockRear, EmptyLockFront, EmptyReturn, LockRear, LockFront, ReleaseBoth
  <1>3. CASE GetLock(c) \/ GetData(c) \/ GetTime(c) \/ RawData(c) \/ RawTime(c) \/ GetRaise(c) \/ RawLock(c)
    BY <1>3 DEF GetLock, GetData, GetTime, RawData, RawTime, GetRaise, RawLock, LockFront, ReadData, ReadTime
  <1>4. CASE GetNext(c) \/ RawNext(c)
    BY <1>4 DEF GetNext, RawNext, Advance, Taken, Deliver, Retry
  <1>5. CASE TopLockRear(c) \/ TopLockFront(c) \/ TopRead(c) \/ TopReturn(c)
    BY <1>5 DEF TopLockRear, TopLockFront, TopRead, TopReturn, LockRear, LockFront, ReleaseBoth
  <1>6. CASE SizeFront(c) \/ SizeRear(c)
    BY <1>6 DEF SizeFront, SizeRear
  <1> QED
    BY <1>1, <1>2, <1>3, <1>4, <1>5, <1>6 DEF Call, Consume

\* put leaves what consumers keep alone.
LEMMA PutLeavesConsumers ==
  ASSUME TypeOK, PutCall \/ Put
  PROVE  /\ UNCHANGED <<getVars, infoVars>>
         /\ \A c \in Consumers : pc'[c] = pc[c]
  BY ActorsAssumption DEF TypeOK, Procs, Goto, Step, getVars, infoVars, Put, PutCall, PutLock,
     PutDataBegin, PutDataEnd, WriteData, PutTimeBegin, PutTimeEnd, WriteTime, PutVisit,
     PutDropOldest, PutKeepOldest, LeaveKey, PutPublish

\* The slots are numbered from the rear backwards: put's steps.
LEMMA NumberPut ==
  ASSUME TypeOK, SemaphoresHeld, FrontsSafe, BytesSafe, NumberInv, PutCall \/ Put
  PROVE  NumberInv'
  <1> USE PutsAssumption DEF TypeOK, Procs, Goto, Step, putVars, ring
  <1>1. CASE PutCall \/ PutLock
    BY <1>1 DEF PutCall, PutLock, NumberInv, Numbered, RearWritten, FrontsBehind, Published
  <1>2. CASE PutDataBegin \/ PutDataEnd
    BY <1>2 DEF PutDataBegin, PutDataEnd, WriteData, SlotToFill,
       NumberInv, Numbered, RearWritten, FrontsBehind, Published
  <1>3. CASE PutTimeBegin \/ PutTimeEnd
    BY <1>3 DEF PutTimeBegin, PutTimeEnd, WriteTime, SlotToFill,
       NumberInv, Numbered, RearWritten, FrontsBehind, Published
  <1>4. ASSUME NEW c \in Consumers, PutVisit(c) \/ PutKeepOldest(c) PROVE NumberInv'
    BY <1>4 DEF PutVisit, PutKeepOldest, LeaveKey, NumberInv, Numbered, RearWritten, FrontsBehind, Published
  <1>5. ASSUME NEW c \in Consumers, PutDropOldest(c) PROVE NumberInv'
    <2>1. front' = [front EXCEPT ![c] = Inc(front[c])] /\ Inc(rear) = front[c]
      BY <1>5 DEF PutDropOldest, LeaveKey, FullFor, Dropped, SemaphoresHeld
    <2>2. UNCHANGED <<data, rear, puts>> /\ Published' = Published
      BY <1>5 DEF PutDropOldest, LeaveKey, Published
    <2>3. front[c] # rear
      BY <2>1, IncFacts
    <2>4. Distance(Inc(front[c]), rear) = Distance(front[c], rear) - 1
      BY <2>3, DistanceFacts
    <2>5. FrontsBehind'
      <3> SUFFICES ASSUME NEW d \in Consumers PROVE Distance(front'[d], rear') <= Published'
        BY DEF FrontsBehind
      <3>1. Distance(front[d], rear) <= Published /\ Distance(front[d], rear) \in Nat /\ Published \in Int
        BY DistanceNat DEF NumberInv, FrontsBehind, Published
      <3>2. CASE d = c
        BY <2>1, <2>2, <2>4, <3>1, <3>2
      <3>3. CASE d # c
        BY <2>1, <2>2, <3>1, <3>3
      <3> QED  BY <3>2, <3>3
    <2>6. Numbered'
      BY <2>2 DEF NumberInv, Numbered
    <2>7. RearWritten'
      BY <1>5, <2>2 DEF PutDropOldest, LeaveKey, NumberInv, RearWritten
    <2> QED  BY <2>5, <2>6, <2>7 DEF NumberInv
  <1>6. CASE PutPublish
    <2>1. rear' = Inc(rear) /\ UNCHANGED <<data, front, puts>> /\ rear' \in Slots
      BY <1>6, IncFacts DEF PutPublish
    <2>2. pc[Producer] = "visit" /\ pc'[Producer] = "idle" /\ todo = {}
      BY <1>6 DEF PutPublish
    <2>3. Published' = Published + 1 /\ Published = puts - 1 /\ Published \in Nat
      BY <2>1, <2>2 DEF Published, NumberInv, RearWritten
    <2>4. Numbered'
      <3> SUFFICES ASSUME NEW s \in Slots \ {rear'}
                   PROVE  data'[s] = IF Distance(s, rear') <= Published'
                                     THEN Published' + 1 - Distance(s, rear') ELSE 0
        BY DEF Numbered
      <3>1. Distance(s, rear') = Distance(s, rear) + 1 /\ Distance(s, rear) \in Nat
        BY <2>1, DistanceFacts, DistanceNat
      <3>2. CASE s = rear
        <4>1. Distance(s, rear) = 0
          BY <3>2, DistanceFacts
        <4>2. data[s] = puts
          BY <2>2, <3>2 DEF NumberInv, RearWritten
        <4> QED  BY <2>1, <2>3, <3>1, <4>1, <4>2
      <3>3. CASE s # rear
        <4>1. data[s] = IF Distance(s, rear) <= Published
                        THEN Published + 1 - Distance(s, rear) ELSE 0
          BY <3>3 DEF NumberInv, Numbered
        <4>2. CASE Distance(s, rear) <= Published
          BY <2>1, <2>3, <3>1, <4>1, <4>2
        <4>3. CASE ~ (Distance(s, rear) <= Published)
          BY <2>1, <2>3, <3>1, <4>1, <4>3
        <4> QED  BY <4>2, <4>3
      <3> QED  BY <3>2, <3>3
    <2>5. FrontsBehind'
      <3> SUFFICES ASSUME NEW c \in Consumers PROVE Distance(front'[c], rear') <= Published'
        BY DEF FrontsBehind
      <3>1. Inc(rear) # front[c]
        BY <2>2 DEF FrontsSafe, RoomMade
      <3>2. Distance(front[c], Inc(rear)) = Distance(front[c], rear) + 1
        BY <3>1, DistanceFacts
      <3>3. Distance(front[c], rear) <= Published /\ Distance(front[c], rear) \in Int
        BY DistanceType, LengthAssumption DEF NumberInv, FrontsBehind, Slots
      <3> QED  BY <2>1, <2>3, <3>2, <3>3
    <2>6. RearWritten'
      BY <2>2 DEF RearWritten
    <2> QED  BY <2>4, <2>5, <2>6 DEF NumberInv
  <1> QED
    BY <1>1, <1>2, <1>3, <1>4, <1>5, <1>6 DEF Put

\* The slots are numbered from the rear backwards: every step.
LEMMA NumberStep ==
  TypeOK /\ SemaphoresHeld /\ FrontsSafe /\ BytesSafe /\ NumberInv /\ [Next]_vars => NumberInv'
  <1> SUFFICES ASSUME TypeOK, SemaphoresHeld, FrontsSafe, BytesSafe, NumberInv, [Next]_vars
               PROVE  NumberInv'
    OBVIOUS
  <1>1. CASE UNCHANGED vars
    BY <1>1 DEF vars, ring, putVars, NumberInv, Numbered, RearWritten, FrontsBehind, Published
  <1>2. CASE PutCall \/ Put
    BY <1>2, NumberPut
  <1>3. ASSUME NEW c \in Consumers, Call(c) \/ Consume(c) PROVE NumberInv'
    <2>1. /\ UNCHANGED <<data, time, rear, puts>>
          /\ pc'[Producer] = pc[Producer] /\ Published' = Published
      BY <1>3, ConsumerLeavesRing DEF Published
    <2>2. \A d \in Consumers : Distance(front'[d], rear) <= Distance(front[d], rear)
      <3>1. \A d \in Consumers : front[d] \in Slots /\ rear \in Slots
        BY DEF TypeOK
      <3>2. CASE UNCHANGED front
        BY <3>1, <3>2, DistanceNat
      <3>3. CASE (GetNext(c) \/ RawNext(c)) /\ front' = [front EXCEPT ![c] = Inc(cFront[c])]
        <4>1. pc[c] \in {"getNext", "rawNext"}
          BY <3>3 DEF GetNext, RawNext
        <4>2. cFront[c] = front[c] /\ front[c] # rear
          BY <4>1 DEF FrontsSafe, FrontKnown, FrontHeld, FoundFrameStays, LockedGet, RawGet
        <4>3. Distance(Inc(front[c]), rear) = Distance(front[c], rear) - 1
          BY <3>1, <4>2, DistanceFacts
        <4>4. \A d \in Consumers : front'[d] = IF d = c THEN Inc(front[c]) ELSE front[d]
          BY <3>3, <4>2 DEF TypeOK
        <4>5. \A d \in Consumers : Distance(front[d], rear) \in Nat
          BY <3>1, DistanceNat
        <4> QED  BY <4>3, <4>4, <4>5
      <3> QED  BY <1>3, <3>2, <3>3, ConsumerLeavesRing
    <2>3. FrontsBehind'
      <3> SUFFICES ASSUME NEW d \in Consumers PROVE Distance(front'[d], rear') <= Published'
        BY DEF FrontsBehind
      <3>1. Distance(front[d], rear) <= Published
        BY DEF NumberInv, FrontsBehind
      <3>2. front[d] \in Slots /\ front'[d] \in Slots /\ rear \in Slots /\ Published \in Int
        BY <1>3, TypeStep, PutsAssumption DEF TypeOK, Published, Next
      <3>3. Distance(front[d], rear) \in Nat /\ Distance(front'[d], rear) \in Nat
        BY <3>2, DistanceNat
      <3> QED  BY <2>1, <2>2, <3>1, <3>2, <3>3
    <2> QED
      BY <2>1, <2>3 DEF NumberInv, Numbered, RearWritten
  <1> QED
    BY <1>1, <1>2, <1>3 DEF Next

-----------------------------------------------------------------------------
(* The ring implements FrameQueue.                                         *)

\* The d frames up to frame p, oldest first.
Run(d, p) == [i \in 1..d |-> p - d + i]

\* Its head, its tail, and one frame more.
LEMMA RunOps ==
  ASSUME NEW d \in Nat, NEW p \in Nat
  PROVE  /\ Run(d, p) \in Seq(Int) /\ Len(Run(d, p)) = d
         /\ d > 0 => Run(d, p) # <<>> /\ Head(Run(d, p)) = p - d + 1 /\ Tail(Run(d, p)) = Run(d - 1, p)
         /\ Append(Run(d, p), p + 1) = Run(d + 1, p + 1)
  <1>1. Run(d, p) \in Seq(Int) /\ Len(Run(d, p)) = d /\ \A i \in 1..d : Run(d, p)[i] = p - d + i
    BY DEF Run
  <1>2. ASSUME d > 0 PROVE Run(d, p) # <<>> /\ Head(Run(d, p)) = p - d + 1 /\ Tail(Run(d, p)) = Run(d - 1, p)
    <2>1. Run(d, p) # <<>> /\ Head(Run(d, p)) = p - d + 1
      BY <1>1, <1>2
    <2>2. /\ Tail(Run(d, p)) \in Seq(Int) /\ Len(Tail(Run(d, p))) = d - 1
          /\ \A i \in 1..(d - 1) : Tail(Run(d, p))[i] = Run(d, p)[i + 1]
      BY <1>1, <2>1
    <2>3. Run(d - 1, p) \in Seq(Int) /\ Len(Run(d - 1, p)) = d - 1 /\ \A i \in 1..(d - 1) : Run(d - 1, p)[i] = p - d + 1 + i
      BY <1>2 DEF Run
    <2>4. \A i \in 1..(d - 1) : Tail(Run(d, p))[i] = Run(d - 1, p)[i]
      BY <1>1, <2>2, <2>3
    <2>5. Tail(Run(d, p)) = Run(d - 1, p)
      BY <2>2, <2>3, <2>4, SeqEqual
    <2> QED  BY <2>1, <2>5
  <1>3. Append(Run(d, p), p + 1) = Run(d + 1, p + 1)
    <2>1. /\ Append(Run(d, p), p + 1) \in Seq(Int) /\ Len(Append(Run(d, p), p + 1)) = d + 1
          /\ \A i \in 1..d : Append(Run(d, p), p + 1)[i] = Run(d, p)[i]
          /\ Append(Run(d, p), p + 1)[d + 1] = p + 1
      BY <1>1
    <2>2. Run(d + 1, p + 1) \in Seq(Int) /\ Len(Run(d + 1, p + 1)) = d + 1 /\ \A i \in 1..(d + 1) : Run(d + 1, p + 1)[i] = p - d + i
      BY DEF Run
    <2>3. \A i \in 1..(d + 1) : Append(Run(d, p), p + 1)[i] = Run(d + 1, p + 1)[i]
      BY <1>1, <2>1, <2>2
    <2> QED  BY <2>1, <2>2, <2>3, SeqEqual
  <1> QED  BY <1>1, <1>2, <1>3

\* The frames a consumer has still to take are the newest ones put.
WindowForm ==
  \A c \in Consumers :
    /\ Distance(front[c], rear) \in Nat /\ Published \in Nat
    /\ Distance(front[c], rear) <= Published
    /\ Window(c) = Run(Distance(front[c], rear), Published)

\* By the numbers of the slots.
LEMMA WindowIsRun == TypeOK /\ NumberInv => WindowForm
  <1> SUFFICES ASSUME TypeOK, NumberInv, NEW c \in Consumers
               PROVE  /\ Distance(front[c], rear) \in Nat /\ Published \in Nat
                      /\ Distance(front[c], rear) <= Published
                      /\ Window(c) = Run(Distance(front[c], rear), Published)
    BY DEF WindowForm
  <1>1. front[c] \in Slots /\ rear \in Slots
    BY DEF TypeOK
  <1> DEFINE f == front[c]
  <1> DEFINE D == Distance(f, rear)
  <1>2. D \in Nat /\ D <= Published
    BY <1>1, DistanceNat DEF NumberInv, FrontsBehind
  <1>3. Published \in Nat
    BY DEF Published, NumberInv, RearWritten, TypeOK
  <1>4. ASSUME NEW i \in 1..D PROVE data[(f + i - 1) % L] = Published - D + i
    <2>1. (f + i - 1) % L \in Slots \ {rear} /\ Distance((f + i - 1) % L, rear) = D + 1 - i
      BY <1>1, SlotOf
    <2>2. data[(f + i - 1) % L] = IF D + 1 - i <= Published THEN Published + 1 - (D + 1 - i) ELSE 0
      BY <2>1 DEF NumberInv, Numbered
    <2> HIDE DEF D
    <2> QED  BY <1>2, <1>3, <2>2
  <1>5. Window(c) = Run(D, Published)
    BY <1>4 DEF Window, Run
  <1> QED  BY <1>2, <1>3, <1>5

\* So they are after a step.
LEMMA WindowStaysRun == TypeOK' /\ NumberInv' => WindowForm'
  BY WindowIsRun, PTL

\* The abstract queue is empty at the start.
LEMMA QueueInit == Init => Queue!AbsInit
  <1> SUFFICES ASSUME Init PROVE Queue!AbsInit
    OBVIOUS
  <1>1. \A c \in Consumers : Distance(front[c], rear) = 0
    BY DistanceFacts, LengthAssumption DEF Init, Slots
  <1>2. \A c \in Consumers : Window(c) = <<>>
    BY <1>1 DEF Window
  <1>3. pc[Producer] = "idle" /\ puts = 0 /\ \A c \in Consumers : out[c].data = 0
    BY DEF Init, Procs
  <1> QED  BY <1>2, <1>3 DEF Queue!AbsInit

\* A step that leaves window, count and results of the InferQueue consumers
\* alone is a stutter of the abstract queue.
LEMMA QueueStutter ==
  ASSUME \A c \in Consumers \ Unlocked : Window(c)' = Window(c) /\ out'[c] = out[c],
         Published' = Published
  PROVE  UNCHANGED Queue!absVars
  BY DEF Queue!absVars, Published

\* An action of put is a put, a drop or a stutter of the abstract queue.
LEMMA QueuePut ==
  ASSUME TypeOK, TypeOK', SemaphoresHeld, FrontsSafe, NumberInv, NumberInv', PutCall \/ Put
  PROVE  [Queue!AbsNext]_(Queue!absVars)
  <1> DEFINE Mine == Consumers \ Unlocked
  <1>w. WindowForm /\ WindowForm'
    BY WindowIsRun, WindowStaysRun
  <1>0. UNCHANGED <<out, cFront>>
    BY PutLeavesConsumers DEF getVars
  <1>1. CASE UNCHANGED <<rear, front>> /\ Published' = Published
    <2>1. \A c \in Mine : Window(c)' = Window(c)
      BY <1>1, <1>w DEF WindowForm
    <2> QED  BY <1>0, <1>1, <2>1, QueueStutter
  <1>2. ASSUME NEW c \in Consumers, PutDropOldest(c) PROVE [Queue!AbsNext]_(Queue!absVars)
    <2>1. front' = [front EXCEPT ![c] = Inc(front[c])] /\ Inc(rear) = front[c] /\ rear' = rear
      BY <1>2 DEF PutDropOldest, LeaveKey, FullFor, Dropped, SemaphoresHeld
    <2>2. Published' = Published
      BY <1>2 DEF PutDropOldest, LeaveKey, Published, Step, Goto, TypeOK, Procs
    <2>3. Distance(front[c], rear) = L - 1 /\ Distance(front'[c], rear') = L - 2
      <3>1. front[c] # rear /\ front[c] \in Slots /\ rear \in Slots
        BY <2>1, IncFacts DEF TypeOK
      <3>2. Distance(Inc(front[c]), rear) = Distance(front[c], rear) - 1
        BY <3>1, DistanceFacts
      <3>3. Distance(front[c], rear) = L - 1
        BY <2>1, <3>1, DistanceFacts
      <3>4. front'[c] = Inc(front[c])
        BY <2>1 DEF TypeOK
      <3> QED  BY <2>1, <3>2, <3>3, <3>4, LengthAssumption
    <2>4. \A d \in Consumers \ {c} : Window(d)' = Window(d)
      <3> SUFFICES ASSUME NEW d \in Consumers \ {c} PROVE Window(d)' = Window(d)
        OBVIOUS
      <3>1. front'[d] = front[d]
        BY <2>1 DEF TypeOK
      <3> QED  BY <2>1, <2>2, <3>1, <1>w DEF WindowForm
    <2>5. Len(Window(c)) = L - 1 /\ Window(c)' = Tail(Window(c))
      <3>1. Window(c) = Run(L - 1, Published) /\ Window(c)' = Run(L - 2, Published)
        BY <2>2, <2>3, <1>w DEF WindowForm
      <3>2. L - 1 \in Nat /\ L - 1 > 0 /\ (L - 1) - 1 = L - 2 /\ Published \in Nat
        BY LengthAssumption, <1>w DEF WindowForm
      <3>3. /\ Len(Run(L - 1, Published)) = L - 1
            /\ Tail(Run(L - 1, Published)) = Run((L - 1) - 1, Published)
        BY <3>2, RunOps
      <3> QED  BY <3>1, <3>2, <3>3
    <2>6. CASE c \in Mine
      <3>1. [d \in Mine |-> Window(d)]' = [[d \in Mine |-> Window(d)] EXCEPT ![c] = Tail(Window(c))]
        BY <2>4, <2>5, <2>6
      <3>2. Queue!AbsDrop(c)
        BY <1>0, <2>2, <2>5, <2>6, <3>1 DEF Queue!AbsDrop, Published
      <3> QED  BY <2>6, <3>2 DEF Queue!AbsNext
    <2>7. CASE c \notin Mine
      BY <1>0, <2>2, <2>4, <2>7, QueueStutter
    <2> QED  BY <2>6, <2>7
  <1>3. CASE PutPublish
    <2>1. rear' = Inc(rear) /\ UNCHANGED <<front, puts>> /\ todo = {}
      BY <1>3 DEF PutPublish, putVars
    <2>2. pc[Producer] = "visit" /\ pc'[Producer] = "idle"
      BY <1>3 DEF PutPublish, Step, Goto, TypeOK, Procs
    <2>3. Published' = Published + 1 /\ Published \in Nat
      BY <2>1, <2>2 DEF Published, NumberInv, RearWritten, TypeOK
    <2>4. \A c \in Consumers :
            Len(Window(c)) < L - 1 /\ Window(c)' = Append(Window(c), Published + 1)
      <3> SUFFICES ASSUME NEW c \in Consumers
                   PROVE  Len(Window(c)) < L - 1 /\ Window(c)' = Append(Window(c), Published + 1)
        OBVIOUS
      <3> DEFINE D == Distance(front[c], rear)
      <3>1. front[c] \in Slots /\ rear \in Slots /\ Inc(rear) \in Slots /\ Inc(rear) # front[c]
        BY <2>1, <2>2, IncFacts DEF TypeOK, FrontsSafe, RoomMade
      <3>2. Distance(front'[c], rear') = D + 1
        BY <2>1, <3>1, DistanceFacts
      <3>3. D \in Nat /\ Window(c) = Run(D, Published)
        BY <1>w DEF WindowForm
      <3>4. Window(c)' = Run(D + 1, Published + 1)
        BY <2>3, <3>2, <1>w DEF WindowForm
      <3>5. Distance(front'[c], rear') \in Slots
        BY <2>1, <3>1, DistanceType
      <3>6. D < L - 1
        BY <3>2, <3>3, <3>5, LengthAssumption DEF Slots
      <3> HIDE DEF D
      <3>7. /\ Len(Run(D, Published)) = D
            /\ Append(Run(D, Published), Published + 1) = Run(D + 1, Published + 1)
        BY <2>3, <3>3, RunOps
      <3> QED  BY <3>3, <3>4, <3>6, <3>7
    <2>5. Queue!AbsPut
      BY <1>0, <2>2, <2>3, <2>4 DEF Queue!AbsPut, Published
    <2> QED  BY <2>5 DEF Queue!AbsNext
  <1> QED
    <2> USE DEF Step, Goto, TypeOK, Procs, ring, putVars, Published
    <2>1. CASE PutCall \/ PutLock \/ PutDataBegin \/ PutDataEnd \/ PutTimeBegin \/ PutTimeEnd
      <3>1. UNCHANGED <<rear, front>>
        BY <2>1 DEF PutCall, PutLock, PutDataBegin, PutDataEnd, PutTimeBegin, PutTimeEnd, WriteData, WriteTime
      <3>2. Published' = Published
        <4>1. CASE PutCall
          BY <4>1, PutsAssumption DEF PutCall
        <4>2. CASE PutLock \/ PutDataBegin \/ PutDataEnd
          BY <4>2 DEF PutLock, PutDataBegin, PutDataEnd, WriteData
        <4>3. CASE PutTimeBegin \/ PutTimeEnd
          BY <4>3 DEF PutTimeBegin, PutTimeEnd, WriteTime
        <4> QED  BY <2>1, <4>1, <4>2, <4>3
      <3> QED  BY <1>1, <3>1, <3>2
    <2>2. ASSUME NEW c \in Consumers, PutVisit(c) \/ PutKeepOldest(c)
          PROVE  [Queue!AbsNext]_(Queue!absVars)
      <3>1. UNCHANGED <<rear, front>> /\ Published' = Published
        BY <2>2 DEF PutVisit, PutKeepOldest, LeaveKey
      <3> QED  BY <1>1, <3>1
    <2> QED
      BY <1>2, <1>3, <2>1, <2>2 DEF Put

\* An action of a consumer takes a frame of the abstract queue, or stutters.
LEMMA QueueConsume ==
  ASSUME TypeOK, TypeOK', FrontsSafe, BytesSafe, NumberInv, NumberInv',
         NEW c \in Consumers, Call(c) \/ Consume(c)
  PROVE  [Queue!AbsNext]_(Queue!absVars)
  <1> DEFINE Mine == Consumers \ Unlocked
  <1>w. WindowForm /\ WindowForm'
    BY WindowIsRun, WindowStaysRun
  <1>1. /\ UNCHANGED <<data, time, rear, puts, todo>> /\ pc'[Producer] = pc[Producer]
        /\ Published' = Published /\ \A d \in Consumers \ {c} : out'[d] = out[d]
    BY ConsumerLeavesRing DEF Published
  <1>2. ASSUME NEW d \in Consumers, front'[d] = front[d] PROVE Window(d)' = Window(d)
    BY <1>1, <1>2, <1>w DEF WindowForm
  <1>3. CASE GetNext(c) /\ front' = [front EXCEPT ![c] = Inc(cFront[c])]
    <2>1. pc[c] = "getNext"
      BY <1>3 DEF GetNext
    <2>2. c \in Mine /\ cFront[c] = front[c] /\ front[c] # rear
      BY <2>1 DEF FrontsSafe, FrontKnown, FrontHeld, FoundFrameStays, LockedGet, GetKind
    <2>3. gotData[c] = data[front[c]] /\ gotData[c] # Partial
      BY <2>1, <2>2 DEF BytesSafe, BytesRead, SlotsWhole, TypeOK
    <2>4. \A d \in Consumers \ {c} : Window(d)' = Window(d)
      BY <1>2, <1>3 DEF TypeOK
    <2> DEFINE D == Distance(front[c], rear)
    <2>5. D > 0 /\ front'[c] = Inc(front[c]) /\ Distance(Inc(front[c]), rear) = D - 1
      <3>1. front[c] \in Slots /\ rear \in Slots
        BY DEF TypeOK
      <3>2. D \in Nat /\ D # 0 /\ Distance(Inc(front[c]), rear) = D - 1
        BY <2>2, <3>1, DistanceFacts, DistanceNat
      <3>3. front'[c] = Inc(front[c])
        BY <1>3, <2>2 DEF TypeOK
      <3> QED  BY <3>2, <3>3
    <2>6. Window(c) # <<>> /\ Head(Window(c)) = gotData[c] /\ Window(c)' = Tail(Window(c))
      <3>1. Window(c) = Run(D, Published) /\ Window(c)' = Run(D - 1, Published) /\ D \in Nat /\ Published \in Nat
        BY <1>1, <2>5, <1>w DEF WindowForm
      <3>2. data[front[c]] = Published - D + 1
        BY <2>2, <2>5, <3>1, <1>w DEF NumberInv, Numbered, TypeOK, WindowForm
      <3> HIDE DEF D
      <3>3. Run(D, Published) # <<>> /\ Head(Run(D, Published)) = Published - D + 1
            /\ Tail(Run(D, Published)) = Run(D - 1, Published)
        BY <2>5, <3>1, RunOps
      <3> QED  BY <2>3, <3>1, <3>2, <3>3
    <2>7. [d \in Mine |-> Window(d)]' = [[d \in Mine |-> Window(d)] EXCEPT ![c] = Tail(Window(c))]
      BY <2>2, <2>4, <2>6
    <2>8. \/ /\ gotData[c] \in Malformed /\ UNCHANGED out
          \/ gotData[c] \notin Malformed /\ out'[c].data = gotData[c]
      <3>1. CASE Deliver(c)
        BY <1>3, <3>1 DEF Deliver, TypeOK
      <3>2. CASE Retry(c)
        BY <1>3, <2>3, <3>2 DEF Retry
      <3> QED  BY <1>3, <3>1, <3>2 DEF GetNext, Advance
    <2>9. CASE gotData[c] \in Malformed /\ UNCHANGED out
      <3>1. Queue!AbsTake(c)
        BY <1>1, <2>2, <2>6, <2>7, <2>9 DEF Queue!AbsTake, Published
      <3> QED  BY <2>2, <3>1 DEF Queue!AbsNext
    <2>10. CASE gotData[c] \notin Malformed /\ out'[c].data = gotData[c]
      <3>1. [d \in Mine |-> out[d].data]' = [[d \in Mine |-> out[d].data] EXCEPT ![c] = Head(Window(c))]
        BY <1>1, <2>2, <2>6, <2>10
      <3>2. Queue!AbsTake(c)
        BY <1>1, <2>2, <2>6, <2>7, <2>10, <3>1 DEF Queue!AbsTake, Published
      <3> QED  BY <2>2, <3>2 DEF Queue!AbsNext
    <2> QED  BY <2>8, <2>9, <2>10
  <1>4. CASE RawNext(c) /\ front' = [front EXCEPT ![c] = Inc(cFront[c])]
    <2>1. c \notin Mine
      BY <1>4 DEF RawNext, FrontsSafe, GetKind, RawGet
    <2>2. \A d \in Mine : front'[d] = front[d]
      BY <1>4, <2>1 DEF TypeOK
    <2> QED  BY <1>1, <1>2, <2>1, <2>2, QueueStutter
  <1>5. CASE UNCHANGED front
    <2>1. CASE UNCHANGED out
      BY <1>1, <1>2, <1>5, <2>1, QueueStutter
    <2>2. CASE ~ UNCHANGED out
      <3>1. GetNext(c) \/ RawNext(c)
        BY <2>2 DEF Call, Consume, GetCall, SizeCall, GetTimeCall, EmptyLockRear, EmptyLockFront,
           EmptyReturn, GetLock, GetData, GetTime, RawData, RawTime, GetRaise, RawLock,
           TopLockRear, TopLockFront, TopRead, TopReturn, SizeFront, SizeRear, LockRear, LockFront,
           ReleaseBoth, ReadData, ReadTime, getVars
      <3>2. front' = [front EXCEPT ![c] = Inc(cFront[c])]
        BY <3>1 DEF GetNext, RawNext, Advance, Taken
      <3> QED  BY <1>3, <1>4, <3>1, <3>2
    <2> QED  BY <2>1, <2>2
  <1> QED  BY <1>3, <1>4, <1>5, ConsumerLeavesRing

\* The invariant of the ring with its numbers.
RingNumbered == TypeOK /\ SemaphoresHeld /\ FrontsSafe /\ BytesSafe /\ NumberInv

\* It holds in every state.
LEMMA RingNumberedHolds == Spec => []RingNumbered
  <1>1. Init => SemaphoresHeld /\ FrontsSafe /\ BytesSafe /\ NumberInv
    <2> SUFFICES ASSUME Init PROVE SemaphoresHeld /\ FrontsSafe /\ BytesSafe /\ NumberInv
      OBVIOUS
    <2>1. SemaphoresHeld /\ FrontsSafe /\ BytesSafe
      BY ActorsAssumption
      DEF Init, SemaphoresHeld, FrontsSafe, FrontKnown, RoomMade, GetKind,
          FoundFrameStays, LockedGet, RawGet, BytesSafe, SlotsWhole, DataPut,
          BytesRead, NoTornFrame, Procs, RearHeld, FrontHeld, Partial
    <2>2. Published = 0 /\ rear = 0 /\ rear \in Slots /\ pc[Producer] = "idle"
      BY LengthAssumption DEF Init, Published, Procs, Slots
    <2>3. Numbered
      <3> SUFFICES ASSUME NEW s \in Slots \ {rear} PROVE data[s] = 0 /\ ~(Distance(s, rear) <= Published)
        BY DEF Numbered
      <3>1. Distance(s, rear) \in Nat /\ Distance(s, rear) # 0
        BY <2>2, DistanceFacts, DistanceNat
      <3> QED  BY <2>2, <3>1 DEF Init
    <2>4. FrontsBehind
      BY <2>2, DistanceFacts DEF Init, FrontsBehind
    <2> QED  BY <2>1, <2>2, <2>3, <2>4 DEF NumberInv, RearWritten
  <1> QED
    BY <1>1, TypeCorrect, SemaphoresStep, FrontsStep, BytesStep, NumberStep, PTL DEF Spec, RingNumbered

\* To the consumers with InferQueue.get the ring is a first-in-first-out queue
\* that loses a frame only when it is full: for any number of consumers of both
\* kinds, any ring of three slots or more, any number of puts.
THEOREM RingIsFrameQueue == Spec => ImplementsFrameQueue
  <1>1. TypeOK /\ TypeOK' /\ SemaphoresHeld /\ FrontsSafe /\ BytesSafe /\ NumberInv /\ NumberInv' /\ [Next]_vars
          => [Queue!AbsNext]_(Queue!absVars)
    <2> SUFFICES ASSUME TypeOK, TypeOK', SemaphoresHeld, FrontsSafe, BytesSafe, NumberInv, NumberInv', [Next]_vars
                 PROVE  [Queue!AbsNext]_(Queue!absVars)
      OBVIOUS
    <2>1. CASE UNCHANGED vars
      BY <2>1 DEF vars, ring, putVars, getVars, Window, Distance, Queue!absVars
    <2>2. CASE PutCall \/ Put
      BY <2>2, QueuePut
    <2>3. ASSUME NEW c \in Consumers, Call(c) \/ Consume(c) PROVE [Queue!AbsNext]_(Queue!absVars)
      BY <2>3, QueueConsume
    <2> QED  BY <2>1, <2>2, <2>3 DEF Next
  <1> QED
    BY <1>1, QueueInit, RingNumberedHolds, PTL DEF Spec, RingNumbered, ImplementsFrameQueue, Queue!AbsSpec

-----------------------------------------------------------------------------
(* The ring is the one that the scheduler's specification assumes: both    *)
(* implement TaskRing.                                                     *)

\* Room has been made for c's next frame, which is not yet published.
MadeRoomFor(c) == pc[Producer] \in {"visit", "ifFull"} /\ c \notin todo

Gone(c) == Published - Distance(front[c], rear)

Task(c) == INSTANCE TaskRing WITH
  Capacity <- L - 1,
  made     <- Published,
  gone     <- Gone(c),
  putting  <- MadeRoomFor(c)

\* An action of put makes room for c, publishes, or is none of c's concern.
LEMMA TaskPut ==
  ASSUME TypeOK, TypeOK', SemaphoresHeld, FrontsSafe, NumberInv, PutCall \/ Put,
         NEW c \in Consumers
  PROVE  [Task(c)!RingNext]_(Task(c)!ringVars)
  <1>0. /\ front[c] \in Slots /\ rear \in Slots /\ Distance(front[c], rear) \in Nat
        /\ Published \in Nat
    <2>1. front[c] \in Slots /\ rear \in Slots
      BY DEF TypeOK
    <2>2. Distance(front[c], rear) \in Nat
      BY <2>1, DistanceNat
    <2>3. Published \in Nat
      BY WindowIsRun DEF WindowForm
    <2> QED
      BY <2>1, <2>2, <2>3
  <1>s. ASSUME Published' = Published, Gone(c)' = Gone(c), MadeRoomFor(c)' = MadeRoomFor(c)
        PROVE  [Task(c)!RingNext]_(Task(c)!ringVars)
    BY <1>s DEF Task!ringVars
  <1> USE DEF Step, Goto, TypeOK, Procs, ring, putVars
  <1>1. CASE PutCall \/ PutLock \/ PutDataBegin \/ PutDataEnd \/ PutTimeBegin \/ PutTimeEnd
    <2>1. UNCHANGED <<rear, front>>
      BY <1>1 DEF PutCall, PutLock, PutDataBegin, PutDataEnd, PutTimeBegin, PutTimeEnd, WriteData,
         WriteTime
    <2>2. Published' = Published
      <3>1. CASE PutCall
        BY <3>1 DEF PutCall, Published
      <3>2. CASE PutLock \/ PutDataBegin \/ PutDataEnd
        BY <3>2 DEF PutLock, PutDataBegin, PutDataEnd, WriteData, Published
      <3>3. CASE PutTimeBegin \/ PutTimeEnd
        BY <3>3 DEF PutTimeBegin, PutTimeEnd, WriteTime, Published
      <3> QED
        BY <1>1, <3>1, <3>2, <3>3
    <2>3. ~ MadeRoomFor(c) /\ ~ MadeRoomFor(c)'
      BY <1>1 DEF PutCall, PutLock, PutDataBegin, PutDataEnd, WriteData, PutTimeBegin, PutTimeEnd,
         WriteTime, KeysToVisit, MadeRoomFor
    <2>4. Gone(c)' = Gone(c)
      BY <2>1, <2>2 DEF Gone
    <2> QED
      BY <1>s, <2>2, <2>3, <2>4 DEF MadeRoomFor
  <1>2. ASSUME NEW d \in Consumers, PutVisit(d) PROVE [Task(c)!RingNext]_(Task(c)!ringVars)
    <2>1. UNCHANGED <<rear, front, puts, todo>> /\ pc[Producer] = "visit" /\ pc'[Producer] = "ifFull"
      BY <1>2 DEF PutVisit
    <2>2. Published' = Published
      BY <2>1 DEF Published
    <2>3. Gone(c)' = Gone(c) /\ MadeRoomFor(c)' = MadeRoomFor(c)
      BY <2>1, <2>2 DEF Gone, MadeRoomFor
    <2> QED
      BY <1>s, <2>2, <2>3
  <1>3. ASSUME NEW d \in Consumers, PutDropOldest(d) \/ PutKeepOldest(d)
        PROVE  [Task(c)!RingNext]_(Task(c)!ringVars)
    <2>1. /\ pc[Producer] = "ifFull" /\ pc'[Producer] = "visit" /\ UNCHANGED <<rear, puts>>
          /\ d \in todo /\ todo' = todo \ {d} /\ pFront = front[d]
      BY <1>3 DEF PutDropOldest, PutKeepOldest, LeaveKey, KeysAfter, SemaphoresHeld
    <2>2. Published' = Published
      BY <2>1 DEF Published
    <2>3. CASE c # d
      <3>1. front'[c] = front[c]
        BY <1>3, <2>3 DEF PutDropOldest, PutKeepOldest
      <3>2. Gone(c)' = Gone(c) /\ MadeRoomFor(c)' = MadeRoomFor(c)
        BY <2>1, <2>2, <2>3, <3>1 DEF Gone, MadeRoomFor
      <3> QED
        BY <1>s, <2>2, <3>2
    <2>4. CASE c = d
      <3>1. ~ MadeRoomFor(c) /\ MadeRoomFor(c)'
        BY <2>1, <2>4 DEF MadeRoomFor
      <3>2. Gone(c)' = IF Published - Gone(c) = L - 1 THEN Gone(c) + 1 ELSE Gone(c)
        <4>1. Published - Gone(c) = Distance(front[c], rear)
          BY <1>0 DEF Gone
        <4>2. CASE PutDropOldest(d)
          <5>1. Inc(rear) = front[c] /\ front'[c] = Inc(front[c])
            BY <2>1, <2>4, <4>2 DEF PutDropOldest, FullFor, Dropped
          <5>2. front[c] # rear /\ Distance(front[c], rear) = L - 1
            BY <1>0, <5>1, IncFacts, DistanceFacts
          <5>3. Distance(Inc(front[c]), rear) = Distance(front[c], rear) - 1
            BY <1>0, <5>2, DistanceFacts
          <5>4. Gone(c)' = Published - (Distance(front[c], rear) - 1)
            BY <2>1, <2>2, <5>1, <5>3 DEF Gone
          <5> QED
            BY <1>0, <4>1, <5>2, <5>4 DEF Gone
        <4>3. CASE PutKeepOldest(d)
          <5>1. Inc(rear) # front[c] /\ front' = front
            BY <2>1, <2>4, <4>3 DEF PutKeepOldest, FullFor
          <5>2. Distance(front[c], Inc(rear)) = Distance(front[c], rear) + 1
            BY <1>0, <5>1, DistanceFacts
          <5>3. Distance(front[c], Inc(rear)) \in Slots
            BY <1>0, IncFacts, DistanceType
          <5>4. Distance(front[c], rear) # L - 1
            BY <5>2, <5>3, LengthAssumption DEF Slots
          <5> QED
            BY <2>1, <2>2, <4>1, <5>1, <5>4 DEF Gone
        <4> QED
          BY <1>3, <4>2, <4>3
      <3> QED
        BY <2>2, <3>1, <3>2 DEF Task!RingNext, Task!MakeRoom, MadeRoomFor
    <2> QED
      BY <2>3, <2>4
  <1>4. CASE PutPublish
    <2>1. /\ pc[Producer] = "visit" /\ pc'[Producer] = "idle" /\ todo = {}
          /\ UNCHANGED <<puts, front>> /\ rear' = Inc(rear)
      BY <1>4 DEF PutPublish
    <2>2. Published' = Published + 1
      BY <2>1 DEF Published
    <2>3. Inc(rear) # front[c]
      BY <2>1 DEF FrontsSafe, RoomMade
    <2>4. Distance(front[c], Inc(rear)) = Distance(front[c], rear) + 1
      BY <1>0, <2>3, DistanceFacts
    <2>5. Gone(c)' = Gone(c)
      BY <1>0, <2>1, <2>2, <2>4 DEF Gone
    <2>6. MadeRoomFor(c) /\ ~ MadeRoomFor(c)'
      BY <2>1 DEF MadeRoomFor
    <2> QED
      BY <2>2, <2>5, <2>6 DEF Task!RingNext, Task!Publish, MadeRoomFor
  <1> QED
    BY <1>1, <1>2, <1>3, <1>4 DEF Put

\* A consumer takes its oldest frame, or leaves c's ring alone.
LEMMA TaskConsume ==
  ASSUME TypeOK, TypeOK', FrontsSafe, NumberInv, NEW d \in Consumers, Call(d) \/ Consume(d),
         NEW c \in Consumers
  PROVE  [Task(c)!RingNext]_(Task(c)!ringVars)
  <1>0. /\ front[c] \in Slots /\ rear \in Slots /\ Distance(front[c], rear) \in Nat
        /\ Published \in Nat
    <2>1. front[c] \in Slots /\ rear \in Slots
      BY DEF TypeOK
    <2>2. Distance(front[c], rear) \in Nat
      BY <2>1, DistanceNat
    <2>3. Published \in Nat
      BY WindowIsRun DEF WindowForm
    <2> QED
      BY <2>1, <2>2, <2>3
  <1>1. /\ UNCHANGED <<rear, puts, todo>> /\ pc'[Producer] = pc[Producer]
        /\ Published' = Published /\ MadeRoomFor(c)' = MadeRoomFor(c)
    BY ConsumerLeavesRing DEF Published, MadeRoomFor
  <1>2. CASE front'[c] = front[c]
    <2>1. Gone(c)' = Gone(c)
      BY <1>1, <1>2 DEF Gone
    <2> QED
      BY <1>1, <2>1 DEF Task!ringVars
  <1>3. CASE front'[c] # front[c]
    <2>0. (GetNext(d) \/ RawNext(d)) /\ front' = [front EXCEPT ![d] = Inc(cFront[d])]
      BY <1>3, ConsumerLeavesRing
    <2>1. c = d /\ (GetNext(c) \/ RawNext(c)) /\ front'[c] = Inc(cFront[c])
      BY <1>3, <2>0 DEF TypeOK
    <2>2. pc[c] \in {"getNext", "rawNext"}
      BY <2>1 DEF GetNext, RawNext
    <2>3. cFront[c] = front[c] /\ front[c] # rear
      BY <2>2 DEF FrontsSafe, FrontKnown, FrontHeld, FoundFrameStays, LockedGet, RawGet
    <2>4. Distance(front[c], rear) # 0 /\ Distance(Inc(front[c]), rear) = Distance(front[c], rear) - 1
      BY <1>0, <2>3, DistanceFacts
    <2>5. front'[c] = Inc(front[c])
      BY <2>1, <2>3
    <2>6. Gone(c) < Published /\ Gone(c)' = Gone(c) + 1
      BY <1>0, <1>1, <2>4, <2>5 DEF Gone
    <2> QED
      BY <1>1, <2>6 DEF Task!RingNext, Task!TakeOldest
  <1> QED
    BY <1>2, <1>3

\* Each consumer's ring is the ring that InferDispatch assumes of a task, and
\* nobody but put holds the rear semaphore between room and publication
\* (crossqueue.py:150-219, inferqueue.py:26-52).
THEOREM RingIsTaskRing ==
  ASSUME NEW c \in Consumers
  PROVE  Spec => Task(c)!RingSpec /\ [](MadeRoomFor(c) => rearLock = Producer)
  <1>1. Init => Task(c)!RingInit
    <2> SUFFICES ASSUME Init PROVE Task(c)!RingInit
      OBVIOUS
    <2>1. Published = 0 /\ ~ MadeRoomFor(c) /\ rear = 0 /\ front[c] = 0 /\ 0 \in Slots
      BY LengthAssumption DEF Init, Published, MadeRoomFor, Procs, Slots
    <2>2. Gone(c) = 0
      BY <2>1, DistanceFacts DEF Gone
    <2> QED
      BY <2>1, <2>2 DEF Task!RingInit, MadeRoomFor
  <1>2. RingNumbered /\ RingNumbered' /\ [Next]_vars => [Task(c)!RingNext]_(Task(c)!ringVars)
    <2> SUFFICES ASSUME RingNumbered, RingNumbered', [Next]_vars
                 PROVE  [Task(c)!RingNext]_(Task(c)!ringVars)
      OBVIOUS
    <2>1. CASE UNCHANGED vars
      BY <2>1 DEF vars, ring, putVars, Task!ringVars, Published, Gone, MadeRoomFor
    <2> QED
      BY <2>1, TaskPut, TaskConsume DEF Next, RingNumbered
  <1>3. RingNumbered => (MadeRoomFor(c) => rearLock = Producer)
    BY DEF RingNumbered, SemaphoresHeld, Procs, RearHeld, MadeRoomFor
  <1> QED
    BY <1>1, <1>2, <1>3, RingNumberedHolds, PTL DEF Spec, Task!RingSpec

-----------------------------------------------------------------------------
(* size() and gettime().                                                   *)

\* The frames of a consumer, with the one put is adding when it has been there.
Ahead(c) ==
  Distance(front[c], rear) + IF pc[Producer] \in {"visit", "ifFull"} /\ c \notin todo THEN 1 ELSE 0

\* A size of one or two stays true until the next get; and if the front moves
\* between the two reads of size(), the ring was full.
SizeKept ==
  \A c \in Consumers :
    /\ sized[c] >= 1 => Ahead(c) >= 1
    /\ sized[c] >= 2 => Ahead(c) >= 2
    /\ pc[c] = "sizeRear" => cFront[c] = front[c] \/ Ahead(c) >= 2

\* size() and gettime() are called between two gets.
AskLabels == {"idle", "sizeFront", "sizeRear", "topRear", "topFront", "topRead"}
AskedBetween ==
  \A c \in Consumers :
    /\ pc[c] \notin AskLabels => sized[c] = 0
    /\ pc[c] \in {"topRear", "topFront", "topRead"} => want[c] \in 1..MaxTop
    /\ pc[c] # "topRead" => times[c] = <<>>

\* What gettime has read are the first frames from the front on.
TopList ==
  \A c \in Consumers : pc[c] = "topRead" =>
    /\ Len(times[c]) <= want[c] /\ Len(times[c]) <= Distance(front[c], rear)
    /\ cFront[c] = (front[c] + Len(times[c])) % L
    /\ \A i \in 1..Len(times[c]) : times[c][i] = time[(front[c] + i - 1) % L]

AskInv == SizeKept /\ AskedBetween /\ TopList

\* A slot further on.
LEMMA SlotAfter ==
  ASSUME NEW f \in Slots, NEW r \in Slots, NEW n \in 0..Distance(f, r)
  PROVE  /\ (f + n) % L \in Slots
         /\ (f + n) % L = r <=> n = Distance(f, r)
         /\ n < Distance(f, r) => Inc((f + n) % L) = (f + (n + 1)) % L
         /\ f % L = f
  <1> DEFINE D == Distance(f, r)
  <1>1. D \in Slots /\ D = IF f <= r THEN r - f ELSE r - f + L
    BY DistanceFacts, DistanceValue
  <1>2. n \in Nat /\ n <= D /\ n < L
    BY <1>1, LengthAssumption DEF Slots
  <1>3. \A k \in 0..L : (f + k) % L = IF f + k < L THEN f + k ELSE f + k - L
    BY LengthAssumption, SMT DEF Slots
  <1> HIDE DEF D
  <1>4. (f + n) % L = IF f + n < L THEN f + n ELSE f + n - L
    BY <1>2, <1>3, LengthAssumption
  <1>5. (f + (n + 1)) % L = IF f + (n + 1) < L THEN f + (n + 1) ELSE f + (n + 1) - L
    BY <1>2, <1>3, LengthAssumption
  <1> DEFINE s == (f + n) % L
  <1>6. s = IF f + n < L THEN f + n ELSE f + n - L
    BY <1>4
  <1> HIDE DEF s
  <1>7. s \in Slots
    BY <1>2, <1>6, LengthAssumption DEF Slots
  <1>8. s = r <=> n = D
    BY <1>1, <1>2, <1>6, LengthAssumption DEF Slots
  <1>9. n < D => Inc(s) = (f + (n + 1)) % L
    <2>1. Inc(s) = IF s = L - 1 THEN 0 ELSE s + 1
      BY <1>7, IncValue
    <2>2. Inc(s) = IF f + (n + 1) < L THEN f + (n + 1) ELSE f + (n + 1) - L
      BY <1>2, <1>6, <2>1, LengthAssumption DEF Slots
    <2> QED  BY <1>5, <2>2
  <1>10. f % L = f
    BY LengthAssumption, SMT DEF Slots
  <1> QED  BY <1>7, <1>8, <1>9, <1>10 DEF s, D

\* Ahead is a natural number.
AheadIsNat ==
  \A c \in Consumers : Ahead(c) \in Nat /\ Distance(front[c], rear) \in Nat

\* By the types.
LEMMA AheadNat == TypeOK => AheadIsNat
  <1> SUFFICES ASSUME TypeOK, NEW c \in Consumers
               PROVE  Ahead(c) \in Nat /\ Distance(front[c], rear) \in Nat
    BY DEF AheadIsNat
  <1>1. Distance(front[c], rear) \in Nat
    BY DistanceNat DEF TypeOK
  <1> QED  BY <1>1 DEF Ahead

\* And after a step.
LEMMA AheadStaysNat == TypeOK' => AheadIsNat'
  BY AheadNat, PTL

\* Ahead never falls from one to none, nor from two to one, while put is under
\* way: a drop happens only on a full ring.
LEMMA AheadPut ==
  ASSUME TypeOK, TypeOK', SemaphoresHeld, FrontsSafe, PutCall \/ Put, NEW c \in Consumers
  PROVE  \/ Ahead(c)' = Ahead(c) /\ front'[c] = front[c]
         \/ Ahead(c)' >= 2
         \/ Ahead(c)' = Ahead(c) + 1 /\ front'[c] = front[c]
  <1> USE DEF Step, Goto, Procs, ring, putVars
  <1>0. front[c] \in Slots /\ rear \in Slots /\ Distance(front[c], rear) \in Nat
    BY DistanceNat DEF TypeOK
  <1>1. CASE PutCall \/ PutLock \/ PutDataBegin \/ PutDataEnd \/ PutTimeBegin
    <2>1. UNCHANGED <<rear, front>> /\ pc'[Producer] \notin {"visit", "ifFull"} /\ pc[Producer] \notin {"visit", "ifFull"}
      BY <1>1 DEF PutCall, PutLock, PutDataBegin, PutDataEnd, PutTimeBegin, WriteData, WriteTime, TypeOK
    <2> QED  BY <2>1 DEF Ahead
  <1>2. CASE PutTimeEnd
    <2>1. UNCHANGED <<rear, front>> /\ c \in todo' /\ pc[Producer] \notin {"visit", "ifFull"}
      BY <1>2 DEF PutTimeEnd, WriteTime, KeysToVisit
    <2> QED  BY <2>1 DEF Ahead
  <1>3. ASSUME NEW d \in Consumers, PutVisit(d) PROVE Ahead(c)' = Ahead(c) /\ front'[c] = front[c]
    BY <1>3 DEF PutVisit, TypeOK, Ahead
  <1>4. ASSUME NEW d \in Consumers, PutKeepOldest(d)
        PROVE  Ahead(c)' \in {Ahead(c), Ahead(c) + 1} /\ front'[c] = front[c]
    <2>1. UNCHANGED <<rear, front>> /\ todo' = todo \ {d} /\ pc[Producer] = "ifFull" /\ pc'[Producer] = "visit"
      BY <1>4 DEF PutKeepOldest, LeaveKey, KeysAfter, TypeOK
    <2> QED  BY <1>0, <2>1 DEF Ahead
  <1>5. ASSUME NEW d \in Consumers, PutDropOldest(d)
        PROVE  (Ahead(c)' = Ahead(c) /\ front'[c] = front[c]) \/ Ahead(c)' >= 2
    <2>1. /\ front' = [front EXCEPT ![d] = Inc(front[d])] /\ Inc(rear) = front[d] /\ rear' = rear
          /\ todo' = todo \ {d} /\ pc[Producer] = "ifFull" /\ pc'[Producer] = "visit"
      BY <1>5 DEF PutDropOldest, LeaveKey, KeysAfter, FullFor, Dropped, SemaphoresHeld, TypeOK
    <2>2. CASE c # d
      BY <2>1, <2>2 DEF Ahead, TypeOK
    <2>3. CASE c = d
      <3>1. front'[c] = Inc(front[c]) /\ Inc(rear) = front[c] /\ c \notin todo'
        BY <2>1, <2>3 DEF TypeOK
      <3>2. front[c] # rear
        BY <1>0, <3>1, IncFacts
      <3>3. Distance(front'[c], rear') = Distance(front[c], rear) - 1
        BY <1>0, <2>1, <3>1, <3>2, DistanceFacts
      <3>4. Distance(front[c], rear) = L - 1
        BY <1>0, <3>1, DistanceFacts
      <3>5. Ahead(c)' = Distance(front'[c], rear') + 1
        BY <2>1, <3>1 DEF Ahead
      <3> QED  BY <3>3, <3>4, <3>5, LengthAssumption
    <2> QED  BY <2>2, <2>3
  <1>6. CASE PutPublish
    <2>1. rear' = Inc(rear) /\ UNCHANGED front /\ todo = {} /\ pc[Producer] = "visit" /\ pc'[Producer] = "idle"
      BY <1>6 DEF PutPublish, TypeOK
    <2>2. front[c] # Inc(rear)
      BY <2>1 DEF FrontsSafe, RoomMade
    <2>3. Distance(front[c], Inc(rear)) = Distance(front[c], rear) + 1
      BY <1>0, <2>2, DistanceFacts
    <2>4. Ahead(c) = Distance(front[c], rear) + 1
      BY <2>1 DEF Ahead
    <2>5. Ahead(c)' = Distance(front[c], Inc(rear))
      BY <1>0, <2>1, <2>3 DEF Ahead
    <2> QED  BY <2>1, <2>3, <2>4, <2>5
  <1> QED
    BY <1>1, <1>2, <1>3, <1>4, <1>5, <1>6 DEF Put

\* size() and gettime() agree: put's steps.
LEMMA AskPut ==
  ASSUME TypeOK, TypeOK', SemaphoresHeld, FrontsSafe, AskInv, PutCall \/ Put
  PROVE  AskInv'
  <1>1. UNCHANGED <<getVars, infoVars>> /\ \A c \in Consumers : pc'[c] = pc[c]
    BY PutLeavesConsumers
  <1>2. SizeKept'
    <2> SUFFICES ASSUME NEW c \in Consumers
                 PROVE  /\ sized'[c] >= 1 => Ahead(c)' >= 1
                        /\ sized'[c] >= 2 => Ahead(c)' >= 2
                        /\ pc'[c] = "sizeRear" => cFront'[c] = front'[c] \/ Ahead(c)' >= 2
      BY DEF SizeKept
    <2>1. /\ sized[c] >= 1 => Ahead(c) >= 1
          /\ sized[c] >= 2 => Ahead(c) >= 2
          /\ pc[c] = "sizeRear" => cFront[c] = front[c] \/ Ahead(c) >= 2
      BY DEF AskInv, SizeKept
    <2>2. sized'[c] = sized[c] /\ cFront'[c] = cFront[c] /\ pc'[c] = pc[c]
      BY <1>1 DEF getVars, infoVars
    <2>3. Ahead(c) \in Nat /\ Ahead(c)' \in Nat /\ sized[c] \in Nat
      <3>1. sized[c] \in Nat
        BY LengthAssumption DEF TypeOK, Slots
      <3> QED  BY <3>1, AheadNat, AheadStaysNat DEF AheadIsNat
    <2> QED  BY <2>1, <2>2, <2>3, AheadPut
  <1>3. AskedBetween'
    BY <1>1 DEF AskInv, AskedBetween, infoVars
  <1>4. TopList'
    <2> SUFFICES ASSUME NEW c \in Consumers, pc[c] = "topRead"
                 PROVE  UNCHANGED <<time, rear, front[c], cFront, times, want>>
      BY <1>1 DEF AskInv, TopList, getVars, infoVars
    <2>1. rearLock = c /\ frontLock[c] = c /\ rearLock # Producer /\ c # Producer
      BY ActorsAssumption DEF SemaphoresHeld, RearHeld, FrontHeld, Procs
    <2>2. pc[Producer] \notin RearHeld
      BY <2>1 DEF SemaphoresHeld, Procs
    <2>3. PutCall \/ PutLock
      BY <2>2 DEF Put, RearHeld, PutDataBegin, PutDataEnd, PutTimeBegin, PutTimeEnd, PutVisit,
         PutDropOldest, PutKeepOldest, LeaveKey, PutPublish, Step
    <2> QED  BY <1>1, <2>3 DEF PutCall, PutLock, ring, getVars, infoVars
  <1> QED  BY <1>2, <1>3, <1>4 DEF AskInv

\* size() and gettime() agree: a consumer's steps.
LEMMA AskConsume ==
  ASSUME TypeOK, TypeOK', SemaphoresHeld, FrontsSafe, AskInv,
         NEW c \in Consumers, Call(c) \/ Consume(c)
  PROVE  AskInv'
  <1> USE DEF Step, Goto, Procs, ring, getVars, infoVars
  <1>1. /\ UNCHANGED <<time, rear, todo>> /\ pc'[Producer] = pc[Producer]
        /\ \A d \in Consumers \ {c} : front'[d] = front[d]
    BY ConsumerLeavesRing DEF TypeOK
  <1>2. UNCHANGED front \/ pc[c] \in {"getNext", "rawNext"}
    BY ConsumerLeavesRing DEF GetNext, RawNext
  <1>3. \A d \in Consumers \ {c} :
           /\ pc'[d] = pc[d] /\ cFront'[d] = cFront[d] /\ sized'[d] = sized[d]
           /\ want'[d] = want[d] /\ times'[d] = times[d] /\ Ahead(d)' = Ahead(d)
    BY <1>1, ConsumerLeavesRing DEF Ahead
  <1>4. front'[c] = front[c] => Ahead(c)' = Ahead(c)
    BY <1>1 DEF Ahead
  <1>5. Ahead(c) \in Nat /\ Ahead(c)' \in Nat /\ Distance(front[c], rear) \in Nat
    BY AheadNat, AheadStaysNat DEF AheadIsNat
  <1>6. /\ sized'[c] >= 1 => Ahead(c)' >= 1
        /\ sized'[c] >= 2 => Ahead(c)' >= 2
        /\ pc'[c] = "sizeRear" => cFront'[c] = front'[c] \/ Ahead(c)' >= 2
    <2>0. /\ sized[c] >= 1 => Ahead(c) >= 1
          /\ sized[c] >= 2 => Ahead(c) >= 2
          /\ pc[c] = "sizeRear" => cFront[c] = front[c] \/ Ahead(c) >= 2
      BY DEF AskInv, SizeKept
    <2>1. CASE SizeFront(c)
      BY <1>4, <2>0, <2>1 DEF SizeFront, TypeOK
    <2>2. CASE SizeRear(c)
      <3>1. pc'[c] = "idle" /\ sized'[c] = Distance(cFront[c], rear) /\ front' = front /\ pc[c] = "sizeRear"
        BY <2>2 DEF SizeRear, SizeSeen, TypeOK
      <3>2. pc[Producer] \notin {"visit", "ifFull"}
        BY <2>2, ActorsAssumption DEF SizeRear, SemaphoresHeld, RearHeld
      <3>3. Ahead(c) = Distance(front[c], rear)
        BY <1>5, <3>2 DEF Ahead
      <3>4. Ahead(c)' = Ahead(c)
        BY <1>4, <3>1
      <3> QED  BY <1>5, <2>0, <3>1, <3>3, <3>4
    <2>3. CASE GetNext(c) \/ RawNext(c)
      <3>1. sized'[c] = sized[c] /\ pc[c] \in {"getNext", "rawNext"} /\ pc'[c] \in {"idle", "poll"}
        BY <2>3 DEF GetNext, RawNext, Advance, Deliver, Retry, TypeOK
      <3>2. sized[c] = 0
        BY <3>1 DEF AskInv, AskedBetween, AskLabels
      <3> QED  BY <3>1, <3>2
    <2>4. CASE GetCall(c)
      <3>1. sized'[c] = 0 /\ pc'[c] = "poll"
        BY <2>4 DEF GetCall, TypeOK
      <3> QED  BY <3>1
    <2>5. CASE ~ (SizeFront(c) \/ SizeRear(c) \/ GetNext(c) \/ RawNext(c) \/ GetCall(c))
      <3>1. sized' = sized /\ pc'[c] # "sizeRear" /\ UNCHANGED front
        BY <2>5 DEF Call, Consume, SizeCall, GetTimeCall, EmptyLockRear, EmptyLockFront,
           EmptyReturn, GetLock, GetData, GetTime, RawData, RawTime, GetRaise, RawLock,
           TopLockRear, TopLockFront, TopRead, TopReturn, LockRear, LockFront, ReleaseBoth,
           ReadData, ReadTime, TypeOK
      <3> QED  BY <1>4, <2>0, <3>1
    <2> QED  BY <2>1, <2>2, <2>3, <2>4, <2>5
  <1>7. SizeKept'
    <2> SUFFICES ASSUME NEW d \in Consumers
                 PROVE  /\ sized'[d] >= 1 => Ahead(d)' >= 1
                        /\ sized'[d] >= 2 => Ahead(d)' >= 2
                        /\ pc'[d] = "sizeRear" => cFront'[d] = front'[d] \/ Ahead(d)' >= 2
      BY DEF SizeKept
    <2>1. CASE d = c
      BY <1>6, <2>1
    <2>2. CASE d # c
      BY <1>1, <1>3, <2>2 DEF AskInv, SizeKept
    <2> QED  BY <2>1, <2>2
  <1>8. AskedBetween'
    <2>1. /\ pc'[c] \notin AskLabels => sized'[c] = 0
          /\ pc'[c] \in {"topRear", "topFront", "topRead"} => want'[c] \in 1..MaxTop
          /\ pc'[c] # "topRead" => times'[c] = <<>>
      <3>0. /\ pc[c] \notin AskLabels => sized[c] = 0
            /\ pc[c] \in {"topRear", "topFront", "topRead"} => want[c] \in 1..MaxTop
            /\ pc[c] # "topRead" => times[c] = <<>>
        BY DEF AskInv, AskedBetween
      <3>1. CASE Call(c)
        BY <3>0, <3>1 DEF Call, GetCall, SizeCall, GetTimeCall, AskLabels, TypeOK
      <3>2. CASE TopLockRear(c) \/ TopLockFront(c)
        BY <3>0, <3>2 DEF TopLockRear, TopLockFront, LockRear, LockFront, AskLabels, TypeOK
      <3>3. CASE TopRead(c)
        BY <3>0, <3>3 DEF TopRead, AskLabels, TypeOK
      <3>4. CASE TopReturn(c)
        BY <3>0, <3>4 DEF TopReturn, ReleaseBoth, AskLabels, TypeOK
      <3>5. CASE SizeFront(c) \/ SizeRear(c)
        BY <3>0, <3>5 DEF SizeFront, SizeRear, AskLabels, TypeOK
      <3>6. CASE ~ (Call(c) \/ TopLockRear(c) \/ TopLockFront(c) \/ TopRead(c) \/ TopReturn(c) \/ SizeFront(c) \/ SizeRear(c))
        <4>1. UNCHANGED <<sized, times, want>> /\ pc[c] \notin AskLabels
              /\ pc'[c] \notin {"topRear", "topFront", "topRead"}
          BY <3>6 DEF Consume, EmptyLockRear, EmptyLockFront, EmptyReturn, GetLock, GetData,
             GetTime, GetNext, RawData, RawTime, GetRaise, RawLock, RawNext, Advance, Deliver,
             Retry, LockRear, LockFront, ReleaseBoth, ReadData, ReadTime, AskLabels, TypeOK
        <4>2. pc[c] # "topRead"
          BY <4>1 DEF AskLabels
        <4> QED  BY <3>0, <4>1, <4>2
      <3> QED  BY <3>1, <3>2, <3>3, <3>4, <3>5, <3>6
    <2>2. \A d \in Consumers \ {c} :
            /\ pc'[d] \notin AskLabels => sized'[d] = 0
            /\ pc'[d] \in {"topRear", "topFront", "topRead"} => want'[d] \in 1..MaxTop
            /\ pc'[d] # "topRead" => times'[d] = <<>>
      BY <1>3 DEF AskInv, AskedBetween
    <2> QED  BY <2>1, <2>2 DEF AskedBetween
  <1>9. TopList'
    <2>1. ASSUME NEW d \in Consumers, d # c, pc'[d] = "topRead"
          PROVE  /\ Len(times'[d]) <= want'[d] /\ Len(times'[d]) <= Distance(front'[d], rear')
                 /\ cFront'[d] = (front'[d] + Len(times'[d])) % L
                 /\ \A i \in 1..Len(times'[d]) : times'[d][i] = time'[(front'[d] + i - 1) % L]
      BY <1>1, <1>3, <2>1 DEF AskInv, TopList
    <2>2. ASSUME pc'[c] = "topRead"
          PROVE  /\ Len(times'[c]) <= want'[c] /\ Len(times'[c]) <= Distance(front'[c], rear')
                 /\ cFront'[c] = (front'[c] + Len(times'[c])) % L
                 /\ \A i \in 1..Len(times'[c]) : times'[c][i] = time'[(front'[c] + i - 1) % L]
      <3>0. front[c] \in Slots /\ rear \in Slots /\ Distance(front[c], rear) \in Nat
        BY DistanceNat DEF TypeOK
      <3>1. TopLockFront(c) \/ TopRead(c)
        BY <2>2 DEF Call, Consume, GetCall, SizeCall, GetTimeCall, EmptyLockRear, EmptyLockFront,
           EmptyReturn, GetLock, GetData, GetTime, GetNext, RawData, RawTime, GetRaise, RawLock,
           RawNext, Advance, Deliver, Retry, TopLockRear, TopReturn, LockRear, LockFront,
           ReleaseBoth, ReadData, ReadTime, SizeFront, SizeRear, TypeOK
      <3>2. CASE TopLockFront(c)
        <4>1. /\ times' = times /\ want' = want /\ front' = front /\ rear' = rear
              /\ cFront'[c] = front[c] /\ pc[c] = "topFront"
          BY <3>2 DEF TopLockFront, LockFront, TypeOK
        <4>2. times[c] = <<>> /\ want[c] \in 1..MaxTop
          BY <4>1 DEF AskInv, AskedBetween
        <4>3. 0 \in 0..Distance(front[c], rear)
          BY <3>0
        <4>4. front[c] % L = front[c]
          BY <3>0, <4>3, SlotAfter
        <4>5. front[c] + 0 = front[c]
          BY <3>0, LengthAssumption DEF Slots
        <4> QED  BY <3>0, <4>1, <4>2, <4>4, <4>5 DEF MaxTop
      <3>3. CASE TopRead(c)
        <4> DEFINE n == Len(times[c])
        <4> DEFINE f == front[c]
        <4>1. /\ pc[c] = "topRead" /\ UNCHANGED <<front, rear, time, want>>
              /\ times'[c] = Append(times[c], time[cFront[c]])
              /\ cFront'[c] = Inc(cFront[c])
              /\ n # want[c] /\ cFront[c] # rear
          BY <3>3 DEF TopRead, TopDone, TypeOK
        <4>2. /\ n <= want[c] /\ n <= Distance(f, rear)
              /\ cFront[c] = (f + n) % L
              /\ \A i \in 1..n : times[c][i] = time[(f + i - 1) % L]
          BY <4>1 DEF AskInv, TopList
        <4>3. times[c] \in Seq(Cells) /\ n \in Nat /\ want[c] \in Nat
          BY DEF TypeOK
        <4>4. n \in 0..Distance(f, rear)
          BY <3>0, <4>2, <4>3
        <4>5. /\ (f + n) % L = rear <=> n = Distance(f, rear)
              /\ n < Distance(f, rear) => Inc((f + n) % L) = (f + (n + 1)) % L
          BY <3>0, <4>4, SlotAfter
        <4>6. n < Distance(f, rear) /\ n < want[c] /\ Inc(cFront[c]) = (f + (n + 1)) % L
          BY <3>0, <4>1, <4>2, <4>3, <4>5
        <4>7. time[cFront[c]] \in Cells
          BY <4>2, <3>0, <4>4, SlotAfter DEF TypeOK
        <4>8. /\ Len(times'[c]) = n + 1
              /\ \A i \in 1..n : times'[c][i] = times[c][i]
              /\ times'[c][n + 1] = time[cFront[c]]
          BY <4>1, <4>3, <4>7
        <4>9. f + n = f + (n + 1) - 1
          BY <3>0, <4>3, LengthAssumption DEF Slots
        <4>10. \A i \in 1..(n + 1) : times'[c][i] = time[(f + i - 1) % L]
          BY <4>2, <4>3, <4>8, <4>9
        <4> HIDE DEF n
        <4>11. n + 1 <= Distance(f, rear) /\ n + 1 <= want[c]
          BY <3>0, <4>3, <4>6
        <4> QED  BY <4>1, <4>6, <4>8, <4>10, <4>11
      <3> QED  BY <3>1, <3>2, <3>3
    <2> QED  BY <2>1, <2>2 DEF TopList
  <1> QED  BY <1>7, <1>8, <1>9 DEF AskInv

\* gettime(top) finds as many frames as size() had counted.
THEOREM TopKeepsPromise == Spec => []TopKeepsSizesPromise
  <1>1. Init => AskInv
    <2> SUFFICES ASSUME Init PROVE AskInv
      OBVIOUS
    <2>1. \A c \in Consumers : pc[c] = "idle" /\ sized[c] = 0 /\ times[c] = <<>>
      BY DEF Init, Procs
    <2> QED  BY <2>1 DEF AskInv, SizeKept, AskedBetween, TopList, AskLabels
  <1>2. TypeOK /\ TypeOK' /\ SemaphoresHeld /\ FrontsSafe /\ AskInv /\ [Next]_vars => AskInv'
    <2> SUFFICES ASSUME TypeOK, TypeOK', SemaphoresHeld, FrontsSafe, AskInv, [Next]_vars PROVE AskInv'
      OBVIOUS
    <2>1. CASE UNCHANGED vars
      BY <2>1 DEF vars, ring, putVars, getVars, infoVars, AskInv, SizeKept, AskedBetween, TopList, Ahead, Distance
    <2>2. CASE PutCall \/ Put
      BY <2>2, AskPut
    <2>3. ASSUME NEW c \in Consumers, Call(c) \/ Consume(c) PROVE AskInv'
      BY <2>3, AskConsume
    <2> QED  BY <2>1, <2>2, <2>3 DEF Next
  <1>3. TypeOK /\ SemaphoresHeld /\ AskInv => TopKeepsSizesPromise
    <2> SUFFICES ASSUME TypeOK, SemaphoresHeld, AskInv, NEW c \in Consumers, pc[c] = "topRead", TopDone(c)
                 PROVE  /\ \A i \in 1..Len(times[c]) : times[c][i] = time[(front[c] + i - 1) % L]
                        /\ want[c] <= sized[c] => Len(times[c]) = want[c]
      BY DEF TopKeepsSizesPromise
    <2>1. /\ Len(times[c]) <= want[c] /\ Len(times[c]) <= Distance(front[c], rear)
          /\ cFront[c] = (front[c] + Len(times[c])) % L
          /\ \A i \in 1..Len(times[c]) : times[c][i] = time[(front[c] + i - 1) % L]
      BY DEF AskInv, TopList
    <2>2. ASSUME want[c] <= sized[c], Len(times[c]) # want[c] PROVE FALSE
      <3>1. cFront[c] = rear
        BY <2>2 DEF TopDone
      <3>2. front[c] \in Slots /\ rear \in Slots /\ Distance(front[c], rear) \in Nat /\ Len(times[c]) \in Nat
        BY DistanceNat DEF TypeOK
      <3>3. Len(times[c]) \in 0..Distance(front[c], rear)
        BY <2>1, <3>2
      <3>4. Len(times[c]) = Distance(front[c], rear)
        BY <2>1, <3>1, <3>2, <3>3, SlotAfter
      <3>5. want[c] \in 1..2 /\ sized[c] \in Nat
        BY LengthAssumption DEF AskInv, AskedBetween, MaxTop, TypeOK, Slots
      <3>6. rearLock = c /\ rearLock # Producer
        BY ActorsAssumption DEF SemaphoresHeld, RearHeld, Procs
      <3>7. pc[Producer] \notin {"visit", "ifFull"}
        BY <3>6 DEF SemaphoresHeld, RearHeld, Procs
      <3>8. Ahead(c) = Distance(front[c], rear)
        BY <3>2, <3>7 DEF Ahead
      <3>9. Ahead(c) >= want[c]
        BY <2>2, <3>5 DEF AskInv, SizeKept
      <3> QED  BY <2>1, <2>2, <3>2, <3>4, <3>5, <3>8, <3>9
    <2> QED  BY <2>1, <2>2
  <1> QED
    BY <1>1, <1>2, <1>3, TypeCorrect, RingNumberedHolds, PTL DEF Spec, RingNumbered

-----------------------------------------------------------------------------
(* The reads of CrossQueue.get.                                            *)

\* Frame v belongs in slot s: as many frames before it as whole laps and s more.
Belongs(v, s) == \E q \in Nat : v = q * L + s + 1

\* The frame that put is called with, or will be, belongs at the rear; and every
\* segment holds frames of its slot.
SlotLaps ==
  /\ Belongs(Published + 1, rear)
  /\ \A s \in Slots :
       /\ data[s] \in {0, Partial} \/ Belongs(data[s], s)
       /\ time[s] \in {0, Partial} \/ Belongs(time[s], s)

\* Read whole, they differ by whole laps.
LapsApart(v, w) == Partial \in {v, w} \/ (w - v) % L = 0

\* What CrossQueue.get has read without a semaphore belongs in the slot it looked
\* at, which held a frame.
RawSeen ==
  \A c \in Consumers :
    /\ pc[c] \in {"rawData", "rawTime"} => data[cFront[c]] # 0 /\ time[cFront[c]] # 0
    /\ pc[c] = "rawTime" => gotData[c] = Partial \/ Belongs(gotData[c], cFront[c])
    /\ pc[c] \in {"rawLock", "rawNext"} => LapsApart(gotData[c], gotTime[c])
    /\ c \in Unlocked => LapsApart(out[c].data, out[c].time)

\* Two frames of one slot are whole laps apart.
LEMMA LapsDiffer ==
  ASSUME NEW s \in Slots, NEW v \in Int, NEW w \in Int, Belongs(v, s), Belongs(w, s)
  PROVE  (w - v) % L = 0
  <1>1. PICK p \in Nat : v = p * L + s + 1
    BY DEF Belongs
  <1>2. PICK q \in Nat : w = q * L + s + 1
    BY DEF Belongs
  <1>3. w - v = (q - p) * L /\ q - p \in Int
    BY <1>1, <1>2, LengthAssumption DEF Slots
  <1>4. \A k \in Int : (k * L) % L = 0
    BY LengthAssumption, SMT
  <1> QED  BY <1>3, <1>4

\* The next frame belongs in the next slot.
LEMMA BelongsNext ==
  ASSUME NEW v \in Nat, NEW s \in Slots, Belongs(v, s)
  PROVE  Belongs(v + 1, Inc(s))
  <1>1. PICK q \in Nat : v = q * L + s + 1
    BY DEF Belongs
  <1>2. CASE s = L - 1
    <2>1. Inc(s) = 0 /\ v + 1 = (q + 1) * L + 0 + 1
      BY <1>1, <1>2, IncValue, LengthAssumption
    <2> QED  BY <2>1 DEF Belongs
  <1>3. CASE s # L - 1
    <2>1. Inc(s) = s + 1 /\ v + 1 = q * L + (s + 1) + 1
      BY <1>1, <1>3, IncValue, LengthAssumption DEF Slots
    <2> QED  BY <2>1 DEF Belongs
  <1> QED  BY <1>2, <1>3

\* Segments hold frames of their slots: every step.
LEMMA SlotLapsStep ==
  ASSUME TypeOK, RearWritten, SlotLaps, [Next]_vars
  PROVE  SlotLaps'
  <1> USE PutsAssumption DEF Step, Goto, Procs, ring, putVars
  <1>1. ASSUME UNCHANGED <<rear, data, time>>, Published' = Published PROVE SlotLaps'
    BY <1>1 DEF SlotLaps, Belongs
  <1>2. ASSUME NEW c \in Consumers, Call(c) \/ Consume(c) PROVE SlotLaps'
    <2>1. UNCHANGED <<rear, data, time>> /\ Published' = Published
      BY <1>2, ConsumerLeavesRing DEF Published
    <2> QED  BY <1>1, <2>1
  <1>3. CASE PutCall
    <2>1. UNCHANGED <<rear, data, time>> /\ Published' = Published
      BY <1>3 DEF PutCall, Published, TypeOK
    <2> QED  BY <1>1, <2>1
  <1>4. CASE PutLock
    <2>1. UNCHANGED <<rear, data, time>> /\ Published' = Published
      BY <1>4 DEF PutLock, Published, TypeOK
    <2> QED  BY <1>1, <2>1
  <1>5. CASE PutDataBegin \/ PutDataEnd
    <2>1. PICK v \in {Partial, puts} : data' = [data EXCEPT ![rear] = v] /\ UNCHANGED <<rear, time>>
      BY <1>5 DEF PutDataBegin, PutDataEnd, WriteData, SlotToFill
    <2>2. Published' = Published /\ puts = Published + 1
      BY <1>5 DEF PutDataBegin, PutDataEnd, WriteData, Published, TypeOK
    <2>3. \A s \in Slots : data'[s] = IF s = rear THEN v ELSE data[s]
      BY <2>1 DEF TypeOK
    <2>4. Belongs(puts, rear)
      BY <2>2 DEF SlotLaps
    <2>5. \A s \in Slots : data'[s] \in {0, Partial} \/ Belongs(data'[s], s)
      BY <2>3, <2>4 DEF SlotLaps
    <2> QED  BY <2>1, <2>2, <2>5 DEF SlotLaps, Belongs
  <1>6. CASE PutTimeBegin \/ PutTimeEnd
    <2>1. PICK v \in {Partial, puts} : time' = [time EXCEPT ![rear] = v] /\ UNCHANGED <<rear, data>>
      BY <1>6 DEF PutTimeBegin, PutTimeEnd, WriteTime, SlotToFill
    <2>2. Published' = Published /\ puts = Published + 1
      BY <1>6 DEF PutTimeBegin, PutTimeEnd, WriteTime, Published, TypeOK
    <2>3. \A s \in Slots : time'[s] = IF s = rear THEN v ELSE time[s]
      BY <2>1 DEF TypeOK
    <2>4. Belongs(puts, rear)
      BY <2>2 DEF SlotLaps
    <2>5. \A s \in Slots : time'[s] \in {0, Partial} \/ Belongs(time'[s], s)
      BY <2>3, <2>4 DEF SlotLaps
    <2> QED  BY <2>1, <2>2, <2>5 DEF SlotLaps, Belongs
  <1>7. ASSUME NEW c \in Consumers, PutVisit(c) \/ PutKeepOldest(c) \/ PutDropOldest(c) PROVE SlotLaps'
    <2>1. UNCHANGED <<rear, data, time>> /\ Published' = Published
      BY <1>7 DEF PutVisit, PutKeepOldest, PutDropOldest, LeaveKey, Published, TypeOK
    <2> QED  BY <1>1, <2>1
  <1>8. CASE PutPublish
    <2>1. rear' = Inc(rear) /\ UNCHANGED <<data, time>> /\ rear \in Slots
      BY <1>8 DEF PutPublish, TypeOK
    <2>2. Published' = Published + 1 /\ Published \in Nat
      BY <1>8 DEF PutPublish, Published, TypeOK, RearWritten
    <2>3. Belongs(Published + 1 + 1, Inc(rear))
      BY <2>1, <2>2, BelongsNext DEF SlotLaps
    <2> QED  BY <2>1, <2>2, <2>3 DEF SlotLaps, Belongs
  <1>9. CASE UNCHANGED vars
    <2>1. UNCHANGED <<rear, data, time>> /\ Published' = Published
      BY <1>9 DEF vars, Published
    <2> QED  BY <1>1, <2>1
  <1> QED
    BY <1>2, <1>3, <1>4, <1>5, <1>6, <1>7, <1>8, <1>9 DEF Next, Put

\* What CrossQueue.get reads stays a frame of its slot: put's steps.
LEMMA RawPut ==
  ASSUME TypeOK, RearWritten, RawSeen, PutCall \/ Put
  PROVE  RawSeen'
  <1>1. UNCHANGED <<getVars, infoVars>> /\ \A c \in Consumers : pc'[c] = pc[c]
    BY PutLeavesConsumers
  <1>2. \A s \in Slots : (data[s] # 0 => data'[s] # 0) /\ (time[s] # 0 => time'[s] # 0)
    <2> USE DEF Step, Goto, Procs, ring, putVars
    <2>0. pc[Producer] # "idle" => puts # 0
      BY PutsAssumption DEF RearWritten
    <2>1. CASE PutDataBegin \/ PutDataEnd
      <3>1. PICK v \in {Partial, puts} : data' = [data EXCEPT ![rear] = v] /\ UNCHANGED time
        BY <2>1 DEF PutDataBegin, PutDataEnd, WriteData, SlotToFill
      <3>2. puts # 0 /\ Partial # 0
        BY <2>0, <2>1 DEF PutDataBegin, PutDataEnd, Partial
      <3> QED  BY <3>1, <3>2 DEF TypeOK
    <2>2. CASE PutTimeBegin \/ PutTimeEnd
      <3>1. PICK v \in {Partial, puts} : time' = [time EXCEPT ![rear] = v] /\ UNCHANGED data
        BY <2>2 DEF PutTimeBegin, PutTimeEnd, WriteTime, SlotToFill
      <3>2. puts # 0 /\ Partial # 0
        BY <2>0, <2>2 DEF PutTimeBegin, PutTimeEnd, Partial
      <3> QED  BY <3>1, <3>2 DEF TypeOK
    <2>3. CASE ~ (PutDataBegin \/ PutDataEnd \/ PutTimeBegin \/ PutTimeEnd)
      <3>1. UNCHANGED <<data, time>>
        BY <2>3 DEF Put, PutCall, PutLock, PutVisit, PutDropOldest, PutKeepOldest, LeaveKey, PutPublish
      <3> QED  BY <3>1
    <2> QED  BY <2>1, <2>2, <2>3
  <1>3. \A c \in Consumers : cFront[c] \in Slots
    BY DEF TypeOK
  <1> QED
    BY <1>1, <1>2, <1>3 DEF RawSeen, getVars, LapsApart, Belongs

\* What CrossQueue.get reads stays a frame of its slot: a consumer's steps.
LEMMA RawConsume ==
  ASSUME TypeOK, FrontsSafe, BytesSafe, SemaphoresHeld, NumberInv, SlotLaps, RawSeen,
         NEW c \in Consumers, Call(c) \/ Consume(c)
  PROVE  RawSeen'
  <1> USE DEF Step, Goto, Procs, ring, getVars, infoVars
  <1>0. /\ UNCHANGED <<data, time>>
        /\ \A d \in Consumers \ {c} :
             /\ pc'[d] = pc[d] /\ cFront'[d] = cFront[d]
             /\ gotData'[d] = gotData[d] /\ gotTime'[d] = gotTime[d] /\ out'[d] = out[d]
    BY ConsumerLeavesRing
  <1>s. /\ cFront[c] \in Slots
        /\ pc[c] \in {"rawData", "rawTime"} => data[cFront[c]] # 0 /\ time[cFront[c]] # 0
        /\ pc[c] = "rawTime" => gotData[c] = Partial \/ Belongs(gotData[c], cFront[c])
        /\ pc[c] \in {"rawLock", "rawNext"} => LapsApart(gotData[c], gotTime[c])
        /\ c \in Unlocked => LapsApart(out[c].data, out[c].time)
    BY DEF RawSeen, TypeOK
  <1>1. /\ pc'[c] \in {"rawData", "rawTime"} => data[cFront'[c]] # 0 /\ time[cFront'[c]] # 0
        /\ pc'[c] = "rawTime" => gotData'[c] = Partial \/ Belongs(gotData'[c], cFront'[c])
        /\ pc'[c] \in {"rawLock", "rawNext"} => LapsApart(gotData'[c], gotTime'[c])
        /\ c \in Unlocked => LapsApart(out'[c].data, out'[c].time)
    <2>1. CASE EmptyReturn(c)
      <3>1. pc[c] = "pollTest" /\ UNCHANGED <<cFront, out>>
            /\ pc'[c] \in {"poll", "getLock", "rawData"}
        BY <2>1 DEF EmptyReturn, ReleaseBoth, TypeOK
      <3>2. pc'[c] = "rawData" => cFront[c] # rear
        BY <2>1 DEF EmptyReturn, EmptyAt, TypeOK
      <3>3. cFront[c] = front[c]
        BY <3>1 DEF FrontsSafe, FrontKnown, FrontHeld
      <3>4. cFront[c] # rear => data[cFront[c]] # 0 /\ time[cFront[c]] # 0
        <4>1. SUFFICES ASSUME cFront[c] # rear PROVE data[cFront[c]] # 0 /\ time[cFront[c]] # 0
          OBVIOUS
        <4>2. data[cFront[c]] = time[cFront[c]]
          BY <1>s, <4>1 DEF BytesSafe, SlotsWhole
        <4>3. /\ Distance(front[c], rear) \in Nat /\ Published \in Nat
              /\ Distance(front[c], rear) <= Published
          BY WindowIsRun DEF WindowForm
        <4>4. data[front[c]] = Published + 1 - Distance(front[c], rear)
          BY <1>s, <3>3, <4>1, <4>3 DEF NumberInv, Numbered
        <4>5. data[front[c]] # 0
          BY <4>3, <4>4
        <4> QED  BY <3>3, <4>2, <4>5
      <3> QED  BY <1>s, <3>1, <3>2, <3>4
    <2>2. CASE RawData(c)
      <3>1. /\ pc[c] = "rawData" /\ pc'[c] = "rawTime" /\ UNCHANGED <<cFront, out>>
            /\ gotData'[c] = data[cFront[c]]
        BY <2>2 DEF RawData, ReadData, TypeOK
      <3>2. gotData'[c] = Partial \/ Belongs(gotData'[c], cFront[c])
        BY <1>s, <3>1 DEF SlotLaps
      <3> QED  BY <1>s, <3>1, <3>2
    <2>3. CASE RawTime(c)
      <3>1. /\ pc[c] = "rawTime" /\ pc'[c] = "rawLock" /\ UNCHANGED <<gotData, out>>
            /\ gotTime'[c] = time[cFront[c]]
        BY <2>3 DEF RawTime, ReadTime, RawSlot, TypeOK
      <3>2. gotTime'[c] = Partial \/ Belongs(gotTime'[c], cFront[c])
        BY <1>s, <3>1 DEF SlotLaps
      <3>3. gotData[c] \in Int /\ gotTime'[c] \in Int
        BY <1>s, <3>1, PutsAssumption DEF TypeOK, Cells, Frames, Partial
      <3>4. LapsApart(gotData'[c], gotTime'[c])
        BY <1>s, <3>1, <3>2, <3>3, LapsDiffer DEF LapsApart
      <3> QED  BY <1>s, <3>1, <3>4
    <2>4. CASE RawLock(c)
      <3>1. pc[c] = "rawLock" /\ pc'[c] = "rawNext" /\ UNCHANGED <<gotData, gotTime, out>>
        BY <2>4 DEF RawLock, LockFront, TypeOK
      <3> QED  BY <1>s, <3>1
    <2>5. CASE RawNext(c)
      <3>1. pc[c] = "rawNext" /\ pc'[c] \in {"idle", "poll"}
        BY <2>5 DEF RawNext, Advance, Deliver, Retry, TypeOK
      <3>2. LapsApart(out'[c].data, out'[c].time) \/ UNCHANGED out
        BY <1>s, <2>5, <3>1 DEF RawNext, Advance, Deliver, Retry, TypeOK
      <3> QED  BY <1>s, <3>1, <3>2
    <2>6. CASE GetNext(c)
      <3>1. pc[c] = "getNext" /\ pc'[c] \in {"idle", "poll"} /\ c \notin Unlocked
        BY <2>6 DEF GetNext, Advance, Deliver, Retry, TypeOK, FrontsSafe, GetKind, LockedGet
      <3> QED  BY <3>1
    <2>7. CASE ~ (EmptyReturn(c) \/ RawData(c) \/ RawTime(c) \/ RawLock(c) \/ RawNext(c) \/ GetNext(c))
      <3>1. UNCHANGED out /\ pc'[c] \notin RawGet
        BY <2>7 DEF Call, Consume, GetCall, SizeCall, GetTimeCall, EmptyLockRear, EmptyLockFront,
           GetLock, GetData, GetTime, GetRaise, TopLockRear, TopLockFront, TopRead, TopReturn,
           SizeFront, SizeRear, LockRear, LockFront, ReleaseBoth, ReadData, ReadTime, RawGet, TypeOK
      <3> QED  BY <1>s, <3>1 DEF RawGet
    <2> QED  BY <2>1, <2>2, <2>3, <2>4, <2>5, <2>6, <2>7
  <1>2. \A d \in Consumers \ {c} :
        /\ pc'[d] \in {"rawData", "rawTime"} => data[cFront'[d]] # 0 /\ time[cFront'[d]] # 0
        /\ pc'[d] = "rawTime" => gotData'[d] = Partial \/ Belongs(gotData'[d], cFront'[d])
        /\ pc'[d] \in {"rawLock", "rawNext"} => LapsApart(gotData'[d], gotTime'[d])
        /\ d \in Unlocked => LapsApart(out'[d].data, out'[d].time)
    BY <1>0 DEF RawSeen
  <1> QED  BY <1>0, <1>1, <1>2 DEF RawSeen, LapsApart, Belongs

\* What CrossQueue.get pairs without a semaphore is of one frame, or of frames
\* whole laps apart, on any ring.
THEOREM RawReadsLapsApart == Spec => []RawPairsLapsApart
  <1>1. Init => SlotLaps /\ RawSeen
    <2> SUFFICES ASSUME Init PROVE SlotLaps /\ RawSeen
      OBVIOUS
    <2>1. Published = 0 /\ rear = 0
      BY DEF Init, Published, Procs
    <2>2. 0 \in Nat /\ Published + 1 = 0 * L + rear + 1
      BY <2>1, LengthAssumption
    <2>3. SlotLaps
      BY <2>2 DEF Init, SlotLaps, Belongs
    <2>4. (0 - 0) % L = 0
      BY LengthAssumption, SMT
    <2>5. RawSeen
      BY <2>4 DEF Init, RawSeen, LapsApart, Procs
    <2> QED  BY <2>3, <2>5
  <1>2. TypeOK /\ SemaphoresHeld /\ FrontsSafe /\ BytesSafe /\ NumberInv /\ SlotLaps /\ RawSeen /\ [Next]_vars
          => SlotLaps' /\ RawSeen'
    <2> SUFFICES ASSUME TypeOK, SemaphoresHeld, FrontsSafe, BytesSafe, NumberInv, SlotLaps, RawSeen, [Next]_vars
                 PROVE  SlotLaps' /\ RawSeen'
      OBVIOUS
    <2>1. SlotLaps'
      BY SlotLapsStep DEF NumberInv
    <2>2. CASE UNCHANGED vars
      BY <2>1, <2>2 DEF vars, ring, getVars, RawSeen, LapsApart, Belongs
    <2>3. CASE PutCall \/ Put
      BY <2>1, <2>3, RawPut DEF NumberInv
    <2>4. ASSUME NEW c \in Consumers, Call(c) \/ Consume(c) PROVE RawSeen'
      BY <2>4, RawConsume
    <2> QED  BY <2>1, <2>2, <2>3, <2>4 DEF Next
  <1>3. RawSeen => RawPairsLapsApart
    BY ActorsAssumption DEF RawSeen, LapsApart, RawPairsLapsApart
  <1> QED
    BY <1>1, <1>2, <1>3, RingNumberedHolds, PTL DEF Spec, RingNumbered

-----------------------------------------------------------------------------
(* The safety half of PutReturns: put has a bounded way to go.             *)

\* The steps put has still to take: two for each key it has to visit.
PutLeft ==
  LET all == Cardinality(Consumers)
      now == Cardinality(todo)
  IN  CASE pc[Producer] = "putLock"   -> 6 + 2 * all
        [] pc[Producer] = "dataBegin" -> 5 + 2 * all
        [] pc[Producer] = "dataEnd"   -> 4 + 2 * all
        [] pc[Producer] = "timeBegin" -> 3 + 2 * all
        [] pc[Producer] = "timeEnd"   -> 2 + 2 * all
        [] pc[Producer] = "visit"     -> 1 + 2 * now
        [] pc[Producer] = "ifFull"    -> 2 * now
        [] OTHER                      -> 0

\* A step of the producer within put leaves it fewer steps, and no step of a
\* consumer leaves it more (crossqueue.py:150-180).
PutShortens ==
  [][\/ pc[Producer] = "idle"
     \/ PutLeft' < PutLeft
     \/ UNCHANGED <<pc[Producer], PutLeft>>]_vars

\* The keys still to visit can be counted.
LEMMA TodoCounts ==
  ASSUME TypeOK
  PROVE  /\ Cardinality(todo) \in Nat /\ Cardinality(Consumers) \in Nat
         /\ \A c \in todo : Cardinality(todo \ {c}) = Cardinality(todo) - 1
  <1>1. IsFiniteSet(todo) /\ IsFiniteSet(Consumers)
    BY ActorsAssumption, FS_Subset DEF TypeOK
  <1> QED
    BY <1>1, FS_CardinalityType, FS_RemoveElement

\* A put is over after a bounded number of its own steps, for any number of
\* consumers: with NobodyWaitsInCircle, what PutReturns needs besides fairness.
THEOREM PutIsBounded == Spec => [](PutLeft \in Nat) /\ PutShortens
  <1>1. TypeOK => PutLeft \in Nat
    BY TodoCounts DEF PutLeft
  <1>2. TypeOK /\ RingInv /\ [Next]_vars =>
          \/ pc[Producer] = "idle"
          \/ PutLeft' < PutLeft
          \/ UNCHANGED <<pc[Producer], PutLeft>>
    <2> SUFFICES ASSUME TypeOK, RingInv, [Next]_vars, pc[Producer] # "idle"
                 PROVE  PutLeft' < PutLeft \/ UNCHANGED <<pc[Producer], PutLeft>>
      OBVIOUS
    <2> USE ActorsAssumption DEF TypeOK, Procs, Goto, Step
    <2>1. CASE UNCHANGED vars
      BY <2>1 DEF vars, putVars, PutLeft
    <2>2. CASE PutCall
      BY <2>2 DEF PutCall
    <2>3. CASE PutLock \/ PutDataBegin \/ PutDataEnd \/ PutTimeBegin
      BY <2>3, TodoCounts DEF PutLock, PutDataBegin, PutDataEnd, PutTimeBegin, PutLeft
    <2>4. CASE PutTimeEnd
      BY <2>4, TodoCounts DEF PutTimeEnd, KeysToVisit, PutLeft
    <2>5. ASSUME NEW c \in Consumers, PutVisit(c) PROVE PutLeft' < PutLeft
      BY <2>5, TodoCounts DEF PutVisit, PutLeft
    <2>6. ASSUME NEW c \in Consumers, PutDropOldest(c) \/ PutKeepOldest(c)
          PROVE  PutLeft' < PutLeft
      <3>1. c \in todo /\ todo' = todo \ {c}
        BY <2>6 DEF PutDropOldest, PutKeepOldest, LeaveKey, KeysAfter, RingInv, SemaphoresHeld
      <3>2. pc[Producer] = "ifFull" /\ pc'[Producer] = "visit"
        BY <2>6 DEF PutDropOldest, PutKeepOldest, LeaveKey
      <3>3. Cardinality(todo') = Cardinality(todo) - 1 /\ Cardinality(todo) \in Nat
        BY <3>1, TodoCounts
      <3>4. PutLeft = 2 * Cardinality(todo) /\ PutLeft' = 1 + 2 * Cardinality(todo')
        BY <3>2 DEF PutLeft
      <3> QED
        BY <3>3, <3>4
    <2>7. CASE PutPublish
      BY <2>7, TodoCounts DEF PutPublish, PutLeft
    <2>8. ASSUME NEW c \in Consumers, Call(c) \/ Consume(c)
          PROVE  UNCHANGED <<pc[Producer], PutLeft>>
      <3>1. UNCHANGED <<pc[Producer], todo>>
        BY <2>8, ConsumerLeavesRing
      <3> QED
        BY <3>1 DEF PutLeft
    <2> QED
      BY <2>1, <2>2, <2>3, <2>4, <2>5, <2>6, <2>7, <2>8 DEF Next, Put
  <1> QED
    BY <1>1, <1>2, TypeCorrect, RingSafe, PTL DEF Spec, PutShortens
-----------------------------------------------------------------------------
(* The safety half of GetTakesFrame: a get that finds a frame takes one.   *)

Getting == {"poll", "pollFront", "pollTest"} \cup LockedGet \cup RawGet

\* The steps from one poll of the ring to the return of the frame.
GetLeft(c) ==
  CASE pc[c] = "poll"                   -> 7
    [] pc[c] = "pollFront"              -> 6
    [] pc[c] = "pollTest"               -> 5
    [] pc[c] \in {"getLock", "rawData"} -> 4
    [] pc[c] \in {"getData", "rawTime"} -> 3
    [] pc[c] \in {"getTime", "rawLock"} -> 2
    [] pc[c] \in {"getNext", "rawNext"} -> 1
    [] OTHER                            -> 0

\* Each step of a get brings it nearer to its return, unless the ring is empty
\* or the frame just taken does not reshape; and nobody throws a get back.
GetShortens ==
  [][\A c \in Consumers : pc[c] \in Getting =>
       \/ pc'[c] = pc[c]
       \/ GetLeft(c)' < GetLeft(c)
       \/ pc'[c] = "poll" /\ front[c] = rear
       \/ pc'[c] = "poll" /\ front[c] # rear /\ front'[c] = Inc(front[c])]_vars

\* A step of c's own.
LEMMA GetSteps ==
  ASSUME TypeOK, RingInv, NEW c \in Consumers, Consume(c), pc[c] \in Getting
  PROVE  \/ GetLeft(c)' < GetLeft(c)
         \/ pc'[c] = "poll" /\ front[c] = rear
         \/ pc'[c] = "poll" /\ front[c] # rear /\ front'[c] = Inc(front[c])
  <1>0. c \in Procs
    BY DEF Procs
  <1> USE <1>0 DEF Step, Goto, TypeOK, Getting, LockedGet, RawGet
  <1>1. CASE EmptyLockRear(c) \/ EmptyLockFront(c)
    BY <1>1 DEF EmptyLockRear, EmptyLockFront, GetLeft
  <1>2. CASE EmptyReturn(c)
    <2>1. pc[c] = "pollTest" /\ cFront[c] = front[c]
      BY <1>2 DEF EmptyReturn, RingInv, FrontKnown, FrontHeld
    <2>2. CASE EmptyAt(cFront[c]) /\ pc'[c] = "poll"
      BY <2>1, <2>2 DEF EmptyAt
    <2>3. CASE pc'[c] \in {"getLock", "rawData"}
      BY <2>1, <2>3 DEF GetLeft
    <2> QED
      BY <1>2, <2>2, <2>3 DEF EmptyReturn
  <1>3. CASE GetLock(c) \/ GetData(c) \/ GetTime(c)
    BY <1>3 DEF GetLock, GetData, GetTime, GetLeft
  <1>4. CASE RawData(c) \/ RawTime(c) \/ GetRaise(c) \/ RawLock(c)
    BY <1>4 DEF RawData, RawTime, GetRaise, RawLock, GetLeft
  <1>5. CASE GetNext(c) \/ RawNext(c)
    <2>1. pc[c] \in {"getNext", "rawNext"} /\ Advance(c)
      BY <1>5 DEF GetNext, RawNext
    <2>2. front[c] # rear /\ cFront[c] = front[c]
      BY <2>1 DEF RingInv, FoundFrameStays, FrontKnown, FrontHeld
    <2>3. front'[c] = Inc(front[c])
      BY <2>1, <2>2 DEF Advance, Taken
    <2>4. pc'[c] \in {"idle", "poll"}
      BY <2>1 DEF Advance, Deliver, Retry
    <2>5. CASE pc'[c] = "idle"
      BY <2>1, <2>5 DEF GetLeft
    <2> QED
      BY <2>2, <2>3, <2>4, <2>5
  <1>6. CASE \/ TopLockRear(c) \/ TopLockFront(c) \/ TopRead(c) \/ TopReturn(c)
             \/ SizeFront(c) \/ SizeRear(c)
    BY <1>6 DEF TopLockRear, TopLockFront, TopRead, TopReturn, SizeFront, SizeRear
  <1> QED
    BY <1>1, <1>2, <1>3, <1>4, <1>5, <1>6 DEF Consume

\* A get that polls a ring with a frame returns that frame, or a newer one,
\* after a bounded number of its own steps (inferqueue.py:15-52).
THEOREM GetIsBounded == Spec => GetShortens
  <1>1. TypeOK /\ RingInv /\ [Next]_vars =>
          \A c \in Consumers : pc[c] \in Getting =>
            \/ pc'[c] = pc[c]
            \/ GetLeft(c)' < GetLeft(c)
            \/ pc'[c] = "poll" /\ front[c] = rear
            \/ pc'[c] = "poll" /\ front[c] # rear /\ front'[c] = Inc(front[c])
    <2> SUFFICES ASSUME TypeOK, RingInv, [Next]_vars, NEW c \in Consumers, pc[c] \in Getting,
                        pc'[c] # pc[c]
                 PROVE  \/ GetLeft(c)' < GetLeft(c)
                        \/ pc'[c] = "poll" /\ front[c] = rear
                        \/ pc'[c] = "poll" /\ front[c] # rear /\ front'[c] = Inc(front[c])
      OBVIOUS
    <2>1. CASE UNCHANGED vars
      BY <2>1 DEF vars
    <2>2. CASE PutCall \/ Put
      <3>1. c # Producer /\ c \in Procs /\ Producer \in Procs
        BY ActorsAssumption DEF Procs
      <3>2. pc'[c] = pc[c]
        BY <2>2, <3>1 DEF PutCall, Put, PutLock, PutDataBegin, PutDataEnd, PutTimeBegin, PutTimeEnd,
           PutVisit, PutDropOldest, PutKeepOldest, LeaveKey, PutPublish, Step, Goto, TypeOK
      <3> QED
        BY <3>2
    <2>3. ASSUME NEW d \in Consumers, Call(d) \/ Consume(d), d # c
          PROVE  FALSE
      BY <2>3, ConsumerLeavesRing
    <2>4. CASE Call(c)
      BY <2>4 DEF Call, GetCall, SizeCall, GetTimeCall, Step, Getting, LockedGet, RawGet
    <2>5. CASE Consume(c)
      BY <2>5, GetSteps
    <2> QED
      BY <2>1, <2>2, <2>3, <2>4, <2>5 DEF Next
  <1> QED
    BY <1>1, TypeCorrect, RingSafe, PTL DEF Spec, GetShortens
=============================================================================
