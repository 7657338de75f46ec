-------------------------- MODULE DeviceInit_proof --------------------------
(***************************************************************************)
(* Proofs about DeviceInit for any set of threads and addresses.           *)
(***************************************************************************)
EXTENDS DeviceInit, Naturals, TLAPS

-----------------------------------------------------------------------------
(* The inductive invariant *)

\* The mutex is owned by exactly the thread whose handler is inside it.
MutexOwner == \A t \in Thread : pc[t] \in Holding <=> mutex = t

\* Which DreamV3HwInitialize a thread is in follows from where it is.
CallerPc ==
  \A t \in Thread :
    /\ pc[t] \in HwInit => caller[t] # "none"
    /\ pc[t] \in {"InitReacquire", "InitPublish"} => caller[t] = "INIT"
    /\ pc[t] \in {"Idle", "InitAcquire", "RegAccess", "RingAcquire",
                  "RingCheck", "RingAccess"} \cup (InitLocked \ {"InitPublish"})
         => caller[t] = "none"

\* Past the HwInitInProgress test, and until it releases the mutex, a handler
\* knows that no full INIT is in its window.
GuardHolds ==
  \A t \in Thread :
    pc[t] \in {"InitForget", "InitUnmapFb", "InitMapMmio", "InitMapFb",
               "InitMode", "RingAccess"} => ~hwInitInProgress

\* Between the unmapping and the publication the flag is down.
FlagDown ==
  \A t \in Thread :
    pc[t] \in {"InitMapMmio", "InitMapFb", "InitMode"} => ~hardwareInitialized

\* The MMIO pointer at each point of INIT_HARDWARE, and outside of it.
MmioPointer ==
  /\ \A t \in Thread :
       /\ pc[t] = "InitForget" => mmioVirtualBase \notin mapped
       /\ pc[t] \in {"InitUnmapFb", "InitMapMmio"} => mmioVirtualBase = Null
       /\ pc[t] \in {"InitMapFb", "InitMode"} =>
            mmioVirtualBase \in mapped /\ gpuBar5Va = mmioVirtualBase
  /\ (\A t \in Thread : pc[t] \notin {"InitForget", "InitUnmapFb"}) =>
       (hardwareInitialized => mmioVirtualBase \in mapped)
  /\ (\A t \in Thread : pc[t] \notin {"InitMapFb", "InitMode"}) =>
       (~hardwareInitialized /\ ~hwInitInProgress => mmioVirtualBase = Null)

\* The BAR mappings are those of the two pointers, which never coincide.
Mappings ==
  /\ NoMappingLeak
  /\ mmioVirtualBase = Null \/ mmioVirtualBase # fbVirtualBase
  /\ fbVirtualBase \in mapped \cup {Null}

IInv == /\ TypeOK
        /\ MutexOwner
        /\ CallerPc
        /\ OneFullInit
        /\ WindowMapping
        /\ GuardHolds
        /\ FlagDown
        /\ MmioPointer
        /\ Mappings

USE NullAssumption DEF Holding, Waiting, HwInit, Unlocked, InitLocked

-----------------------------------------------------------------------------
(* Type correctness *)

LEMMA TypeInit == Init => TypeOK
BY DEF Init, TypeOK, Pc

LEMMA TypeNext == TypeOK /\ [Next]_vars => TypeOK'
<1> SUFFICES ASSUME TypeOK, [Next]_vars PROVE TypeOK'
  OBVIOUS
<1> USE DEF TypeOK, Pc, Goto, Acquire, Release, flags, mappings, psp
<1>1. CASE UNCHANGED vars
  BY <1>1 DEF vars
<1>2. CASE Next
  <2>1. PICK t \in Thread : Request(t) \/ Lock(t) \/ Run(t)
    BY <1>2 DEF Next
  <2>2. CASE InitRequest(t)
    BY <2>2 DEF InitRequest
  <2>3. CASE ResetRequest(t)
    BY <2>3 DEF ResetRequest
  <2>4. CASE ProxyRequest(t)
    BY <2>4 DEF ProxyRequest
  <2>5. CASE RingRequest(t)
    BY <2>5 DEF RingRequest
  <2>6. CASE RegRequest(t)
    BY <2>6 DEF RegRequest
  <2>7. CASE InitLock(t)
    BY <2>7 DEF InitLock
  <2>8. CASE InitReacquire(t)
    BY <2>8 DEF InitReacquire
  <2>9. CASE ProxyLock(t)
    BY <2>9 DEF ProxyLock
  <2>10. CASE RingLock(t)
    BY <2>10 DEF RingLock
  <2>11. CASE InitBusy(t)
    BY <2>11 DEF InitBusy
  <2>12. CASE InitUnmapMmio(t)
    BY <2>12 DEF InitUnmapMmio
  <2>13. CASE InitForgetMmio(t)
    BY <2>13 DEF InitForgetMmio
  <2>14. CASE InitUnmapFb(t)
    BY <2>14 DEF InitUnmapFb
  <2>15. CASE InitFirst(t)
    BY <2>15 DEF InitFirst
  <2>16. CASE InitReject(t)
    BY <2>16 DEF InitReject
  <2>17. CASE InitMapMmio(t)
    BY <2>17 DEF InitMapMmio
  <2>18. CASE InitMapMmioFails(t)
    BY <2>18 DEF InitMapMmioFails
  <2>19. CASE InitMapFb(t)
    BY <2>19 DEF InitMapFb
  <2>20. CASE InitSkipFb(t)
    BY <2>20 DEF InitSkipFb
  <2>21. CASE InitNbioMap(t)
    BY <2>21 DEF InitNbioMap
  <2>22. CASE InitMarkInProgress(t)
    BY <2>22 DEF InitMarkInProgress
  <2>23. CASE InitPublish(t)
    BY <2>23 DEF InitPublish
  <2>24. CASE HwInitWithoutPsp(t)
    BY <2>24 DEF HwInitWithoutPsp, HwInitReturn
  <2>25. CASE PspInit(t)
    BY <2>25 DEF PspInit
  <2>26. CASE PspInitFails(t)
    BY <2>26 DEF PspInitFails, HwInitReturn
  <2>27. CASE KiqInitLocal(t)
    BY <2>27 DEF KiqInitLocal, HwInitReturn
  <2>28. CASE KiqInitCallsPsp(t)
    BY <2>28 DEF KiqInitCallsPsp
  <2>29. CASE PspReply(t)
    BY <2>29 DEF PspReply, HwInitReturn
  <2>30. CASE ProxyCapture(t)
    BY <2>30 DEF ProxyCapture
  <2>31. CASE ProxyNotMapped(t)
    BY <2>31 DEF ProxyNotMapped, ProxyReturn
  <2>32. CASE ProxyAccess(t)
    BY <2>32 DEF ProxyAccess, ProxyReturn
  <2>33. CASE RingBusy(t)
    BY <2>33 DEF RingBusy
  <2>34. CASE RingStart(t)
    BY <2>34 DEF RingStart
  <2>35. CASE RingDone(t)
    BY <2>35 DEF RingDone
  <2>36. CASE RegAccess(t)
    BY <2>36 DEF RegAccess
  <2>37. QED
    BY <2>1, <2>2, <2>3, <2>4, <2>5, <2>6, <2>7, <2>8, <2>9, <2>10, <2>11, <2>12, <2>13, <2>14, <2>15, <2>16, <2>17, <2>18, <2>19, <2>20, <2>21, <2>22, <2>23, <2>24, <2>25, <2>26, <2>27, <2>28, <2>29, <2>30, <2>31, <2>32, <2>33, <2>34, <2>35, <2>36 DEF Request, Lock, Run
<1>3. QED
  BY <1>1, <1>2

\* Every variable of the model keeps its type.
THEOREM TypeCorrect == Spec => []TypeOK
<1>1. Init => TypeOK
  BY TypeInit
<1>2. TypeOK /\ [Next]_vars => TypeOK'
  BY TypeNext
<1>3. QED
  BY <1>1, <1>2, PTL DEF Spec

-----------------------------------------------------------------------------
(* The invariant is inductive *)

LEMMA InvInit == Init => IInv
BY TypeInit DEF Init, IInv, MutexOwner, CallerPc, OneFullInit, InWindow,
   WindowMapping, GuardHolds, FlagDown, MmioPointer, Mappings, NoMappingLeak

LEMMA InvNext == IInv /\ [Next]_vars => IInv'
<1> SUFFICES ASSUME IInv, [Next]_vars PROVE IInv'
  OBVIOUS
<1>t. TypeOK'
  BY TypeNext DEF IInv
<1> USE <1>t DEF IInv, TypeOK, MutexOwner, CallerPc, OneFullInit, InWindow,
        WindowMapping, GuardHolds, FlagDown, MmioPointer, Mappings,
        NoMappingLeak, Goto, Acquire, Release, flags, mappings, psp
<1>1. CASE UNCHANGED vars
  BY <1>1 DEF vars
<1>2. CASE Next
  <2>1. PICK t \in Thread : Request(t) \/ Lock(t) \/ Run(t)
    BY <1>2 DEF Next
  <2>2. CASE InitRequest(t)
    BY <2>2 DEF InitRequest
  <2>3. CASE ResetRequest(t)
    BY <2>3 DEF ResetRequest
  <2>4. CASE ProxyRequest(t)
    BY <2>4 DEF ProxyRequest
  <2>5. CASE RingRequest(t)
    BY <2>5 DEF RingRequest
  <2>6. CASE RegRequest(t)
    BY <2>6 DEF RegRequest
  <2>7. CASE InitLock(t)
    BY <2>7 DEF InitLock
  <2>8. CASE InitReacquire(t)
    BY <2>8 DEF InitReacquire
  <2>9. CASE ProxyLock(t)
    BY <2>9 DEF ProxyLock
  <2>10. CASE RingLock(t)
    BY <2>10 DEF RingLock
  <2>11. CASE InitBusy(t)
    BY <2>11 DEF InitBusy
  <2>12. CASE InitUnmapMmio(t)
    BY <2>12 DEF InitUnmapMmio
  <2>13. CASE InitForgetMmio(t)
    BY <2>13 DEF InitForgetMmio
  <2>14. CASE InitUnmapFb(t)
    BY <2>14 DEF InitUnmapFb
  <2>15. CASE InitFirst(t)
    BY <2>15 DEF InitFirst
  <2>16. CASE InitReject(t)
    BY <2>16 DEF InitReject
  <2>17. CASE InitMapMmio(t)
    BY <2>17 DEF InitMapMmio
  <2>18. CASE InitMapMmioFails(t)
    BY <2>18 DEF InitMapMmioFails
  <2>19. CASE InitMapFb(t)
    BY <2>19 DEF InitMapFb
  <2>20. CASE InitSkipFb(t)
    BY <2>20 DEF InitSkipFb
  <2>21. CASE InitNbioMap(t)
    BY <2>21 DEF InitNbioMap
  <2>22. CASE InitMarkInProgress(t)
    BY <2>22 DEF InitMarkInProgress
  <2>23. CASE InitPublish(t)
    BY <2>23 DEF InitPublish
  <2>24. CASE HwInitWithoutPsp(t)
    BY <2>24 DEF HwInitWithoutPsp, HwInitReturn
  <2>25. CASE PspInit(t)
    BY <2>25 DEF PspInit
  <2>26. CASE PspInitFails(t)
    BY <2>26 DEF PspInitFails, HwInitReturn
  <2>27. CASE KiqInitLocal(t)
    BY <2>27 DEF KiqInitLocal, HwInitReturn
  <2>28. CASE KiqInitCallsPsp(t)
    BY <2>28 DEF KiqInitCallsPsp
  <2>29. CASE PspReply(t)
    BY <2>29 DEF PspReply, HwInitReturn
  <2>30. CASE ProxyCapture(t)
    BY <2>30 DEF ProxyCapture
  <2>31. CASE ProxyNotMapped(t)
    BY <2>31 DEF ProxyNotMapped, ProxyReturn
  <2>32. CASE ProxyAccess(t)
    BY <2>32 DEF ProxyAccess, ProxyReturn
  <2>33. CASE RingBusy(t)
    BY <2>33 DEF RingBusy
  <2>34. CASE RingStart(t)
    BY <2>34 DEF RingStart
  <2>35. CASE RingDone(t)
    BY <2>35 DEF RingDone
  <2>36. CASE RegAccess(t)
    BY <2>36 DEF RegAccess
  <2>37. QED
    BY <2>1, <2>2, <2>3, <2>4, <2>5, <2>6, <2>7, <2>8, <2>9, <2>10, <2>11, <2>12, <2>13, <2>14, <2>15, <2>16, <2>17, <2>18, <2>19, <2>20, <2>21, <2>22, <2>23, <2>24, <2>25, <2>26, <2>27, <2>28, <2>29, <2>30, <2>31, <2>32, <2>33, <2>34, <2>35, <2>36 DEF Request, Lock, Run
<1>3. QED
  BY <1>1, <1>2

LEMMA Invariant == Spec => []IInv
<1>1. QED
  BY InvInit, InvNext, PTL DEF Spec

-----------------------------------------------------------------------------
(* The safety properties *)

\* DeviceMutex is never waited for by the thread that owns it: the PSP driver's
\* call back into 0x900 cannot hang a full INIT_HARDWARE.
THEOREM DeadlockFree == Spec => []NoSelfDeadlock
<1>1. IInv => NoSelfDeadlock
  BY DEF IInv, MutexOwner, NoSelfDeadlock
<1>2. QED
  BY <1>1, Invariant, PTL

\* At most one full INIT_HARDWARE is in its unlocked window, and
\* HwInitInProgress tells whether one is.
THEOREM SingleInit == Spec => []OneFullInit
<1>1. IInv => OneFullInit
  BY DEF IInv
<1>2. QED
  BY <1>1, Invariant, PTL

\* The mapping DreamV3HwInitialize uses in that window is live, is the one the
\* PSP code was given, and is not yet published.
THEOREM WindowIsMapped == Spec => []WindowMapping
<1>1. IInv => WindowMapping
  BY DEF IInv
<1>2. QED
  BY <1>1, Invariant, PTL

\* INIT_HARDWARE never loses track of a BAR mapping, and outside the mutex no
\* BAR pointer dangles and HardwareInitialized promises a live mapping.
THEOREM MappingsSound == Spec => []PublishedIsMapped
<1>1. IInv => PublishedIsMapped
  <2> SUFFICES ASSUME IInv PROVE PublishedIsMapped
    OBVIOUS
  <2>1. NoMappingLeak
    BY DEF IInv, Mappings
  <2>2. ASSUME mutex = Null PROVE \A t \in Thread : pc[t] \notin Holding
    BY <2>2 DEF IInv, MutexOwner
  <2>3. ASSUME mutex = Null PROVE fbVirtualBase \in mapped \cup {Null}
    BY DEF IInv, Mappings
  <2>4. ASSUME mutex = Null PROVE hardwareInitialized => mmioVirtualBase \in mapped
    BY <2>2, <2>4 DEF IInv, MmioPointer
  <2>5. ASSUME mutex = Null PROVE mmioVirtualBase \in mapped \cup {Null}
    BY <2>2, <2>4, <2>5 DEF IInv, MmioPointer, WindowMapping
  <2>6. QED
    BY <2>1, <2>3, <2>4, <2>5 DEF PublishedIsMapped
<1>2. QED
  BY <1>1, Invariant, PTL

\* The ring and halt-probe handlers keep off the engines during that window.
THEOREM RingsKeepOff == Spec => []RingExcludesInit
<1>1. IInv => RingExcludesInit
  BY DEF IInv, GuardHolds, RingExcludesInit
<1>2. QED
  BY <1>1, Invariant, PTL

\* While a full INIT is in progress no step of any thread changes a BAR mapping:
\* whoever could has passed the BUSY test, and so excludes the window.
THEOREM MappingsFrozen == Spec => WindowFrozen
<1>1. IInv /\ [Next]_vars =>
        [hwInitInProgress /\ hwInitInProgress' => UNCHANGED mappings]_vars
  <2> SUFFICES ASSUME IInv, Next, hwInitInProgress, hwInitInProgress'
               PROVE  UNCHANGED mappings
    BY DEF vars
  <2>1. PICK t \in Thread : Request(t) \/ Lock(t) \/ Run(t)
    BY DEF Next
  <2>2. pc[t] \notin {"InitForget", "InitUnmapFb", "InitMapMmio", "InitMapFb",
                      "InitMode"}
    BY DEF IInv, GuardHolds
  <2>3. CASE Request(t)
    BY <2>3 DEF Request, InitRequest, ResetRequest, ProxyRequest, RingRequest,
                RegRequest
  <2>4. CASE Lock(t)
    BY <2>4 DEF Lock, InitLock, InitReacquire, ProxyLock, RingLock
  <2>5. CASE Run(t)
    BY <2>2, <2>5 DEF Run, Goto, InitBusy, InitUnmapMmio, InitForgetMmio,
       InitUnmapFb, InitFirst, InitReject, InitMapMmio, InitMapMmioFails,
       InitMapFb, InitSkipFb, InitNbioMap, InitMarkInProgress, InitPublish,
       HwInitWithoutPsp, PspInit, PspInitFails, KiqInitLocal, KiqInitCallsPsp,
       PspReply, ProxyCapture, ProxyNotMapped, ProxyAccess, RingBusy,
       RingStart, RingDone, RegAccess
  <2>6. QED
    BY <2>1, <2>3, <2>4, <2>5
<1>2. QED
  BY <1>1, Invariant, PTL DEF Spec, WindowFrozen

-----------------------------------------------------------------------------
(* How far a thread has to go *)

\* The most steps a thread has before it has returned.  A 0x900 that the PSP
\* driver sends from within DreamV3HwInitialize comes before its PspReply.
StepsLeft(at) ==
  CASE at = "InitAcquire" -> 16
    [] at = "InitCheck" -> 15
    [] at = "InitForget" -> 14
    [] at = "InitUnmapFb" -> 13
    [] at = "InitMapMmio" -> 12
    [] at = "InitMapFb" -> 11
    [] at = "InitMode" -> 10
    [] at = "HwInitPsp" -> 9
    [] at = "HwInitKiq" -> 8
    [] at = "ProxyCheck" -> 7
    [] at = "ProxyAcquire" -> 6
    [] at = "ProxyAccess" -> 5
    [] at = "PspReply" -> 4
    [] at \in {"InitReacquire", "RingAcquire"} -> 3
    [] at \in {"InitPublish", "RingCheck"} -> 2
    [] at \in {"RegAccess", "RingAccess"} -> 1
    [] OTHER -> 0

\* One step of one thread: it enters the driver, or comes nearer to its return;
\* nobody else is moved by it, nor is a window that is open closed by another
\* thread than the one whose INIT_HARDWARE it is.
CallsCountDown ==
  \E t \in Thread :
    /\ pc[t] = "Idle" \/ StepsLeft(pc'[t]) < StepsLeft(pc[t])
    /\ \A u \in Thread \ {t} : pc'[u] = pc[u] /\ (InWindow(u) <=> InWindow(u)')
    /\ InWindow(t) /\ ~InWindow(t)' => pc[t] = "InitPublish" /\ pc'[t] = "Idle"

\* Some thread of those inside can go on: whoever waits for DeviceMutex waits for
\* one that does not wait itself, or for nobody.  So can the INIT_HARDWARE that
\* HwInitInProgress stands for, or one it waits for.
SomeoneRuns ==
  /\ \A t \in Thread : pc[t] \in Waiting =>
       mutex = Null \/ (mutex \in Thread /\ pc[mutex] \notin Waiting \cup {"Idle"})
  /\ hwInitInProgress =>
       \E t \in Thread : InWindow(t) /\ pc[t] # "Idle" /\ StepsLeft(pc[t]) > 0

LEMMA StepsAre ==
  /\ StepsLeft("InitAcquire") = 16 /\ StepsLeft("InitCheck") = 15
  /\ StepsLeft("InitForget") = 14 /\ StepsLeft("InitUnmapFb") = 13
  /\ StepsLeft("InitMapMmio") = 12 /\ StepsLeft("InitMapFb") = 11
  /\ StepsLeft("InitMode") = 10 /\ StepsLeft("HwInitPsp") = 9
  /\ StepsLeft("HwInitKiq") = 8 /\ StepsLeft("ProxyCheck") = 7
  /\ StepsLeft("ProxyAcquire") = 6 /\ StepsLeft("ProxyAccess") = 5
  /\ StepsLeft("PspReply") = 4 /\ StepsLeft("InitReacquire") = 3
  /\ StepsLeft("RingAcquire") = 3 /\ StepsLeft("InitPublish") = 2
  /\ StepsLeft("RingCheck") = 2 /\ StepsLeft("RegAccess") = 1
  /\ StepsLeft("RingAccess") = 1 /\ StepsLeft("Idle") = 0
BY DEF StepsLeft

\* A thread between entry and return, in whichever DreamV3HwInitialize.
LEMMA RunCounts ==
  ASSUME IInv, NEW t \in Thread, Run(t) \/ Lock(t)
  PROVE  CallsCountDown
<1> USE DEF IInv, TypeOK, CallerPc, InWindow, Goto
<1>1. StepsLeft(pc'[t]) < StepsLeft(pc[t])
  <2>1. CASE Lock(t)
    BY <2>1, StepsAre DEF Lock, InitLock, InitReacquire, ProxyLock, RingLock
  <2>2. CASE \/ InitBusy(t) \/ InitUnmapMmio(t) \/ InitForgetMmio(t) \/ InitUnmapFb(t)
             \/ InitFirst(t) \/ InitReject(t) \/ InitMapMmio(t) \/ InitMapMmioFails(t)
             \/ InitMapFb(t) \/ InitSkipFb(t) \/ InitNbioMap(t)
             \/ InitMarkInProgress(t) \/ InitPublish(t)
    BY <2>2, StepsAre DEF InitBusy, InitUnmapMmio, InitForgetMmio, InitUnmapFb, InitFirst,
       InitReject, InitMapMmio, InitMapMmioFails, InitMapFb, InitSkipFb, InitNbioMap,
       InitMarkInProgress, InitPublish
  <2>3. CASE \/ HwInitWithoutPsp(t) \/ PspInit(t) \/ PspInitFails(t) \/ KiqInitLocal(t)
             \/ KiqInitCallsPsp(t) \/ PspReply(t)
    BY <2>3, StepsAre DEF HwInitWithoutPsp, PspInit, PspInitFails, KiqInitLocal,
       KiqInitCallsPsp, PspReply, HwInitReturn
  <2>4. CASE \/ ProxyCapture(t) \/ ProxyNotMapped(t) \/ ProxyAccess(t)
             \/ RingBusy(t) \/ RingStart(t) \/ RingDone(t) \/ RegAccess(t)
    BY <2>4, StepsAre DEF ProxyCapture, ProxyNotMapped, ProxyAccess, ProxyReturn,
       RingBusy, RingStart, RingDone, RegAccess
  <2>5. QED
    BY <2>1, <2>2, <2>3, <2>4 DEF Run
<1>2. /\ \A u \in Thread \ {t} : pc'[u] = pc[u] /\ caller'[u] = caller[u]
      /\ caller[t] = "INIT" /\ caller'[t] # "INIT" => pc[t] = "InitPublish" /\ pc'[t] = "Idle"
  BY DEF Run, Lock, InitLock, InitReacquire, ProxyLock, RingLock, InitBusy, InitUnmapMmio,
     InitForgetMmio, InitUnmapFb, InitFirst, InitReject, InitMapMmio, InitMapMmioFails,
     InitMapFb, InitSkipFb, InitNbioMap, InitMarkInProgress, InitPublish, HwInitWithoutPsp,
     PspInit, PspInitFails, KiqInitLocal, KiqInitCallsPsp, PspReply, HwInitReturn,
     ProxyCapture, ProxyNotMapped, ProxyAccess, ProxyReturn, RingBusy, RingStart, RingDone,
     RegAccess
<1>3. QED
  BY <1>1, <1>2 DEF CallsCountDown

LEMMA EnterCounts ==
  ASSUME IInv, NEW t \in Thread, Request(t)
  PROVE  CallsCountDown
BY DEF IInv, TypeOK, CallerPc, InWindow, Goto, Request, InitRequest, ResetRequest,
   ProxyRequest, RingRequest, RegRequest, CallsCountDown

\* No handler that shares the BAR5 mapping goes round in a loop, alone or by way
\* of the PSP driver's call back: each of its steps brings its return nearer, and
\* no other thread's takes it back.  HwInitInProgress is put down by the thread
\* that has put it up, when it returns.
THEOREM InitCountsDown == Spec => [][CallsCountDown]_vars
<1>1. IInv /\ [Next]_vars => [CallsCountDown]_vars
  BY RunCounts, EnterCounts DEF Next
<1>2. QED
  BY <1>1, Invariant, PTL DEF Spec

\* No cycle of waiting, of any number of threads, stops DeviceMutex or a full
\* INIT: the owner of the mutex does not wait, and whoever has put up
\* HwInitInProgress is still on its way to put it down.
THEOREM WaitsAreShort == Spec => []SomeoneRuns
<1>1. IInv => SomeoneRuns
  <2> SUFFICES ASSUME IInv PROVE SomeoneRuns
    OBVIOUS
  <2>1. \A t \in Thread : pc[t] \in Waiting =>
          mutex = Null \/ (mutex \in Thread /\ pc[mutex] \notin Waiting \cup {"Idle"})
    BY DEF IInv, TypeOK, MutexOwner
  <2>2. \A t \in Thread : InWindow(t) => pc[t] # "Idle" /\ StepsLeft(pc[t]) > 0
    <3> SUFFICES ASSUME NEW t \in Thread, InWindow(t)
                 PROVE  pc[t] # "Idle" /\ StepsLeft(pc[t]) > 0
      OBVIOUS
    <3>1. /\ pc[t] \in HwInit \cup {"InitReacquire", "InitPublish", "ProxyCheck",
                                   "ProxyAcquire", "ProxyAccess"}
      BY DEF IInv, TypeOK, CallerPc, InWindow, Pc
    <3>2. QED
      BY <3>1, StepsAre
  <2>3. QED
    BY <2>1, <2>2 DEF IInv, OneFullInit, SomeoneRuns
<1>2. QED
  BY <1>1, Invariant, PTL
=============================================================================
