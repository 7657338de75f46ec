----------------------------- MODULE DeviceInit -----------------------------
(***************************************************************************)
(* IOCTL_AMDBC250_INIT_HARDWARE and everything that shares the BAR5        *)
(* mapping with it: the 0x900/0x901 register proxies the PSP driver calls, *)
(* the ring and halt-probe handlers, and the two reset IOCTLs, which run   *)
(* DreamV3HwInitialize without DeviceMutex.                                *)
(*                                                                         *)
(* A thread is one IRP in DreamV3DeviceControl; one action is the code     *)
(* between two points at which another thread can see or change the device *)
(* extension.  A virtual address is a model value: MmMapIoSpace returns    *)
(* any address that is not mapped, so an address can come back.            *)
(***************************************************************************)
CONSTANTS Thread,   \* IRPs that can be in the driver at the same time
          Va,       \* addresses MmMapIoSpace can return for BAR5 and BAR0
          PspVa,    \* addresses it can return for PSP's own view of BAR5
          Null      \* a NULL pointer, and the owner of a free mutex

ASSUME NullAssumption == Null \notin Thread \cup Va \cup PspVa

VARIABLES
  pc,                  \* where each thread is
  caller,              \* whose DreamV3HwInitialize the thread is in
  base,                \* mmioBase, the local copy a proxy handler takes
  mutex,               \* owner of DevExt->DeviceMutex (not recursive)
  hardwareInitialized, \* DevExt->HardwareInitialized
  hwInitInProgress,    \* DevExt->HwInitInProgress
  mmioVirtualBase,     \* DevExt->MmioVirtualBase
  fbVirtualBase,       \* DevExt->FbVirtualBase
  gpuBar5Va,           \* g_GpuBar5Va, what the PSP code was given
  mapped,              \* BAR mappings MmMapIoSpace made, not yet unmapped
  pspMmioBase,         \* g_PspContext.MmioBase
  pspMapped,           \* mappings Amdbc250PspInit made, not yet unmapped
  proxyHandle,         \* g_PspProxyHandle is open
  kiqAvailable         \* DevExt->KiqAvailable

vars == <<pc, caller, base, mutex, hardwareInitialized, hwInitInProgress,
          mmioVirtualBase, fbVirtualBase, gpuBar5Va, mapped, pspMmioBase,
          pspMapped, proxyHandle, kiqAvailable>>

flags    == <<hardwareInitialized, hwInitInProgress>>
mappings == <<mmioVirtualBase, fbVirtualBase, gpuBar5Va, mapped>>
psp      == <<pspMmioBase, pspMapped, proxyHandle, kiqAvailable>>

\* INIT_HARDWARE holds the mutex at these points ...
InitLocked == {"InitCheck", "InitForget", "InitUnmapFb", "InitMapMmio",
               "InitMapFb", "InitMode", "InitPublish"}
\* ... the proxies and the ring handlers at these.
Holding  == InitLocked \cup {"ProxyAccess", "RingCheck", "RingAccess"}
Waiting  == {"InitAcquire", "InitReacquire", "ProxyAcquire", "RingAcquire"}
HwInit   == {"HwInitPsp", "HwInitKiq", "PspReply"}
Unlocked == {"Idle", "RegAccess", "ProxyCheck"}

Pc == Holding \cup Waiting \cup HwInit \cup Unlocked

\* Threads whose INIT_HARDWARE has released the mutex to run
\* DreamV3HwInitialize and has not yet published the result.
InWindow(t) == caller[t] = "INIT"

Goto(t, from, to) == pc[t] = from /\ pc' = [pc EXCEPT ![t] = to]

\* ExAcquireFastMutex and ExReleaseFastMutex.
Acquire(t) == mutex = Null /\ mutex' = t
Release(t) == mutex = t /\ mutex' = Null

Init ==
  /\ pc = [t \in Thread |-> "Idle"]
  /\ caller = [t \in Thread |-> "none"]
  /\ base = [t \in Thread |-> Null]
  /\ mutex = Null
  /\ hardwareInitialized = FALSE
  /\ hwInitInProgress = FALSE
  /\ mmioVirtualBase = Null
  /\ fbVirtualBase = Null
  /\ gpuBar5Va = Null
  /\ mapped = {}
  /\ pspMmioBase = Null
  /\ pspMapped = {}
  /\ proxyHandle = FALSE
  /\ kiqAvailable = FALSE

-----------------------------------------------------------------------------
(* IOCTL_AMDBC250_INIT_HARDWARE *)

InitRequest(t) ==
  /\ Goto(t, "Idle", "InitAcquire")
  /\ UNCHANGED <<caller, base, mutex, flags, mappings, psp>>

InitLock(t) ==
  /\ Goto(t, "InitAcquire", "InitCheck")
  /\ Acquire(t)
  /\ UNCHANGED <<caller, base, flags, mappings, psp>>

\* STATUS_DEVICE_BUSY while another full INIT is in DreamV3HwInitialize.
InitBusy(t) ==
  /\ hwInitInProgress
  /\ Goto(t, "InitCheck", "Idle")
  /\ Release(t)
  /\ UNCHANGED <<caller, base, flags, mappings, psp>>

\* Re-initialisation: MmUnmapIoSpace first, the pointer is cleared after it.
InitUnmapMmio(t) ==
  /\ ~hwInitInProgress
  /\ hardwareInitialized
  /\ Goto(t, "InitCheck", "InitForget")
  /\ mapped' = mapped \ {mmioVirtualBase}
  /\ UNCHANGED <<caller, base, mutex, flags, mmioVirtualBase, fbVirtualBase,
                 gpuBar5Va, psp>>

InitForgetMmio(t) ==
  /\ Goto(t, "InitForget", "InitUnmapFb")
  /\ mmioVirtualBase' = Null
  /\ UNCHANGED <<caller, base, mutex, flags, fbVirtualBase, gpuBar5Va, mapped,
                 psp>>

\* With the flag or the mapping forgotten.
InitUnmapFbStaleFlag(t) ==
  /\ Goto(t, "InitUnmapFb", "InitMapMmio")
  /\ mapped' = mapped \ {fbVirtualBase}
  /\ fbVirtualBase' = Null
  /\ UNCHANGED <<caller, base, mutex, flags, mmioVirtualBase, gpuBar5Va, psp>>

InitUnmapFb(t) ==
  /\ Goto(t, "InitUnmapFb", "InitMapMmio")
  /\ mapped' = mapped \ {fbVirtualBase}
  /\ fbVirtualBase' = Null
  /\ hardwareInitialized' = FALSE
  /\ UNCHANGED <<caller, base, mutex, hwInitInProgress, mmioVirtualBase,
                 gpuBar5Va, psp>>

\* Without the re-entry guard.
InitFirstUnguarded(t) ==
  /\ ~hardwareInitialized
  /\ Goto(t, "InitCheck", "InitMapMmio")
  /\ UNCHANGED <<caller, base, mutex, flags, mappings, psp>>

InitFirst(t) ==
  /\ ~hwInitInProgress
  /\ ~hardwareInitialized
  /\ Goto(t, "InitCheck", "InitMapMmio")
  /\ UNCHANGED <<caller, base, mutex, flags, mappings, psp>>

\* No BC-250 on the bus (STATUS_NO_SUCH_DEVICE) or a zero base or size
\* (STATUS_INVALID_PARAMETER): found out only after the old mapping is gone.
InitReject(t) ==
  /\ Goto(t, "InitMapMmio", "Idle")
  /\ Release(t)
  /\ UNCHANGED <<caller, base, flags, mappings, psp>>

InitMapMmio(t) ==
  /\ Goto(t, "InitMapMmio", "InitMapFb")
  /\ \E va \in Va \ mapped :
       /\ mmioVirtualBase' = va
       /\ gpuBar5Va' = va
       /\ mapped' = mapped \cup {va}
  /\ UNCHANGED <<caller, base, mutex, flags, fbVirtualBase, psp>>

\* MmMapIoSpace returned NULL: STATUS_INSUFFICIENT_RESOURCES.
InitMapMmioFails(t) ==
  /\ Goto(t, "InitMapMmio", "Idle")
  /\ Release(t)
  /\ mmioVirtualBase' = Null
  /\ UNCHANGED <<caller, base, flags, fbVirtualBase, gpuBar5Va, mapped, psp>>

\* A failed mapping taken for a mapping.
InitMapFbUnchecked(t) ==
  /\ Goto(t, "InitMapFb", "InitMode")
  /\ \E va \in (Va \ (mapped \ {fbVirtualBase})) \cup {Null} :
       /\ fbVirtualBase' = va
       /\ mapped' = (mapped \ {fbVirtualBase}) \cup {va}
  /\ UNCHANGED <<caller, base, mutex, flags, mmioVirtualBase, gpuBar5Va, psp>>

\* The framebuffer BAR, when the caller names one: a NULL result is kept.
InitMapFb(t) ==
  /\ Goto(t, "InitMapFb", "InitMode")
  /\ LET kept == mapped \ {fbVirtualBase}
     IN  \/ \E va \in Va \ kept : /\ fbVirtualBase' = va
                                  /\ mapped' = kept \cup {va}
         \/ fbVirtualBase' = Null /\ mapped' = kept
  /\ UNCHANGED <<caller, base, mutex, flags, mmioVirtualBase, gpuBar5Va, psp>>

InitSkipFb(t) ==
  /\ Goto(t, "InitMapFb", "InitMode")
  /\ UNCHANGED <<caller, base, mutex, flags, mappings, psp>>

\* AMDBC250_INIT_FLAG_NBIO_MAP: no KIQ, published under the same mutex hold.
InitNbioMap(t) ==
  /\ Goto(t, "InitMode", "Idle")
  /\ Release(t)
  /\ hardwareInitialized' = TRUE
  /\ kiqAvailable' = FALSE
  /\ UNCHANGED <<caller, base, hwInitInProgress, mappings, pspMmioBase,
                 pspMapped, proxyHandle>>

\* The handler before 2026-09-23: the mutex is kept.
InitMarkKeepsMutex(t) ==
  /\ Goto(t, "InitMode", "HwInitPsp")
  /\ hwInitInProgress' = TRUE
  /\ caller' = [caller EXCEPT ![t] = "INIT"]
  /\ UNCHANGED <<base, mutex, hardwareInitialized, mappings, psp>>

\* Full INIT: mark in progress under the mutex, then let go of it.
InitMarkInProgress(t) ==
  /\ Goto(t, "InitMode", "HwInitPsp")
  /\ Release(t)
  /\ hwInitInProgress' = TRUE
  /\ caller' = [caller EXCEPT ![t] = "INIT"]
  /\ UNCHANGED <<base, hardwareInitialized, mappings, psp>>

InitReacquire(t) ==
  /\ Goto(t, "InitReacquire", "InitPublish")
  /\ Acquire(t)
  /\ UNCHANGED <<caller, base, flags, mappings, psp>>

InitPublish(t) ==
  /\ Goto(t, "InitPublish", "Idle")
  /\ Release(t)
  /\ hardwareInitialized' = TRUE
  /\ hwInitInProgress' = FALSE
  /\ caller' = [caller EXCEPT ![t] = "none"]
  /\ UNCHANGED <<base, mappings, psp>>

-----------------------------------------------------------------------------
(* DreamV3HwInitialize, reached from INIT_HARDWARE and from the resets.     *)
(* Only its PSP step touches state of this module; its register writes go   *)
(* through mmioVirtualBase for as long as pc is in HwInit.                  *)

\* RESET_DEVICE and TDR_RESET: no mutex, no HwInitInProgress, no flag checked.
ResetRequest(t) ==
  /\ Goto(t, "Idle", "HwInitPsp")
  /\ caller' = [caller EXCEPT ![t] = "RESET"]
  /\ UNCHANGED <<base, mutex, flags, mappings, psp>>

\* A failed DreamV3HwInitialize returned from straight away.
HwInitReturnEarly(t) ==
  /\ pc' = [pc EXCEPT ![t] = "Idle"]
  /\ caller' = [caller EXCEPT ![t] = "none"]

HwInitReturn(t) ==
  IF caller[t] = "INIT"
  THEN pc' = [pc EXCEPT ![t] = "InitReacquire"] /\ UNCHANGED caller
  ELSE /\ pc' = [pc EXCEPT ![t] = "Idle"]
       /\ caller' = [caller EXCEPT ![t] = "none"]

\* The step cap or an earlier fatal step ends DreamV3HwInitialize before PSP.
HwInitWithoutPsp(t) ==
  /\ pc[t] = "HwInitPsp"
  /\ HwInitReturn(t)
  /\ UNCHANGED <<base, mutex, flags, mappings, psp>>

\* Amdbc250PspInit maps BAR5 again, over whatever MmioBase held before.
PspInit(t) ==
  /\ Goto(t, "HwInitPsp", "HwInitKiq")
  /\ \E va \in PspVa \ pspMapped : /\ pspMmioBase' = va
                                   /\ pspMapped' = pspMapped \cup {va}
  /\ UNCHANGED <<caller, base, mutex, flags, mappings, proxyHandle,
                 kiqAvailable>>

\* The mapping failed, or MP0 was not found and it was unmapped again.
PspInitFails(t) ==
  /\ pc[t] = "HwInitPsp"
  /\ HwInitReturn(t)
  /\ pspMmioBase' = Null
  /\ UNCHANGED <<base, mutex, flags, mappings, pspMapped, proxyHandle,
                 kiqAvailable>>

\* Amdbc250PspKiqInit with the proxy handle already open, or the PSP driver
\* not there: no call into the PSP driver.
KiqInitLocal(t) ==
  /\ pc[t] = "HwInitKiq"
  /\ HwInitReturn(t)
  /\ \/ proxyHandle /\ kiqAvailable' = TRUE
     \/ ~proxyHandle /\ kiqAvailable' = FALSE
  /\ UNCHANGED <<base, mutex, flags, mappings, pspMmioBase, pspMapped,
                 proxyHandle>>

\* PspProxyInit opens the PSP driver and sends GET_GPU_INFO, which that driver
\* answers by calling IOCTL 0x900 of this one before it returns.
KiqInitCallsPsp(t) ==
  /\ ~proxyHandle
  /\ Goto(t, "HwInitKiq", "ProxyCheck")
  /\ proxyHandle' = TRUE
  /\ UNCHANGED <<caller, base, mutex, flags, mappings, pspMmioBase, pspMapped,
                 kiqAvailable>>

\* GET_GPU_INFO returned: on failure the handle is closed again.
PspReply(t) ==
  /\ pc[t] = "PspReply"
  /\ HwInitReturn(t)
  /\ \/ kiqAvailable' = TRUE /\ UNCHANGED proxyHandle
     \/ kiqAvailable' = FALSE /\ proxyHandle' = FALSE
  /\ UNCHANGED <<base, mutex, flags, mappings, pspMmioBase, pspMapped>>

-----------------------------------------------------------------------------
(* IOCTLs 0x900 and 0x901: BAR5 register read and write for the PSP driver *)

ProxyRequest(t) ==
  /\ Goto(t, "Idle", "ProxyCheck")
  /\ UNCHANGED <<caller, base, mutex, flags, mappings, psp>>

ProxyReturn(t) ==
  pc' = [pc EXCEPT ![t] = IF caller[t] = "none" THEN "Idle" ELSE "PspReply"]

\* The base is tested and copied before the mutex is taken.
ProxyCapture(t) ==
  /\ mmioVirtualBase # Null
  /\ Goto(t, "ProxyCheck", "ProxyAcquire")
  /\ base' = [base EXCEPT ![t] = mmioVirtualBase]
  /\ UNCHANGED <<caller, mutex, flags, mappings, psp>>

ProxyNotMapped(t) ==
  /\ mmioVirtualBase = Null
  /\ pc[t] = "ProxyCheck"
  /\ ProxyReturn(t)
  /\ UNCHANGED <<caller, base, mutex, flags, mappings, psp>>

ProxyLock(t) ==
  /\ Goto(t, "ProxyAcquire", "ProxyAccess")
  /\ Acquire(t)
  /\ UNCHANGED <<caller, base, flags, mappings, psp>>

\* The register access, or the exception it raised, and the release.
ProxyAccess(t) ==
  /\ pc[t] = "ProxyAccess"
  /\ ProxyReturn(t)
  /\ Release(t)
  /\ base' = [base EXCEPT ![t] = Null]
  /\ UNCHANGED <<caller, flags, mappings, psp>>

-----------------------------------------------------------------------------
(* EXECUTE_RING_PM4 and WGP_HALT_PROBE: checked, locked, then BUSY again *)

RingRequest(t) ==
  /\ hardwareInitialized
  /\ mmioVirtualBase # Null
  /\ Goto(t, "Idle", "RingAcquire")
  /\ UNCHANGED <<caller, base, mutex, flags, mappings, psp>>

RingLock(t) ==
  /\ Goto(t, "RingAcquire", "RingCheck")
  /\ Acquire(t)
  /\ UNCHANGED <<caller, base, flags, mappings, psp>>

RingBusy(t) ==
  /\ hwInitInProgress
  /\ Goto(t, "RingCheck", "Idle")
  /\ Release(t)
  /\ UNCHANGED <<caller, base, flags, mappings, psp>>

\* Without the HwInitInProgress test.
RingStartUnguarded(t) ==
  /\ Goto(t, "RingCheck", "RingAccess")
  /\ UNCHANGED <<caller, base, mutex, flags, mappings, psp>>

RingStart(t) ==
  /\ ~hwInitInProgress
  /\ Goto(t, "RingCheck", "RingAccess")
  /\ UNCHANGED <<caller, base, mutex, flags, mappings, psp>>

RingDone(t) ==
  /\ Goto(t, "RingAccess", "Idle")
  /\ Release(t)
  /\ UNCHANGED <<caller, base, flags, mappings, psp>>

(* READ_REG and WRITE_REG: the flags are tested, the base is read again *)

RegRequest(t) ==
  /\ hardwareInitialized
  /\ mmioVirtualBase # Null
  /\ Goto(t, "Idle", "RegAccess")
  /\ UNCHANGED <<caller, base, mutex, flags, mappings, psp>>

RegAccess(t) ==
  /\ Goto(t, "RegAccess", "Idle")
  /\ UNCHANGED <<caller, base, mutex, flags, mappings, psp>>

-----------------------------------------------------------------------------
\* What a client or the PSP driver may send at any time.
Request(t) == InitRequest(t) \/ ResetRequest(t) \/ ProxyRequest(t)
              \/ RingRequest(t) \/ RegRequest(t)

\* The points at which a thread waits for DeviceMutex.
Lock(t) == InitLock(t) \/ InitReacquire(t) \/ ProxyLock(t) \/ RingLock(t)

\* Everything else a thread does on its own once it is in the driver.
Run(t) ==
  \/ InitBusy(t) \/ InitUnmapMmio(t) \/ InitForgetMmio(t) \/ InitUnmapFb(t)
  \/ InitFirst(t) \/ InitReject(t) \/ InitMapMmio(t) \/ InitMapMmioFails(t)
  \/ InitMapFb(t) \/ InitSkipFb(t) \/ InitNbioMap(t) \/ InitMarkInProgress(t)
  \/ InitPublish(t)
  \/ HwInitWithoutPsp(t) \/ PspInit(t) \/ PspInitFails(t) \/ KiqInitLocal(t)
  \/ KiqInitCallsPsp(t) \/ PspReply(t)
  \/ ProxyCapture(t) \/ ProxyNotMapped(t) \/ ProxyAccess(t)
  \/ RingBusy(t) \/ RingStart(t) \/ RingDone(t) \/ RegAccess(t)

Next == \E t \in Thread : Request(t) \/ Lock(t) \/ Run(t)

Spec == Init /\ [][Next]_vars

\* A thread in the driver keeps running, and a FAST_MUTEX waiter is woken in
\* turn by the dispatcher, so it is not passed over for ever.
FairSpec == Spec /\ \A t \in Thread : WF_vars(Run(t)) /\ SF_vars(Lock(t))
-----------------------------------------------------------------------------
(* Properties *)

\* Every variable has its type.
TypeOK ==
  /\ pc \in [Thread -> Pc]
  /\ caller \in [Thread -> {"none", "INIT", "RESET"}]
  /\ base \in [Thread -> Va \cup {Null}]
  /\ mutex \in Thread \cup {Null}
  /\ hardwareInitialized \in BOOLEAN
  /\ hwInitInProgress \in BOOLEAN
  /\ mmioVirtualBase \in Va \cup {Null}
  /\ fbVirtualBase \in Va \cup {Null}
  /\ gpuBar5Va \in Va \cup {Null}
  /\ mapped \subseteq Va
  /\ pspMmioBase \in PspVa \cup {Null}
  /\ pspMapped \subseteq PspVa
  /\ proxyHandle \in BOOLEAN
  /\ kiqAvailable \in BOOLEAN

\* A thread that waits for DeviceMutex does not hold it already: the call
\* INIT_HARDWARE -> KiqInit -> GET_GPU_INFO -> 0x900 comes back to a mutex its
\* own thread has let go of (the hang README.md calls the 2026-09-23 deadlock).
NoSelfDeadlock == \A t \in Thread : pc[t] \in Waiting => mutex # t

\* HwInitInProgress says exactly whether a full INIT is in its unlocked window,
\* and two are never there together.
OneFullInit ==
  /\ hwInitInProgress <=> \E t \in Thread : InWindow(t)
  /\ \A t, u \in Thread : InWindow(t) /\ InWindow(u) => t = u

\* While a full INIT runs DreamV3HwInitialize without the mutex, the mapping it
\* writes registers through is live, is the one the PSP code was given, and is
\* not yet published by HardwareInitialized.
WindowMapping ==
  hwInitInProgress => /\ mmioVirtualBase \in mapped
                      /\ gpuBar5Va = mmioVirtualBase
                      /\ ~hardwareInitialized

\* Every BAR mapping made is reachable from the device extension, so that a
\* later INIT_HARDWARE can unmap it: the double MmMapIoSpace is excluded.
NoMappingLeak == mapped \subseteq {mmioVirtualBase, fbVirtualBase}

\* No BAR mapping is lost, and whenever the mutex is free, no BAR pointer of the
\* device extension dangles and HardwareInitialized promises a live register
\* mapping.
PublishedIsMapped ==
  /\ NoMappingLeak
  /\ mutex = Null =>
       /\ {mmioVirtualBase, fbVirtualBase} \ {Null} \subseteq mapped
       /\ hardwareInitialized => mmioVirtualBase \in mapped

\* EXECUTE_RING_PM4 and WGP_HALT_PROBE never touch the engines while a full
\* INIT is bringing them up, though INIT does not hold the mutex they hold.
RingExcludesInit ==
  \A t \in Thread : pc[t] = "RingAccess" => ~hwInitInProgress

\* No step changes a BAR mapping while a full INIT is in progress.
WindowFrozen ==
  [][hwInitInProgress /\ hwInitInProgress' => UNCHANGED mappings]_vars

\* The device does not answer STATUS_DEVICE_BUSY for ever: a full INIT that
\* has started publishes its result.
BusyEnds == hwInitInProgress ~> ~hwInitInProgress

=============================================================================
