---------------------------- MODULE EngineSelect -----------------------------
(***************************************************************************)
(* GRBM_GFX_INDEX and what is banked behind it.  The WGP gate (SPI_PG) has *)
(* one instance per shader array and the hardware queue descriptor (HQD)   *)
(* one per micro-engine: an access reaches the instance the index selects  *)
(* at that moment, so a select and its access are two steps of one shared  *)
(* register.  The handlers here also halt or start the command processors  *)
(* of a GPU that drives a display, and put everything back.                *)
(*                                                                         *)
(* HardwareInitialized is set and no full INIT is in progress: DeviceInit  *)
(* is about that.                                                          *)
(***************************************************************************)
EXTENDS Naturals, FiniteSets

CONSTANTS Thread,    \* IRPs in the driver at the same time
          Handlers,  \* the IOCTLs they may be
          Alone,     \* IOCTLs user mode sends only while it has no other there
          Null       \* owner of a free mutex

Ioctls == {"WGP_HALT_PROBE", "EXECUTE_RING_PM4", "WGP_BANK_PROBE",
           "UNLOCK_40CU", "GET_CU_STATUS"}

ASSUME SelectAssumption ==
  Null \notin Thread /\ Handlers \subseteq Ioctls /\ Alone \subseteq Handlers

\* GRBM_GFX_INDEX values: the four banks, one of which the micro-engine select
\* of the KIQ is the same number as; all banks; and what the VBIOS leaves,
\* 0xBA062100 on the board, which selects none of them and is too big for TLC.
BankSelect == <<0, 256, 65536, 65792>>
Kiq        == 65536
Broadcast  == 352321536
Firmware   == 1
Banks      == 1..4

\* The banks a write reaches.
Reached(select) == IF select = Broadcast THEN Banks
                   ELSE {b \in Banks : BankSelect[b] = select}

VARIABLES
  pc,      \* where each thread is
  handler, \* the IOCTL it is
  bank,    \* its loop counter
  saved,   \* savedGrbm, savedMe, savedMec, savedSched
  stuck,   \* HALT_PROBE's BanksStuck
  mutex,   \* owner of DeviceMutex
  grbm,    \* GRBM_GFX_INDEX
  gate,    \* SPI_PG_ENABLE_STATIC_WGP_MASK of each bank: 7 or 31
  engines, \* CP_ME_CNTL, CP_MEC_CNTL and RLC_CP_SCHEDULERS
  hqd,     \* CP_HQD_ACTIVE, and whose MQD_BASE, PQ_BASE, PQ_CONTROL and
           \* PERSISTENT_STATE the queue has
  shader,  \* COMPUTE_PGM_LO/HI and the thread management mask
  home     \* history: what GRBM_GFX_INDEX was when the driver came up

thread == <<handler, bank, saved, stuck>>
device == <<gate, engines, hqd, shader>>
vars == <<pc, thread, mutex, grbm, device, home>>

Live == [me |-> "live", mec |-> "live", sched |-> "live"]
Locking == {"WGP_HALT_PROBE", "EXECUTE_RING_PM4", "WGP_BANK_PROBE"}

Init ==
  /\ pc = [t \in Thread |-> "Idle"]
  /\ handler = [t \in Thread |-> "none"]
  /\ bank = [t \in Thread |-> 1]
  /\ saved = [t \in Thread |-> [grbm |-> 0, engines |-> Live]]
  /\ stuck = [t \in Thread |-> 0]
  /\ mutex = Null
  /\ home \in {Broadcast, Firmware}
  /\ grbm = home
  /\ gate = [b \in Banks |-> 7]
  /\ engines = Live
  /\ hqd = [active |-> FALSE, queue |-> "live"]
  /\ shader = "live"

Goto(t, from, to) == pc[t] = from /\ pc' = [pc EXCEPT ![t] = to]
Is(t, h) == handler[t] = h
Return(t) == handler' = [handler EXCEPT ![t] = "none"]

\* DreamV3WriteRegister(GRBM_GFX_INDEX), and the write the older handlers make
\* at DevExt->GrbmGfxIndexOffset, which only DdiAddDevice sets: in this build
\* it is 0 and the select goes to register 0, which is read-only.
Select(value) == grbm' = value
SelectByOffset(value) == UNCHANGED grbm

\* A write to the gate.  hw.h:429 calls it locked by the secure OS, the header
\* of HALT_PROBE hopes that the lock depends on the engines: any write may be
\* refused, in one bank and not in the next.
Gate(value) ==
  \E took \in SUBSET Reached(grbm) :
    gate' = [b \in Banks |-> IF b \in took THEN value ELSE gate[b]]

-----------------------------------------------------------------------------
(* Entry, and the mutex *)

Enter(t) ==
  /\ pc[t] = "Idle"
  /\ \E h \in Handlers :
       /\ \A u \in Thread : pc[u] # "Idle" => h \notin Alone /\ handler[u] \notin Alone
       /\ handler' = [handler EXCEPT ![t] = h]
       /\ pc' = [pc EXCEPT ![t] = IF h \in Locking \ {"WGP_BANK_PROBE"} THEN "Acquire"
                                  ELSE IF h = "WGP_BANK_PROBE" THEN "PreSave"
                                  ELSE "Select"]
  /\ bank' = [bank EXCEPT ![t] = 1]
  /\ stuck' = [stuck EXCEPT ![t] = 0]
  /\ UNCHANGED <<saved, mutex, grbm, device, home>>

\* BANK_PROBE reads the index it will restore before it asks for the mutex.
PreSave(t) ==
  /\ Goto(t, "PreSave", "Acquire")
  /\ saved' = [saved EXCEPT ![t].grbm = grbm]
  /\ UNCHANGED <<handler, bank, stuck, mutex, grbm, device, home>>

Lock(t) ==
  /\ Goto(t, "Acquire", IF Is(t, "WGP_BANK_PROBE") THEN "Select" ELSE "Save")
  /\ mutex = Null /\ mutex' = t
  /\ UNCHANGED <<thread, grbm, device, home>>

Release(t) == mutex = t /\ mutex' = Null

\* The other two save what they will restore under the mutex.
Save(t) ==
  /\ Goto(t, "Save", IF Is(t, "WGP_HALT_PROBE") THEN "Halt" ELSE "KiqSelect")
  /\ saved' = [saved EXCEPT ![t] = [grbm |-> grbm, engines |-> engines]]
  /\ UNCHANGED <<handler, bank, stuck, mutex, grbm, device, home>>

-----------------------------------------------------------------------------
(* The walk over the banks: HALT_PROBE, BANK_PROBE, UNLOCK_40CU *)

Halt(t) ==
  /\ Goto(t, "Halt", "Select")
  /\ engines' = [engines EXCEPT !.me = "halted", !.mec = "halted"]
  /\ UNCHANGED <<thread, mutex, grbm, gate, hqd, shader, home>>

SelectBank(t) ==
  /\ Goto(t, "Select", "Access")
  /\ CASE Is(t, "GET_CU_STATUS") -> SelectByOffset(Broadcast)
       [] Is(t, "UNLOCK_40CU")   -> SelectByOffset(BankSelect[bank[t]])
       [] OTHER                  -> Select(BankSelect[bank[t]])
  /\ UNCHANGED <<thread, mutex, device, home>>

\* One step further on the walk, or to what comes after it.
Walk(t) ==
  LET after == CASE Is(t, "WGP_HALT_PROBE") -> "Broadcast"
                 [] Is(t, "WGP_BANK_PROBE") -> "Release"
                 [] OTHER -> "OldBroadcast"
  IN  /\ pc' = [pc EXCEPT ![t] = IF bank[t] < 4 THEN "Select" ELSE after]
      /\ bank' = [bank EXCEPT ![t] = IF bank[t] < 4 THEN @ + 1 ELSE @]

\* Counting what it wrote, not what it reads back.
ProbeAccessTrusts(t) ==
  /\ pc[t] = "Access" /\ Is(t, "WGP_HALT_PROBE")
  /\ Gate(31)
  /\ stuck' = [stuck EXCEPT ![t] = @ + 1]
  /\ Walk(t)
  /\ UNCHANGED <<handler, saved, mutex, grbm, engines, hqd, shader, home>>

\* HALT_PROBE reads, writes and reads back; BanksStuck counts what it reads.
ProbeAccess(t) ==
  /\ pc[t] = "Access" /\ Is(t, "WGP_HALT_PROBE")
  /\ Gate(31)
  /\ stuck' = [stuck EXCEPT
       ![t] = IF \E b \in Reached(grbm) : gate'[b] = 31 THEN @ + 1 ELSE @]
  /\ Walk(t)
  /\ UNCHANGED <<handler, saved, mutex, grbm, engines, hqd, shader, home>>

\* UNLOCK_40CU writes the gate open or back to stock.
UnlockAccess(t) ==
  /\ pc[t] = "Access" /\ Is(t, "UNLOCK_40CU")
  /\ \E value \in {7, 31} : Gate(value)
  /\ Walk(t)
  /\ UNCHANGED <<handler, saved, stuck, mutex, grbm, engines, hqd, shader, home>>

BankRead(t) ==
  /\ pc[t] = "Access" /\ Is(t, "WGP_BANK_PROBE")
  /\ Walk(t)
  /\ UNCHANGED <<handler, saved, stuck, mutex, grbm, device, home>>

StatusRead(t) ==
  /\ Is(t, "GET_CU_STATUS") /\ Goto(t, "Access", "Idle")
  /\ Return(t)
  /\ UNCHANGED <<bank, saved, stuck, mutex, grbm, device, home>>

\* UNLOCK_40CU selects all banks again.
OldBroadcast(t) ==
  /\ Goto(t, "OldBroadcast", "Idle")
  /\ SelectByOffset(Broadcast)
  /\ Return(t)
  /\ UNCHANGED <<bank, saved, stuck, mutex, device, home>>

\* BANK_PROBE lets go of the mutex, then restores.
BankRelease(t) ==
  /\ Goto(t, "Release", "PostRestore")
  /\ Release(t)
  /\ UNCHANGED <<thread, grbm, device, home>>

PostRestore(t) ==
  /\ Goto(t, "PostRestore", "Idle")
  /\ Select(saved[t].grbm)
  /\ Return(t)
  /\ UNCHANGED <<bank, saved, stuck, mutex, device, home>>

\* HALT_PROBE: all banks, then the engines, then the index it found.
ProbeBroadcast(t) ==
  /\ Goto(t, "Broadcast", "Unhalt")
  /\ Select(Broadcast)
  /\ UNCHANGED <<thread, mutex, device, home>>

Unhalt(t) ==
  /\ Goto(t, "Unhalt", "ProbeRestore")
  /\ engines' = [engines EXCEPT !.mec = saved[t].engines.mec,
                                !.me = saved[t].engines.me]
  /\ UNCHANGED <<thread, mutex, grbm, gate, hqd, shader, home>>

\* Leaving the index at broadcast.
ProbeRestoreSkipped(t) ==
  /\ Goto(t, "ProbeRestore", "Idle")
  /\ Release(t) /\ Return(t)
  /\ UNCHANGED <<bank, saved, stuck, grbm, device, home>>

ProbeRestore(t) ==
  /\ Goto(t, "ProbeRestore", "Idle")
  /\ Select(saved[t].grbm)
  /\ Release(t) /\ Return(t)
  /\ UNCHANGED <<bank, saved, stuck, device, home>>

-----------------------------------------------------------------------------
(* EXECUTE_RING_PM4 *)

KiqSelect(t) ==
  /\ Goto(t, "KiqSelect", "Start")
  /\ Select(Kiq)
  /\ UNCHANGED <<thread, mutex, device, home>>

\* Schedulers on, engines running.
Start(t) ==
  /\ Goto(t, "Start", "Hqd")
  /\ engines' = [me |-> "run", mec |-> "run", sched |-> "on"]
  /\ UNCHANGED <<thread, mutex, grbm, gate, hqd, shader, home>>

\* The queue is programmed, activated, kicked and polled for at most 50 ms.
Hqd(t) ==
  /\ Goto(t, "Hqd", "HqdOff")
  /\ hqd' = [active |-> TRUE, queue |-> "driver"]
  /\ UNCHANGED <<thread, mutex, grbm, gate, engines, shader, home>>

\* Deactivated; what it was programmed with stays.
HqdOff(t) ==
  /\ Goto(t, "HqdOff", "RingRestore")
  /\ hqd' = [hqd EXCEPT !.active = FALSE]
  /\ engines' = saved[t].engines
  /\ UNCHANGED <<thread, mutex, grbm, gate, shader, home>>

\* The software fallback first, the index after it.
RingRestoreLate(t) ==
  /\ Goto(t, "RingRestore", "Software")
  /\ UNCHANGED <<thread, mutex, grbm, device, home>>

RingRestore(t) ==
  /\ Goto(t, "RingRestore", "Software")
  /\ Select(saved[t].grbm)
  /\ UNCHANGED <<thread, mutex, device, home>>

\* DreamV3SwPm4Process writes registers by absolute address.  Bit 31 of the
\* time-out asks for the direct dispatch as well.
Software(t) ==
  /\ \/ Goto(t, "Software", "DispatchSelect") /\ UNCHANGED <<mutex, handler>>
     \/ Goto(t, "Software", "Idle") /\ Release(t) /\ Return(t)
  /\ SelectByOffset(Kiq)
  /\ UNCHANGED <<bank, saved, stuck, device, home>>

DispatchSelect(t) ==
  /\ Goto(t, "DispatchSelect", "Dispatch")
  /\ Select(Kiq)
  /\ UNCHANGED <<thread, mutex, device, home>>

Dispatch(t) ==
  /\ Goto(t, "Dispatch", "DispatchOff")
  /\ shader' = "probe"
  /\ UNCHANGED <<thread, mutex, grbm, gate, engines, hqd, home>>

DispatchOff(t) ==
  /\ Goto(t, "DispatchOff", "DispatchRestore")
  /\ shader' = "live"
  /\ UNCHANGED <<thread, mutex, grbm, gate, engines, hqd, home>>

DispatchRestore(t) ==
  /\ Goto(t, "DispatchRestore", "Idle")
  /\ Select(saved[t].grbm)
  /\ Release(t) /\ Return(t)
  /\ UNCHANGED <<bank, saved, stuck, device, home>>

-----------------------------------------------------------------------------
Run(t) ==
  \/ PreSave(t) \/ Lock(t) \/ Save(t) \/ Halt(t) \/ SelectBank(t)
  \/ ProbeAccess(t) \/ UnlockAccess(t) \/ BankRead(t) \/ StatusRead(t)
  \/ OldBroadcast(t) \/ BankRelease(t) \/ PostRestore(t) \/ ProbeBroadcast(t)
  \/ Unhalt(t) \/ ProbeRestore(t)
  \/ KiqSelect(t) \/ Start(t) \/ Hqd(t) \/ HqdOff(t) \/ RingRestore(t)
  \/ Software(t) \/ DispatchSelect(t) \/ Dispatch(t) \/ DispatchOff(t)
  \/ DispatchRestore(t)

Next == \E t \in Thread : Enter(t) \/ Run(t)

Spec == Init /\ [][Next]_vars
-----------------------------------------------------------------------------
(* Properties *)

\* amdbc250_dream_kmd.c:8952-8953, "save/restore everything (white-screen-fix
\* discipline)", and 8747 for the ring: whenever no handler is inside, the
\* index, the engines and the shader registers are what the display was using
\* and the queue is inactive, whatever ran before and however the handlers
\* overlapped.  The other registers of the queue nobody saves: hqd.queue stays
\* "driver" after the first EXECUTE_RING_PM4.
LiveStateRestored ==
  (\A t \in Thread : pc[t] = "Idle") =>
     grbm = home /\ engines = Live /\ ~hqd.active /\ shader = "live"

\* Each banked access is made with the select of the handler that makes it:
\* the gate of the bank it walks, the queue and the shader under the KIQ
\* select, and the software fallback under the original index (8849-8852).
SelectHeld ==
  \A t \in Thread :
    /\ pc[t] = "Access" /\ handler[t] \in Locking => grbm = BankSelect[bank[t]]
    /\ pc[t] \in {"Hqd", "HqdOff", "Dispatch", "DispatchOff"} => grbm = Kiq
    /\ pc[t] = "Software" => grbm = home

\* BanksStuck is the number of banks whose gate is open when the walk ends,
\* although the hardware may refuse the write in some banks and not in others
\* and a gate may have been opened by an earlier IOCTL.
ProbeTellsTruth ==
  \A t \in Thread : handler[t] = "WGP_HALT_PROBE" /\ pc[t] = "Broadcast" =>
     stuck[t] = Cardinality({b \in Banks : gate[b] = 31})

\* The engines stay halted from the halt of HALT_PROBE until it lets them go:
\* nobody else starts them, and the ring runs only on engines it has started.
EnginesHeld ==
  \A t \in Thread :
    /\ handler[t] = "WGP_HALT_PROBE" /\ pc[t] \in {"Select", "Access", "Broadcast", "Unhalt"}
         => engines.me = "halted" /\ engines.mec = "halted"
    /\ pc[t] = "Hqd" => engines.me = "run" /\ engines.sched = "on"

\* What a handler set up is still so when it relies on it, the index as well as
\* the engines.
HandlersHold == SelectHeld /\ EnginesHeld
=============================================================================
