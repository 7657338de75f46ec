---------------------------- MODULE WddmInterrupt ----------------------------
(***************************************************************************)
(* Interrupts of the display miniport of wddm-ps5.  The hardware writes    *)
(* entries into a ring in memory and moves IH_RB_WPTR; the interrupt       *)
(* routine only compares that register with ReadPointer and queues a DPC;  *)
(* the DPC handles the entries and moves ReadPointer and IH_RB_RPTR.       *)
(* Nothing locks them against StartDevice, ResetDevice and StopDevice,     *)
(* which take the ring away and bring a new one up: all that holds the     *)
(* interrupt off is HardwareInitialized, the address of the ring and the   *)
(* order of the register writes.                                           *)
(*                                                                         *)
(* The callbacks and the DPC run in steps, on different processors.  The   *)
(* interrupt line is level triggered and shared (the INF asks for no       *)
(* message-signalled interrupts), so the interrupt routine may run at any  *)
(* time.  Ring pointers count entries of 16 bytes.                         *)
(***************************************************************************)
EXTENDS Naturals

CONSTANTS
  Size,       \* AMDBC250_IH_RING_SIZE / AMDBC250_IH_RING_ENTRY_SIZE
  MaxEntries  \* bound: entries the hardware writes into one ring

ASSUME SizeAssumption == Size \in Nat /\ Size > 1 /\ MaxEntries \in Nat

VARIABLES
  pc,      \* step of StartDevice, ResetDevice or StopDevice; "idle" outside
  why,     \* which of the three it is
  started, \* StartDevice has succeeded, StopDevice not yet begun
  hw,      \* HardwareInitialized
  va,      \* IhRing.VirtualAddress is not NULL; SizeInBytes goes with it
  rp,      \* IhRing.ReadPointer
  queued,  \* the DPC is queued
  dpc,     \* the DPC: [pc, r, w, n]: RPtr, WPtr, ProcessedEntries
  reg,     \* IH registers: [on, base, rptr, wptr], base TRUE: the ring's
  ring,    \* number of the entry in each place, 0 where memory is zero
  log,     \* history of this ring: [written, done, ok, overrun]
  raced,   \* history: the callback the DPC has run beside on this ring, or "no"
  wild,    \* history: an entry was written to where no ring is
  blind    \* history: ControlInterrupt enabled interrupts without a ring

vars == <<pc, why, started, hw, va, rp, queued, dpc, reg, ring, log, raced, wild, blind>>
callback == <<pc, why, started>>
driver == <<hw, va, rp>>
history == <<raced, wild, blind>>

Place == 0..Size - 1
Step == {"idle", "off", "free", "forget", "hide", "alloc", "base", "rptr", "wptr", "on", "publish"}
NewLog == [written |-> 0, done |-> 0, ok |-> TRUE, overrun |-> FALSE]
Next1(p) == IF p + 1 >= Size THEN 0 ELSE p + 1

\* Entries from one place to another, in the order they are written.
Distance(from, to) == IF from <= to THEN to - from ELSE to - from + Size

Init ==
  /\ pc = "idle" /\ why = "stop" /\ started = FALSE
  /\ hw = FALSE /\ va = FALSE /\ rp = 0
  /\ queued = FALSE /\ dpc = [pc |-> "idle", r |-> 0, w |-> 0, n |-> 0]
  /\ reg = [on |-> FALSE, base |-> FALSE, rptr |-> 0, wptr |-> 0]
  /\ ring = [p \in Place |-> 0] /\ log = NewLog
  /\ raced = "no" /\ wild = FALSE /\ blind = FALSE

----------------------------------------------------------------------------
(* The hardware.                                                           *)

\* The interrupt line is raised while the ring has entries.
Line == reg.on /\ reg.wptr # reg.rptr

\* Without a ring of its own the write goes to memory of somebody else.  The
\* hardware does not look whether the driver has read what it overwrites.
WriteEntry ==
  /\ reg.on /\ log.written < MaxEntries
  /\ reg' = [reg EXCEPT !.wptr = Next1(@)]
  /\ IF reg.base
     THEN /\ ring' = [ring EXCEPT ![reg.wptr] = log.written + 1]
          /\ log' = [log EXCEPT !.written = @ + 1,
                                !.overrun = @ \/ Next1(reg.wptr) = reg.rptr]
          /\ wild' = wild
     ELSE wild' = TRUE /\ UNCHANGED <<ring, log>>
  /\ UNCHANGED <<callback, driver, queued, dpc, raced, blind>>

----------------------------------------------------------------------------
(* The interrupt routine and the DPC.                                      *)

\* Both routines leave at once without hardware or without a ring.
Ready == hw /\ va

\* Bc250DdiInterruptRoutine, when it finds entries; else it changes nothing.
Interrupt ==
  /\ Ready /\ reg.wptr # rp
  /\ ~queued /\ queued' = TRUE
  /\ UNCHANGED <<callback, driver, dpc, reg, ring, log, history>>

DpcBegin ==
  /\ queued /\ dpc.pc = "idle"
  /\ queued' = FALSE
  /\ IF Ready
     THEN /\ dpc' = [pc |-> "loop", r |-> rp, w |-> reg.wptr, n |-> 0]
          /\ raced' = IF pc = "idle" THEN raced ELSE why
     ELSE UNCHANGED <<dpc, raced>>
  /\ UNCHANGED <<callback, driver, reg, ring, log, wild, blind>>

\* One entry: a fence or a vsync is reported to dxgkrnl, others are skipped.
\* The pointer wraps at SizeInBytes as it is now, which is 0 once a shutdown has
\* forgotten the ring.
DpcEntry ==
  /\ dpc.pc = "loop" /\ dpc.r # dpc.w /\ dpc.n < Size
  /\ dpc' = [dpc EXCEPT !.r = IF va THEN Next1(@) ELSE 0, !.n = @ + 1]
  /\ log' = [log EXCEPT !.done = @ + 1, !.ok = @ /\ ring[dpc.r] = log.done + 1]
  /\ UNCHANGED <<callback, driver, queued, reg, ring, history>>

\* Variant: the DPC takes over what the hardware has written since.
DpcReadPointerLatest ==
  /\ dpc.pc = "loop" /\ (dpc.r = dpc.w \/ dpc.n = Size)
  /\ dpc' = [dpc EXCEPT !.pc = "pointer"]
  /\ rp' = reg.wptr
  /\ UNCHANGED <<callback, hw, va, queued, reg, ring, log, history>>

DpcReadPointer ==
  /\ dpc.pc = "loop" /\ (dpc.r = dpc.w \/ dpc.n = Size)
  /\ dpc' = [dpc EXCEPT !.pc = "pointer"]
  /\ rp' = dpc.r
  /\ UNCHANGED <<callback, hw, va, queued, reg, ring, log, history>>

\* Variant: IH_RB_RPTR is not written.
DpcEndSilent ==
  /\ dpc.pc = "pointer"
  /\ dpc' = [dpc EXCEPT !.pc = "idle"]
  /\ UNCHANGED <<callback, driver, queued, reg, ring, log, history>>

\* IH_RB_RPTR and DxgkCbNotifyDpc.
DpcEnd ==
  /\ dpc.pc = "pointer"
  /\ dpc' = [dpc EXCEPT !.pc = "idle"]
  /\ reg' = [reg EXCEPT !.rptr = dpc.r]
  /\ UNCHANGED <<callback, driver, queued, ring, log, history>>

Dpc == DpcBegin \/ DpcEntry \/ DpcReadPointer \/ DpcEnd

----------------------------------------------------------------------------
(* Callbacks of dxgkrnl, one at a time.                                    *)

Begin(callbackName, step) ==
  /\ pc = "idle"
  /\ why' = callbackName /\ pc' = step
  /\ raced' = IF dpc.pc = "idle" THEN raced ELSE callbackName

\* StartDevice.  dxgkrnl starts a device when no DPC of an earlier start is
\* running.
BeginStart ==
  /\ ~started /\ dpc.pc = "idle"
  /\ Begin("start", "alloc")
  /\ UNCHANGED <<started, driver, queued, dpc, reg, ring, log, wild, blind>>

\* In KmdodMode and on the compatibility path no register is touched.
StartWithoutRing ==
  /\ ~started /\ dpc.pc = "idle"
  /\ Begin("start", "idle")
  /\ started' = TRUE /\ hw' = TRUE
  /\ UNCHANGED <<va, rp, queued, dpc, reg, ring, log, wild, blind>>

BeginStop ==
  /\ started /\ hw
  /\ Begin("stop", "off")
  /\ started' = FALSE
  /\ UNCHANGED <<driver, queued, dpc, reg, ring, log, wild, blind>>

\* ResetDevice: HwReset disables the interrupt before it shuts down.
BeginReset ==
  /\ started /\ hw
  /\ Begin("reset", "off")
  /\ reg' = [reg EXCEPT !.on = FALSE]
  /\ UNCHANGED <<started, driver, queued, dpc, ring, log, wild, blind>>

\* Variant: HwShutdown leaves the interrupt as it is.
DisableNothing ==
  /\ pc = "off" /\ pc' = "free"
  /\ UNCHANGED <<why, started, driver, queued, dpc, reg, ring, log, history>>

\* HwShutdown.
Disable ==
  /\ pc = "off" /\ pc' = "free"
  /\ reg' = [reg EXCEPT !.on = FALSE]
  /\ UNCHANGED <<why, started, driver, queued, dpc, ring, log, history>>

FreeRing ==
  /\ pc = "free" /\ pc' = "forget"
  /\ reg' = [reg EXCEPT !.base = FALSE]
  /\ UNCHANGED <<why, started, driver, queued, dpc, ring, log, history>>

\* After it HwReset brings the ring up again, unless KmdodMode has been set
\* meanwhile.
Forget ==
  /\ pc = "forget"
  /\ pc' \in IF why = "stop" THEN {"hide"} ELSE {"alloc", "idle"}
  /\ va' = FALSE /\ rp' = 0
  /\ UNCHANGED <<why, started, hw, queued, dpc, reg, ring, log, history>>

Hide ==
  /\ pc = "hide" /\ pc' = "idle"
  /\ hw' = FALSE
  /\ UNCHANGED <<why, started, va, rp, queued, dpc, reg, ring, log, history>>

\* HwInitIhRing.  Without memory there is no ring, and bring-up goes on.
Allocate ==
  /\ pc = "alloc"
  /\ \/ /\ pc' = "base"
        /\ va' = TRUE /\ rp' = 0
        /\ ring' = [p \in Place |-> 0] /\ log' = NewLog
        /\ raced' = IF dpc.pc = "idle" THEN "no" ELSE raced
     \/ pc' = "publish" /\ UNCHANGED <<va, rp, ring, log, raced>>
  /\ UNCHANGED <<why, started, hw, queued, dpc, reg, wild, blind>>

ProgramBase ==
  /\ pc = "base" /\ pc' = "rptr"
  /\ reg' = [reg EXCEPT !.base = TRUE]
  /\ UNCHANGED <<why, started, driver, queued, dpc, ring, log, history>>

ProgramRptr ==
  /\ pc = "rptr" /\ pc' = "wptr"
  /\ reg' = [reg EXCEPT !.rptr = 0]
  /\ UNCHANGED <<why, started, driver, queued, dpc, ring, log, history>>

ProgramWptr ==
  /\ pc = "wptr" /\ pc' = "on"
  /\ reg' = [reg EXCEPT !.wptr = 0]
  /\ UNCHANGED <<why, started, driver, queued, dpc, ring, log, history>>

Enable ==
  /\ pc = "on" /\ pc' = "publish"
  /\ reg' = [reg EXCEPT !.on = TRUE]
  /\ UNCHANGED <<why, started, driver, queued, dpc, ring, log, history>>

Publish ==
  /\ pc = "publish" /\ pc' = "idle"
  /\ started' = TRUE /\ hw' = TRUE
  /\ UNCHANGED <<why, va, rp, queued, dpc, reg, ring, log, history>>

\* DxgkDdiControlInterrupt sets the one enable bit for every interrupt type,
\* with a ring or without.
ControlInterrupt ==
  /\ started /\ pc = "idle"
  /\ \E enable \in BOOLEAN :
       /\ reg' = [reg EXCEPT !.on = enable]
       /\ blind' = (blind \/ (enable /\ ~va))
  /\ UNCHANGED <<callback, driver, queued, dpc, ring, log, raced, wild>>

Bringup ==
  \/ Disable \/ FreeRing \/ Forget \/ Hide
  \/ Allocate \/ ProgramBase \/ ProgramRptr \/ ProgramWptr \/ Enable \/ Publish

Next ==
  \/ WriteEntry \/ Interrupt \/ Dpc
  \/ BeginStart \/ StartWithoutRing \/ BeginStop \/ BeginReset
  \/ Bringup \/ ControlInterrupt

Spec == Init /\ [][Next]_vars

\* A callback that has begun is finished and a queued DPC runs; the interrupt
\* routine runs as long as the line is raised.
FairSpec ==
  /\ Spec
  /\ WF_vars(Bringup) /\ WF_vars(Dpc) /\ WF_vars(Line /\ Interrupt)

----------------------------------------------------------------------------
(* Properties.                                                             *)

\* The entries of a ring are handled once and in the order they were written,
\* over every wrap and whatever arrives while the DPC runs, and while it does
\* not run the register is where the driver is: unless the hardware has lapped
\* the driver or the DPC has run beside a reset or a stop.  It never runs beside
\* StartDevice, which publishes HardwareInitialized last although the ring has
\* an address and the interrupt is on before.
OnceInOrder ==
  /\ va /\ ~log.overrun /\ raced = "no" =>
       /\ log.ok /\ log.done <= log.written
       /\ pc = "idle" /\ dpc.pc = "idle" =>
            /\ reg.rptr = rp
            /\ reg.base => log.done + Distance(rp, reg.wptr) = log.written
  /\ raced # "start"

\* The comment "safety limit" of the DPC: the loop always gets to the write
\* pointer it has read, the limit of MaxEntries is never what ends it, unless a
\* reset or a stop ran beside it.
LimitNeverReached == dpc.pc = "pointer" /\ raced = "no" => dpc.r = dpc.w

\* The hardware is told to write entries only while there is a ring it was
\* given, unless ControlInterrupt told it to without one.
WritesHitRing == wild => blind

\* No interrupt storm: a raised line is always served, unless the DPC has run
\* beside a reset and left ReadPointer where the register is not, or there is
\* no ring.
LineDrops == []<>(~Line \/ raced # "no" \/ (pc = "idle" /\ ~va))
=============================================================================
