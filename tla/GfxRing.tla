------------------------------- MODULE GfxRing -------------------------------
(***************************************************************************)
(* The GFX ring, the software PM4 executor as far as fences go, and the    *)
(* global fence: SUBMIT_COMMANDS and SEND_PM4 under GfxRing.Lock;          *)
(* WAIT_FENCE and SIGNAL_FENCE with no lock; and what brings the ring up   *)
(* (GET_NBIO_STATUS, lazily) or starts it over (RESET_DEVICE, TDR_RESET).  *)
(*                                                                         *)
(* HardwareInitialized is set and BAR5 is mapped: DeviceInit is about that.*)
(* The fence page is a flag: the driver only reads it to report it.        *)
(***************************************************************************)
EXTENDS Integers, FiniteSets

CONSTANTS Thread,   \* IRPs in the driver at the same time
          Handlers, \* the IOCTLs they may be
          Page,     \* memory a ring can be allocated in
          Size,     \* dwords of a ring (524288 in the driver)
          Counts,   \* dwords a SEND_PM4 may carry (1..64 in the driver)
          MaxFence, \* fence values user mode names
          MaxCalls, \* bound: IOCTLs in a behaviour
          Null      \* no page, and the owner of a free lock

IbDwords  == 4
EopDwords == 6

Resets == {"RESET_DEVICE", "TDR_RESET"}
Ioctls == {"SUBMIT_COMMANDS", "SEND_PM4", "WAIT_FENCE", "SIGNAL_FENCE",
           "GET_NBIO_STATUS"} \cup Resets

ASSUME GfxAssumption ==
  /\ Null \notin Thread \cup Page
  /\ Handlers \subseteq Ioctls
  /\ MaxCalls \in Nat /\ MaxFence \in Nat
  /\ Size \in Nat /\ Size >= 2 * (IbDwords + EopDwords)
  /\ \A c \in Counts : c \in Nat \ {0} /\ 2 * (c + EopDwords) <= Size

VARIABLES
  pc,          \* where each thread is
  req,         \* the IOCTL it is, what the caller asked and the ring it brings up
  calls,       \* IOCTLs so far
  lock,        \* owner of GfxRing.Lock
  va,          \* GfxRing.VirtualAddress: the page
  live,        \* pages that are allocated
  initialized, \* GfxRing.Initialized
  wptr,        \* GfxRing.WritePointer, in dwords
  hwWptr,      \* CP_GFX_RING0_WPTR
  ring,        \* what the dwords of the current page are
  fencePage,   \* GlobalFence.VirtualAddress is set
  submitted,   \* LastSubmittedValue
  signaled,    \* LastSignaledValue
  event,       \* FenceEvent, a synchronization event
  config,      \* whether the board lets the host write the ring's base, and the
               \* registry asks for the extended order of initialisation
  base,        \* CP_GFX_RING0_BASE: the page the hardware reads
  desync,      \* history: a bring-up or a reset has moved one of the pointers
               \* and not the other, or under the hand of the lock's owner
  overlapped   \* history: two rings have been brought up at the same time

thread  == <<pc, req, calls>>
memory  == <<va, live, initialized, fencePage, base, overlapped>>
pointer == <<wptr, hwWptr, desync>>
fences  == <<submitted, signaled, event>>
vars == <<thread, lock, memory, pointer, ring, fences, config>>

\* A dword: of which packet of which call, and its place in it.
Dword(kind, n, of, c) == [kind |-> kind, n |-> n, of |-> of, call |-> c]
Zero == Dword("zero", 0, 1, 0)
Nop  == Dword("nop", 0, 1, 0)
Places == 0..Size - 1
Blank  == [i \in Places |-> Zero]

\* call numbers the IOCTLs; ib: a SUBMIT_COMMANDS names an indirect buffer;
\* count: SendPm4->CommandCount; page: RingVirt, the ring a bring-up allocated;
\* met (history): a reset or another call's bring-up has met the call.
NoRequest == [handler |-> "none", call |-> 0, fence |-> 0, ib |-> FALSE, count |-> 0,
              page |-> Null, met |-> FALSE]

Init ==
  /\ pc = [t \in Thread |-> "Idle"]
  /\ req = [t \in Thread |-> NoRequest]
  /\ calls = 0 /\ lock = Null
  /\ va = Null /\ live = {} /\ initialized = FALSE /\ fencePage \in BOOLEAN
  /\ base = Null /\ overlapped = FALSE
  /\ wptr = 0 /\ hwWptr = 0 /\ desync = FALSE
  /\ ring = Blank
  /\ submitted = 0 /\ signaled = 0 /\ event = FALSE
  /\ config \in [writable : BOOLEAN, extended : BOOLEAN]

Is(t, h) == req[t].handler = h
Goto(t, from, to) ==
  /\ pc[t] = from /\ pc' = [pc EXCEPT ![t] = to]
  /\ req' = IF to = "Idle" THEN [req EXCEPT ![t] = NoRequest] ELSE req
  /\ UNCHANGED calls

\* A step of a bring-up or a reset, page being the ring it has allocated: every
\* other call in the driver has met it.
Meets(t, from, to, page) ==
  /\ pc[t] = from /\ pc' = [pc EXCEPT ![t] = to]
  /\ req' = [u \in Thread |->
        CASE u = t /\ to = "Idle" -> NoRequest
          [] u = t /\ to # "Idle" -> [req[u] EXCEPT !.page = page]
          [] OTHER -> IF pc[u] = "Idle" THEN req[u] ELSE [req[u] EXCEPT !.met = TRUE]]
  /\ UNCHANGED calls

\* Where an IOCTL begins.
Entry(h) == CASE h = "SUBMIT_COMMANDS" -> "Lock"
              [] h = "SEND_PM4"        -> "Send"
              [] h = "WAIT_FENCE"      -> "Check"
              [] h = "SIGNAL_FENCE"    -> "Signal"
              [] h = "GET_NBIO_STATUS" -> "Lazy"
              [] OTHER                 -> "Zero"

\* A ring that is published and not verified.
Unsure == {"Base", "Probe"}

\* What the caller may ask.  SUBMIT_COMMANDS in the layout that
\* inc/amdbc250_ioctl.h declares arrives with an indirect buffer and fence 0:
\* the handler takes the fence from the upper half of the size.
Requests(n) ==
  LET ask(h, fs, ibs, cs) ==
        [handler : {h}, call : {n}, fence : fs, ib : ibs, count : cs, page : {Null},
         met : {\E u \in Thread : pc[u] \in Unsure}]
  IN  ask("SUBMIT_COMMANDS", 0..MaxFence, BOOLEAN, {0})
      \cup ask("SEND_PM4", 0..MaxFence, {FALSE}, Counts)
      \cup (UNION {ask(h, 1..MaxFence, {FALSE}, {0}) : h \in {"WAIT_FENCE", "SIGNAL_FENCE"}})
      \cup (UNION {ask(h, {0}, {FALSE}, {0}) : h \in Resets \cup {"GET_NBIO_STATUS"}})

Enter(t) ==
  /\ pc[t] = "Idle" /\ calls < MaxCalls
  /\ calls' = calls + 1
  /\ \E r \in Requests(calls') :
       /\ r.handler \in Handlers
       /\ req' = [req EXCEPT ![t] = r]
       /\ pc' = [pc EXCEPT ![t] = Entry(r.handler)]
  /\ UNCHANGED <<lock, memory, pointer, ring, fences, config>>

-----------------------------------------------------------------------------
(* Writing the ring *)

\* The ring with the packet of a call at place w.
Packet(r, w, kind, of, c) ==
  [i \in Places |-> IF i \in w..w + of - 1 THEN Dword(kind, i - w, of, c) ELSE r[i]]

\* Padding from w to the end.
Padded(r, w) == [i \in Places |-> IF i >= w THEN Nop ELSE r[i]]

Lock(t) ==
  /\ Goto(t, "Lock", "Body")
  /\ lock = Null /\ lock' = t
  /\ UNCHANGED <<memory, pointer, ring, fences, config>>

\* SUBMIT_COMMANDS: an indirect buffer goes into a ring that was verified.  Its
\* wrap leaves the end of the ring as it is.
SubmitIb(t) ==
  /\ Is(t, "SUBMIT_COMMANDS") /\ Goto(t, "Body", "Eop")
  /\ initialized /\ va # Null /\ req[t].ib
  /\ LET w == IF wptr + IbDwords > Size THEN 0 ELSE wptr
     IN  ring' = Packet(ring, w, "ib", IbDwords, req[t].call) /\ wptr' = w + IbDwords
  /\ UNCHANGED <<lock, memory, hwWptr, desync, fences, config>>

\* Otherwise the call is only bookkeeping.
SubmitNothing(t) ==
  /\ Is(t, "SUBMIT_COMMANDS") /\ Goto(t, "Body", "Record")
  /\ ~(initialized /\ va # Null /\ req[t].ib)
  /\ lock' = Null
  /\ UNCHANGED <<memory, pointer, ring, fences, config>>

\* SEND_PM4: the commands, where they and their fence fit.  With no ring any
\* more the copy to NULL stops the machine.
SendBody(t) ==
  /\ Is(t, "SEND_PM4") /\ va # Null
  /\ Goto(t, "Body", IF req[t].fence > 0 THEN "Eop" ELSE "Kick")
  /\ LET total == req[t].count + (IF req[t].fence > 0 THEN EopDwords ELSE 0)
         wraps == wptr + total > Size
         w == IF wraps THEN 0 ELSE wptr
         r == IF wraps THEN Padded(ring, wptr) ELSE ring
     IN  ring' = Packet(r, w, "cmd", req[t].count, req[t].call) /\ wptr' = w + req[t].count
  /\ UNCHANGED <<lock, memory, hwWptr, desync, fences, config>>

\* DreamV3WriteEopFence with no padding.
EopNoPadding(t) ==
  /\ Goto(t, "Eop", "Kick")
  /\ LET w == IF wptr + EopDwords > Size THEN 0 ELSE wptr
     IN  IF va = Null THEN UNCHANGED <<ring, wptr>>
         ELSE ring' = Packet(ring, w, "eop", EopDwords, req[t].call) /\ wptr' = w + EopDwords
  /\ IF Is(t, "SEND_PM4") THEN submitted' = req[t].fence ELSE UNCHANGED submitted
  /\ UNCHANGED <<lock, memory, hwWptr, desync, signaled, event, config>>

\* DreamV3WriteEopFence; SEND_PM4 records its fence here.
Eop(t) ==
  /\ Goto(t, "Eop", "Kick")
  /\ LET wraps == wptr + EopDwords > Size
         w == IF wraps THEN 0 ELSE wptr
         r == IF wraps THEN Padded(ring, wptr) ELSE ring
     IN  IF va = Null THEN UNCHANGED <<ring, wptr>>
         ELSE ring' = Packet(r, w, "eop", EopDwords, req[t].call) /\ wptr' = w + EopDwords
  /\ IF Is(t, "SEND_PM4") THEN submitted' = req[t].fence ELSE UNCHANGED submitted
  /\ UNCHANGED <<lock, memory, hwWptr, desync, signaled, event, config>>

\* The doorbell, and the lock is let go.
Kick(t) ==
  /\ Goto(t, "Kick", IF Is(t, "SEND_PM4") THEN "Idle" ELSE "Record")
  /\ hwWptr' = wptr
  /\ desync' = (desync /\ req[t].met)
  /\ lock' = Null
  /\ UNCHANGED <<memory, wptr, ring, fences, config>>

\* SUBMIT_COMMANDS, after the lock: the fence and its event.
Record(t) ==
  /\ Goto(t, "Record", "Idle")
  /\ submitted' = req[t].fence /\ event' = TRUE
  /\ UNCHANGED <<lock, memory, pointer, ring, signaled, config>>

-----------------------------------------------------------------------------
(* SEND_PM4 with no ring *)

\* The ring if there is one; the test is outside the lock.
AfterKiq == IF va # Null THEN "Lock" ELSE "Software"

Send(t) ==
  /\ Goto(t, "Send", AfterKiq)
  /\ UNCHANGED <<lock, memory, pointer, ring, fences, config>>

\* If the KIQ of the PSP is up it takes the commands, or fails with the fence
\* recorded already.
SendKiq(t) ==
  /\ \/ Goto(t, "Send", "Idle")
     \/ Goto(t, "Send", AfterKiq)
  /\ IF req[t].fence > 0 /\ fencePage THEN submitted' = req[t].fence ELSE UNCHANGED submitted
  /\ UNCHANGED <<lock, memory, pointer, ring, signaled, event, config>>

\* DreamV3SwPm4Process: the fence is recorded unless a packet was refused.
Software(t) ==
  /\ Goto(t, "Software", "Idle")
  /\ submitted' \in {submitted, req[t].fence}
  /\ UNCHANGED <<lock, memory, pointer, ring, signaled, event, config>>

-----------------------------------------------------------------------------
(* WAIT_FENCE and SIGNAL_FENCE *)

Check(t) ==
  /\ Goto(t, "Check", IF signaled >= req[t].fence THEN "Idle" ELSE "Wait")
  /\ UNCHANGED <<lock, memory, pointer, ring, fences, config>>

\* Any event is as good as another: the fence is not read again.
Wake(t) ==
  /\ Goto(t, "Wait", "Idle")
  /\ event /\ event' = FALSE
  /\ UNCHANGED <<lock, memory, pointer, ring, submitted, signaled, config>>

Timeout(t) ==
  /\ Goto(t, "Wait", "Idle")
  /\ UNCHANGED <<lock, memory, pointer, ring, fences, config>>

\* Sets no event.
Signal(t) ==
  /\ Goto(t, "Signal", "Idle")
  /\ signaled' = req[t].fence
  /\ UNCHANGED <<lock, memory, pointer, ring, submitted, event, config>>

-----------------------------------------------------------------------------
(* Bringing the ring up: DreamV3HwInitGfxRing, with no lock *)

\* The driver's pointer and the register's, set with no lock.
Point(w, hw) ==
  /\ wptr' = w /\ hwWptr' = hw
  /\ desync' = (w # hw \/ lock # Null)

\* Whether or not a ring is there is tested some time before the new one is.
ToAlloc(t) ==
  overlapped' = (overlapped \/ \E u \in Thread \ {t} : pc[u] \in {"Alloc"} \cup Unsure)

Lazy(t) ==
  /\ \/ Goto(t, "Lazy", "Idle") /\ UNCHANGED overlapped
     \/ ~initialized /\ Goto(t, "Lazy", "Alloc") /\ ToAlloc(t)
  /\ UNCHANGED <<lock, va, live, initialized, fencePage, base, pointer, ring, fences, config>>

\* A reset zeroes the driver's pointer.
ZeroPointer(t) ==
  /\ Meets(t, "Zero", "Restart", Null)
  /\ Point(0, hwWptr)
  /\ UNCHANGED <<lock, memory, ring, fences, config>>

\* TDR_RESET the register and the fences as well.  Then DreamV3HwInitialize: the
\* fence page if there is none, and the ring - unless the classic order finds
\* one or a step cap stops before it.
Restart(t) ==
  /\ \/ Meets(t, "Restart", "Idle", Null) /\ UNCHANGED overlapped
     \/ /\ config.extended \/ va = Null
        /\ Meets(t, "Restart", "Alloc", Null) /\ ToAlloc(t)
  /\ IF Is(t, "TDR_RESET")
     THEN Point(wptr, 0) /\ submitted' = 0 /\ signaled' = 0
     ELSE UNCHANGED <<pointer, submitted, signaled>>
  /\ fencePage' \in {fencePage, TRUE}
  /\ UNCHANGED <<lock, va, live, initialized, base, ring, event, config>>

\* The kill switch is set or the allocation fails; else the new ring is
\* published, unverified, over the one there may be.
Alloc(t) ==
  /\ \/ /\ Goto(t, "Alloc", "Idle")
        /\ UNCHANGED <<va, live, initialized, pointer, ring>>
     \/ \E p \in Page \ live :
          /\ Meets(t, "Alloc", "Base", p)
          /\ va' = p /\ live' = live \cup {p} /\ initialized' = FALSE
          /\ ring' = Blank /\ Point(0, hwWptr)
  /\ UNCHANGED <<lock, fences, fencePage, base, overlapped, config>>

\* The ring the call allocated is given back and nobody is told.
Refuse(t) ==
  live' = live \ {req[t].page} /\ va' = Null

\* No fence page: no ring.  Else its base is written; the board may ignore that.
Base(t) ==
  /\ \/ ~fencePage /\ Goto(t, "Base", "Idle") /\ Refuse(t) /\ UNCHANGED base
     \/ /\ fencePage /\ Goto(t, "Base", "Probe")
        /\ base' = IF config.writable THEN req[t].page ELSE base
        /\ UNCHANGED <<va, live>>
  /\ UNCHANGED <<lock, initialized, fencePage, overlapped, pointer, ring, fences, config>>

\* The ring stays, and the pointer registers are zeroed.
Accept == initialized' = TRUE /\ Point(wptr, 0) /\ UNCHANGED <<va, live>>

\* Forgetting the pointer registers.
ProbeKeepsWptr(t) ==
  /\ Goto(t, "Probe", "Idle")
  /\ IF base = req[t].page
     THEN initialized' = TRUE /\ desync' = FALSE /\ UNCHANGED <<va, live, wptr, hwWptr>>
     ELSE Refuse(t) /\ initialized' = FALSE /\ UNCHANGED pointer
  /\ UNCHANGED <<lock, fencePage, base, overlapped, ring, fences, config>>

\* Keeping the ring, whatever its base reads.
ProbeUnread(t) ==
  /\ Goto(t, "Probe", "Idle") /\ Accept
  /\ UNCHANGED <<lock, fencePage, base, overlapped, ring, fences, config>>

\* Dropping a refused ring's address and not its memory.
ProbeLeaks(t) ==
  /\ Goto(t, "Probe", "Idle")
  /\ IF base = req[t].page THEN Accept
     ELSE va' = Null /\ initialized' = FALSE /\ UNCHANGED <<live, pointer>>
  /\ UNCHANGED <<lock, fencePage, base, overlapped, ring, fences, config>>

\* The base is read back: if it did not take, the ring is refused.
Probe(t) ==
  /\ Goto(t, "Probe", "Idle")
  /\ IF base = req[t].page THEN Accept
     ELSE Refuse(t) /\ initialized' = FALSE /\ UNCHANGED pointer
  /\ UNCHANGED <<lock, fencePage, base, overlapped, ring, fences, config>>

-----------------------------------------------------------------------------
Run(t) ==
  \/ Lock(t) \/ SubmitIb(t) \/ SubmitNothing(t) \/ SendBody(t) \/ Eop(t)
  \/ Kick(t) \/ Record(t) \/ Send(t) \/ SendKiq(t) \/ Software(t)
  \/ Check(t) \/ Wake(t) \/ Timeout(t) \/ Signal(t)
  \/ Lazy(t) \/ ZeroPointer(t) \/ Restart(t) \/ Alloc(t) \/ Base(t) \/ Probe(t)

Next == \E t \in Thread : Enter(t) \/ Run(t)

Spec == Init /\ [][Next]_vars
-----------------------------------------------------------------------------
(* Properties *)

\* The dwords the command processor runs through from one write pointer to the
\* next.
Path(from, to) == IF from <= to THEN from..to - 1 ELSE (from..Size - 1) \cup (0..to - 1)

\* DreamV3SubmitGfxRing and the end of SEND_PM4: the doorbell of a call that no
\* bring-up or reset has met makes the command processor run the packets of that
\* call, whole, the commands before their fence, and padding - nothing of another
\* call or of an earlier lap.  SUBMIT_COMMANDS does not pad when it wraps: it
\* exposes up to three dwords of an earlier lap at the end of the ring.
KickRunsOwn ==
  [][\A t \in Thread : ~desync /\ ~req[t].met /\ Kick(t) =>
       LET path == Path(hwWptr, wptr)
           own  == {i \in path : ring[i].call = req[t].call}
           size == (IF Is(t, "SEND_PM4") THEN req[t].count ELSE IbDwords)
                   + (IF Is(t, "SEND_PM4") /\ req[t].fence = 0 THEN 0 ELSE EopDwords)
           rest == {i \in path \ own : ring[i] # Nop}
       IN  /\ Cardinality(own) = size
           /\ rest = {} \/ /\ Is(t, "SUBMIT_COMMANDS") /\ Cardinality(rest) < IbDwords
                           /\ \A i \in rest : i >= hwWptr /\ wptr < hwWptr
           /\ \A i \in own : ring[i].n + 1 < ring[i].of => ring[i + 1].n = ring[i].n + 1
           /\ \A i \in own : ring[i].kind = "eop" /\ ring[i].n = 0 =>
                i = 0 \/ (i - 1 \in own /\ ring[i - 1].kind # "eop")]_vars

\* While nobody holds the lock the write pointer of the driver is the one the
\* hardware was given, also across bring-up, failed bring-up and resets - but
\* not after RESET_DEVICE, which zeroes only the driver's, until the next
\* doorbell, and not after a reset or a bring-up beside the owner of the lock.
PointersAgree ==
  lock = Null /\ initialized /\ ~desync => hwWptr = wptr

\* amdbc250_dream_kmd.c:3909-3911, "a ring that was never verified must never
\* be kicked": SUBMIT_COMMANDS tests Initialized, SEND_PM4 only that there is a
\* ring, and no bring-up takes the lock.  What the doorbell of a call is rung for
\* is nevertheless a ring that is allocated and whose base the hardware has, if
\* no reset or bring-up met the call and no two bring-ups ever met each other.
UnverifiedNeverKicked ==
  \A t \in Thread : pc[t] \in {"Eop", "Kick"} /\ ~req[t].met /\ ~overlapped =>
     initialized /\ va \in live /\ base = va /\ fencePage

\* However bring-ups and resets overlap, the ring a bring-up is working on is
\* allocated and is no other's: no ring is freed twice or under another's hand.
\* In the classic order of initialisation, and if no two bring-ups ever
\* overlapped, the ring in use is also the only one allocated, however often
\* bring-up fails and is retried: none is lost.
NoRingLeak ==
  /\ \A t \in Thread : pc[t] \in Unsure =>
       /\ req[t].page \in live
       /\ \A u \in Thread \ {t} : pc[u] \in Unsure => req[u].page # req[t].page
  /\ ~config.extended /\ ~overlapped => live = {va} \ {Null}

\* inc/amdbc250_ioctl.h:627, "Fence value to wait for": if WAIT_FENCE succeeds,
\* a fence that far has been signalled, or has at least been submitted.
WaitMeansReached ==
  [][\A t \in Thread : Wake(t) => signaled >= req[t].fence \/ submitted >= req[t].fence]_vars
=============================================================================
