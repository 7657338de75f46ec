------------------------ MODULE WddmInterrupt_proof -------------------------
(***************************************************************************)
(* Proofs about WddmInterrupt for every size of the ring and any number of *)
(* entries.                                                                *)
(***************************************************************************)
EXTENDS WddmInterrupt, Integers, TLAPS

-----------------------------------------------------------------------------
(* The inductive invariant *)

\* The callbacks and the driver's own variables have their types.
ControlType ==
  /\ pc \in Step /\ why \in {"start", "stop", "reset"} /\ started \in BOOLEAN
  /\ hw \in BOOLEAN /\ va \in BOOLEAN /\ rp \in Place /\ queued \in BOOLEAN
  /\ raced \in {"no", "start", "stop", "reset"}
  /\ wild \in BOOLEAN /\ blind \in BOOLEAN

\* The DPC and the registers.
PointerType ==
  /\ dpc \in [pc : {"idle", "loop", "pointer"}, r : Place, w : Place, n : Nat]
  /\ reg \in [on : BOOLEAN, base : BOOLEAN, rptr : Place, wptr : Place]

Log == [written : Nat, done : Nat, ok : BOOLEAN, overrun : BOOLEAN]

\* The ring and its history.
RingType ==
  /\ ring \in [Place -> Nat]
  /\ log \in Log

\* Every variable has its type.
Type == ControlType /\ PointerType /\ RingType

\* What the driver and the hardware have of the ring at each step of a callback.
Phase ==
  /\ pc \in {"idle", "off", "free", "publish"} => (va <=> reg.base)
  /\ pc \in {"forget", "hide", "alloc", "base"} => ~reg.base
  /\ pc \in {"hide", "alloc"} => ~va
  /\ pc \in {"base", "rptr", "wptr", "on"} => va
  /\ pc \in {"rptr", "wptr", "on"} => reg.base
  /\ pc \notin {"idle", "off", "publish"} => ~reg.on
  /\ pc = "publish" /\ reg.on => va
  /\ pc = "idle" /\ ~started => ~va /\ ~reg.on

\* StartDevice runs with HardwareInitialized down, and no DPC beside it.
Guarded ==
  /\ pc = "idle" /\ ~started => ~hw
  /\ pc # "idle" /\ why = "start" => ~hw /\ dpc.pc = "idle"
  /\ pc # "idle" /\ why = "reset" => started
  /\ pc \in {"off", "free", "forget", "hide"} => why # "start"
  /\ pc = "hide" => why = "stop"
  /\ raced # "start"

\* A DPC that runs during a callback has been noted.
RaceNoted == raced = "no" /\ pc # "idle" => dpc.pc = "idle"

\* The budget of the DPC's loop is never used up: the ring is there, and what
\* the loop has handled and what is left up to the write pointer it has read
\* stays below the ring's size.
Budget ==
  raced = "no" =>
    /\ dpc.pc = "loop" => va /\ dpc.n + Distance(dpc.r, dpc.w) < Size
    /\ dpc.pc = "pointer" => dpc.r = dpc.w

\* A ring whose registers are being programmed is empty.
Fresh ==
  pc \in {"base", "rptr", "wptr"} /\ raced = "no" =>
    /\ rp = 0 /\ log.done = 0 /\ log.written = 0 /\ log.ok
    /\ pc = "wptr" => reg.rptr = 0

\* The hardware and the driver agree on a ring.
Live == /\ va /\ reg.base /\ pc \notin {"rptr", "wptr"}
        /\ raced = "no" /\ ~log.overrun

\* Where the driver is: the next entry it will handle.
Cursor == IF dpc.pc = "idle" THEN rp ELSE dpc.r

\* Around a live ring come, in this order, IH_RB_RPTR, the driver, the write
\* pointer the DPC has read, and IH_RB_WPTR.
Order ==
  Live =>
    /\ Distance(reg.rptr, Cursor) + Distance(Cursor, reg.wptr)
         = Distance(reg.rptr, reg.wptr)
    /\ dpc.pc = "loop" =>
         Distance(Cursor, dpc.w) <= Distance(Cursor, reg.wptr)
    /\ dpc.pc = "idle" => reg.rptr = rp
    /\ dpc.pc = "pointer" => rp = dpc.r

\* Between the driver and IH_RB_WPTR are the entries that were written and not
\* yet handled, in the order they were written.
Contents ==
  Live =>
    /\ log.done + Distance(Cursor, reg.wptr) = log.written
    /\ \A p \in Place : Distance(Cursor, p) < Distance(Cursor, reg.wptr) =>
         ring[p] = log.done + Distance(Cursor, p) + 1

\* What has been handled was in order.
Handled == va /\ ~log.overrun /\ raced = "no" => log.ok /\ log.done <= log.written

\* The interrupt is on without a ring only after ControlInterrupt.
Blind == (reg.on /\ ~reg.base => blind) /\ WritesHitRing

IInv == Type /\ Phase /\ Guarded /\ RaceNoted /\ Budget /\ Fresh
             /\ Order /\ Contents /\ Handled /\ Blind

USE SizeAssumption

-----------------------------------------------------------------------------
(* The ring's arithmetic *)

\* The place after a place is a place.
LEMMA NextPlace == \A p \in Place : Next1(p) \in Place
BY DEF Place, Next1

\* The first place.
LEMMA ZeroPlace == 0 \in Place
BY DEF Place

\* A distance is below the size of the ring, and zero only between equal places.
LEMMA DistanceBound ==
  \A p, q \in Place : /\ Distance(p, q) \in 0..Size - 1
                      /\ Distance(p, q) = 0 <=> p = q
BY DEF Place, Distance

\* Going on from where one is shortens the way to every other place by one.
LEMMA DistanceStep ==
  \A p, q \in Place :
    Distance(Next1(p), q) = IF p = q THEN Size - 1 ELSE Distance(p, q) - 1
BY DEF Place, Distance, Next1

\* Moving the goal on lengthens the way by one, unless it has come round.
LEMMA DistanceGrow ==
  \A p, q \in Place :
    Distance(p, Next1(q)) = IF Next1(q) = p THEN 0 ELSE Distance(p, q) + 1
BY DEF Place, Distance, Next1

\* Places at the same distance are the same.
LEMMA DistanceOne ==
  \A p, q, r \in Place : Distance(p, q) = Distance(p, r) => q = r
BY DEF Place, Distance

\* Counting in the history keeps its type.
LEMMA LogSteps ==
  ASSUME NEW l \in Log, NEW n \in Nat, NEW b \in BOOLEAN
  PROVE  /\ [l EXCEPT !.written = n, !.overrun = b] \in Log
         /\ [l EXCEPT !.done = n, !.ok = b] \in Log
BY DEF Log

-----------------------------------------------------------------------------
(* The first state and the steps *)

\* No ring and no DPC: everything holds.
LEMMA InvInit == Init => IInv
<1> SUFFICES ASSUME Init PROVE IInv
  OBVIOUS
<1>1. Type
  <2>1. ControlType
    BY ZeroPlace DEF Init, ControlType, Step
  <2>2. PointerType
    BY ZeroPlace DEF Init, PointerType
  <2>3. RingType
    BY DEF Init, RingType, Log, NewLog
  <2>4. QED
    BY <2>1, <2>2, <2>3 DEF Type
<1>2. Phase /\ Guarded /\ RaceNoted /\ Budget /\ Fresh /\ Handled /\ Blind
  BY DEF Init, Phase, Guarded, RaceNoted, Budget, Fresh, Handled, Blind, WritesHitRing
<1>3. Order /\ Contents
  BY DEF Init, Order, Contents, Live
<1>4. QED
  BY <1>1, <1>2, <1>3 DEF IInv

\* The steps of the callbacks, those of the hardware and of the interrupt.
CallbackStep ==
  \/ BeginStart \/ StartWithoutRing \/ BeginStop \/ BeginReset
  \/ Disable \/ FreeRing \/ Forget \/ Hide \/ Allocate
  \/ ProgramBase \/ ProgramRptr \/ ProgramWptr \/ Enable \/ Publish
  \/ ControlInterrupt

\* The next-state relation, flattened.
LEMMA Steps ==
  [Next]_vars <=> \/ WriteEntry \/ Interrupt
                  \/ DpcBegin \/ DpcEntry \/ DpcReadPointer \/ DpcEnd
                  \/ CallbackStep \/ UNCHANGED vars
BY DEF Next, Dpc, Bringup, CallbackStep

-----------------------------------------------------------------------------
(* Every step preserves every part *)

\* Every step keeps the types of the callbacks and the driver.
LEMMA ControlTypeNext == Type /\ [Next]_vars => ControlType'
<1> SUFFICES ASSUME Type, [Next]_vars PROVE ControlType'
  OBVIOUS
<1> USE DEF vars, callback, driver, history, Type, ControlType, PointerType, Step, Begin, Ready
<1>1. CASE WriteEntry
  <2>1. wild' \in BOOLEAN
    BY <1>1 DEF WriteEntry
  <2>2. UNCHANGED <<pc, why, started, hw, va, rp, queued, raced, blind>>
    BY <1>1 DEF WriteEntry
  <2>3. QED
    BY <2>1, <2>2
<1>2. CASE Interrupt
  BY <1>2 DEF Interrupt
<1>3. CASE DpcBegin
  BY <1>3 DEF DpcBegin
<1>4. CASE DpcEntry
  BY <1>4 DEF DpcEntry
<1>5. CASE DpcReadPointer
  BY <1>5 DEF DpcReadPointer
<1>6. CASE DpcEnd
  BY <1>6 DEF DpcEnd
<1>7. CASE CallbackStep
  <2>1. CASE BeginStart
    BY <2>1 DEF BeginStart
  <2>2. CASE StartWithoutRing
    BY <2>2 DEF StartWithoutRing
  <2>3. CASE BeginStop
    BY <2>3 DEF BeginStop
  <2>4. CASE BeginReset
    BY <2>4 DEF BeginReset
  <2>5. CASE Disable
    BY <2>5 DEF Disable
  <2>6. CASE FreeRing
    BY <2>6 DEF FreeRing
  <2>7. CASE Forget
    BY <2>7, ZeroPlace DEF Forget
  <2>8. CASE Hide
    BY <2>8 DEF Hide
  <2>9. CASE Allocate
    BY <2>9, ZeroPlace DEF Allocate
  <2>10. CASE ProgramBase
    BY <2>10 DEF ProgramBase
  <2>11. CASE ProgramRptr
    BY <2>11 DEF ProgramRptr
  <2>12. CASE ProgramWptr
    BY <2>12 DEF ProgramWptr
  <2>13. CASE Enable
    BY <2>13 DEF Enable
  <2>14. CASE Publish
    BY <2>14 DEF Publish
  <2>15. CASE ControlInterrupt
    BY <2>15 DEF ControlInterrupt
  <2>16. QED
    BY <1>7, <2>1, <2>2, <2>3, <2>4, <2>5, <2>6, <2>7, <2>8, <2>9, <2>10, <2>11, <2>12, <2>13, <2>14, <2>15 DEF CallbackStep
<1>8. CASE UNCHANGED vars
  BY <1>8
<1>9. QED
  BY Steps, <1>1, <1>2, <1>3, <1>4, <1>5, <1>6, <1>7, <1>8

\* Pointers stay places of the ring.
LEMMA PointerTypeNext == Type /\ [Next]_vars => PointerType'
<1> SUFFICES ASSUME Type, [Next]_vars PROVE PointerType'
  OBVIOUS
<1> USE DEF vars, callback, driver, history, Type, ControlType, PointerType, Begin, Ready
<1>1. CASE WriteEntry
  BY <1>1, NextPlace DEF WriteEntry
<1>2. CASE Interrupt
  BY <1>2 DEF Interrupt
<1>3. CASE DpcBegin
  BY <1>3 DEF DpcBegin
<1>4. CASE DpcEntry
  <2>1. (IF va THEN Next1(dpc.r) ELSE 0) \in Place /\ dpc.n + 1 \in Nat
    BY NextPlace, ZeroPlace
  <2>2. dpc' = [dpc EXCEPT !.r = IF va THEN Next1(@) ELSE 0, !.n = @ + 1] /\ reg' = reg
    BY <1>4 DEF DpcEntry
  <2>3. QED
    BY <2>1, <2>2
<1>5. CASE DpcReadPointer
  BY <1>5 DEF DpcReadPointer
<1>6. CASE DpcEnd
  BY <1>6 DEF DpcEnd
<1>7. CASE CallbackStep
  <2>1. CASE BeginStart
    BY <2>1 DEF BeginStart
  <2>2. CASE StartWithoutRing
    BY <2>2 DEF StartWithoutRing
  <2>3. CASE BeginStop
    BY <2>3 DEF BeginStop
  <2>4. CASE BeginReset
    BY <2>4 DEF BeginReset
  <2>5. CASE Disable
    BY <2>5 DEF Disable
  <2>6. CASE FreeRing
    BY <2>6 DEF FreeRing
  <2>7. CASE Forget
    BY <2>7 DEF Forget
  <2>8. CASE Hide
    BY <2>8 DEF Hide
  <2>9. CASE Allocate
    BY <2>9 DEF Allocate
  <2>10. CASE ProgramBase
    BY <2>10 DEF ProgramBase
  <2>11. CASE ProgramRptr
    BY <2>11, ZeroPlace DEF ProgramRptr
  <2>12. CASE ProgramWptr
    BY <2>12, ZeroPlace DEF ProgramWptr
  <2>13. CASE Enable
    BY <2>13 DEF Enable
  <2>14. CASE Publish
    BY <2>14 DEF Publish
  <2>15. CASE ControlInterrupt
    BY <2>15 DEF ControlInterrupt
  <2>16. QED
    BY <1>7, <2>1, <2>2, <2>3, <2>4, <2>5, <2>6, <2>7, <2>8, <2>9, <2>10, <2>11, <2>12, <2>13, <2>14, <2>15 DEF CallbackStep
<1>8. CASE UNCHANGED vars
  BY <1>8
<1>9. QED
  BY Steps, <1>1, <1>2, <1>3, <1>4, <1>5, <1>6, <1>7, <1>8

\* The ring holds numbers of entries.
LEMMA RingTypeNext == Type /\ [Next]_vars => RingType'
<1> SUFFICES ASSUME Type, [Next]_vars PROVE RingType'
  OBVIOUS
<1> USE DEF vars, callback, driver, history, Type, RingType, PointerType, Begin, NewLog
<1>1. CASE WriteEntry
  <2>1. CASE reg.base
    <3>1. log' = [log EXCEPT !.written = @ + 1,
                             !.overrun = @ \/ Next1(reg.wptr) = reg.rptr]
      BY <1>1, <2>1 DEF WriteEntry
    <3>2. ring' = [ring EXCEPT ![reg.wptr] = log.written + 1]
      BY <1>1, <2>1 DEF WriteEntry
    <3>3. (log.overrun \/ Next1(reg.wptr) = reg.rptr) \in BOOLEAN
      OBVIOUS
    <3>4. log' \in Log
      <4>1. log.written + 1 \in Nat
        BY DEF Log
      <4>2. QED
        BY <3>1, <3>3, <4>1, LogSteps, Zenon
    <3>5. log.written + 1 \in Nat
      BY DEF Log
    <3>6. ring' \in [Place -> Nat]
      BY <3>2, <3>5
    <3>7. QED
      BY <3>4, <3>6
  <2>2. CASE ~reg.base
    BY <1>1, <2>2 DEF WriteEntry
  <2>3. QED
    BY <2>1, <2>2
<1>2. CASE Interrupt
  BY <1>2 DEF Interrupt
<1>3. CASE DpcBegin
  BY <1>3 DEF DpcBegin
<1>4. CASE DpcEntry
  <2>1. log' = [log EXCEPT !.done = @ + 1, !.ok = @ /\ ring[dpc.r] = log.done + 1]
    BY <1>4 DEF DpcEntry
  <2>2. (log.ok /\ ring[dpc.r] = log.done + 1) \in BOOLEAN
    OBVIOUS
  <2>3. ring' = ring
    BY <1>4 DEF DpcEntry
  <2>4. log' \in Log
    <3>1. log.done + 1 \in Nat
      BY DEF Log
    <3>2. QED
      BY <2>1, <2>2, <3>1, LogSteps, Zenon
  <2>5. QED
    BY <2>3, <2>4
<1>5. CASE DpcReadPointer
  BY <1>5 DEF DpcReadPointer
<1>6. CASE DpcEnd
  BY <1>6 DEF DpcEnd
<1>7. CASE CallbackStep
  <2>1. CASE BeginStart
    BY <2>1 DEF BeginStart
  <2>2. CASE StartWithoutRing
    BY <2>2 DEF StartWithoutRing
  <2>3. CASE BeginStop
    BY <2>3 DEF BeginStop
  <2>4. CASE BeginReset
    BY <2>4 DEF BeginReset
  <2>5. CASE Disable
    BY <2>5 DEF Disable
  <2>6. CASE FreeRing
    BY <2>6 DEF FreeRing
  <2>7. CASE Forget
    BY <2>7 DEF Forget
  <2>8. CASE Hide
    BY <2>8 DEF Hide
  <2>9. CASE Allocate
    <3>1. CASE va'
      <4>1. ring' = [p \in Place |-> 0]
            \/ ring' = ring
        BY <2>9 DEF Allocate
      <4>2. log' = [written |-> 0, done |-> 0, ok |-> TRUE, overrun |-> FALSE]
            \/ log' = log
        BY <2>9 DEF Allocate
      <4>3. ring' \in [Place -> Nat]
        BY <4>1
      <4>4. [written |-> 0, done |-> 0, ok |-> TRUE, overrun |-> FALSE] \in Log
        BY DEF Log
      <4>5. log' \in Log
        BY <4>2, <4>4
      <4>6. QED
        BY <4>3, <4>5
    <3>2. CASE ~va'
      BY <2>9, <3>2 DEF Allocate
    <3>3. QED
      BY <3>1, <3>2
  <2>10. CASE ProgramBase
    BY <2>10 DEF ProgramBase
  <2>11. CASE ProgramRptr
    BY <2>11 DEF ProgramRptr
  <2>12. CASE ProgramWptr
    BY <2>12 DEF ProgramWptr
  <2>13. CASE Enable
    BY <2>13 DEF Enable
  <2>14. CASE Publish
    BY <2>14 DEF Publish
  <2>15. CASE ControlInterrupt
    BY <2>15 DEF ControlInterrupt
  <2>16. QED
    BY <1>7, <2>1, <2>2, <2>3, <2>4, <2>5, <2>6, <2>7, <2>8, <2>9, <2>10, <2>11, <2>12, <2>13, <2>14, <2>15 DEF CallbackStep
<1>8. CASE UNCHANGED vars
  BY <1>8
<1>9. QED
  BY Steps, <1>1, <1>2, <1>3, <1>4, <1>5, <1>6, <1>7, <1>8

\* A callback takes the ring and its registers through the phases; nothing
\* else does.
LEMMA PhaseNext == Type /\ Phase /\ Guarded /\ [Next]_vars => Phase'
<1> SUFFICES ASSUME Type, Phase, Guarded, [Next]_vars PROVE Phase'
  OBVIOUS
<1> USE DEF vars, callback, driver, history, Type, ControlType, PointerType, RingType, Log, Phase, Begin, Step
<1>1. CASE WriteEntry
  BY <1>1 DEF WriteEntry
<1>2. CASE Interrupt
  BY <1>2 DEF Interrupt
<1>3. CASE DpcBegin
  BY <1>3 DEF DpcBegin
<1>4. CASE DpcEntry
  BY <1>4 DEF DpcEntry
<1>5. CASE DpcReadPointer
  BY <1>5 DEF DpcReadPointer
<1>6. CASE DpcEnd
  BY <1>6 DEF DpcEnd
<1>7. CASE CallbackStep
  <2>1. CASE BeginStart
    BY <2>1 DEF BeginStart
  <2>2. CASE StartWithoutRing
    BY <2>2 DEF StartWithoutRing
  <2>3. CASE BeginStop
    BY <2>3 DEF BeginStop
  <2>4. CASE BeginReset
    BY <2>4 DEF BeginReset
  <2>5. CASE Disable
    BY <2>5 DEF Disable
  <2>6. CASE FreeRing
    BY <2>6 DEF FreeRing
  <2>7. CASE Forget
    BY <2>7 DEF Forget
  <2>8. CASE Hide
    BY <2>8 DEF Hide
  <2>9. CASE Allocate
    BY <2>9 DEF Allocate
  <2>10. CASE ProgramBase
    BY <2>10 DEF ProgramBase
  <2>11. CASE ProgramRptr
    BY <2>11 DEF ProgramRptr
  <2>12. CASE ProgramWptr
    BY <2>12 DEF ProgramWptr
  <2>13. CASE Enable
    BY <2>13 DEF Enable
  <2>14. CASE Publish
    BY <2>14 DEF Publish
  <2>15. CASE ControlInterrupt
    BY <2>15 DEF ControlInterrupt
  <2>16. QED
    BY <1>7, <2>1, <2>2, <2>3, <2>4, <2>5, <2>6, <2>7, <2>8, <2>9, <2>10, <2>11, <2>12, <2>13, <2>14, <2>15 DEF CallbackStep
<1>8. CASE UNCHANGED vars
  BY <1>8
<1>9. QED
  BY Steps, <1>1, <1>2, <1>3, <1>4, <1>5, <1>6, <1>7, <1>8

\* StartDevice stays guarded.
LEMMA GuardedNext == Type /\ Phase /\ Guarded /\ [Next]_vars => Guarded'
<1> SUFFICES ASSUME Type, Phase, Guarded, [Next]_vars PROVE Guarded'
  OBVIOUS
<1> USE DEF vars, callback, driver, history, Type, ControlType, PointerType, RingType, Log, Phase, Guarded, Begin, Step, Ready
<1>1. CASE WriteEntry
  BY <1>1 DEF WriteEntry
<1>2. CASE Interrupt
  BY <1>2 DEF Interrupt
<1>3. CASE DpcBegin
  BY <1>3 DEF DpcBegin
<1>4. CASE DpcEntry
  BY <1>4 DEF DpcEntry
<1>5. CASE DpcReadPointer
  BY <1>5 DEF DpcReadPointer
<1>6. CASE DpcEnd
  BY <1>6 DEF DpcEnd
<1>7. CASE CallbackStep
  <2>1. CASE BeginStart
    BY <2>1 DEF BeginStart
  <2>2. CASE StartWithoutRing
    BY <2>2 DEF StartWithoutRing
  <2>3. CASE BeginStop
    BY <2>3 DEF BeginStop
  <2>4. CASE BeginReset
    BY <2>4 DEF BeginReset
  <2>5. CASE Disable
    BY <2>5 DEF Disable
  <2>6. CASE FreeRing
    BY <2>6 DEF FreeRing
  <2>7. CASE Forget
    BY <2>7 DEF Forget
  <2>8. CASE Hide
    BY <2>8 DEF Hide
  <2>9. CASE Allocate
    BY <2>9 DEF Allocate
  <2>10. CASE ProgramBase
    BY <2>10 DEF ProgramBase
  <2>11. CASE ProgramRptr
    BY <2>11 DEF ProgramRptr
  <2>12. CASE ProgramWptr
    BY <2>12 DEF ProgramWptr
  <2>13. CASE Enable
    BY <2>13 DEF Enable
  <2>14. CASE Publish
    BY <2>14 DEF Publish
  <2>15. CASE ControlInterrupt
    BY <2>15 DEF ControlInterrupt
  <2>16. QED
    BY <1>7, <2>1, <2>2, <2>3, <2>4, <2>5, <2>6, <2>7, <2>8, <2>9, <2>10, <2>11, <2>12, <2>13, <2>14, <2>15 DEF CallbackStep
<1>8. CASE UNCHANGED vars
  BY <1>8
<1>9. QED
  BY Steps, <1>1, <1>2, <1>3, <1>4, <1>5, <1>6, <1>7, <1>8

\* A DPC that comes to run during a callback is noted.
LEMMA RaceNotedNext == Type /\ RaceNoted /\ [Next]_vars => RaceNoted'
<1> SUFFICES ASSUME Type, RaceNoted, [Next]_vars PROVE RaceNoted'
  OBVIOUS
<1> USE DEF vars, callback, driver, history, Type, ControlType, PointerType, RaceNoted, Begin, Step, Ready
<1>1. CASE WriteEntry
  BY <1>1 DEF WriteEntry
<1>2. CASE Interrupt
  BY <1>2 DEF Interrupt
<1>3. CASE DpcBegin
  BY <1>3 DEF DpcBegin
<1>4. CASE DpcEntry
  BY <1>4 DEF DpcEntry
<1>5. CASE DpcReadPointer
  BY <1>5 DEF DpcReadPointer
<1>6. CASE DpcEnd
  BY <1>6 DEF DpcEnd
<1>7. CASE CallbackStep
  <2>1. CASE BeginStart
    BY <2>1 DEF BeginStart
  <2>2. CASE StartWithoutRing
    BY <2>2 DEF StartWithoutRing
  <2>3. CASE BeginStop
    BY <2>3 DEF BeginStop
  <2>4. CASE BeginReset
    BY <2>4 DEF BeginReset
  <2>5. CASE Disable
    BY <2>5 DEF Disable
  <2>6. CASE FreeRing
    BY <2>6 DEF FreeRing
  <2>7. CASE Forget
    BY <2>7 DEF Forget
  <2>8. CASE Hide
    BY <2>8 DEF Hide
  <2>9. CASE Allocate
    BY <2>9 DEF Allocate
  <2>10. CASE ProgramBase
    BY <2>10 DEF ProgramBase
  <2>11. CASE ProgramRptr
    BY <2>11 DEF ProgramRptr
  <2>12. CASE ProgramWptr
    BY <2>12 DEF ProgramWptr
  <2>13. CASE Enable
    BY <2>13 DEF Enable
  <2>14. CASE Publish
    BY <2>14 DEF Publish
  <2>15. CASE ControlInterrupt
    BY <2>15 DEF ControlInterrupt
  <2>16. QED
    BY <1>7, <2>1, <2>2, <2>3, <2>4, <2>5, <2>6, <2>7, <2>8, <2>9, <2>10, <2>11, <2>12, <2>13, <2>14, <2>15 DEF CallbackStep
<1>8. CASE UNCHANGED vars
  BY <1>8
<1>9. QED
  BY Steps, <1>1, <1>2, <1>3, <1>4, <1>5, <1>6, <1>7, <1>8

\* The loop takes from the budget what it handles.
LEMMA BudgetNext == Type /\ RaceNoted /\ Budget /\ [Next]_vars => Budget'
<1> SUFFICES ASSUME Type, RaceNoted, Budget, [Next]_vars PROVE Budget'
  OBVIOUS
<1> USE DEF vars, callback, driver, history, Type, ControlType, PointerType, RaceNoted, Budget, Begin, Step, Ready
<1>1. CASE WriteEntry
  BY <1>1 DEF WriteEntry
<1>2. CASE Interrupt
  BY <1>2 DEF Interrupt
<1>3. CASE DpcBegin
  BY <1>3, DistanceBound DEF DpcBegin
<1>4. CASE DpcEntry
  <2>1. Distance(Next1(dpc.r), dpc.w) = Distance(dpc.r, dpc.w) - 1
    BY <1>4, DistanceStep DEF DpcEntry
  <2>2. Distance(dpc.r, dpc.w) \in Nat /\ Distance(Next1(dpc.r), dpc.w) \in Int
    BY DistanceBound, NextPlace
  <2>3. QED
    BY <1>4, <2>1, <2>2 DEF DpcEntry
<1>5. CASE DpcReadPointer
  <2>1. Distance(dpc.r, dpc.w) \in Nat /\ (Distance(dpc.r, dpc.w) = 0 => dpc.r = dpc.w)
    BY DistanceBound
  <2>2. QED
    BY <1>5, <2>1 DEF DpcReadPointer
<1>6. CASE DpcEnd
  BY <1>6 DEF DpcEnd
<1>7. CASE CallbackStep
  <2>1. CASE BeginStart
    BY <2>1 DEF BeginStart
  <2>2. CASE StartWithoutRing
    BY <2>2 DEF StartWithoutRing
  <2>3. CASE BeginStop
    BY <2>3 DEF BeginStop
  <2>4. CASE BeginReset
    BY <2>4 DEF BeginReset
  <2>5. CASE Disable
    BY <2>5 DEF Disable
  <2>6. CASE FreeRing
    BY <2>6 DEF FreeRing
  <2>7. CASE Forget
    BY <2>7 DEF Forget
  <2>8. CASE Hide
    BY <2>8 DEF Hide
  <2>9. CASE Allocate
    BY <2>9 DEF Allocate
  <2>10. CASE ProgramBase
    BY <2>10 DEF ProgramBase
  <2>11. CASE ProgramRptr
    BY <2>11 DEF ProgramRptr
  <2>12. CASE ProgramWptr
    BY <2>12 DEF ProgramWptr
  <2>13. CASE Enable
    BY <2>13 DEF Enable
  <2>14. CASE Publish
    BY <2>14 DEF Publish
  <2>15. CASE ControlInterrupt
    BY <2>15 DEF ControlInterrupt
  <2>16. QED
    BY <1>7, <2>1, <2>2, <2>3, <2>4, <2>5, <2>6, <2>7, <2>8, <2>9, <2>10, <2>11, <2>12, <2>13, <2>14, <2>15 DEF CallbackStep
<1>8. CASE UNCHANGED vars
  BY <1>8
<1>9. QED
  BY Steps, <1>1, <1>2, <1>3, <1>4, <1>5, <1>6, <1>7, <1>8

\* Nothing touches a ring that is being programmed but a DPC that is noted.
LEMMA FreshNext == Type /\ Phase /\ RaceNoted /\ Fresh /\ [Next]_vars => Fresh'
<1> SUFFICES ASSUME Type, Phase, RaceNoted, Fresh, [Next]_vars PROVE Fresh'
  OBVIOUS
<1> USE DEF vars, callback, driver, history, Type, ControlType, PointerType, RingType, Log, Phase, RaceNoted, Fresh, Begin, NewLog, Step, Ready
<1>1. CASE WriteEntry
  BY <1>1 DEF WriteEntry
<1>2. CASE Interrupt
  BY <1>2 DEF Interrupt
<1>3. CASE DpcBegin
  BY <1>3 DEF DpcBegin
<1>4. CASE DpcEntry
  BY <1>4 DEF DpcEntry
<1>5. CASE DpcReadPointer
  BY <1>5 DEF DpcReadPointer
<1>6. CASE DpcEnd
  BY <1>6 DEF DpcEnd
<1>7. CASE CallbackStep
  <2>1. CASE BeginStart
    BY <2>1 DEF BeginStart
  <2>2. CASE StartWithoutRing
    BY <2>2 DEF StartWithoutRing
  <2>3. CASE BeginStop
    BY <2>3 DEF BeginStop
  <2>4. CASE BeginReset
    BY <2>4 DEF BeginReset
  <2>5. CASE Disable
    BY <2>5 DEF Disable
  <2>6. CASE FreeRing
    BY <2>6 DEF FreeRing
  <2>7. CASE Forget
    BY <2>7 DEF Forget
  <2>8. CASE Hide
    BY <2>8 DEF Hide
  <2>9. CASE Allocate
    BY <2>9 DEF Allocate
  <2>10. CASE ProgramBase
    BY <2>10 DEF ProgramBase
  <2>11. CASE ProgramRptr
    BY <2>11 DEF ProgramRptr
  <2>12. CASE ProgramWptr
    BY <2>12 DEF ProgramWptr
  <2>13. CASE Enable
    BY <2>13 DEF Enable
  <2>14. CASE Publish
    BY <2>14 DEF Publish
  <2>15. CASE ControlInterrupt
    BY <2>15 DEF ControlInterrupt
  <2>16. QED
    BY <1>7, <2>1, <2>2, <2>3, <2>4, <2>5, <2>6, <2>7, <2>8, <2>9, <2>10, <2>11, <2>12, <2>13, <2>14, <2>15 DEF CallbackStep
<1>8. CASE UNCHANGED vars
  BY <1>8
<1>9. QED
  BY Steps, <1>1, <1>2, <1>3, <1>4, <1>5, <1>6, <1>7, <1>8
\* An entry that does not lap the driver lengthens the way to IH_RB_WPTR by one.
LEMMA WriteAhead ==
  ASSUME Type, Phase, Order, WriteEntry, Live'
  PROVE  /\ Live /\ Cursor' = Cursor /\ Cursor \in Place
         /\ Distance(reg.rptr, reg'.wptr) = Distance(reg.rptr, reg.wptr) + 1
         /\ Distance(Cursor, reg'.wptr) = Distance(Cursor, reg.wptr) + 1
<1> USE DEF Type, ControlType, PointerType, Cursor
<1>1. /\ Cursor' = Cursor /\ Cursor \in Place
      /\ reg' = [reg EXCEPT !.wptr = Next1(@)]
  BY DEF WriteEntry, callback, driver
<1>2. reg'.wptr = Next1(reg.wptr) /\ reg.base /\ reg.rptr \in Place /\ reg.wptr \in Place
  BY <1>1 DEF Live
<1>3. log' = [log EXCEPT !.written = @ + 1,
                         !.overrun = @ \/ Next1(reg.wptr) = reg.rptr]
  BY <1>2 DEF WriteEntry
<1>4. ~log.overrun /\ Next1(reg.wptr) # reg.rptr
  BY <1>3 DEF Live, RingType, Log
<1>5. Live
  BY <1>2, <1>4 DEF WriteEntry, Live, callback, driver
<1>6. Distance(reg.rptr, Cursor) + Distance(Cursor, reg.wptr)
        = Distance(reg.rptr, reg.wptr)
  BY <1>5 DEF Order
<1> HIDE DEF Cursor
<1>7. Distance(reg.rptr, Next1(reg.wptr)) = Distance(reg.rptr, reg.wptr) + 1
  BY <1>2, <1>4, DistanceGrow
<1>8. Next1(reg.wptr) # Cursor
  BY <1>1, <1>2, <1>6, <1>7, DistanceBound
<1>9. Distance(Cursor, Next1(reg.wptr)) = Distance(Cursor, reg.wptr) + 1
  BY <1>1, <1>2, <1>8, DistanceGrow
<1>10. QED
  BY <1>1, <1>2, <1>5, <1>7, <1>9

\* Handling an entry brings the driver one nearer to both write pointers.
LEMMA EntryAhead ==
  ASSUME Type, Order, DpcEntry, Live'
  PROVE  /\ Live /\ Cursor = dpc.r /\ Cursor' = Next1(dpc.r)
         /\ dpc.r # reg.wptr
         /\ Distance(Next1(dpc.r), reg.wptr) = Distance(dpc.r, reg.wptr) - 1
         /\ Distance(Next1(dpc.r), dpc.w) = Distance(dpc.r, dpc.w) - 1
         /\ Distance(reg.rptr, Next1(dpc.r)) = Distance(reg.rptr, dpc.r) + 1
<1> USE DEF Type, ControlType, PointerType
<1>0. va
  BY DEF DpcEntry, Live, driver
<1>1. /\ dpc.pc = "loop" /\ dpc.r # dpc.w
      /\ dpc'.pc = dpc.pc /\ dpc'.r = Next1(dpc.r)
  BY <1>0 DEF DpcEntry
<1>2. Cursor = dpc.r /\ Cursor' = Next1(dpc.r)
  BY <1>1 DEF Cursor
<1>3. log.overrun = log'.overrun
  BY DEF DpcEntry, RingType, Log
<1>4. Live
  BY <1>3 DEF DpcEntry, Live, callback, driver, history
<1>5. /\ Distance(reg.rptr, dpc.r) + Distance(dpc.r, reg.wptr)
           = Distance(reg.rptr, reg.wptr)
      /\ Distance(dpc.r, dpc.w) <= Distance(dpc.r, reg.wptr)
  BY <1>1, <1>2, <1>4 DEF Order
<1>6. dpc.r \in Place /\ dpc.w \in Place /\ reg.rptr \in Place /\ reg.wptr \in Place
  OBVIOUS
<1>7. dpc.r # reg.wptr
  BY <1>1, <1>5, <1>6, DistanceBound
<1>8. /\ Distance(Next1(dpc.r), reg.wptr) = Distance(dpc.r, reg.wptr) - 1
      /\ Distance(Next1(dpc.r), dpc.w) = Distance(dpc.r, dpc.w) - 1
  BY <1>1, <1>6, <1>7, DistanceStep
<1>9. Next1(dpc.r) # reg.rptr
  BY <1>5, <1>6, <1>8, DistanceBound
<1>10. Distance(reg.rptr, Next1(dpc.r)) = Distance(reg.rptr, dpc.r) + 1
  BY <1>6, <1>9, DistanceGrow
<1>11. QED
  BY <1>2, <1>4, <1>7, <1>8, <1>10

\* The pointers keep their order around the ring.
LEMMA OrderNext == Type /\ Phase /\ RaceNoted /\ Fresh /\ Order /\ [Next]_vars => Order'
<1> SUFFICES ASSUME Type, Phase, RaceNoted, Fresh, Order, [Next]_vars PROVE Order'
  OBVIOUS
<1> USE DEF vars, callback, driver, history, Type, ControlType, PointerType, Phase, RaceNoted, Order, Live, Cursor, Begin, Step
<1>1. CASE WriteEntry
  <2> SUFFICES ASSUME Live' PROVE Order'
    BY DEF Order
  <2> HIDE DEF Live, Cursor, Phase
  <2>1. /\ Live /\ Cursor' = Cursor /\ Cursor \in Place
        /\ Distance(reg.rptr, reg'.wptr) = Distance(reg.rptr, reg.wptr) + 1
        /\ Distance(Cursor, reg'.wptr) = Distance(Cursor, reg.wptr) + 1
    BY <1>1, WriteAhead
  <2>2. dpc' = dpc /\ rp' = rp /\ reg'.rptr = reg.rptr
    BY <1>1 DEF WriteEntry
  <2>3. /\ Distance(reg.rptr, Cursor) \in Nat /\ Distance(Cursor, reg.wptr) \in Nat
        /\ Distance(reg.rptr, reg.wptr) \in Nat /\ Distance(Cursor, dpc.w) \in Nat
    BY <2>1, DistanceBound
  <2>4. QED
    BY <2>1, <2>2, <2>3
<1>2. CASE Interrupt
  BY <1>2 DEF Interrupt
<1>3. CASE DpcBegin
  <2> SUFFICES ASSUME Live' PROVE Order'
    BY DEF Order
  <2>1. CASE Ready
    <3>1. /\ dpc' = [pc |-> "loop", r |-> rp, w |-> reg.wptr, n |-> 0]
          /\ raced' = IF pc = "idle" THEN raced ELSE why
          /\ UNCHANGED <<va, reg, pc, rp, log>>
      BY <1>3, <2>1 DEF DpcBegin
    <3>2. Live /\ Cursor = rp /\ Cursor' = rp
      BY <1>3, <3>1 DEF DpcBegin
    <3>3. Distance(rp, reg.wptr) \in Nat
      BY DistanceBound
    <3>4. QED
      BY <3>1, <3>2, <3>3
  <2>2. CASE ~Ready
    BY <1>3, <2>2 DEF DpcBegin
  <2>3. QED
    BY <2>1, <2>2
<1>4. CASE DpcEntry
  <2> SUFFICES ASSUME Live' PROVE Order'
    BY DEF Order
  <2> HIDE DEF Live, Cursor, Phase
  <2>1. /\ Live /\ Cursor = dpc.r /\ Cursor' = Next1(dpc.r)
        /\ Distance(Next1(dpc.r), reg.wptr) = Distance(dpc.r, reg.wptr) - 1
        /\ Distance(Next1(dpc.r), dpc.w) = Distance(dpc.r, dpc.w) - 1
        /\ Distance(reg.rptr, Next1(dpc.r)) = Distance(reg.rptr, dpc.r) + 1
    BY <1>4, EntryAhead
  <2>2. dpc.pc = "loop" /\ dpc'.pc = "loop" /\ dpc'.w = dpc.w /\ UNCHANGED <<reg, rp>>
    BY <1>4 DEF DpcEntry
  <2>3. /\ Distance(reg.rptr, dpc.r) \in Nat /\ Distance(dpc.r, reg.wptr) \in Nat
        /\ Distance(reg.rptr, reg.wptr) \in Nat /\ Distance(dpc.r, dpc.w) \in Nat
    BY DistanceBound
  <2>4. QED
    BY <2>1, <2>2, <2>3
<1>5. CASE DpcReadPointer
  BY <1>5 DEF DpcReadPointer
<1>6. CASE DpcEnd
  <2> SUFFICES ASSUME Live' PROVE Order'
    BY DEF Order
  <2>1. Live /\ rp = dpc.r /\ Cursor' = rp /\ reg'.rptr = rp /\ rp \in Place
    BY <1>6 DEF DpcEnd
  <2>2. Distance(rp, rp) = 0 /\ Distance(rp, reg.wptr) \in Nat
    BY <2>1, DistanceBound
  <2>3. dpc'.pc = "idle" /\ reg'.wptr = reg.wptr /\ rp' = rp
    BY <1>6 DEF DpcEnd
  <2>4. QED
    BY <2>1, <2>2, <2>3
<1>7. CASE CallbackStep
  <2>1. CASE BeginStart
    BY <2>1 DEF BeginStart
  <2>2. CASE StartWithoutRing
    BY <2>2 DEF StartWithoutRing
  <2>3. CASE BeginStop
    BY <2>3 DEF BeginStop
  <2>4. CASE BeginReset
    BY <2>4 DEF BeginReset
  <2>5. CASE Disable
    BY <2>5 DEF Disable
  <2>6. CASE FreeRing
    BY <2>6 DEF FreeRing
  <2>7. CASE Forget
    BY <2>7 DEF Forget
  <2>8. CASE Hide
    BY <2>8 DEF Hide
  <2>9. CASE Allocate
    BY <2>9 DEF Allocate
  <2>10. CASE ProgramBase
    BY <2>10 DEF ProgramBase
  <2>11. CASE ProgramRptr
    BY <2>11 DEF ProgramRptr
  <2>12. CASE ProgramWptr
    <3> SUFFICES ASSUME Live' PROVE Order'
      BY DEF Order
    <3>1. rp = 0 /\ reg'.rptr = 0 /\ reg'.wptr = 0 /\ rp' = rp /\ dpc'.pc = "idle"
      BY <2>12 DEF ProgramWptr, Fresh
    <3>2. Cursor' = 0 /\ Distance(0, 0) = 0
      BY <3>1, ZeroPlace, DistanceBound
    <3>3. QED
      BY <3>1, <3>2
  <2>13. CASE Enable
    BY <2>13 DEF Enable
  <2>14. CASE Publish
    BY <2>14 DEF Publish
  <2>15. CASE ControlInterrupt
    BY <2>15 DEF ControlInterrupt
  <2>16. QED
    BY <1>7, <2>1, <2>2, <2>3, <2>4, <2>5, <2>6, <2>7, <2>8, <2>9, <2>10, <2>11, <2>12, <2>13, <2>14, <2>15 DEF CallbackStep
<1>8. CASE UNCHANGED vars
  BY <1>8
<1>9. QED
  BY Steps, <1>1, <1>2, <1>3, <1>4, <1>5, <1>6, <1>7, <1>8

\* Between the driver and the hardware are the entries that were written.
LEMMA ContentsNext == Type /\ Phase /\ RaceNoted /\ Fresh /\ Order /\ Contents /\ [Next]_vars => Contents'
<1> SUFFICES ASSUME Type, Phase, RaceNoted, Fresh, Order, Contents, [Next]_vars PROVE Contents'
  OBVIOUS
<1> USE DEF vars, callback, driver, history, Type, ControlType, PointerType, Phase, RaceNoted, Contents, Live, Cursor, Begin, Step
<1>1. CASE WriteEntry
  <2> SUFFICES ASSUME Live' PROVE Contents'
    BY DEF Contents
  <2> HIDE DEF Live, Cursor, Phase, Contents
  <2>1. /\ Live /\ Cursor' = Cursor /\ Cursor \in Place
        /\ Distance(Cursor, reg'.wptr) = Distance(Cursor, reg.wptr) + 1
    BY <1>1, WriteAhead
  <2>2. /\ ring' = [ring EXCEPT ![reg.wptr] = log.written + 1]
        /\ log'.written = log.written + 1 /\ log'.done = log.done
    BY <1>1, <2>1 DEF WriteEntry, Live, RingType, Log
  <2>3. log.done + Distance(Cursor, reg.wptr) = log.written
    BY <2>1 DEF Contents
  <2>4. /\ Distance(Cursor, reg.wptr) \in Nat
        /\ log.done \in Nat /\ log.written \in Nat
        /\ ring \in [Place -> Nat] /\ reg.wptr \in Place
    BY <2>1, DistanceBound DEF RingType, Log
  <2>5. ASSUME NEW p \in Place, Distance(Cursor, p) < Distance(Cursor, reg.wptr) + 1
        PROVE  ring'[p] = log.done + Distance(Cursor, p) + 1
    <3>1. CASE p = reg.wptr
      BY <2>2, <2>3, <2>4, <3>1
    <3>2. CASE p # reg.wptr
      <4>1. Distance(Cursor, p) < Distance(Cursor, reg.wptr)
        BY <2>1, <2>4, <2>5, <3>2, DistanceOne, DistanceBound
      <4>2. ring[p] = log.done + Distance(Cursor, p) + 1
        BY <2>1, <4>1 DEF Contents
      <4>3. QED
        BY <2>2, <2>4, <3>2, <4>2
    <3>3. QED
      BY <3>1, <3>2
  <2>6. log'.done + Distance(Cursor, reg'.wptr) = log'.written
    BY <2>1, <2>2, <2>3, <2>4
  <2>7. QED
    BY <2>1, <2>2, <2>5, <2>6 DEF Contents
<1>2. CASE Interrupt
  BY <1>2 DEF Interrupt
<1>3. CASE DpcBegin
  <2> SUFFICES ASSUME Live' PROVE Contents'
    BY DEF Contents
  <2>1. Live /\ Cursor' = Cursor /\ UNCHANGED <<ring, log, reg>>
    BY <1>3 DEF DpcBegin, Ready
  <2> HIDE DEF Live, Cursor, Phase
  <2>2. QED
    BY <2>1
<1>4. CASE DpcEntry
  <2> SUFFICES ASSUME Live' PROVE Contents'
    BY DEF Contents
  <2> HIDE DEF Live, Cursor, Phase, Contents
  <2>1. /\ Live /\ Cursor = dpc.r /\ Cursor' = Next1(dpc.r)
        /\ Distance(Next1(dpc.r), reg.wptr) = Distance(dpc.r, reg.wptr) - 1
    BY <1>4, EntryAhead
  <2>2. /\ ring' = ring /\ reg' = reg
        /\ log'.written = log.written /\ log'.done = log.done + 1
    BY <1>4 DEF DpcEntry, RingType, Log
  <2>3. /\ log.done + Distance(dpc.r, reg.wptr) = log.written
        /\ \A p \in Place : Distance(dpc.r, p) < Distance(dpc.r, reg.wptr) =>
             ring[p] = log.done + Distance(dpc.r, p) + 1
    BY <2>1 DEF Contents
  <2>4. /\ Distance(dpc.r, reg.wptr) \in 0..Size - 1
        /\ log.done \in Nat /\ log.written \in Nat
        /\ dpc.r \in Place /\ reg.wptr \in Place
    BY DistanceBound DEF RingType, Log
  <2>5. ASSUME NEW p \in Place, Distance(Next1(dpc.r), p) < Distance(dpc.r, reg.wptr) - 1
        PROVE  ring[p] = log.done + 1 + Distance(Next1(dpc.r), p) + 1
    <3>1. Distance(Next1(dpc.r), p) = IF dpc.r = p THEN Size - 1 ELSE Distance(dpc.r, p) - 1
      BY <2>4, DistanceStep
    <3>2. Distance(dpc.r, p) \in Nat /\ Distance(Next1(dpc.r), p) = Distance(dpc.r, p) - 1
      BY <2>4, <2>5, <3>1, DistanceBound
    <3>3. ring[p] = log.done + Distance(dpc.r, p) + 1
      BY <2>3, <2>4, <2>5, <3>2
    <3>4. QED
      BY <2>4, <3>2, <3>3
  <2>6. log'.done + Distance(Next1(dpc.r), reg.wptr) = log'.written
    BY <2>1, <2>2, <2>3, <2>4
  <2>7. QED
    BY <2>1, <2>2, <2>5, <2>6 DEF Contents
<1>5. CASE DpcReadPointer
  BY <1>5 DEF DpcReadPointer
<1>6. CASE DpcEnd
  <2> SUFFICES ASSUME Live' PROVE Contents'
    BY DEF Contents
  <2>1. /\ Live /\ Cursor' = Cursor /\ reg'.wptr = reg.wptr
        /\ UNCHANGED <<ring, log>>
    BY <1>6 DEF DpcEnd, Order
  <2> HIDE DEF Live, Cursor, Phase
  <2>2. QED
    BY <2>1
<1>7. CASE CallbackStep
  <2>1. CASE BeginStart
    BY <2>1 DEF BeginStart
  <2>2. CASE StartWithoutRing
    BY <2>2 DEF StartWithoutRing
  <2>3. CASE BeginStop
    BY <2>3 DEF BeginStop
  <2>4. CASE BeginReset
    BY <2>4 DEF BeginReset
  <2>5. CASE Disable
    BY <2>5 DEF Disable
  <2>6. CASE FreeRing
    BY <2>6 DEF FreeRing
  <2>7. CASE Forget
    BY <2>7 DEF Forget
  <2>8. CASE Hide
    BY <2>8 DEF Hide
  <2>9. CASE Allocate
    BY <2>9 DEF Allocate
  <2>10. CASE ProgramBase
    BY <2>10 DEF ProgramBase
  <2>11. CASE ProgramRptr
    BY <2>11 DEF ProgramRptr
  <2>12. CASE ProgramWptr
    <3> SUFFICES ASSUME Live' PROVE Contents'
      BY DEF Contents
    <3>1. /\ rp' = 0 /\ reg'.wptr = 0 /\ dpc'.pc = "idle"
          /\ log'.done = 0 /\ log'.written = 0
      BY <2>12 DEF ProgramWptr, Fresh
    <3>2. Cursor' = 0 /\ Distance(0, 0) = 0
      BY <3>1, ZeroPlace, DistanceBound
    <3>3. \A p \in Place : Distance(0, p) \in Nat
      BY ZeroPlace, DistanceBound
    <3> HIDE DEF Live, Cursor, Phase
    <3>4. QED
      BY <3>1, <3>2, <3>3
  <2>13. CASE Enable
    BY <2>13 DEF Enable
  <2>14. CASE Publish
    BY <2>14 DEF Publish
  <2>15. CASE ControlInterrupt
    BY <2>15 DEF ControlInterrupt
  <2>16. QED
    BY <1>7, <2>1, <2>2, <2>3, <2>4, <2>5, <2>6, <2>7, <2>8, <2>9, <2>10, <2>11, <2>12, <2>13, <2>14, <2>15 DEF CallbackStep
<1>8. CASE UNCHANGED vars
  BY <1>8
<1>9. QED
  BY Steps, <1>1, <1>2, <1>3, <1>4, <1>5, <1>6, <1>7, <1>8

\* The DPC handles the entry that is next.
LEMMA HandledNext == Type /\ Phase /\ RaceNoted /\ Order /\ Contents /\ Handled /\ [Next]_vars => Handled'
<1> SUFFICES ASSUME Type, Phase, RaceNoted, Order, Contents, Handled, [Next]_vars PROVE Handled'
  OBVIOUS
<1> USE DEF vars, callback, driver, history, Type, ControlType, PointerType, Phase, RaceNoted, Handled, Begin, Step, NewLog
<1>1. CASE WriteEntry
  <2>1. CASE reg.base
    <3>1. log' = [log EXCEPT !.written = @ + 1,
                             !.overrun = @ \/ Next1(reg.wptr) = reg.rptr]
      BY <1>1, <2>1 DEF WriteEntry
    <3>2. /\ log'.written = log.written + 1 /\ log'.done = log.done
          /\ log'.ok = log.ok /\ (log.overrun => log'.overrun)
      BY <3>1 DEF RingType, Log
    <3>3. UNCHANGED <<va, raced>> /\ log.done \in Nat /\ log.written \in Nat
      BY <1>1 DEF WriteEntry, RingType, Log
    <3>4. QED
      BY <3>2, <3>3
  <2>2. CASE ~reg.base
    BY <1>1, <2>2 DEF WriteEntry
  <2>3. QED
    BY <2>1, <2>2
<1>2. CASE Interrupt
  BY <1>2 DEF Interrupt
<1>3. CASE DpcBegin
  BY <1>3 DEF DpcBegin
<1>4. CASE DpcEntry
  <2> SUFFICES ASSUME (va /\ ~log.overrun /\ raced = "no")'
               PROVE  log'.ok /\ log'.done <= log'.written
    OBVIOUS
  <2>1. /\ log' = [log EXCEPT !.done = @ + 1,
                             !.ok = @ /\ ring[dpc.r] = log.done + 1]
        /\ dpc.pc = "loop" /\ UNCHANGED <<va, raced, pc, reg>>
    BY <1>4 DEF DpcEntry
  <2>2. /\ log'.written = log.written /\ log'.done = log.done + 1
        /\ log'.overrun = log.overrun
        /\ log'.ok = (log.ok /\ ring[dpc.r] = log.done + 1)
    BY <2>1 DEF RingType, Log
  <2>3. va /\ ~log.overrun /\ raced = "no" /\ pc = "idle"
    BY <2>1, <2>2
  <2>4. Live'
    BY <2>1, <2>2, <2>3 DEF Live
  <2>5. Live /\ Cursor = dpc.r /\ dpc.r # reg.wptr
    BY <1>4, <2>4, EntryAhead
  <2>6. /\ dpc.r \in Place /\ reg.wptr \in Place /\ Distance(dpc.r, dpc.r) = 0
        /\ Distance(dpc.r, reg.wptr) \in Nat \ {0}
    BY <2>5, DistanceBound
  <2>7. /\ log.done + Distance(dpc.r, reg.wptr) = log.written
        /\ ring[dpc.r] = log.done + 0 + 1
    BY <2>5, <2>6 DEF Contents
  <2>8. log.done \in Nat /\ log.written \in Nat /\ log.ok
    BY <2>3 DEF RingType, Log
  <2>9. log'.done <= log'.written
    BY <2>2, <2>6, <2>7, <2>8
  <2>10. ring[dpc.r] = log.done + 1
    BY <2>7, <2>8
  <2>11. log'.ok
    BY <2>2, <2>8, <2>10, Zenon
  <2>12. QED
    BY <2>9, <2>11
<1>5. CASE DpcReadPointer
  BY <1>5 DEF DpcReadPointer
<1>6. CASE DpcEnd
  BY <1>6 DEF DpcEnd
<1>7. CASE CallbackStep
  <2>1. CASE BeginStart
    BY <2>1 DEF BeginStart
  <2>2. CASE StartWithoutRing
    BY <2>2 DEF StartWithoutRing
  <2>3. CASE BeginStop
    BY <2>3 DEF BeginStop
  <2>4. CASE BeginReset
    BY <2>4 DEF BeginReset
  <2>5. CASE Disable
    BY <2>5 DEF Disable
  <2>6. CASE FreeRing
    BY <2>6 DEF FreeRing
  <2>7. CASE Forget
    BY <2>7 DEF Forget
  <2>8. CASE Hide
    BY <2>8 DEF Hide
  <2>9. CASE Allocate
    <3>1. CASE log' = log /\ va' = va /\ raced' = raced
      BY <3>1
    <3>2. CASE log' = [written |-> 0, done |-> 0, ok |-> TRUE, overrun |-> FALSE]
      BY <3>2
    <3>3. QED
      BY <2>9, <3>1, <3>2 DEF Allocate
  <2>10. CASE ProgramBase
    BY <2>10 DEF ProgramBase
  <2>11. CASE ProgramRptr
    BY <2>11 DEF ProgramRptr
  <2>12. CASE ProgramWptr
    BY <2>12 DEF ProgramWptr
  <2>13. CASE Enable
    BY <2>13 DEF Enable
  <2>14. CASE Publish
    BY <2>14 DEF Publish
  <2>15. CASE ControlInterrupt
    BY <2>15 DEF ControlInterrupt
  <2>16. QED
    BY <1>7, <2>1, <2>2, <2>3, <2>4, <2>5, <2>6, <2>7, <2>8, <2>9, <2>10, <2>11, <2>12, <2>13, <2>14, <2>15 DEF CallbackStep
<1>8. CASE UNCHANGED vars
  BY <1>8
<1>9. QED
  BY Steps, <1>1, <1>2, <1>3, <1>4, <1>5, <1>6, <1>7, <1>8

\* Interrupts without a ring come from ControlInterrupt alone.
LEMMA BlindNext == Type /\ Phase /\ Blind /\ [Next]_vars => Blind'
<1> SUFFICES ASSUME Type, Phase, Blind, [Next]_vars PROVE Blind'
  OBVIOUS
<1> USE DEF vars, callback, driver, history, Type, ControlType, PointerType, Phase, Blind, WritesHitRing, Begin, Step
<1>1. CASE WriteEntry
  BY <1>1 DEF WriteEntry
<1>2. CASE Interrupt
  BY <1>2 DEF Interrupt
<1>3. CASE DpcBegin
  BY <1>3 DEF DpcBegin
<1>4. CASE DpcEntry
  BY <1>4 DEF DpcEntry
<1>5. CASE DpcReadPointer
  BY <1>5 DEF DpcReadPointer
<1>6. CASE DpcEnd
  BY <1>6 DEF DpcEnd
<1>7. CASE CallbackStep
  <2>1. CASE BeginStart
    BY <2>1 DEF BeginStart
  <2>2. CASE StartWithoutRing
    BY <2>2 DEF StartWithoutRing
  <2>3. CASE BeginStop
    BY <2>3 DEF BeginStop
  <2>4. CASE BeginReset
    BY <2>4 DEF BeginReset
  <2>5. CASE Disable
    BY <2>5 DEF Disable
  <2>6. CASE FreeRing
    BY <2>6 DEF FreeRing
  <2>7. CASE Forget
    BY <2>7 DEF Forget
  <2>8. CASE Hide
    BY <2>8 DEF Hide
  <2>9. CASE Allocate
    BY <2>9 DEF Allocate
  <2>10. CASE ProgramBase
    BY <2>10 DEF ProgramBase
  <2>11. CASE ProgramRptr
    BY <2>11 DEF ProgramRptr
  <2>12. CASE ProgramWptr
    BY <2>12 DEF ProgramWptr
  <2>13. CASE Enable
    BY <2>13 DEF Enable
  <2>14. CASE Publish
    BY <2>14 DEF Publish
  <2>15. CASE ControlInterrupt
    BY <2>15 DEF ControlInterrupt
  <2>16. QED
    BY <1>7, <2>1, <2>2, <2>3, <2>4, <2>5, <2>6, <2>7, <2>8, <2>9, <2>10, <2>11, <2>12, <2>13, <2>14, <2>15 DEF CallbackStep
<1>8. CASE UNCHANGED vars
  BY <1>8
<1>9. QED
  BY Steps, <1>1, <1>2, <1>3, <1>4, <1>5, <1>6, <1>7, <1>8

-----------------------------------------------------------------------------
(* Theorems *)

\* The inductive invariant holds in every state.
LEMMA Invariant == Spec => []IInv
<1>1. IInv /\ [Next]_vars => IInv'
  <2> SUFFICES ASSUME IInv, [Next]_vars PROVE IInv'
    OBVIOUS
  <2>1. Type'
    BY ControlTypeNext, PointerTypeNext, RingTypeNext DEF IInv, Type
  <2>2. Phase' /\ Guarded' /\ RaceNoted' /\ Budget' /\ Fresh'
    BY PhaseNext, GuardedNext, RaceNotedNext, BudgetNext, FreshNext DEF IInv
  <2>3. Order' /\ Contents' /\ Handled' /\ Blind'
    BY OrderNext, ContentsNext, HandledNext, BlindNext DEF IInv
  <2>4. QED
    BY <2>1, <2>2, <2>3 DEF IInv
<1>2. QED
  BY InvInit, <1>1, PTL DEF Spec

\* Entries are handled once and in order, for any size of the ring, and no DPC
\* runs beside StartDevice.
THEOREM EntriesInOrder == Spec => []OnceInOrder
<1>1. IInv => OnceInOrder
  <2> SUFFICES ASSUME IInv PROVE OnceInOrder
    OBVIOUS
  <2>1. ASSUME va, ~log.overrun, raced = "no", pc = "idle", dpc.pc = "idle"
        PROVE  reg.rptr = rp /\ log.done + Distance(rp, reg.wptr) = log.written
    <3>1. Live
      BY <2>1 DEF IInv, Phase, Live
    <3>2. QED
      BY <2>1, <3>1 DEF IInv, Order, Contents, Cursor
  <2>2. raced # "start"
    BY DEF IInv, Guarded
  <2>3. va /\ ~log.overrun /\ raced = "no" => log.ok /\ log.done <= log.written
    BY DEF IInv, Handled
  <2>4. QED
    BY <2>1, <2>2, <2>3 DEF OnceInOrder
<1>2. QED
  BY <1>1, Invariant, PTL

\* The DPC's "safety limit" never ends its loop, unless a reset or a stop ran
\* beside it.
THEOREM LoopReachesPointer == Spec => []LimitNeverReached
<1>1. IInv => LimitNeverReached
  BY DEF IInv, Budget, LimitNeverReached
<1>2. QED
  BY <1>1, Invariant, PTL

\* The hardware writes entries to a ring it was given, unless ControlInterrupt
\* enabled it without one.
THEOREM WritesInRing == Spec => []WritesHitRing
<1>1. IInv => WritesHitRing
  BY DEF IInv, Blind
<1>2. QED
  BY <1>1, Invariant, PTL

=============================================================================
