-------------------------- MODULE EngineSelect_proof --------------------------
(***************************************************************************)
(* Proofs about EngineSelect for any number of threads and any of its      *)
(* handlers, provided that WGP_BANK_PROBE, which saves and restores the    *)
(* index outside the mutex, comes alone.                                   *)
(***************************************************************************)
EXTENDS EngineSelect, FiniteSetTheorems, TLAPS

-----------------------------------------------------------------------------
(* The inductive invariant *)

\* WGP_BANK_PROBE is sent only while no other of these handlers is inside.
ProbeComesAlone == "WGP_BANK_PROBE" \in Handlers => "WGP_BANK_PROBE" \in Alone

ProbePc == {"Halt", "Broadcast", "Unhalt", "ProbeRestore"}
RingPc == {"KiqSelect", "Start", "Hqd", "HqdOff", "RingRestore", "Software",
           "DispatchSelect", "Dispatch", "DispatchOff", "DispatchRestore"}
WalkPc == {"Select", "Access"}
Pc == {"Idle", "PreSave", "Acquire", "Save", "Release", "PostRestore", "OldBroadcast"}
        \cup ProbePc \cup RingPc \cup WalkPc

Halted == [me |-> "halted", mec |-> "halted", sched |-> "live"]
Started == [me |-> "run", mec |-> "run", sched |-> "on"]

Type ==
  /\ pc \in [Thread -> Pc]
  /\ handler \in [Thread -> Handlers \cup {"none"}]
  /\ bank \in [Thread -> Banks]
  /\ DOMAIN saved = Thread
  /\ mutex \in Thread \cup {Null}

\* Which handler a thread is in, from where it is.
Where ==
  \A t \in Thread :
    /\ pc[t] = "Idle" <=> handler[t] = "none"
    /\ pc[t] = "Acquire" => handler[t] \in Locking
    /\ pc[t] = "Save" => handler[t] \in {"WGP_HALT_PROBE", "EXECUTE_RING_PM4"}
    /\ pc[t] \in ProbePc => handler[t] = "WGP_HALT_PROBE"
    /\ pc[t] \in RingPc => handler[t] = "EXECUTE_RING_PM4"
    /\ pc[t] \in WalkPc => handler[t] # "EXECUTE_RING_PM4"
    /\ pc[t] \in {"PreSave", "Release", "PostRestore"} => handler[t] = "WGP_BANK_PROBE"
    /\ pc[t] = "OldBroadcast" => handler[t] = "UNLOCK_40CU"

\* The handlers that hold the mutex, and where.
Inside(t) ==
  \/ pc[t] \in {"Save", "Release"} \cup ProbePc \cup RingPc
  \/ pc[t] \in WalkPc /\ handler[t] \in Locking

MutexOwner == \A t \in Thread : Inside(t) <=> mutex = t

BankProbeAlone ==
  \A t, u \in Thread : handler[t] = "WGP_BANK_PROBE" /\ u # t => pc[u] = "Idle"

\* Where a handler may have left GRBM_GFX_INDEX at what it selected.
Moved(t) ==
  \/ pc[t] \in {"Broadcast", "Unhalt", "ProbeRestore", "Release", "PostRestore", "Start", "Hqd",
                "HqdOff", "RingRestore", "Dispatch", "DispatchOff", "DispatchRestore"}
  \/ pc[t] \in WalkPc /\ handler[t] \in Locking

\* Where it has saved the index, and where the engines as well.
HasIndex(t) ==
  \/ Moved(t) \/ pc[t] \in {"Halt", "KiqSelect", "Software", "DispatchSelect"}
  \/ pc[t] = "Acquire" /\ handler[t] = "WGP_BANK_PROBE"
HasEngines(t) == Inside(t) /\ pc[t] # "Save" /\ handler[t] # "WGP_BANK_PROBE"

Saved ==
  \A t \in Thread :
    /\ HasIndex(t) => saved[t].grbm = home
    /\ HasEngines(t) => saved[t].engines = Live

Halting(t) ==
  handler[t] = "WGP_HALT_PROBE" /\ pc[t] \in WalkPc \cup {"Broadcast", "Unhalt"}
Running(t) == pc[t] \in {"Hqd", "HqdOff"}

Engines ==
  /\ \A t \in Thread : Halting(t) => engines = Halted
  /\ \A t \in Thread : Running(t) => engines = Started
  /\ (\A t \in Thread : ~Halting(t) /\ ~Running(t)) => engines = Live

Queue ==
  /\ "active" \in DOMAIN hqd
  /\ (\A t \in Thread : pc[t] # "HqdOff") => ~hqd.active
  /\ (\A t \in Thread : pc[t] # "DispatchOff") => shader = "live"

Index ==
  /\ (\A t \in Thread : ~Moved(t)) => grbm = home
  /\ \A t \in Thread :
       /\ pc[t] = "Access" /\ handler[t] \in Locking => grbm = BankSelect[bank[t]]
       /\ pc[t] \in {"Start", "Hqd", "HqdOff", "Dispatch", "DispatchOff"} => grbm = Kiq

IInv == Type /\ Where /\ MutexOwner /\ BankProbeAlone /\ Saved /\ Engines /\ Queue /\ Index

-----------------------------------------------------------------------------
(* Every step preserves every part *)

\* What the engines can be.
Control == {"live", "halted", "run", "on"}
State == [me : Control, mec : Control, sched : Control]

\* The engines are known by the three registers.
LEMMA SameState ==
  ASSUME NEW x \in State, NEW y \in State,
         x.me = y.me, x.mec = y.mec, x.sched = y.sched
  PROVE  x = y
BY DEF State

\* Halting the engines and letting them go again.
LEMMA HaltUnhalt ==
  /\ [Live EXCEPT !.me = "halted", !.mec = "halted"] = Halted
  /\ [Halted EXCEPT !.mec = Live.mec, !.me = Live.me] = Live
<1> DEFINE halted == "halted"
           me == Live.me
           mec == Live.mec
           h == [Live EXCEPT !.me = halted, !.mec = halted]
           l == [Halted EXCEPT !.mec = mec, !.me = me]
<1>1. Live \in State /\ me \in Control /\ mec \in Control
  BY DEF Live, State, Control
<1>2. /\ halted \in Control /\ Halted \in State
      /\ Halted.me = halted /\ Halted.mec = halted /\ Halted.sched = Live.sched
  BY DEF Live, Halted, State, Control
<1> HIDE DEF halted, me, mec
<1>3. h \in State /\ h.me = halted /\ h.mec = halted /\ h.sched = Live.sched
  BY <1>1, <1>2 DEF State
<1>4. l \in State /\ l.me = me /\ l.mec = mec /\ l.sched = Halted.sched
  BY <1>1, <1>2 DEF State
<1> HIDE DEF h, l
<1>5. h = Halted
  BY <1>2, <1>3, SameState
<1>6. l = Live
  BY <1>1, <1>2, <1>4, SameState DEF me, mec
<1>7. QED
  BY <1>5, <1>6 DEF h, l, halted, me, mec

\* One handler at a time has something of the display's state in its hands.
LEMMA OneAtATime ==
  ASSUME Type, Where, MutexOwner, BankProbeAlone,
         NEW t \in Thread, NEW u \in Thread, u # t,
         Inside(t) \/ handler[t] = "WGP_BANK_PROBE"
  PROVE  /\ ~Inside(u) /\ ~Moved(u) /\ ~Halting(u) /\ ~Running(u)
         /\ pc[u] # "HqdOff" /\ pc[u] # "DispatchOff" /\ handler[u] # "WGP_BANK_PROBE"
<1>1. CASE handler[t] = "WGP_BANK_PROBE"
  BY <1>1 DEF BankProbeAlone, Where, Inside, Moved, Halting, Running, ProbePc, RingPc, WalkPc
<1>2. CASE Inside(t)
  <2>1. ~Inside(u)
    BY <1>2 DEF MutexOwner
  <2>2. handler[u] # "WGP_BANK_PROBE"
    BY <1>2 DEF BankProbeAlone, Inside, Where, ProbePc, RingPc, WalkPc
  <2>3. QED
    BY <2>1, <2>2 DEF Where, Inside, Moved, Halting, Running, ProbePc, RingPc, WalkPc, Locking
<1>3. QED
  BY <1>1, <1>2

\* Every variable keeps its type.
LEMMA TypeNext == Type /\ [Next]_vars => Type'
<1> SUFFICES ASSUME Type, [Next]_vars PROVE Type'
  OBVIOUS
<1> USE SelectAssumption DEF Ioctls, Type, Pc, ProbePc, RingPc, WalkPc, Goto,
                             Is, Return, Release, Walk, Banks, device, thread
<1>1. CASE UNCHANGED vars
  BY <1>1 DEF vars
<1>2. ASSUME NEW t \in Thread, Enter(t) \/ Run(t)
      PROVE  Type'
  <2>1. CASE Enter(t)
    BY <2>1 DEF Enter
  <2>2. CASE PreSave(t)
    BY <2>2 DEF PreSave
  <2>3. CASE Lock(t)
    BY <2>3 DEF Lock
  <2>4. CASE Save(t)
    BY <2>4 DEF Save
  <2>5. CASE Halt(t)
    BY <2>5 DEF Halt
  <2>6. CASE SelectBank(t)
    BY <2>6 DEF SelectBank
  <2>7. CASE ProbeAccess(t)
    BY <2>7 DEF ProbeAccess
  <2>8. CASE UnlockAccess(t)
    BY <2>8 DEF UnlockAccess
  <2>9. CASE BankRead(t)
    BY <2>9 DEF BankRead
  <2>10. CASE StatusRead(t)
    BY <2>10 DEF StatusRead
  <2>11. CASE OldBroadcast(t)
    BY <2>11 DEF OldBroadcast
  <2>12. CASE BankRelease(t)
    BY <2>12 DEF BankRelease
  <2>13. CASE PostRestore(t)
    BY <2>13 DEF PostRestore
  <2>14. CASE ProbeBroadcast(t)
    BY <2>14 DEF ProbeBroadcast
  <2>15. CASE Unhalt(t)
    BY <2>15 DEF Unhalt
  <2>16. CASE ProbeRestore(t)
    BY <2>16 DEF ProbeRestore
  <2>17. CASE KiqSelect(t)
    BY <2>17 DEF KiqSelect
  <2>18. CASE Start(t)
    BY <2>18 DEF Start
  <2>19. CASE Hqd(t)
    BY <2>19 DEF Hqd
  <2>20. CASE HqdOff(t)
    BY <2>20 DEF HqdOff
  <2>21. CASE RingRestore(t)
    BY <2>21 DEF RingRestore
  <2>22. CASE Software(t)
    BY <2>22 DEF Software
  <2>23. CASE DispatchSelect(t)
    BY <2>23 DEF DispatchSelect
  <2>24. CASE Dispatch(t)
    BY <2>24 DEF Dispatch
  <2>25. CASE DispatchOff(t)
    BY <2>25 DEF DispatchOff
  <2>26. CASE DispatchRestore(t)
    BY <2>26 DEF DispatchRestore
  <2>27. QED
    BY <1>2, <2>1, <2>2, <2>3, <2>4, <2>5, <2>6, <2>7, <2>8, <2>9, <2>10,
       <2>11, <2>12, <2>13, <2>14, <2>15, <2>16, <2>17, <2>18, <2>19, <2>20,
       <2>21, <2>22, <2>23, <2>24, <2>25, <2>26 DEF Run
<1>3. QED
  BY <1>1, <1>2 DEF Next

\* Threads stay where their handlers are.
LEMMA WhereNext == Type /\ Where /\ [Next]_vars => Where'
<1> SUFFICES ASSUME Type, Where, [Next]_vars PROVE Where'
  OBVIOUS
<1> USE SelectAssumption DEF Ioctls, Type, Where, Pc, ProbePc, RingPc, WalkPc,
                             Goto, Is, Return, Walk, Locking, device, thread
<1>1. CASE UNCHANGED vars
  BY <1>1 DEF vars
<1>2. ASSUME NEW t \in Thread, Enter(t) \/ Run(t)
      PROVE  Where'
  <2>1. CASE Enter(t)
    BY <2>1 DEF Enter
  <2>2. CASE PreSave(t)
    BY <2>2 DEF PreSave
  <2>3. CASE Lock(t)
    BY <2>3 DEF Lock
  <2>4. CASE Save(t)
    BY <2>4 DEF Save
  <2>5. CASE Halt(t)
    BY <2>5 DEF Halt
  <2>6. CASE SelectBank(t)
    BY <2>6 DEF SelectBank
  <2>7. CASE ProbeAccess(t)
    BY <2>7 DEF ProbeAccess
  <2>8. CASE UnlockAccess(t)
    BY <2>8 DEF UnlockAccess
  <2>9. CASE BankRead(t)
    BY <2>9 DEF BankRead
  <2>10. CASE StatusRead(t)
    BY <2>10 DEF StatusRead
  <2>11. CASE OldBroadcast(t)
    BY <2>11 DEF OldBroadcast
  <2>12. CASE BankRelease(t)
    BY <2>12 DEF BankRelease
  <2>13. CASE PostRestore(t)
    BY <2>13 DEF PostRestore
  <2>14. CASE ProbeBroadcast(t)
    BY <2>14 DEF ProbeBroadcast
  <2>15. CASE Unhalt(t)
    BY <2>15 DEF Unhalt
  <2>16. CASE ProbeRestore(t)
    BY <2>16 DEF ProbeRestore
  <2>17. CASE KiqSelect(t)
    BY <2>17 DEF KiqSelect
  <2>18. CASE Start(t)
    BY <2>18 DEF Start
  <2>19. CASE Hqd(t)
    BY <2>19 DEF Hqd
  <2>20. CASE HqdOff(t)
    BY <2>20 DEF HqdOff
  <2>21. CASE RingRestore(t)
    BY <2>21 DEF RingRestore
  <2>22. CASE Software(t)
    BY <2>22 DEF Software
  <2>23. CASE DispatchSelect(t)
    BY <2>23 DEF DispatchSelect
  <2>24. CASE Dispatch(t)
    BY <2>24 DEF Dispatch
  <2>25. CASE DispatchOff(t)
    BY <2>25 DEF DispatchOff
  <2>26. CASE DispatchRestore(t)
    BY <2>26 DEF DispatchRestore
  <2>27. QED
    BY <1>2, <2>1, <2>2, <2>3, <2>4, <2>5, <2>6, <2>7, <2>8, <2>9, <2>10,
       <2>11, <2>12, <2>13, <2>14, <2>15, <2>16, <2>17, <2>18, <2>19, <2>20,
       <2>21, <2>22, <2>23, <2>24, <2>25, <2>26 DEF Run
<1>3. QED
  BY <1>1, <1>2 DEF Next

\* The mutex is owned by the handler that is inside it.
LEMMA OwnerNext == Type /\ Where /\ MutexOwner /\ [Next]_vars => MutexOwner'
<1> SUFFICES ASSUME Type, Where, MutexOwner, [Next]_vars PROVE MutexOwner'
  OBVIOUS
<1> USE SelectAssumption DEF Ioctls, Type, Where, MutexOwner, Inside, Pc,
                             ProbePc, RingPc, WalkPc, Goto, Is, Return, Release,
                             Walk, Locking, device, thread
<1>1. CASE UNCHANGED vars
  BY <1>1 DEF vars
<1>2. ASSUME NEW t \in Thread, Enter(t) \/ Run(t)
      PROVE  MutexOwner'
  <2>1. CASE Enter(t)
    BY <2>1 DEF Enter
  <2>2. CASE PreSave(t)
    BY <2>2 DEF PreSave
  <2>3. CASE Lock(t)
    BY <2>3 DEF Lock
  <2>4. CASE Save(t)
    BY <2>4 DEF Save
  <2>5. CASE Halt(t)
    BY <2>5 DEF Halt
  <2>6. CASE SelectBank(t)
    BY <2>6 DEF SelectBank
  <2>7. CASE ProbeAccess(t)
    BY <2>7 DEF ProbeAccess
  <2>8. CASE UnlockAccess(t)
    BY <2>8 DEF UnlockAccess
  <2>9. CASE BankRead(t)
    BY <2>9 DEF BankRead
  <2>10. CASE StatusRead(t)
    BY <2>10 DEF StatusRead
  <2>11. CASE OldBroadcast(t)
    BY <2>11 DEF OldBroadcast
  <2>12. CASE BankRelease(t)
    BY <2>12 DEF BankRelease
  <2>13. CASE PostRestore(t)
    BY <2>13 DEF PostRestore
  <2>14. CASE ProbeBroadcast(t)
    BY <2>14 DEF ProbeBroadcast
  <2>15. CASE Unhalt(t)
    BY <2>15 DEF Unhalt
  <2>16. CASE ProbeRestore(t)
    BY <2>16 DEF ProbeRestore
  <2>17. CASE KiqSelect(t)
    BY <2>17 DEF KiqSelect
  <2>18. CASE Start(t)
    BY <2>18 DEF Start
  <2>19. CASE Hqd(t)
    BY <2>19 DEF Hqd
  <2>20. CASE HqdOff(t)
    BY <2>20 DEF HqdOff
  <2>21. CASE RingRestore(t)
    BY <2>21 DEF RingRestore
  <2>22. CASE Software(t)
    BY <2>22 DEF Software
  <2>23. CASE DispatchSelect(t)
    BY <2>23 DEF DispatchSelect
  <2>24. CASE Dispatch(t)
    BY <2>24 DEF Dispatch
  <2>25. CASE DispatchOff(t)
    BY <2>25 DEF DispatchOff
  <2>26. CASE DispatchRestore(t)
    BY <2>26 DEF DispatchRestore
  <2>27. QED
    BY <1>2, <2>1, <2>2, <2>3, <2>4, <2>5, <2>6, <2>7, <2>8, <2>9, <2>10,
       <2>11, <2>12, <2>13, <2>14, <2>15, <2>16, <2>17, <2>18, <2>19, <2>20,
       <2>21, <2>22, <2>23, <2>24, <2>25, <2>26 DEF Run
<1>3. QED
  BY <1>1, <1>2 DEF Next

\* WGP_BANK_PROBE stays alone.
LEMMA BankProbeAloneNext ==
  ProbeComesAlone /\ Type /\ Where /\ BankProbeAlone /\ [Next]_vars
    => BankProbeAlone'
<1> SUFFICES ASSUME ProbeComesAlone, Type, Where, BankProbeAlone,
                    [Next]_vars
             PROVE  BankProbeAlone'
  OBVIOUS
<1> USE DEF Ioctls, ProbeComesAlone, Type, Where, BankProbeAlone, Pc, ProbePc,
            RingPc, WalkPc, Goto, Is, Return, Walk, device, thread
<1>1. CASE UNCHANGED vars
  BY <1>1 DEF vars
<1>2. ASSUME NEW t \in Thread, Enter(t) \/ Run(t)
      PROVE  BankProbeAlone'
  <2>1. CASE Enter(t)
    BY <2>1 DEF Enter
  <2>2. CASE PreSave(t)
    BY <2>2 DEF PreSave
  <2>3. CASE Lock(t)
    BY <2>3 DEF Lock
  <2>4. CASE Save(t)
    BY <2>4 DEF Save
  <2>5. CASE Halt(t)
    BY <2>5 DEF Halt
  <2>6. CASE SelectBank(t)
    BY <2>6 DEF SelectBank
  <2>7. CASE ProbeAccess(t)
    BY <2>7 DEF ProbeAccess
  <2>8. CASE UnlockAccess(t)
    BY <2>8 DEF UnlockAccess
  <2>9. CASE BankRead(t)
    BY <2>9 DEF BankRead
  <2>10. CASE StatusRead(t)
    BY <2>10 DEF StatusRead
  <2>11. CASE OldBroadcast(t)
    BY <2>11 DEF OldBroadcast
  <2>12. CASE BankRelease(t)
    BY <2>12 DEF BankRelease
  <2>13. CASE PostRestore(t)
    BY <2>13 DEF PostRestore
  <2>14. CASE ProbeBroadcast(t)
    BY <2>14 DEF ProbeBroadcast
  <2>15. CASE Unhalt(t)
    BY <2>15 DEF Unhalt
  <2>16. CASE ProbeRestore(t)
    BY <2>16 DEF ProbeRestore
  <2>17. CASE KiqSelect(t)
    BY <2>17 DEF KiqSelect
  <2>18. CASE Start(t)
    BY <2>18 DEF Start
  <2>19. CASE Hqd(t)
    BY <2>19 DEF Hqd
  <2>20. CASE HqdOff(t)
    BY <2>20 DEF HqdOff
  <2>21. CASE RingRestore(t)
    BY <2>21 DEF RingRestore
  <2>22. CASE Software(t)
    BY <2>22 DEF Software
  <2>23. CASE DispatchSelect(t)
    BY <2>23 DEF DispatchSelect
  <2>24. CASE Dispatch(t)
    BY <2>24 DEF Dispatch
  <2>25. CASE DispatchOff(t)
    BY <2>25 DEF DispatchOff
  <2>26. CASE DispatchRestore(t)
    BY <2>26 DEF DispatchRestore
  <2>27. QED
    BY <1>2, <2>1, <2>2, <2>3, <2>4, <2>5, <2>6, <2>7, <2>8, <2>9, <2>10,
       <2>11, <2>12, <2>13, <2>14, <2>15, <2>16, <2>17, <2>18, <2>19, <2>20,
       <2>21, <2>22, <2>23, <2>24, <2>25, <2>26 DEF Run
<1>3. QED
  BY <1>1, <1>2 DEF Next

\* What a handler saves is what the display was using.
LEMMA SavedNext ==
  Type /\ Where /\ MutexOwner /\ BankProbeAlone /\ Saved /\ Engines /\ Index
  /\ [Next]_vars
    => Saved'
<1> SUFFICES ASSUME Type, Where, MutexOwner, BankProbeAlone, Saved, Engines, Index,
                    [Next]_vars
             PROVE  Saved'
  OBVIOUS
<1> USE OneAtATime DEF Ioctls, Type, Where, Saved, HasIndex, HasEngines, Moved,
                       Inside, Pc, ProbePc, RingPc, WalkPc, Goto, Is, Return,
                       Walk, Locking, device, thread
<1>1. CASE UNCHANGED vars
  BY <1>1 DEF vars
<1>2. ASSUME NEW t \in Thread, Enter(t) \/ Run(t)
      PROVE  Saved'
  <2>1. CASE Enter(t)
    BY <2>1 DEF Enter
  <2>2. CASE PreSave(t)
    BY <2>2 DEF PreSave, Engines, Index, Halting, Running
  <2>3. CASE Lock(t)
    BY <2>3 DEF Lock
  <2>4. CASE Save(t)
    BY <2>4 DEF Save, Engines, Index, Halting, Running
  <2>5. CASE Halt(t)
    BY <2>5 DEF Halt
  <2>6. CASE SelectBank(t)
    BY <2>6 DEF SelectBank
  <2>7. CASE ProbeAccess(t)
    BY <2>7 DEF ProbeAccess
  <2>8. CASE UnlockAccess(t)
    BY <2>8 DEF UnlockAccess
  <2>9. CASE BankRead(t)
    BY <2>9 DEF BankRead
  <2>10. CASE StatusRead(t)
    BY <2>10 DEF StatusRead
  <2>11. CASE OldBroadcast(t)
    BY <2>11 DEF OldBroadcast
  <2>12. CASE BankRelease(t)
    BY <2>12 DEF BankRelease
  <2>13. CASE PostRestore(t)
    BY <2>13 DEF PostRestore
  <2>14. CASE ProbeBroadcast(t)
    BY <2>14 DEF ProbeBroadcast
  <2>15. CASE Unhalt(t)
    BY <2>15 DEF Unhalt
  <2>16. CASE ProbeRestore(t)
    BY <2>16 DEF ProbeRestore
  <2>17. CASE KiqSelect(t)
    BY <2>17 DEF KiqSelect
  <2>18. CASE Start(t)
    BY <2>18 DEF Start
  <2>19. CASE Hqd(t)
    BY <2>19 DEF Hqd
  <2>20. CASE HqdOff(t)
    BY <2>20 DEF HqdOff
  <2>21. CASE RingRestore(t)
    BY <2>21 DEF RingRestore
  <2>22. CASE Software(t)
    BY <2>22 DEF Software
  <2>23. CASE DispatchSelect(t)
    BY <2>23 DEF DispatchSelect
  <2>24. CASE Dispatch(t)
    BY <2>24 DEF Dispatch
  <2>25. CASE DispatchOff(t)
    BY <2>25 DEF DispatchOff
  <2>26. CASE DispatchRestore(t)
    BY <2>26 DEF DispatchRestore
  <2>27. QED
    BY <1>2, <2>1, <2>2, <2>3, <2>4, <2>5, <2>6, <2>7, <2>8, <2>9, <2>10,
       <2>11, <2>12, <2>13, <2>14, <2>15, <2>16, <2>17, <2>18, <2>19, <2>20,
       <2>21, <2>22, <2>23, <2>24, <2>25, <2>26 DEF Run
<1>3. QED
  BY <1>1, <1>2 DEF Next

\* The engines are as the handler that is inside needs them.
LEMMA EnginesNext ==
  Type /\ Where /\ MutexOwner /\ BankProbeAlone /\ Saved /\ Engines /\
  [Next]_vars
    => Engines'
<1> SUFFICES ASSUME Type, Where, MutexOwner, BankProbeAlone, Saved, Engines,
                    [Next]_vars
             PROVE  Engines'
  OBVIOUS
<1> USE OneAtATime DEF Ioctls, Type, Where, Saved, HasEngines, Engines, Halting,
                       Running, Inside, Pc, ProbePc, RingPc, WalkPc, Goto, Is,
                       Return, Walk, Locking, device, thread
<1>1. CASE UNCHANGED vars
  BY <1>1 DEF vars
<1>2. ASSUME NEW t \in Thread, Enter(t) \/ Run(t)
      PROVE  Engines'
  <2>1. CASE Enter(t)
    BY <2>1 DEF Enter
  <2>2. CASE PreSave(t)
    BY <2>2 DEF PreSave
  <2>3. CASE Lock(t)
    BY <2>3 DEF Lock
  <2>4. CASE Save(t)
    BY <2>4 DEF Save
  <2>5. CASE Halt(t)
    <3>1. \A u \in Thread : ~Halting(u) /\ ~Running(u)
      BY <2>5 DEF Halt
    <3>2. engines' = Halted
      BY <3>1, <2>5, HaltUnhalt DEF Halt
    <3>3. QED
      BY <2>5, <3>1, <3>2 DEF Halt
  <2>6. CASE SelectBank(t)
    BY <2>6 DEF SelectBank
  <2>7. CASE ProbeAccess(t)
    BY <2>7 DEF ProbeAccess
  <2>8. CASE UnlockAccess(t)
    BY <2>8 DEF UnlockAccess
  <2>9. CASE BankRead(t)
    BY <2>9 DEF BankRead
  <2>10. CASE StatusRead(t)
    BY <2>10 DEF StatusRead
  <2>11. CASE OldBroadcast(t)
    BY <2>11 DEF OldBroadcast
  <2>12. CASE BankRelease(t)
    BY <2>12 DEF BankRelease
  <2>13. CASE PostRestore(t)
    BY <2>13 DEF PostRestore
  <2>14. CASE ProbeBroadcast(t)
    BY <2>14 DEF ProbeBroadcast
  <2>15. CASE Unhalt(t)
    BY HaltUnhalt, <2>15 DEF Unhalt
  <2>16. CASE ProbeRestore(t)
    BY <2>16 DEF ProbeRestore
  <2>17. CASE KiqSelect(t)
    BY <2>17 DEF KiqSelect
  <2>18. CASE Start(t)
    BY <2>18 DEF Start, Started
  <2>19. CASE Hqd(t)
    BY <2>19 DEF Hqd
  <2>20. CASE HqdOff(t)
    BY <2>20 DEF HqdOff
  <2>21. CASE RingRestore(t)
    BY <2>21 DEF RingRestore
  <2>22. CASE Software(t)
    BY <2>22 DEF Software
  <2>23. CASE DispatchSelect(t)
    BY <2>23 DEF DispatchSelect
  <2>24. CASE Dispatch(t)
    BY <2>24 DEF Dispatch
  <2>25. CASE DispatchOff(t)
    BY <2>25 DEF DispatchOff
  <2>26. CASE DispatchRestore(t)
    BY <2>26 DEF DispatchRestore
  <2>27. QED
    BY <1>2, <2>1, <2>2, <2>3, <2>4, <2>5, <2>6, <2>7, <2>8, <2>9, <2>10,
       <2>11, <2>12, <2>13, <2>14, <2>15, <2>16, <2>17, <2>18, <2>19, <2>20,
       <2>21, <2>22, <2>23, <2>24, <2>25, <2>26 DEF Run
<1>3. QED
  BY <1>1, <1>2 DEF Next

\* The queue and the shader registers are in use between two steps of one handler only.
LEMMA QueueNext ==
  Type /\ Where /\ MutexOwner /\ BankProbeAlone /\ Queue /\ [Next]_vars
    => Queue'
<1> SUFFICES ASSUME Type, Where, MutexOwner, BankProbeAlone, Queue,
                    [Next]_vars
             PROVE  Queue'
  OBVIOUS
<1> USE OneAtATime DEF Ioctls, Type, Where, Queue, Inside, Pc, ProbePc, RingPc,
                       WalkPc, Goto, Is, Return, Walk, device, thread
<1>1. CASE UNCHANGED vars
  BY <1>1 DEF vars
<1>2. ASSUME NEW t \in Thread, Enter(t) \/ Run(t)
      PROVE  Queue'
  <2>1. CASE Enter(t)
    BY <2>1 DEF Enter
  <2>2. CASE PreSave(t)
    BY <2>2 DEF PreSave
  <2>3. CASE Lock(t)
    BY <2>3 DEF Lock
  <2>4. CASE Save(t)
    BY <2>4 DEF Save
  <2>5. CASE Halt(t)
    BY <2>5 DEF Halt
  <2>6. CASE SelectBank(t)
    BY <2>6 DEF SelectBank
  <2>7. CASE ProbeAccess(t)
    BY <2>7 DEF ProbeAccess
  <2>8. CASE UnlockAccess(t)
    BY <2>8 DEF UnlockAccess
  <2>9. CASE BankRead(t)
    BY <2>9 DEF BankRead
  <2>10. CASE StatusRead(t)
    BY <2>10 DEF StatusRead
  <2>11. CASE OldBroadcast(t)
    BY <2>11 DEF OldBroadcast
  <2>12. CASE BankRelease(t)
    BY <2>12 DEF BankRelease
  <2>13. CASE PostRestore(t)
    BY <2>13 DEF PostRestore
  <2>14. CASE ProbeBroadcast(t)
    BY <2>14 DEF ProbeBroadcast
  <2>15. CASE Unhalt(t)
    BY <2>15 DEF Unhalt
  <2>16. CASE ProbeRestore(t)
    BY <2>16 DEF ProbeRestore
  <2>17. CASE KiqSelect(t)
    BY <2>17 DEF KiqSelect
  <2>18. CASE Start(t)
    BY <2>18 DEF Start
  <2>19. CASE Hqd(t)
    BY <2>19 DEF Hqd
  <2>20. CASE HqdOff(t)
    BY <2>20 DEF HqdOff
  <2>21. CASE RingRestore(t)
    BY <2>21 DEF RingRestore
  <2>22. CASE Software(t)
    BY <2>22 DEF Software
  <2>23. CASE DispatchSelect(t)
    BY <2>23 DEF DispatchSelect
  <2>24. CASE Dispatch(t)
    BY <2>24 DEF Dispatch
  <2>25. CASE DispatchOff(t)
    BY <2>25 DEF DispatchOff
  <2>26. CASE DispatchRestore(t)
    BY <2>26 DEF DispatchRestore
  <2>27. QED
    BY <1>2, <2>1, <2>2, <2>3, <2>4, <2>5, <2>6, <2>7, <2>8, <2>9, <2>10,
       <2>11, <2>12, <2>13, <2>14, <2>15, <2>16, <2>17, <2>18, <2>19, <2>20,
       <2>21, <2>22, <2>23, <2>24, <2>25, <2>26 DEF Run
<1>3. QED
  BY <1>1, <1>2 DEF Next

\* The index is what the handler that is inside has selected, or the display's.
LEMMA IndexNext ==
  Type /\ Where /\ MutexOwner /\ BankProbeAlone /\ Saved /\ Index /\
  [Next]_vars
    => Index'
<1> SUFFICES ASSUME Type, Where, MutexOwner, BankProbeAlone, Saved, Index,
                    [Next]_vars
             PROVE  Index'
  OBVIOUS
<1> USE OneAtATime DEF Ioctls, Type, Where, Saved, HasIndex, Index, Moved,
                       Inside, Pc, ProbePc, RingPc, WalkPc, Goto, Is, Return,
                       Walk, Locking, Select, SelectByOffset, device, thread
<1>1. CASE UNCHANGED vars
  BY <1>1 DEF vars
<1>2. ASSUME NEW t \in Thread, Enter(t) \/ Run(t)
      PROVE  Index'
  <2>1. CASE Enter(t)
    BY <2>1 DEF Enter
  <2>2. CASE PreSave(t)
    BY <2>2 DEF PreSave
  <2>3. CASE Lock(t)
    BY <2>3 DEF Lock
  <2>4. CASE Save(t)
    BY <2>4 DEF Save
  <2>5. CASE Halt(t)
    BY <2>5 DEF Halt
  <2>6. CASE SelectBank(t)
    <3>1. CASE handler[t] \in Locking
      <4>1. grbm' = BankSelect[bank[t]]
        BY <2>6, <3>1 DEF SelectBank
      <4>2. QED
        BY <2>6, <3>1, <4>1 DEF SelectBank
    <3>2. CASE handler[t] \notin Locking
      <4>1. handler[t] \in {"GET_CU_STATUS", "UNLOCK_40CU"}
        BY <2>6, <3>2, SelectAssumption DEF SelectBank
      <4>2. grbm' = grbm
        <5>1. CASE handler[t] = "GET_CU_STATUS"
          BY <2>6, <5>1 DEF SelectBank
        <5>2. CASE handler[t] = "UNLOCK_40CU"
          BY <2>6, <5>2 DEF SelectBank
        <5>3. QED
          BY <4>1, <5>1, <5>2
      <4>3. QED
        BY <2>6, <3>2, <4>2 DEF SelectBank
    <3>3. QED
      BY <3>1, <3>2
  <2>7. CASE ProbeAccess(t)
    BY <2>7 DEF ProbeAccess
  <2>8. CASE UnlockAccess(t)
    BY <2>8 DEF UnlockAccess
  <2>9. CASE BankRead(t)
    BY <2>9 DEF BankRead
  <2>10. CASE StatusRead(t)
    BY <2>10 DEF StatusRead
  <2>11. CASE OldBroadcast(t)
    BY <2>11 DEF OldBroadcast
  <2>12. CASE BankRelease(t)
    BY <2>12 DEF BankRelease
  <2>13. CASE PostRestore(t)
    BY <2>13 DEF PostRestore
  <2>14. CASE ProbeBroadcast(t)
    BY <2>14 DEF ProbeBroadcast
  <2>15. CASE Unhalt(t)
    BY <2>15 DEF Unhalt
  <2>16. CASE ProbeRestore(t)
    BY <2>16 DEF ProbeRestore
  <2>17. CASE KiqSelect(t)
    BY <2>17 DEF KiqSelect
  <2>18. CASE Start(t)
    BY <2>18 DEF Start
  <2>19. CASE Hqd(t)
    BY <2>19 DEF Hqd
  <2>20. CASE HqdOff(t)
    BY <2>20 DEF HqdOff
  <2>21. CASE RingRestore(t)
    BY <2>21 DEF RingRestore
  <2>22. CASE Software(t)
    BY <2>22 DEF Software
  <2>23. CASE DispatchSelect(t)
    BY <2>23 DEF DispatchSelect
  <2>24. CASE Dispatch(t)
    BY <2>24 DEF Dispatch
  <2>25. CASE DispatchOff(t)
    BY <2>25 DEF DispatchOff
  <2>26. CASE DispatchRestore(t)
    BY <2>26 DEF DispatchRestore
  <2>27. QED
    BY <1>2, <2>1, <2>2, <2>3, <2>4, <2>5, <2>6, <2>7, <2>8, <2>9, <2>10,
       <2>11, <2>12, <2>13, <2>14, <2>15, <2>16, <2>17, <2>18, <2>19, <2>20,
       <2>21, <2>22, <2>23, <2>24, <2>25, <2>26 DEF Run
<1>3. QED
  BY <1>1, <1>2 DEF Next

-----------------------------------------------------------------------------
(* What HALT_PROBE counts, if UNLOCK_40CU comes alone as well *)

\* UNLOCK_40CU, which takes no mutex, is sent while no other is inside.
UnlockComesAlone == "UNLOCK_40CU" \in Handlers => "UNLOCK_40CU" \in Alone

UnlockAlone ==
  \A t, u \in Thread : handler[t] = "UNLOCK_40CU" /\ u # t => pc[u] = "Idle"

GateType ==
  /\ gate \in [Banks -> {7, 31}]
  /\ stuck \in [Thread -> Nat]

\* HALT_PROBE before and during its walk, and how many banks it has done.
Probing(t) ==
  /\ handler[t] = "WGP_HALT_PROBE"
  /\ pc[t] \in WalkPc \cup {"Acquire", "Save", "Halt", "Broadcast"}
Walked(t) == IF pc[t] = "Broadcast" THEN 4 ELSE bank[t] - 1

\* How many of the gates g of the first n banks are open.
Open(g, n) == {b \in Banks : b <= n /\ g[b] = 31}
Count(g, n) == Cardinality(Open(g, n))

\* HALT_PROBE has counted the open gates of the banks it has done.
Gates ==
  \A t \in Thread : Probing(t) =>
    /\ pc[t] \in {"Acquire", "Save", "Halt"} => bank[t] = 1
    /\ pc[t] = "Broadcast" => bank[t] = 4
    /\ stuck[t] = Count(gate, Walked(t))

\* UNLOCK_40CU stays alone.
LEMMA UnlockAloneNext ==
  UnlockComesAlone /\ Type /\ Where /\ UnlockAlone /\ [Next]_vars => UnlockAlone'
<1> SUFFICES ASSUME UnlockComesAlone, Type, Where, UnlockAlone, [Next]_vars
             PROVE  UnlockAlone'
  OBVIOUS
<1> USE DEF Ioctls, UnlockComesAlone, Type, Where, UnlockAlone, Pc, ProbePc,
            RingPc, WalkPc, Goto, Is, Return, Walk, device, thread
<1>1. CASE UNCHANGED vars
  BY <1>1 DEF vars
<1>2. ASSUME NEW t \in Thread, Enter(t) \/ Run(t)
      PROVE  UnlockAlone'
  <2>1. CASE Enter(t)
    BY <2>1 DEF Enter
  <2>2. CASE PreSave(t)
    BY <2>2 DEF PreSave
  <2>3. CASE Lock(t)
    BY <2>3 DEF Lock
  <2>4. CASE Save(t)
    BY <2>4 DEF Save
  <2>5. CASE Halt(t)
    BY <2>5 DEF Halt
  <2>6. CASE SelectBank(t)
    <3>1. pc[t] = "Select" /\ pc' = [pc EXCEPT ![t] = "Access"] /\ handler' = handler
      BY <2>6 DEF SelectBank
    <3>2. QED
      BY <3>1
  <2>7. CASE ProbeAccess(t)
    BY <2>7 DEF ProbeAccess
  <2>8. CASE UnlockAccess(t)
    BY <2>8 DEF UnlockAccess
  <2>9. CASE BankRead(t)
    BY <2>9 DEF BankRead
  <2>10. CASE StatusRead(t)
    BY <2>10 DEF StatusRead
  <2>11. CASE OldBroadcast(t)
    BY <2>11 DEF OldBroadcast
  <2>12. CASE BankRelease(t)
    BY <2>12 DEF BankRelease
  <2>13. CASE PostRestore(t)
    BY <2>13 DEF PostRestore
  <2>14. CASE ProbeBroadcast(t)
    BY <2>14 DEF ProbeBroadcast
  <2>15. CASE Unhalt(t)
    BY <2>15 DEF Unhalt
  <2>16. CASE ProbeRestore(t)
    BY <2>16 DEF ProbeRestore
  <2>17. CASE KiqSelect(t)
    BY <2>17 DEF KiqSelect
  <2>18. CASE Start(t)
    BY <2>18 DEF Start
  <2>19. CASE Hqd(t)
    BY <2>19 DEF Hqd
  <2>20. CASE HqdOff(t)
    BY <2>20 DEF HqdOff
  <2>21. CASE RingRestore(t)
    BY <2>21 DEF RingRestore
  <2>22. CASE Software(t)
    BY <2>22 DEF Software
  <2>23. CASE DispatchSelect(t)
    BY <2>23 DEF DispatchSelect
  <2>24. CASE Dispatch(t)
    BY <2>24 DEF Dispatch
  <2>25. CASE DispatchOff(t)
    BY <2>25 DEF DispatchOff
  <2>26. CASE DispatchRestore(t)
    BY <2>26 DEF DispatchRestore
  <2>27. QED
    BY <1>2, <2>1, <2>2, <2>3, <2>4, <2>5, <2>6, <2>7, <2>8, <2>9, <2>10,
       <2>11, <2>12, <2>13, <2>14, <2>15, <2>16, <2>17, <2>18, <2>19, <2>20,
       <2>21, <2>22, <2>23, <2>24, <2>25, <2>26 DEF Run
<1>3. QED
  BY <1>1, <1>2 DEF Next

\* The gates and the count keep their types.
LEMMA GateTypeNext == Type /\ GateType /\ [Next]_vars => GateType'
<1> SUFFICES ASSUME Type, GateType, [Next]_vars PROVE GateType'
  OBVIOUS
<1> USE DEF Type, GateType, Gate, Goto, device, thread
<1>1. CASE UNCHANGED vars
  BY <1>1 DEF vars
<1>2. ASSUME NEW t \in Thread, Enter(t) \/ Run(t)
      PROVE  GateType'
  <2>1. CASE Enter(t)
    BY <2>1 DEF Enter
  <2>2. CASE PreSave(t)
    BY <2>2 DEF PreSave
  <2>3. CASE Lock(t)
    BY <2>3 DEF Lock
  <2>4. CASE Save(t)
    BY <2>4 DEF Save
  <2>5. CASE Halt(t)
    BY <2>5 DEF Halt
  <2>6. CASE SelectBank(t)
    <3>1. UNCHANGED <<stuck, gate>>
      BY <2>6 DEF SelectBank
    <3>2. QED
      BY <3>1
  <2>7. CASE ProbeAccess(t)
    <3>1. gate' \in [Banks -> {7, 31}]
      BY <2>7 DEF ProbeAccess
    <3>2. stuck' \in [Thread -> Nat]
      <4> DEFINE more == \E b \in Reached(grbm) : gate'[b] = 31
      <4>1. stuck' = [stuck EXCEPT ![t] = IF more THEN @ + 1 ELSE @]
        BY <2>7 DEF ProbeAccess
      <4> HIDE DEF more
      <4>2. QED
        BY <4>1
    <3>3. QED
      BY <3>1, <3>2
  <2>8. CASE UnlockAccess(t)
    BY <2>8 DEF UnlockAccess
  <2>9. CASE BankRead(t)
    BY <2>9 DEF BankRead
  <2>10. CASE StatusRead(t)
    BY <2>10 DEF StatusRead
  <2>11. CASE OldBroadcast(t)
    BY <2>11 DEF OldBroadcast
  <2>12. CASE BankRelease(t)
    BY <2>12 DEF BankRelease
  <2>13. CASE PostRestore(t)
    BY <2>13 DEF PostRestore
  <2>14. CASE ProbeBroadcast(t)
    BY <2>14 DEF ProbeBroadcast
  <2>15. CASE Unhalt(t)
    BY <2>15 DEF Unhalt
  <2>16. CASE ProbeRestore(t)
    BY <2>16 DEF ProbeRestore
  <2>17. CASE KiqSelect(t)
    BY <2>17 DEF KiqSelect
  <2>18. CASE Start(t)
    BY <2>18 DEF Start
  <2>19. CASE Hqd(t)
    BY <2>19 DEF Hqd
  <2>20. CASE HqdOff(t)
    BY <2>20 DEF HqdOff
  <2>21. CASE RingRestore(t)
    BY <2>21 DEF RingRestore
  <2>22. CASE Software(t)
    BY <2>22 DEF Software
  <2>23. CASE DispatchSelect(t)
    BY <2>23 DEF DispatchSelect
  <2>24. CASE Dispatch(t)
    BY <2>24 DEF Dispatch
  <2>25. CASE DispatchOff(t)
    BY <2>25 DEF DispatchOff
  <2>26. CASE DispatchRestore(t)
    BY <2>26 DEF DispatchRestore
  <2>27. QED
    BY <1>2, <2>1, <2>2, <2>3, <2>4, <2>5, <2>6, <2>7, <2>8, <2>9, <2>10,
       <2>11, <2>12, <2>13, <2>14, <2>15, <2>16, <2>17, <2>18, <2>19, <2>20,
       <2>21, <2>22, <2>23, <2>24, <2>25, <2>26 DEF Run
<1>3. QED
  BY <1>1, <1>2 DEF Next

\* None of the first 0 banks is open.
LEMMA CountNone == \A g : Count(g, 0) = 0
<1>1. \A g : Open(g, 0) = {}
  BY DEF Open, Banks
<1>2. QED
  BY <1>1, FS_EmptySet DEF Count

\* One bank more counts if its gate is open, whatever that gate was before.
LEMMA CountMore ==
  ASSUME NEW g, NEW h, NEW n \in Banks, \A b \in Banks \ {n} : h[b] = g[b]
  PROVE  Count(h, n) = Count(g, n - 1) + (IF h[n] = 31 THEN 1 ELSE 0)
<1>1. IsFiniteSet(Banks)
  <2>1. 1 \in Int /\ 4 \in Int
    OBVIOUS
  <2>2. IsFiniteSet(1..4)
    BY <2>1, FS_Interval, Zenon
  <2>3. QED
    BY <2>2 DEF Banks
<1>2. Open(g, n - 1) \in SUBSET Banks /\ n \notin Open(g, n - 1)
  BY DEF Open, Banks
<1>3. IsFiniteSet(Open(g, n - 1)) /\ Cardinality(Open(g, n - 1)) \in Nat
  BY <1>1, <1>2, FS_Subset, FS_CardinalityType
<1>4. CASE h[n] = 31
  <2>1. Open(h, n) = Open(g, n - 1) \cup {n}
    BY <1>4 DEF Open, Banks
  <2>2. Cardinality(Open(g, n - 1) \cup {n}) = Cardinality(Open(g, n - 1)) + 1
    BY <1>2, <1>3, FS_AddElement
  <2>3. QED
    BY <1>4, <2>1, <2>2 DEF Count
<1>5. CASE h[n] # 31
  <2>1. Open(h, n) = Open(g, n - 1)
    BY <1>5 DEF Open, Banks
  <2>2. QED
    BY <1>3, <1>5, <2>1 DEF Count
<1>6. QED
  BY <1>4, <1>5

\* A probe writes the gate of the bank it walks or no gate, and counts the bank
\* if its gate is open then.
LEMMA WalkWrites ==
  ASSUME IInv, GateType, Gates, NEW t \in Thread, ProbeAccess(t)
  PROVE  /\ \A b \in Banks \ {bank[t]} : gate'[b] = gate[b]
         /\ stuck'[t] = stuck[t] + (IF gate'[bank[t]] = 31 THEN 1 ELSE 0)
         /\ \A u \in Thread \ {t} : stuck'[u] = stuck[u]
<1> USE DEF IInv
<1>1. /\ pc[t] = "Access" /\ handler[t] = "WGP_HALT_PROBE" /\ bank[t] \in Banks
      /\ stuck' = [stuck EXCEPT
           ![t] = IF \E b \in Reached(grbm) : gate'[b] = 31 THEN @ + 1 ELSE @]
      /\ Gate(31)
  BY DEF ProbeAccess, Is, Type
<1>2. grbm = BankSelect[bank[t]]
  BY <1>1 DEF Index, Locking
<1>3. Reached(grbm) = {bank[t]}
  BY <1>1, <1>2 DEF Reached, BankSelect, Banks, Broadcast
<1>4. \A b \in Banks \ {bank[t]} : gate'[b] = gate[b]
  BY <1>1, <1>3 DEF Gate, GateType
<1>5. (\E b \in Reached(grbm) : gate'[b] = 31) <=> gate'[bank[t]] = 31
  BY <1>3
<1>6. CASE gate'[bank[t]] = 31
  <2>1. stuck' = [stuck EXCEPT ![t] = @ + 1]
    BY <1>1, <1>5, <1>6
  <2>2. QED
    BY <1>4, <1>6, <2>1 DEF GateType
<1>7. CASE gate'[bank[t]] # 31
  <2>1. stuck' = [stuck EXCEPT ![t] = @]
    BY <1>1, <1>5, <1>7
  <2>2. QED
    BY <1>4, <1>7, <2>1 DEF GateType
<1>8. QED
  BY <1>6, <1>7

\* So its count is right again one bank further.
LEMMA WalkCounts ==
  ASSUME IInv, GateType, Gates, NEW t \in Thread, ProbeAccess(t)
  PROVE  stuck'[t] = Count(gate', bank[t])
<1>1. bank[t] \in Banks /\ Probing(t) /\ Walked(t) = bank[t] - 1
  BY DEF ProbeAccess, Is, IInv, Type, Probing, Walked, WalkPc
<1>2. stuck[t] = Count(gate, bank[t] - 1)
  BY <1>1 DEF Gates
<1>3. Count(gate', bank[t]) = Count(gate, bank[t] - 1) + (IF gate'[bank[t]] = 31 THEN 1 ELSE 0)
  BY <1>1, WalkWrites, CountMore
<1>4. QED
  BY <1>2, <1>3, WalkWrites

\* A count is right as long as the walk goes on.
LEMMA GatesNext == IInv /\ UnlockAlone /\ GateType /\ Gates /\ [Next]_vars => Gates'
<1> SUFFICES ASSUME IInv, UnlockAlone, GateType, Gates, [Next]_vars PROVE Gates'
  OBVIOUS
<1> USE DEF Goto, Is, Return, Walk, device, thread, Walked, Probing, WalkPc
<1>1. CASE UNCHANGED vars
  BY <1>1 DEF vars, Gates
<1>2. ASSUME NEW t \in Thread, Enter(t) \/ Run(t)
      PROVE  Gates'
  <2>1. CASE Enter(t)
    <3>1. PICK h \in Handlers :
            /\ pc[t] = "Idle" /\ handler' = [handler EXCEPT ![t] = h]
            /\ pc' = [pc EXCEPT ![t] = IF h \in Locking \ {"WGP_BANK_PROBE"} THEN "Acquire"
                                       ELSE IF h = "WGP_BANK_PROBE" THEN "PreSave"
                                       ELSE "Select"]
            /\ bank' = [bank EXCEPT ![t] = 1] /\ stuck' = [stuck EXCEPT ![t] = 0]
            /\ gate' = gate
      BY <2>1 DEF Enter
    <3>2. \A u \in Thread \ {t} : /\ pc'[u] = pc[u] /\ handler'[u] = handler[u]
                                  /\ bank'[u] = bank[u] /\ stuck'[u] = stuck[u]
      BY <3>1 DEF IInv, Type, GateType
    <3>3. Probing(t)' => pc'[t] = "Acquire" /\ bank'[t] = 1 /\ stuck'[t] = 0
      BY <3>1 DEF IInv, Type, GateType, Locking
    <3>4. \A u \in Thread \ {t} : Walked(u)' = Walked(u) /\ (Probing(u)' <=> Probing(u))
      BY <3>2
    <3>5. Probing(t)' => Walked(t)' = 0 /\ Count(gate', 0) = 0
      BY <3>3, CountNone
    <3>6. QED
      BY <3>1, <3>2, <3>3, <3>4, <3>5 DEF Gates
  <2>2. CASE PreSave(t)
    BY <2>2 DEF PreSave, IInv, Type, Where, Gates, GateType
  <2>3. CASE Lock(t)
    BY <2>3 DEF Lock, IInv, Type, Where, Gates, GateType
  <2>4. CASE Save(t)
    BY <2>4 DEF Save, IInv, Type, Where, Gates, GateType
  <2>5. CASE Halt(t)
    BY <2>5 DEF Halt, IInv, Type, Where, Gates, GateType
  <2>6. CASE SelectBank(t)
    BY <2>6 DEF SelectBank, IInv, Type, Where, Gates, GateType
  <2>7. CASE ProbeAccess(t)
    <3> USE <2>7 DEF IInv, Type
    <3>1. pc[t] = "Access" /\ handler[t] = "WGP_HALT_PROBE" /\ bank[t] \in Banks
      BY DEF ProbeAccess
    <3>2. Probing(t) /\ Walked(t) = bank[t] - 1 /\ Inside(t)
      BY <3>1 DEF Inside, Locking
    <3>3. \A u \in Thread \ {t} : ~Probing(u)' \/ pc[u] = "Acquire"
      BY <3>1, <3>2, OneAtATime DEF ProbeAccess, Inside, Locking, ProbePc
    <3>7. stuck'[t] = Count(gate', bank[t])
      BY WalkCounts
    <3>8. \A u \in Thread \ {t} : /\ pc'[u] = pc[u] /\ handler'[u] = handler[u]
                                  /\ bank'[u] = bank[u] /\ stuck'[u] = stuck[u]
      BY WalkWrites DEF ProbeAccess
    <3>9. SUFFICES
            /\ Walked(t)' = bank[t] /\ (pc'[t] = "Broadcast" => bank'[t] = 4)
            /\ pc'[t] \notin {"Acquire", "Save", "Halt"}
      <4>1. ASSUME NEW u \in Thread \ {t}, Probing(u)'
            PROVE  /\ pc'[u] = "Acquire" /\ bank'[u] = 1 /\ Walked(u)' = 0
                   /\ stuck'[u] = Count(gate', 0)
        <5>1. pc[u] = "Acquire" /\ Probing(u)
          BY <3>3, <3>8, <4>1
        <5>2. bank[u] = 1 /\ Walked(u) = 0
          BY <5>1 DEF Gates
        <5>3. stuck[u] = 0
          BY <5>1, <5>2, CountNone DEF Gates
        <5>4. Count(gate', 0) = 0
          BY CountNone
        <5>5. QED
          BY <3>8, <5>1, <5>2, <5>3, <5>4
      <4>2. QED
        BY <3>1, <3>7, <4>1 DEF Gates, Banks
    <3>4. CASE bank[t] < 4
      <4>1. Walked(t)' = bank[t] /\ pc'[t] = "Select" /\ bank'[t] = bank[t] + 1
        BY <3>1, <3>4 DEF ProbeAccess, Banks
      <4>2. Walked(t)' = Walked(t) + 1 /\ ~(pc'[t] \in {"Acquire", "Save", "Halt"})
        BY <3>1, <3>2, <4>1 DEF Banks
      <4>3. QED
        BY <3>1, <3>3, <3>7, <3>8, <3>9, <4>1, <4>2
    <3>5. CASE ~(bank[t] < 4)
      <4>1. Walked(t)' = bank[t] /\ pc'[t] = "Broadcast" /\ bank'[t] = bank[t] /\ bank[t] = 4
        BY <3>1, <3>5 DEF ProbeAccess, Banks
      <4>2. Walked(t)' = Walked(t) + 1 /\ ~(pc'[t] \in {"Acquire", "Save", "Halt"})
        BY <3>1, <3>2, <4>1 DEF Banks
      <4>3. QED
        BY <3>1, <3>3, <3>7, <3>8, <3>9, <4>1, <4>2
    <3>6. QED
      BY <3>4, <3>5
  <2>8. CASE UnlockAccess(t)
    <3>1. \A u \in Thread : ~Probing(u)'
      BY <2>8 DEF IInv, Type, Where, UnlockAlone, UnlockAccess
    <3>2. QED
      BY <3>1 DEF Gates
  <2>9. CASE BankRead(t)
    BY <2>9 DEF BankRead, IInv, Type, Where, Gates, GateType
  <2>10. CASE StatusRead(t)
    BY <2>10 DEF StatusRead, IInv, Type, Where, Gates, GateType
  <2>11. CASE OldBroadcast(t)
    BY <2>11 DEF OldBroadcast, IInv, Type, Where, Gates, GateType
  <2>12. CASE BankRelease(t)
    BY <2>12 DEF BankRelease, IInv, Type, Where, Gates, GateType
  <2>13. CASE PostRestore(t)
    BY <2>13 DEF PostRestore, IInv, Type, Where, Gates, GateType
  <2>14. CASE ProbeBroadcast(t)
    BY <2>14 DEF ProbeBroadcast, IInv, Type, Where, Gates, GateType
  <2>15. CASE Unhalt(t)
    BY <2>15 DEF Unhalt, IInv, Type, Where, Gates, GateType
  <2>16. CASE ProbeRestore(t)
    BY <2>16 DEF ProbeRestore, IInv, Type, Where, Gates, GateType
  <2>17. CASE KiqSelect(t)
    BY <2>17 DEF KiqSelect, IInv, Type, Where, Gates, GateType
  <2>18. CASE Start(t)
    BY <2>18 DEF Start, IInv, Type, Where, Gates, GateType
  <2>19. CASE Hqd(t)
    BY <2>19 DEF Hqd, IInv, Type, Where, Gates, GateType
  <2>20. CASE HqdOff(t)
    BY <2>20 DEF HqdOff, IInv, Type, Where, Gates, GateType
  <2>21. CASE RingRestore(t)
    BY <2>21 DEF RingRestore, IInv, Type, Where, Gates, GateType
  <2>22. CASE Software(t)
    BY <2>22 DEF Software, IInv, Type, Where, Gates, GateType
  <2>23. CASE DispatchSelect(t)
    BY <2>23 DEF DispatchSelect, IInv, Type, Where, Gates, GateType
  <2>24. CASE Dispatch(t)
    BY <2>24 DEF Dispatch, IInv, Type, Where, Gates, GateType
  <2>25. CASE DispatchOff(t)
    BY <2>25 DEF DispatchOff, IInv, Type, Where, Gates, GateType
  <2>26. CASE DispatchRestore(t)
    BY <2>26 DEF DispatchRestore, IInv, Type, Where, Gates, GateType
  <2>27. QED
    BY <1>2, <2>1, <2>2, <2>3, <2>4, <2>5, <2>6, <2>7, <2>8, <2>9, <2>10,
       <2>11, <2>12, <2>13, <2>14, <2>15, <2>16, <2>17, <2>18, <2>19, <2>20,
       <2>21, <2>22, <2>23, <2>24, <2>25, <2>26 DEF Run
<1>3. QED
  BY <1>1, <1>2 DEF Next

-----------------------------------------------------------------------------
(* Theorems *)

\* The inductive invariant holds in every state.
LEMMA Invariant == ProbeComesAlone /\ Spec => []IInv
<1> SUFFICES ASSUME ProbeComesAlone PROVE Spec => []IInv
  OBVIOUS
<1>1. Init => IInv
  <2> SUFFICES ASSUME Init PROVE IInv
    OBVIOUS
  <2> USE DEF Init
  <2>1. Type
    BY DEF Type, Pc, Banks
  <2>2. Where
    BY SelectAssumption DEF Where, ProbePc, RingPc, WalkPc
  <2>3. \A t \in Thread : /\ ~Inside(t) /\ ~Moved(t) /\ ~HasIndex(t)
                          /\ ~Halting(t) /\ ~Running(t)
    BY DEF Inside, Moved, HasIndex, Halting, Running, ProbePc, RingPc, WalkPc
  <2>4. MutexOwner
    BY <2>3, SelectAssumption DEF MutexOwner
  <2>5. BankProbeAlone /\ Queue
    BY DEF BankProbeAlone, Queue
  <2>6. Saved /\ Engines /\ Index
    BY <2>3 DEF Saved, HasEngines, Engines, Index
  <2>7. QED
    BY <2>1, <2>2, <2>4, <2>5, <2>6 DEF IInv
<1>2. IInv /\ [Next]_vars => IInv'
  BY TypeNext, WhereNext, OwnerNext, BankProbeAloneNext, SavedNext, EnginesNext, QueueNext,
     IndexNext DEF IInv
<1>3. QED
  BY <1>1, <1>2, PTL DEF Spec

\* However the handlers overlap, the display has its index, engines, queue and
\* shader registers back when they are done.
THEOREM DisplayRestored == ProbeComesAlone /\ Spec => []LiveStateRestored
<1>1. IInv => LiveStateRestored
  BY DEF IInv, Engines, Queue, Index, Halting, Running, Moved, WalkPc, LiveStateRestored
<1>2. QED
  BY <1>1, Invariant, PTL

\* A handler finds the index and the engines as it has set them.
THEOREM SelectsHold == ProbeComesAlone /\ Spec => []HandlersHold
<1>1. IInv => HandlersHold
  <2> SUFFICES ASSUME IInv PROVE HandlersHold
    OBVIOUS
  <2>1. EnginesHeld
    BY DEF IInv, Engines, Halting, Running, WalkPc, Halted, Started, EnginesHeld
  <2>2. ASSUME NEW t \in Thread, pc[t] = "Software" PROVE grbm = home
    <3>1. \A u \in Thread : ~Moved(u)
      BY <2>2, OneAtATime DEF IInv, Inside, Moved, RingPc, WalkPc
    <3>2. QED
      BY <3>1 DEF IInv, Index
  <2>3. SelectHeld
    BY <2>2 DEF IInv, Index, SelectHeld
  <2>4. QED
    BY <2>1, <2>3 DEF HandlersHold
<1>2. QED
  BY <1>1, Invariant, PTL

\* BanksStuck of HALT_PROBE is the number of open gates, whichever of its writes
\* the gates refuse, if nobody else writes them meanwhile.
THEOREM ProbeTruthful == ProbeComesAlone /\ UnlockComesAlone /\ Spec => []ProbeTellsTruth
<1> SUFFICES ASSUME ProbeComesAlone, UnlockComesAlone PROVE Spec => []ProbeTellsTruth
  OBVIOUS
<1>1. Init => UnlockAlone /\ GateType /\ Gates
  BY DEF Init, UnlockAlone, GateType, Gates, Probing, WalkPc, Banks
<1>2. IInv /\ UnlockAlone /\ GateType /\ Gates /\ [Next]_vars => UnlockAlone' /\ GateType' /\ Gates'
  BY UnlockAloneNext, GateTypeNext, GatesNext DEF IInv
<1>3. IInv /\ UnlockAlone /\ GateType /\ Gates => ProbeTellsTruth
  <2> SUFFICES ASSUME IInv, GateType, Gates, NEW t \in Thread,
                      handler[t] = "WGP_HALT_PROBE", pc[t] = "Broadcast"
               PROVE  stuck[t] = Cardinality({b \in Banks : gate[b] = 31})
    BY DEF ProbeTellsTruth
  <2>1. Probing(t) /\ Walked(t) = 4
    BY DEF Probing, Walked
  <2>2. Open(gate, 4) = {b \in Banks : gate[b] = 31}
    BY DEF Open, Banks
  <2>3. QED
    BY <2>1, <2>2 DEF Gates, Count
<1>4. QED
  BY <1>1, <1>2, <1>3, Invariant, PTL DEF Spec
=============================================================================
