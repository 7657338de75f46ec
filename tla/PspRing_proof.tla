----------------------------- MODULE PspRing_proof -----------------------------
(***************************************************************************)
(* Proofs about PspRing for any number of IRPs, pages, slots and commands, *)
(* provided that one of the IRPs at most is PSP_RING_INIT.                 *)
(***************************************************************************)
EXTENDS PspRing, TLAPS

-----------------------------------------------------------------------------
(* The inductive invariant *)

\* PSP_RING_INIT takes no mutex; user mode sends one at a time.
OneIniter == \A t, u \in Initer : t = u

Page == RingPage \cup Stage \cup {Null}
HasRing == {"InitAddr", "InitCmd", "InitAck"}
Initing == {"InitTos"} \cup HasRing
Submitting == {"Buffers", "BuildCmd", "ResetFence", "Kick", "PollFence", "Response"}
Slot == 0..Slots - 1

Type ==
  /\ pc \in [Thread -> Pc]
  /\ page \in [Thread -> Page]
  /\ id \in [Thread -> Nat]
  /\ index \in [Thread -> Nat]
  /\ mutex \in Thread \cup {Null}
  /\ live \subseteq RingPage \cup Stage
  /\ ringVa \in Page /\ ringCreated \in BOOLEAN
  /\ wptr \in Slot /\ rptr \in Slot /\ reg67 \in Slot
  /\ fenceValue \in Nat /\ fence \in Nat /\ submitted \in Nat
  /\ buffers \in BOOLEAN
  /\ cmd \in [id : Nat, stage : Page, answered : Nat]
  /\ exec \in [index : Nat, id : Nat, stage : Page]
  /\ frame \in [Slot -> Nat]
  /\ c64 \in {"ready", "ringInit"}
  /\ reg36 \in Page /\ c35 \in {"done", "load"} /\ direct \in Page
  /\ directRaced \in BOOLEAN

\* The record of what has been executed.
Executed ==
  /\ submitted \in 0..MaxSubmit
  /\ executed \in [1..MaxSubmit -> Nat]

\* What a thread knows of the ring from where it is.
Where ==
  /\ \A t \in Thread :
       /\ pc[t] \in Initing => t \in Initer /\ ~ringCreated
       /\ pc[t] \in Submitting \cup {"Acquire"} => ringCreated
       /\ pc[t] = "Unloaded" => ~ringCreated /\ \A u \in Thread : pc[u] = "Unloaded"
  /\ ringCreated => Thread # {}

Loaded == \A t \in Thread : pc[t] # "Unloaded"

\* The submission that is past Acquire owns the mutex.
MutexOwner == \A t \in Thread : pc[t] \in Submitting <=> mutex = t

\* A page a thread has is allocated and nobody else's; only an initialisation
\* under way has the ring.
Pages ==
  /\ ringVa # Null => ringVa \in live
  /\ \A t \in Thread :
       /\ page[t] # Null =>
            /\ page[t] \in live
            /\ \A u \in Thread : page[u] = page[t] => u = t
            /\ pc[t] \in HasRing \cup InDirect \cup Submitting \cup {"Acquire"}
            /\ pc[t] \notin HasRing => page[t] # ringVa
       /\ pc[t] \in HasRing \cup InDirect => page[t] # Null
       /\ pc[t] \in HasRing => page[t] = ringVa

\* Before the ring is there nothing has been submitted; once it is there it is
\* the PSP's, and what the handshake stands at in between.
Untouched == reg67 = 0 /\ rptr = 0 /\ exec = NoFrame

Ring ==
  /\ ringCreated => ringVa # Null /\ ringVa \in live /\ pspRing = ringVa /\ c64 = "ready"
  /\ ~ringCreated /\ Loaded => Untouched /\ wptr = 0 /\ fenceValue = 0
  /\ c64 = "ringInit" => Untouched
  /\ \A t \in Thread :
       /\ pc[t] \in {"InitAddr", "InitCmd"} => c64 = "ready"
       /\ pc[t] \in {"InitCmd", "InitAck"} => reg69 = page[t]
       /\ pc[t] = "InitAck" /\ c64 = "ready" => pspRing = page[t]

\* The command and fence pages are there while anything is submitted.
Buffered ==
  /\ \A t \in Thread : pc[t] \in Submitting \ {"Buffers"} => buffers
  /\ Pending /\ Loaded => buffers

\* A fence value is taken once, so that the one a submission waits for is in
\* the last frame only, and comes back when the PSP has caught up.
Frames ==
  /\ reg67 = wptr /\ fence <= fenceValue /\ exec.index <= fenceValue
  /\ \A s \in Slot : frame[s] <= fenceValue
  /\ \A t \in Thread :
       /\ pc[t] = "Kick" =>
            /\ index[t] = fenceValue /\ fenceValue > 0
            /\ fence # fenceValue /\ exec.index # fenceValue
            /\ \A s \in Slot : frame[s] # fenceValue
       /\ pc[t] = "PollFence" =>
            /\ index[t] = fenceValue /\ fenceValue > 0
            /\ \A s \in Slot : frame[s] = fenceValue => (s + 1) % Slots = wptr
            /\ exec.index = fenceValue => (rptr + 1) % Slots = wptr
            /\ fence = fenceValue => ~Pending
       /\ pc[t] = "Response" => ~Pending

\* An image nobody is about to free.
Safe(s) ==
  s # Null =>
    /\ s \in live /\ s # ringVa
    /\ \A t \in Thread : page[t] = s => pc[t] \in {"ResetFence", "Kick", "PollFence"}

\* The PSP has such an image, or will find one.
Stages ==
  /\ Safe(exec.stage)
  /\ Pending => Safe(cmd.stage)
  /\ \A t \in Thread : pc[t] \in {"ResetFence", "Kick"} => cmd.stage = page[t]

\* The PSP loads the image of the one direct load there is.
Direct ==
  ~directRaced =>
    /\ \A t, u \in Thread : pc[t] \in InDirect /\ pc[u] \in InDirect => t = u
    /\ \A t \in Thread : pc[t] \in {"DirectCmd", "DirectWait"} => reg36 = page[t]
    /\ c35 = "load" => \E t \in Thread : pc[t] = "DirectWait"
    /\ direct # Null => c35 = "load" /\ direct = reg36

\* A command has a number of its own.
Ids ==
  \A t \in Thread : pc[t] \in Submitting \cup {"Acquire"} =>
    /\ id[t] \in 1..submitted
    /\ \A u \in Thread : pc[u] \in Submitting \cup {"Acquire"} /\ id[u] = id[t] => u = t

\* The last frame is executed with the command of its submission, and with the
\* fence comes the answer to that.
Answers ==
  \A t \in Thread :
    /\ pc[t] \in {"ResetFence", "Kick", "PollFence", "Response"} => cmd.id = id[t]
    /\ pc[t] = "PollFence" /\ exec.index = fenceValue => exec.id = id[t]
    /\ pc[t] = "PollFence" /\ fence = fenceValue => cmd.answered = id[t]
    /\ pc[t] = "Response" => cmd.answered = id[t]

\* What came back with a response is the answer to what was submitted.
Outcomes ==
  /\ DOMAIN outcome = Thread
  /\ \A t \in Thread : outcome[t].answered = outcome[t].id

\* Until a wait times out there is one frame at most, of the submission that
\* waits, and what has not got that far has not been executed.
Once ==
  ~timedOut =>
    /\ \A n \in 1..MaxSubmit : executed[n] <= 1 /\ (n > submitted => executed[n] = 0)
    /\ \A t \in Thread :
         /\ pc[t] \in {"Acquire", "Buffers", "BuildCmd", "ResetFence", "Kick"}
              => executed[id[t]] = 0
         /\ pc[t] = "PollFence" /\ Pending => executed[id[t]] = 0
    /\ Pending => /\ (rptr + 1) % Slots = reg67
                  /\ \E t \in Thread : pc[t] = "PollFence"
    /\ exec # NoFrame => exec.id = cmd.id

IInv ==
  /\ Type /\ Where /\ MutexOwner /\ Pages /\ Ring /\ Buffered /\ Frames /\ Stages
  /\ Direct /\ Executed /\ Ids /\ Answers /\ Outcomes /\ Once

-----------------------------------------------------------------------------
(* Every step preserves every part *)

\* One further in the ring is in the ring.
LEMMA NextSlot == ASSUME NEW s \in Slot PROVE (s + 1) % Slots \in Slot
  BY PspAssumption DEF Slot

\* Every variable keeps its type.
LEMMA TypeNext ==
  ASSUME Type, [Next]_vars
  PROVE  Type'
<1> USE PspAssumption, NextSlot DEF Type, Pc, Submitting, Initing, HasRing,
                                    InDirect, Goto, Allocate, Free, Unlock,
                                    Page, NoFrame, thread, driver, memory, regs,
                                    mailbox, firmware, history
<1>1. CASE UNCHANGED vars
  BY <1>1 DEF vars
<1>2. ASSUME NEW t \in Thread,
             InitCheck(t) \/ InitTosReady(t) \/ InitGivesUp(t) \/
             InitWriteAddr(t) \/ InitWriteCmd(t) \/ InitAcked(t) \/
             InitNotAcked(t) \/ Submit(t) \/ SubmitLock(t) \/ GetBuffers(t)
             \/ NoBuffers(t) \/ BuildCmd(t) \/ ResetFence(t) \/ Kick(t) \/
             FenceReached(t) \/ Response(t) \/ FenceTimeOut(t) \/
             DirectLoad(t) \/ DirectWriteAddr(t) \/ DirectWriteCmd(t) \/
             DirectDone(t) \/ DirectGivesUp(t)
      PROVE  Type'
  <2>1. CASE InitCheck(t)
    BY <2>1 DEF InitCheck
  <2>2. CASE InitTosReady(t)
    BY <2>2 DEF InitTosReady
  <2>3. CASE InitGivesUp(t)
    BY <2>3 DEF InitGivesUp
  <2>4. CASE InitWriteAddr(t)
    BY <2>4 DEF InitWriteAddr
  <2>5. CASE InitWriteCmd(t)
    BY <2>5 DEF InitWriteCmd
  <2>6. CASE InitAcked(t)
    BY <2>6 DEF InitAcked, Slot
  <2>7. CASE InitNotAcked(t)
    BY <2>7 DEF InitNotAcked
  <2>8. CASE Submit(t)
    BY <2>8 DEF Submit
  <2>9. CASE SubmitLock(t)
    BY <2>9 DEF SubmitLock
  <2>10. CASE GetBuffers(t)
    BY <2>10 DEF GetBuffers
  <2>11. CASE NoBuffers(t)
    BY <2>11 DEF NoBuffers
  <2>12. CASE BuildCmd(t)
    BY <2>12 DEF BuildCmd
  <2>13. CASE ResetFence(t)
    BY <2>13 DEF ResetFence
  <2>14. CASE Kick(t)
    BY <2>14 DEF Kick
  <2>15. CASE FenceReached(t)
    BY <2>15 DEF FenceReached
  <2>16. CASE Response(t)
    BY <2>16 DEF Response
  <2>17. CASE FenceTimeOut(t)
    BY <2>17 DEF FenceTimeOut
  <2>18. CASE DirectLoad(t)
    BY <2>18 DEF DirectLoad
  <2>19. CASE DirectWriteAddr(t)
    BY <2>19 DEF DirectWriteAddr
  <2>20. CASE DirectWriteCmd(t)
    BY <2>20 DEF DirectWriteCmd
  <2>21. CASE DirectDone(t)
    BY <2>21 DEF DirectDone
  <2>22. CASE DirectGivesUp(t)
    BY <2>22 DEF DirectGivesUp
  <2>23. QED
    BY <1>2, <2>1, <2>2, <2>3, <2>4, <2>5, <2>6, <2>7, <2>8, <2>9, <2>10,
       <2>11, <2>12, <2>13, <2>14, <2>15, <2>16, <2>17, <2>18, <2>19, <2>20,
       <2>21, <2>22
<1>3. CASE Unload
  BY <1>3 DEF Unload
<1>4. CASE PspTakesRing
  BY <1>4 DEF PspTakesRing, Slot
<1>5. CASE PspReceive
  BY <1>5 DEF PspReceive
<1>6. CASE PspComplete
  BY <1>6 DEF PspComplete
<1>7. CASE PspDirectStart
  BY <1>7 DEF PspDirectStart
<1>8. CASE PspDirectDone
  BY <1>8 DEF PspDirectDone
<1>9. QED
  BY <1>1, <1>2, <1>3, <1>4, <1>5, <1>6, <1>7, <1>8 DEF Next, Psp

\* Handlers are where the ring lets them be.
LEMMA WhereNext ==
  ASSUME OneIniter, Type, Where, Ring, [Next]_vars
  PROVE  Where'
<1> USE DEF OneIniter, Type, Where, Pc, Submitting, Initing, HasRing, InDirect,
            Goto, thread, driver, memory, regs, mailbox, firmware, history
<1>1. CASE UNCHANGED vars
  BY <1>1 DEF vars
<1>2. ASSUME NEW t \in Thread,
             InitCheck(t) \/ InitTosReady(t) \/ InitGivesUp(t) \/
             InitWriteAddr(t) \/ InitWriteCmd(t) \/ InitAcked(t) \/
             InitNotAcked(t) \/ Submit(t) \/ SubmitLock(t) \/ GetBuffers(t)
             \/ NoBuffers(t) \/ BuildCmd(t) \/ ResetFence(t) \/ Kick(t) \/
             FenceReached(t) \/ Response(t) \/ FenceTimeOut(t) \/
             DirectLoad(t) \/ DirectWriteAddr(t) \/ DirectWriteCmd(t) \/
             DirectDone(t) \/ DirectGivesUp(t)
      PROVE  Where'
  <2>1. CASE InitCheck(t)
    BY <2>1 DEF InitCheck
  <2>2. CASE InitTosReady(t)
    BY <2>2 DEF InitTosReady
  <2>3. CASE InitGivesUp(t)
    BY <2>3 DEF InitGivesUp
  <2>4. CASE InitWriteAddr(t)
    BY <2>4 DEF InitWriteAddr
  <2>5. CASE InitWriteCmd(t)
    BY <2>5 DEF InitWriteCmd
  <2>6. CASE InitAcked(t)
    BY <2>6 DEF InitAcked
  <2>7. CASE InitNotAcked(t)
    BY <2>7 DEF InitNotAcked
  <2>8. CASE Submit(t)
    BY <2>8 DEF Submit
  <2>9. CASE SubmitLock(t)
    BY <2>9 DEF SubmitLock
  <2>10. CASE GetBuffers(t)
    BY <2>10 DEF GetBuffers
  <2>11. CASE NoBuffers(t)
    BY <2>11 DEF NoBuffers
  <2>12. CASE BuildCmd(t)
    BY <2>12 DEF BuildCmd
  <2>13. CASE ResetFence(t)
    BY <2>13 DEF ResetFence
  <2>14. CASE Kick(t)
    BY <2>14 DEF Kick
  <2>15. CASE FenceReached(t)
    BY <2>15 DEF FenceReached
  <2>16. CASE Response(t)
    BY <2>16 DEF Response
  <2>17. CASE FenceTimeOut(t)
    BY <2>17 DEF FenceTimeOut
  <2>18. CASE DirectLoad(t)
    BY <2>18 DEF DirectLoad
  <2>19. CASE DirectWriteAddr(t)
    BY <2>19 DEF DirectWriteAddr
  <2>20. CASE DirectWriteCmd(t)
    BY <2>20 DEF DirectWriteCmd
  <2>21. CASE DirectDone(t)
    BY <2>21 DEF DirectDone
  <2>22. CASE DirectGivesUp(t)
    BY <2>22 DEF DirectGivesUp
  <2>23. QED
    BY <1>2, <2>1, <2>2, <2>3, <2>4, <2>5, <2>6, <2>7, <2>8, <2>9, <2>10,
       <2>11, <2>12, <2>13, <2>14, <2>15, <2>16, <2>17, <2>18, <2>19, <2>20,
       <2>21, <2>22
<1>3. CASE Unload
  BY <1>3 DEF Unload, Ring
<1>4. CASE PspTakesRing
  BY <1>4 DEF PspTakesRing
<1>5. CASE PspReceive
  BY <1>5 DEF PspReceive
<1>6. CASE PspComplete
  BY <1>6 DEF PspComplete
<1>7. CASE PspDirectStart
  BY <1>7 DEF PspDirectStart
<1>8. CASE PspDirectDone
  BY <1>8 DEF PspDirectDone
<1>9. QED
  BY <1>1, <1>2, <1>3, <1>4, <1>5, <1>6, <1>7, <1>8 DEF Next, Psp

\* The mutex is owned by the submission past Acquire.
LEMMA OwnerNext ==
  ASSUME Type, MutexOwner, [Next]_vars
  PROVE  MutexOwner'
<1> USE PspAssumption DEF Type, MutexOwner, Pc, Submitting, Initing, HasRing,
                          InDirect, Goto, Unlock, thread, driver, memory, regs,
                          mailbox, firmware, history
<1>1. CASE UNCHANGED vars
  BY <1>1 DEF vars
<1>2. ASSUME NEW t \in Thread,
             InitCheck(t) \/ InitTosReady(t) \/ InitGivesUp(t) \/
             InitWriteAddr(t) \/ InitWriteCmd(t) \/ InitAcked(t) \/
             InitNotAcked(t) \/ Submit(t) \/ SubmitLock(t) \/ GetBuffers(t)
             \/ NoBuffers(t) \/ BuildCmd(t) \/ ResetFence(t) \/ Kick(t) \/
             FenceReached(t) \/ Response(t) \/ FenceTimeOut(t) \/
             DirectLoad(t) \/ DirectWriteAddr(t) \/ DirectWriteCmd(t) \/
             DirectDone(t) \/ DirectGivesUp(t)
      PROVE  MutexOwner'
  <2>1. CASE InitCheck(t)
    BY <2>1 DEF InitCheck
  <2>2. CASE InitTosReady(t)
    BY <2>2 DEF InitTosReady
  <2>3. CASE InitGivesUp(t)
    BY <2>3 DEF InitGivesUp
  <2>4. CASE InitWriteAddr(t)
    BY <2>4 DEF InitWriteAddr
  <2>5. CASE InitWriteCmd(t)
    BY <2>5 DEF InitWriteCmd
  <2>6. CASE InitAcked(t)
    BY <2>6 DEF InitAcked
  <2>7. CASE InitNotAcked(t)
    BY <2>7 DEF InitNotAcked
  <2>8. CASE Submit(t)
    BY <2>8 DEF Submit
  <2>9. CASE SubmitLock(t)
    BY <2>9 DEF SubmitLock
  <2>10. CASE GetBuffers(t)
    BY <2>10 DEF GetBuffers
  <2>11. CASE NoBuffers(t)
    BY <2>11 DEF NoBuffers
  <2>12. CASE BuildCmd(t)
    BY <2>12 DEF BuildCmd
  <2>13. CASE ResetFence(t)
    BY <2>13 DEF ResetFence
  <2>14. CASE Kick(t)
    BY <2>14 DEF Kick
  <2>15. CASE FenceReached(t)
    BY <2>15 DEF FenceReached
  <2>16. CASE Response(t)
    BY <2>16 DEF Response
  <2>17. CASE FenceTimeOut(t)
    BY <2>17 DEF FenceTimeOut
  <2>18. CASE DirectLoad(t)
    BY <2>18 DEF DirectLoad
  <2>19. CASE DirectWriteAddr(t)
    BY <2>19 DEF DirectWriteAddr
  <2>20. CASE DirectWriteCmd(t)
    BY <2>20 DEF DirectWriteCmd
  <2>21. CASE DirectDone(t)
    BY <2>21 DEF DirectDone
  <2>22. CASE DirectGivesUp(t)
    BY <2>22 DEF DirectGivesUp
  <2>23. QED
    BY <1>2, <2>1, <2>2, <2>3, <2>4, <2>5, <2>6, <2>7, <2>8, <2>9, <2>10,
       <2>11, <2>12, <2>13, <2>14, <2>15, <2>16, <2>17, <2>18, <2>19, <2>20,
       <2>21, <2>22
<1>3. CASE Unload
  BY <1>3 DEF Unload
<1>4. CASE PspTakesRing
  BY <1>4 DEF PspTakesRing
<1>5. CASE PspReceive
  BY <1>5 DEF PspReceive
<1>6. CASE PspComplete
  BY <1>6 DEF PspComplete
<1>7. CASE PspDirectStart
  BY <1>7 DEF PspDirectStart
<1>8. CASE PspDirectDone
  BY <1>8 DEF PspDirectDone
<1>9. QED
  BY <1>1, <1>2, <1>3, <1>4, <1>5, <1>6, <1>7, <1>8 DEF Next, Psp

\* A page has one owner.
LEMMA PagesNext ==
  ASSUME OneIniter, Type, Where, Pages, [Next]_vars
  PROVE  Pages'
<1> USE PspAssumption DEF OneIniter, Type, Where, Pages, Pc, Submitting,
                          Initing, HasRing, InDirect, Goto, Allocate, Free,
                          Page, thread, driver, memory, regs, mailbox, firmware,
                          history
<1>1. CASE UNCHANGED vars
  BY <1>1 DEF vars
<1>2. ASSUME NEW t \in Thread,
             InitCheck(t) \/ InitTosReady(t) \/ InitGivesUp(t) \/
             InitWriteAddr(t) \/ InitWriteCmd(t) \/ InitAcked(t) \/
             InitNotAcked(t) \/ Submit(t) \/ SubmitLock(t) \/ GetBuffers(t)
             \/ NoBuffers(t) \/ BuildCmd(t) \/ ResetFence(t) \/ Kick(t) \/
             FenceReached(t) \/ Response(t) \/ FenceTimeOut(t) \/
             DirectLoad(t) \/ DirectWriteAddr(t) \/ DirectWriteCmd(t) \/
             DirectDone(t) \/ DirectGivesUp(t)
      PROVE  Pages'
  <2>1. CASE InitCheck(t)
    BY <2>1 DEF InitCheck
  <2>2. CASE InitTosReady(t)
    BY <2>2 DEF InitTosReady
  <2>3. CASE InitGivesUp(t)
    BY <2>3 DEF InitGivesUp
  <2>4. CASE InitWriteAddr(t)
    BY <2>4 DEF InitWriteAddr
  <2>5. CASE InitWriteCmd(t)
    BY <2>5 DEF InitWriteCmd
  <2>6. CASE InitAcked(t)
    BY <2>6 DEF InitAcked
  <2>7. CASE InitNotAcked(t)
    BY <2>7 DEF InitNotAcked
  <2>8. CASE Submit(t)
    <3>1. CASE Allocate(t, Stage)
      BY <2>8, <3>1 DEF Submit
    <3>2. CASE UNCHANGED <<page, live>>
      BY <2>8, <3>2 DEF Submit
    <3>3. QED
      BY <2>8, <3>1, <3>2 DEF Submit
  <2>9. CASE SubmitLock(t)
    BY <2>9 DEF SubmitLock
  <2>10. CASE GetBuffers(t)
    BY <2>10 DEF GetBuffers
  <2>11. CASE NoBuffers(t)
    BY <2>11 DEF NoBuffers
  <2>12. CASE BuildCmd(t)
    BY <2>12 DEF BuildCmd
  <2>13. CASE ResetFence(t)
    BY <2>13 DEF ResetFence
  <2>14. CASE Kick(t)
    BY <2>14 DEF Kick
  <2>15. CASE FenceReached(t)
    BY <2>15 DEF FenceReached
  <2>16. CASE Response(t)
    BY <2>16 DEF Response
  <2>17. CASE FenceTimeOut(t)
    BY <2>17 DEF FenceTimeOut
  <2>18. CASE DirectLoad(t)
    BY <2>18 DEF DirectLoad
  <2>19. CASE DirectWriteAddr(t)
    BY <2>19 DEF DirectWriteAddr
  <2>20. CASE DirectWriteCmd(t)
    BY <2>20 DEF DirectWriteCmd
  <2>21. CASE DirectDone(t)
    BY <2>21 DEF DirectDone
  <2>22. CASE DirectGivesUp(t)
    BY <2>22 DEF DirectGivesUp
  <2>23. QED
    BY <1>2, <2>1, <2>2, <2>3, <2>4, <2>5, <2>6, <2>7, <2>8, <2>9, <2>10,
       <2>11, <2>12, <2>13, <2>14, <2>15, <2>16, <2>17, <2>18, <2>19, <2>20,
       <2>21, <2>22
<1>3. CASE Unload
  BY <1>3 DEF Unload
<1>4. CASE PspTakesRing
  BY <1>4 DEF PspTakesRing
<1>5. CASE PspReceive
  BY <1>5 DEF PspReceive
<1>6. CASE PspComplete
  BY <1>6 DEF PspComplete
<1>7. CASE PspDirectStart
  BY <1>7 DEF PspDirectStart
<1>8. CASE PspDirectDone
  BY <1>8 DEF PspDirectDone
<1>9. QED
  BY <1>1, <1>2, <1>3, <1>4, <1>5, <1>6, <1>7, <1>8 DEF Next, Psp

\* The handshake ends with the driver's ring in the PSP.
LEMMA RingNext ==
  ASSUME OneIniter, Type, Where, Pages, Ring, [Next]_vars
  PROVE  Ring'
<1> USE PspAssumption DEF OneIniter, Type, Where, Pages, Ring, Untouched,
                          Loaded, Pc, Submitting, Initing, HasRing, InDirect,
                          Goto, Allocate, Free, NoFrame, Page, thread, driver,
                          memory, regs, mailbox, firmware, history
<1>1. CASE UNCHANGED vars
  BY <1>1 DEF vars
<1>2. ASSUME NEW t \in Thread,
             InitCheck(t) \/ InitTosReady(t) \/ InitGivesUp(t) \/
             InitWriteAddr(t) \/ InitWriteCmd(t) \/ InitAcked(t) \/
             InitNotAcked(t) \/ Submit(t) \/ SubmitLock(t) \/ GetBuffers(t)
             \/ NoBuffers(t) \/ BuildCmd(t) \/ ResetFence(t) \/ Kick(t) \/
             FenceReached(t) \/ Response(t) \/ FenceTimeOut(t) \/
             DirectLoad(t) \/ DirectWriteAddr(t) \/ DirectWriteCmd(t) \/
             DirectDone(t) \/ DirectGivesUp(t)
      PROVE  Ring'
  <2>1. CASE InitCheck(t)
    BY <2>1 DEF InitCheck
  <2>2. CASE InitTosReady(t)
    BY <2>2 DEF InitTosReady
  <2>3. CASE InitGivesUp(t)
    BY <2>3 DEF InitGivesUp
  <2>4. CASE InitWriteAddr(t)
    BY <2>4 DEF InitWriteAddr
  <2>5. CASE InitWriteCmd(t)
    BY <2>5 DEF InitWriteCmd
  <2>6. CASE InitAcked(t)
    BY <2>6 DEF InitAcked
  <2>7. CASE InitNotAcked(t)
    BY <2>7 DEF InitNotAcked
  <2>8. CASE Submit(t)
    BY <2>8 DEF Submit
  <2>9. CASE SubmitLock(t)
    BY <2>9 DEF SubmitLock
  <2>10. CASE GetBuffers(t)
    BY <2>10 DEF GetBuffers
  <2>11. CASE NoBuffers(t)
    BY <2>11 DEF NoBuffers
  <2>12. CASE BuildCmd(t)
    BY <2>12 DEF BuildCmd
  <2>13. CASE ResetFence(t)
    BY <2>13 DEF ResetFence
  <2>14. CASE Kick(t)
    BY <2>14 DEF Kick
  <2>15. CASE FenceReached(t)
    BY <2>15 DEF FenceReached
  <2>16. CASE Response(t)
    BY <2>16 DEF Response
  <2>17. CASE FenceTimeOut(t)
    BY <2>17 DEF FenceTimeOut
  <2>18. CASE DirectLoad(t)
    BY <2>18 DEF DirectLoad
  <2>19. CASE DirectWriteAddr(t)
    BY <2>19 DEF DirectWriteAddr
  <2>20. CASE DirectWriteCmd(t)
    BY <2>20 DEF DirectWriteCmd
  <2>21. CASE DirectDone(t)
    BY <2>21 DEF DirectDone
  <2>22. CASE DirectGivesUp(t)
    BY <2>22 DEF DirectGivesUp
  <2>23. QED
    BY <1>2, <2>1, <2>2, <2>3, <2>4, <2>5, <2>6, <2>7, <2>8, <2>9, <2>10,
       <2>11, <2>12, <2>13, <2>14, <2>15, <2>16, <2>17, <2>18, <2>19, <2>20,
       <2>21, <2>22
<1>3. CASE Unload
  <2>1. ~ringCreated'
    BY <1>3 DEF Unload
  <2>2. Loaded' => ~ringCreated /\ Loaded
    BY <1>3 DEF Unload
  <2>3. QED
    BY <1>3, <2>1, <2>2 DEF Unload
<1>4. CASE PspTakesRing
  BY <1>4 DEF PspTakesRing
<1>5. CASE PspReceive
  BY <1>5 DEF PspReceive
<1>6. CASE PspComplete
  BY <1>6 DEF PspComplete
<1>7. CASE PspDirectStart
  BY <1>7 DEF PspDirectStart
<1>8. CASE PspDirectDone
  BY <1>8 DEF PspDirectDone
<1>9. QED
  BY <1>1, <1>2, <1>3, <1>4, <1>5, <1>6, <1>7, <1>8 DEF Next, Psp

\* The command and fence pages stay.
LEMMA BufferedNext ==
  ASSUME Type, Where, Ring, Frames, Buffered, [Next]_vars
  PROVE  Buffered'
<1> USE DEF Type, Where, Ring, Untouched, Buffered, Pending, Loaded, Pc,
            Submitting, Initing, HasRing, InDirect, Goto, thread, driver,
            memory, regs, mailbox, firmware, history
<1>1. CASE UNCHANGED vars
  BY <1>1 DEF vars
<1>2. ASSUME NEW t \in Thread,
             InitCheck(t) \/ InitTosReady(t) \/ InitGivesUp(t) \/
             InitWriteAddr(t) \/ InitWriteCmd(t) \/ InitAcked(t) \/
             InitNotAcked(t) \/ Submit(t) \/ SubmitLock(t) \/ GetBuffers(t)
             \/ NoBuffers(t) \/ BuildCmd(t) \/ ResetFence(t) \/ Kick(t) \/
             FenceReached(t) \/ Response(t) \/ FenceTimeOut(t) \/
             DirectLoad(t) \/ DirectWriteAddr(t) \/ DirectWriteCmd(t) \/
             DirectDone(t) \/ DirectGivesUp(t)
      PROVE  Buffered'
  <2>1. CASE InitCheck(t)
    BY <2>1 DEF InitCheck
  <2>2. CASE InitTosReady(t)
    BY <2>2 DEF InitTosReady
  <2>3. CASE InitGivesUp(t)
    BY <2>3 DEF InitGivesUp
  <2>4. CASE InitWriteAddr(t)
    BY <2>4 DEF InitWriteAddr
  <2>5. CASE InitWriteCmd(t)
    BY <2>5 DEF InitWriteCmd
  <2>6. CASE InitAcked(t)
    BY <2>6 DEF InitAcked
  <2>7. CASE InitNotAcked(t)
    BY <2>7 DEF InitNotAcked
  <2>8. CASE Submit(t)
    BY <2>8 DEF Submit
  <2>9. CASE SubmitLock(t)
    BY <2>9 DEF SubmitLock
  <2>10. CASE GetBuffers(t)
    BY <2>10 DEF GetBuffers
  <2>11. CASE NoBuffers(t)
    BY <2>11 DEF NoBuffers
  <2>12. CASE BuildCmd(t)
    BY <2>12 DEF BuildCmd
  <2>13. CASE ResetFence(t)
    BY <2>13 DEF ResetFence
  <2>14. CASE Kick(t)
    BY <2>14 DEF Kick
  <2>15. CASE FenceReached(t)
    BY <2>15 DEF FenceReached
  <2>16. CASE Response(t)
    BY <2>16 DEF Response
  <2>17. CASE FenceTimeOut(t)
    BY <2>17 DEF FenceTimeOut
  <2>18. CASE DirectLoad(t)
    BY <2>18 DEF DirectLoad
  <2>19. CASE DirectWriteAddr(t)
    BY <2>19 DEF DirectWriteAddr
  <2>20. CASE DirectWriteCmd(t)
    BY <2>20 DEF DirectWriteCmd
  <2>21. CASE DirectDone(t)
    BY <2>21 DEF DirectDone
  <2>22. CASE DirectGivesUp(t)
    BY <2>22 DEF DirectGivesUp
  <2>23. QED
    BY <1>2, <2>1, <2>2, <2>3, <2>4, <2>5, <2>6, <2>7, <2>8, <2>9, <2>10,
       <2>11, <2>12, <2>13, <2>14, <2>15, <2>16, <2>17, <2>18, <2>19, <2>20,
       <2>21, <2>22
<1>3. CASE Unload
  BY <1>3 DEF Unload
<1>4. CASE PspTakesRing
  BY <1>4 DEF PspTakesRing
<1>5. CASE PspReceive
  BY <1>5 DEF PspReceive
<1>6. CASE PspComplete
  BY <1>6 DEF PspComplete
<1>7. CASE PspDirectStart
  BY <1>7 DEF PspDirectStart
<1>8. CASE PspDirectDone
  BY <1>8 DEF PspDirectDone
<1>9. QED
  BY <1>1, <1>2, <1>3, <1>4, <1>5, <1>6, <1>7, <1>8 DEF Next, Psp

\* A fence value stays where it was put.
LEMMA FramesNext ==
  ASSUME Type, Where, MutexOwner, Ring, Frames, [Next]_vars
  PROVE  Frames'
<1> USE PspAssumption, NextSlot DEF Type, Where, MutexOwner, Frames, Pending,
                                    Pc, Submitting, Initing, HasRing, InDirect,
                                    Goto, NoFrame, thread, driver, memory, regs,
                                    mailbox, firmware, history
<1>1. CASE UNCHANGED vars
  BY <1>1 DEF vars
<1>2. ASSUME NEW t \in Thread,
             InitCheck(t) \/ InitTosReady(t) \/ InitGivesUp(t) \/
             InitWriteAddr(t) \/ InitWriteCmd(t) \/ InitAcked(t) \/
             InitNotAcked(t) \/ Submit(t) \/ SubmitLock(t) \/ GetBuffers(t)
             \/ NoBuffers(t) \/ BuildCmd(t) \/ ResetFence(t) \/ Kick(t) \/
             FenceReached(t) \/ Response(t) \/ FenceTimeOut(t) \/
             DirectLoad(t) \/ DirectWriteAddr(t) \/ DirectWriteCmd(t) \/
             DirectDone(t) \/ DirectGivesUp(t)
      PROVE  Frames'
  <2>1. CASE InitCheck(t)
    BY <2>1 DEF InitCheck
  <2>2. CASE InitTosReady(t)
    BY <2>2 DEF InitTosReady
  <2>3. CASE InitGivesUp(t)
    BY <2>3 DEF InitGivesUp
  <2>4. CASE InitWriteAddr(t)
    BY <2>4 DEF InitWriteAddr
  <2>5. CASE InitWriteCmd(t)
    BY <2>5 DEF InitWriteCmd
  <2>6. CASE InitAcked(t)
    BY <2>6 DEF InitAcked, Ring, Untouched, Loaded
  <2>7. CASE InitNotAcked(t)
    BY <2>7 DEF InitNotAcked
  <2>8. CASE Submit(t)
    BY <2>8 DEF Submit
  <2>9. CASE SubmitLock(t)
    BY <2>9 DEF SubmitLock
  <2>10. CASE GetBuffers(t)
    BY <2>10 DEF GetBuffers
  <2>11. CASE NoBuffers(t)
    BY <2>11 DEF NoBuffers
  <2>12. CASE BuildCmd(t)
    BY <2>12 DEF BuildCmd
  <2>13. CASE ResetFence(t)
    BY <2>13 DEF ResetFence
  <2>14. CASE Kick(t)
    BY <2>14 DEF Kick
  <2>15. CASE FenceReached(t)
    BY <2>15 DEF FenceReached
  <2>16. CASE Response(t)
    BY <2>16 DEF Response
  <2>17. CASE FenceTimeOut(t)
    BY <2>17 DEF FenceTimeOut
  <2>18. CASE DirectLoad(t)
    BY <2>18 DEF DirectLoad
  <2>19. CASE DirectWriteAddr(t)
    BY <2>19 DEF DirectWriteAddr
  <2>20. CASE DirectWriteCmd(t)
    BY <2>20 DEF DirectWriteCmd
  <2>21. CASE DirectDone(t)
    BY <2>21 DEF DirectDone
  <2>22. CASE DirectGivesUp(t)
    BY <2>22 DEF DirectGivesUp
  <2>23. QED
    BY <1>2, <2>1, <2>2, <2>3, <2>4, <2>5, <2>6, <2>7, <2>8, <2>9, <2>10,
       <2>11, <2>12, <2>13, <2>14, <2>15, <2>16, <2>17, <2>18, <2>19, <2>20,
       <2>21, <2>22
<1>3. CASE Unload
  BY <1>3 DEF Unload
<1>4. CASE PspTakesRing
  BY <1>4 DEF PspTakesRing, Ring, Untouched, Loaded
<1>5. CASE PspReceive
  BY <1>5 DEF PspReceive
<1>6. CASE PspComplete
  BY <1>6 DEF PspComplete
<1>7. CASE PspDirectStart
  BY <1>7 DEF PspDirectStart
<1>8. CASE PspDirectDone
  BY <1>8 DEF PspDirectDone
<1>9. QED
  BY <1>1, <1>2, <1>3, <1>4, <1>5, <1>6, <1>7, <1>8 DEF Next, Psp

\* What the PSP may read stays allocated.
LEMMA StagesNext ==
  ASSUME Type, Where, MutexOwner, Pages, Ring, Frames, Stages, [Next]_vars
  PROVE  Stages'
<1> USE PspAssumption DEF Type, MutexOwner, Pages, Stages, Safe, Pc, Submitting,
                          Initing, HasRing, InDirect, Goto, Allocate, Free,
                          Page, NoFrame, Pending, thread, driver, memory, regs,
                          mailbox, firmware, history
<1>1. CASE UNCHANGED vars
  BY <1>1 DEF vars
<1>2. ASSUME NEW t \in Thread,
             InitCheck(t) \/ InitTosReady(t) \/ InitGivesUp(t) \/
             InitWriteAddr(t) \/ InitWriteCmd(t) \/ InitAcked(t) \/
             InitNotAcked(t) \/ Submit(t) \/ SubmitLock(t) \/ GetBuffers(t)
             \/ NoBuffers(t) \/ BuildCmd(t) \/ ResetFence(t) \/ Kick(t) \/
             FenceReached(t) \/ Response(t) \/ FenceTimeOut(t) \/
             DirectLoad(t) \/ DirectWriteAddr(t) \/ DirectWriteCmd(t) \/
             DirectDone(t) \/ DirectGivesUp(t)
      PROVE  Stages'
  <2>1. CASE InitCheck(t)
    BY <2>1 DEF InitCheck
  <2>2. CASE InitTosReady(t)
    BY <2>2 DEF InitTosReady
  <2>3. CASE InitGivesUp(t)
    BY <2>3 DEF InitGivesUp
  <2>4. CASE InitWriteAddr(t)
    BY <2>4 DEF InitWriteAddr
  <2>5. CASE InitWriteCmd(t)
    BY <2>5 DEF InitWriteCmd
  <2>6. CASE InitAcked(t)
    BY <2>6 DEF InitAcked, Ring
  <2>7. CASE InitNotAcked(t)
    BY <2>7 DEF InitNotAcked
  <2>8. CASE Submit(t)
    BY <2>8 DEF Submit
  <2>9. CASE SubmitLock(t)
    BY <2>9 DEF SubmitLock
  <2>10. CASE GetBuffers(t)
    BY <2>10 DEF GetBuffers
  <2>11. CASE NoBuffers(t)
    BY <2>11 DEF NoBuffers
  <2>12. CASE BuildCmd(t)
    BY <2>12 DEF BuildCmd
  <2>13. CASE ResetFence(t)
    BY <2>13 DEF ResetFence
  <2>14. CASE Kick(t)
    BY <2>14 DEF Kick
  <2>15. CASE FenceReached(t)
    BY <2>15 DEF FenceReached, Frames
  <2>16. CASE Response(t)
    BY <2>16 DEF Response, Frames
  <2>17. CASE FenceTimeOut(t)
    BY <2>17 DEF FenceTimeOut
  <2>18. CASE DirectLoad(t)
    BY <2>18 DEF DirectLoad
  <2>19. CASE DirectWriteAddr(t)
    BY <2>19 DEF DirectWriteAddr
  <2>20. CASE DirectWriteCmd(t)
    BY <2>20 DEF DirectWriteCmd
  <2>21. CASE DirectDone(t)
    BY <2>21 DEF DirectDone
  <2>22. CASE DirectGivesUp(t)
    BY <2>22 DEF DirectGivesUp
  <2>23. QED
    BY <1>2, <2>1, <2>2, <2>3, <2>4, <2>5, <2>6, <2>7, <2>8, <2>9, <2>10,
       <2>11, <2>12, <2>13, <2>14, <2>15, <2>16, <2>17, <2>18, <2>19, <2>20,
       <2>21, <2>22
<1>3. CASE Unload
  BY <1>3 DEF Unload
<1>4. CASE PspTakesRing
  BY <1>4 DEF PspTakesRing, Ring, Untouched
<1>5. CASE PspReceive
  BY <1>5 DEF PspReceive
<1>6. CASE PspComplete
  <2>1. cmd'.stage = cmd.stage
    BY <1>6 DEF PspComplete
  <2>2. Pending /\ exec'.stage = Null
    BY <1>6 DEF PspComplete
  <2>3. UNCHANGED <<pc, page, live, ringVa>>
    BY <1>6 DEF PspComplete
  <2>4. QED
    BY <2>1, <2>2, <2>3
<1>7. CASE PspDirectStart
  BY <1>7 DEF PspDirectStart
<1>8. CASE PspDirectDone
  BY <1>8 DEF PspDirectDone
<1>9. QED
  BY <1>1, <1>2, <1>3, <1>4, <1>5, <1>6, <1>7, <1>8 DEF Next, Psp

\* A direct load keeps its image.
LEMMA DirectNext ==
  ASSUME Type, Pages, Direct, [Next]_vars
  PROVE  Direct'
<1> USE PspAssumption DEF Type, Pages, Direct, Pc, Submitting, Initing, HasRing,
                          InDirect, Goto, Allocate, Free, Page, thread, driver,
                          memory, regs, mailbox, firmware, history
<1>1. CASE UNCHANGED vars
  BY <1>1 DEF vars
<1>2. ASSUME NEW t \in Thread,
             InitCheck(t) \/ InitTosReady(t) \/ InitGivesUp(t) \/
             InitWriteAddr(t) \/ InitWriteCmd(t) \/ InitAcked(t) \/
             InitNotAcked(t) \/ Submit(t) \/ SubmitLock(t) \/ GetBuffers(t)
             \/ NoBuffers(t) \/ BuildCmd(t) \/ ResetFence(t) \/ Kick(t) \/
             FenceReached(t) \/ Response(t) \/ FenceTimeOut(t) \/
             DirectLoad(t) \/ DirectWriteAddr(t) \/ DirectWriteCmd(t) \/
             DirectDone(t) \/ DirectGivesUp(t)
      PROVE  Direct'
  <2>1. CASE InitCheck(t)
    BY <2>1 DEF InitCheck
  <2>2. CASE InitTosReady(t)
    BY <2>2 DEF InitTosReady
  <2>3. CASE InitGivesUp(t)
    BY <2>3 DEF InitGivesUp
  <2>4. CASE InitWriteAddr(t)
    BY <2>4 DEF InitWriteAddr
  <2>5. CASE InitWriteCmd(t)
    BY <2>5 DEF InitWriteCmd
  <2>6. CASE InitAcked(t)
    BY <2>6 DEF InitAcked
  <2>7. CASE InitNotAcked(t)
    BY <2>7 DEF InitNotAcked
  <2>8. CASE Submit(t)
    BY <2>8 DEF Submit
  <2>9. CASE SubmitLock(t)
    BY <2>9 DEF SubmitLock
  <2>10. CASE GetBuffers(t)
    BY <2>10 DEF GetBuffers
  <2>11. CASE NoBuffers(t)
    BY <2>11 DEF NoBuffers
  <2>12. CASE BuildCmd(t)
    BY <2>12 DEF BuildCmd
  <2>13. CASE ResetFence(t)
    BY <2>13 DEF ResetFence
  <2>14. CASE Kick(t)
    BY <2>14 DEF Kick
  <2>15. CASE FenceReached(t)
    BY <2>15 DEF FenceReached
  <2>16. CASE Response(t)
    BY <2>16 DEF Response
  <2>17. CASE FenceTimeOut(t)
    BY <2>17 DEF FenceTimeOut
  <2>18. CASE DirectLoad(t)
    <3>1. ~directRaced' => ~directRaced /\ \A u \in Thread : pc[u] \notin InDirect
      BY <2>18 DEF DirectLoad
    <3>2. QED
      BY <2>18, <3>1 DEF DirectLoad
  <2>19. CASE DirectWriteAddr(t)
    BY <2>19 DEF DirectWriteAddr
  <2>20. CASE DirectWriteCmd(t)
    BY <2>20 DEF DirectWriteCmd
  <2>21. CASE DirectDone(t)
    BY <2>21 DEF DirectDone
  <2>22. CASE DirectGivesUp(t)
    BY <2>22 DEF DirectGivesUp
  <2>23. QED
    BY <1>2, <2>1, <2>2, <2>3, <2>4, <2>5, <2>6, <2>7, <2>8, <2>9, <2>10,
       <2>11, <2>12, <2>13, <2>14, <2>15, <2>16, <2>17, <2>18, <2>19, <2>20,
       <2>21, <2>22
<1>3. CASE Unload
  BY <1>3 DEF Unload
<1>4. CASE PspTakesRing
  BY <1>4 DEF PspTakesRing
<1>5. CASE PspReceive
  BY <1>5 DEF PspReceive
<1>6. CASE PspComplete
  BY <1>6 DEF PspComplete
<1>7. CASE PspDirectStart
  BY <1>7 DEF PspDirectStart
<1>8. CASE PspDirectDone
  BY <1>8 DEF PspDirectDone
<1>9. QED
  BY <1>1, <1>2, <1>3, <1>4, <1>5, <1>6, <1>7, <1>8 DEF Next, Psp

\* Commands are numbered.
LEMMA IdsNext ==
  ASSUME Type, Ids, [Next]_vars
  PROVE  Ids'
<1> USE DEF Type, Ids, Pc, Submitting, Initing, HasRing, InDirect, Goto, thread,
            driver, memory, regs, mailbox, firmware, history
<1>1. CASE UNCHANGED vars
  BY <1>1 DEF vars
<1>2. ASSUME NEW t \in Thread,
             InitCheck(t) \/ InitTosReady(t) \/ InitGivesUp(t) \/
             InitWriteAddr(t) \/ InitWriteCmd(t) \/ InitAcked(t) \/
             InitNotAcked(t) \/ Submit(t) \/ SubmitLock(t) \/ GetBuffers(t)
             \/ NoBuffers(t) \/ BuildCmd(t) \/ ResetFence(t) \/ Kick(t) \/
             FenceReached(t) \/ Response(t) \/ FenceTimeOut(t) \/
             DirectLoad(t) \/ DirectWriteAddr(t) \/ DirectWriteCmd(t) \/
             DirectDone(t) \/ DirectGivesUp(t)
      PROVE  Ids'
  <2>1. CASE InitCheck(t)
    BY <2>1 DEF InitCheck
  <2>2. CASE InitTosReady(t)
    BY <2>2 DEF InitTosReady
  <2>3. CASE InitGivesUp(t)
    BY <2>3 DEF InitGivesUp
  <2>4. CASE InitWriteAddr(t)
    BY <2>4 DEF InitWriteAddr
  <2>5. CASE InitWriteCmd(t)
    BY <2>5 DEF InitWriteCmd
  <2>6. CASE InitAcked(t)
    BY <2>6 DEF InitAcked
  <2>7. CASE InitNotAcked(t)
    BY <2>7 DEF InitNotAcked
  <2>8. CASE Submit(t)
    BY <2>8 DEF Submit
  <2>9. CASE SubmitLock(t)
    BY <2>9 DEF SubmitLock
  <2>10. CASE GetBuffers(t)
    BY <2>10 DEF GetBuffers
  <2>11. CASE NoBuffers(t)
    BY <2>11 DEF NoBuffers
  <2>12. CASE BuildCmd(t)
    BY <2>12 DEF BuildCmd
  <2>13. CASE ResetFence(t)
    BY <2>13 DEF ResetFence
  <2>14. CASE Kick(t)
    BY <2>14 DEF Kick
  <2>15. CASE FenceReached(t)
    BY <2>15 DEF FenceReached
  <2>16. CASE Response(t)
    BY <2>16 DEF Response
  <2>17. CASE FenceTimeOut(t)
    BY <2>17 DEF FenceTimeOut
  <2>18. CASE DirectLoad(t)
    BY <2>18 DEF DirectLoad
  <2>19. CASE DirectWriteAddr(t)
    BY <2>19 DEF DirectWriteAddr
  <2>20. CASE DirectWriteCmd(t)
    BY <2>20 DEF DirectWriteCmd
  <2>21. CASE DirectDone(t)
    BY <2>21 DEF DirectDone
  <2>22. CASE DirectGivesUp(t)
    BY <2>22 DEF DirectGivesUp
  <2>23. QED
    BY <1>2, <2>1, <2>2, <2>3, <2>4, <2>5, <2>6, <2>7, <2>8, <2>9, <2>10,
       <2>11, <2>12, <2>13, <2>14, <2>15, <2>16, <2>17, <2>18, <2>19, <2>20,
       <2>21, <2>22
<1>3. CASE Unload
  BY <1>3 DEF Unload
<1>4. CASE PspTakesRing
  BY <1>4 DEF PspTakesRing
<1>5. CASE PspReceive
  BY <1>5 DEF PspReceive
<1>6. CASE PspComplete
  BY <1>6 DEF PspComplete
<1>7. CASE PspDirectStart
  BY <1>7 DEF PspDirectStart
<1>8. CASE PspDirectDone
  BY <1>8 DEF PspDirectDone
<1>9. QED
  BY <1>1, <1>2, <1>3, <1>4, <1>5, <1>6, <1>7, <1>8 DEF Next, Psp

\* Answers stay with their commands.
LEMMA AnswersNext ==
  ASSUME Type, Where, MutexOwner, Frames, Answers, [Next]_vars
  PROVE  Answers'
<1> USE DEF Type, MutexOwner, Frames, Answers, Pending, Pc, Submitting, Initing,
            HasRing, InDirect, Goto, NoFrame, NoOutcome, thread, driver, memory,
            regs, mailbox, firmware, history
<1>1. CASE UNCHANGED vars
  BY <1>1 DEF vars
<1>2. ASSUME NEW t \in Thread,
             InitCheck(t) \/ InitTosReady(t) \/ InitGivesUp(t) \/
             InitWriteAddr(t) \/ InitWriteCmd(t) \/ InitAcked(t) \/
             InitNotAcked(t) \/ Submit(t) \/ SubmitLock(t) \/ GetBuffers(t)
             \/ NoBuffers(t) \/ BuildCmd(t) \/ ResetFence(t) \/ Kick(t) \/
             FenceReached(t) \/ Response(t) \/ FenceTimeOut(t) \/
             DirectLoad(t) \/ DirectWriteAddr(t) \/ DirectWriteCmd(t) \/
             DirectDone(t) \/ DirectGivesUp(t)
      PROVE  Answers'
  <2>1. CASE InitCheck(t)
    BY <2>1 DEF InitCheck
  <2>2. CASE InitTosReady(t)
    BY <2>2 DEF InitTosReady
  <2>3. CASE InitGivesUp(t)
    BY <2>3 DEF InitGivesUp
  <2>4. CASE InitWriteAddr(t)
    BY <2>4 DEF InitWriteAddr
  <2>5. CASE InitWriteCmd(t)
    BY <2>5 DEF InitWriteCmd
  <2>6. CASE InitAcked(t)
    BY <2>6 DEF InitAcked, Where
  <2>7. CASE InitNotAcked(t)
    BY <2>7 DEF InitNotAcked
  <2>8. CASE Submit(t)
    BY <2>8 DEF Submit
  <2>9. CASE SubmitLock(t)
    BY <2>9 DEF SubmitLock
  <2>10. CASE GetBuffers(t)
    BY <2>10 DEF GetBuffers
  <2>11. CASE NoBuffers(t)
    BY <2>11 DEF NoBuffers
  <2>12. CASE BuildCmd(t)
    BY <2>12 DEF BuildCmd
  <2>13. CASE ResetFence(t)
    BY <2>13 DEF ResetFence
  <2>14. CASE Kick(t)
    BY <2>14 DEF Kick
  <2>15. CASE FenceReached(t)
    BY <2>15 DEF FenceReached
  <2>16. CASE Response(t)
    BY <2>16 DEF Response
  <2>17. CASE FenceTimeOut(t)
    BY <2>17 DEF FenceTimeOut
  <2>18. CASE DirectLoad(t)
    BY <2>18 DEF DirectLoad
  <2>19. CASE DirectWriteAddr(t)
    BY <2>19 DEF DirectWriteAddr
  <2>20. CASE DirectWriteCmd(t)
    BY <2>20 DEF DirectWriteCmd
  <2>21. CASE DirectDone(t)
    BY <2>21 DEF DirectDone
  <2>22. CASE DirectGivesUp(t)
    BY <2>22 DEF DirectGivesUp
  <2>23. QED
    BY <1>2, <2>1, <2>2, <2>3, <2>4, <2>5, <2>6, <2>7, <2>8, <2>9, <2>10,
       <2>11, <2>12, <2>13, <2>14, <2>15, <2>16, <2>17, <2>18, <2>19, <2>20,
       <2>21, <2>22
<1>3. CASE Unload
  BY <1>3 DEF Unload
<1>4. CASE PspTakesRing
  BY <1>4 DEF PspTakesRing
<1>5. CASE PspReceive
  BY <1>5 DEF PspReceive
<1>6. CASE PspComplete
  BY <1>6 DEF PspComplete
<1>7. CASE PspDirectStart
  BY <1>7 DEF PspDirectStart
<1>8. CASE PspDirectDone
  BY <1>8 DEF PspDirectDone
<1>9. QED
  BY <1>1, <1>2, <1>3, <1>4, <1>5, <1>6, <1>7, <1>8 DEF Next, Psp

\* An outcome is one command's.
LEMMA OutcomesNext ==
  ASSUME Answers, Outcomes, [Next]_vars
  PROVE  Outcomes'
<1> USE DEF Outcomes, Goto, NoOutcome, thread, driver, memory, regs, mailbox,
            firmware, history
<1>1. CASE UNCHANGED vars
  BY <1>1 DEF vars
<1>2. ASSUME NEW t \in Thread,
             InitCheck(t) \/ InitTosReady(t) \/ InitGivesUp(t) \/
             InitWriteAddr(t) \/ InitWriteCmd(t) \/ InitAcked(t) \/
             InitNotAcked(t) \/ Submit(t) \/ SubmitLock(t) \/ GetBuffers(t)
             \/ NoBuffers(t) \/ BuildCmd(t) \/ ResetFence(t) \/ Kick(t) \/
             FenceReached(t) \/ Response(t) \/ FenceTimeOut(t) \/
             DirectLoad(t) \/ DirectWriteAddr(t) \/ DirectWriteCmd(t) \/
             DirectDone(t) \/ DirectGivesUp(t)
      PROVE  Outcomes'
  <2>1. CASE InitCheck(t)
    BY <2>1 DEF InitCheck
  <2>2. CASE InitTosReady(t)
    BY <2>2 DEF InitTosReady
  <2>3. CASE InitGivesUp(t)
    BY <2>3 DEF InitGivesUp
  <2>4. CASE InitWriteAddr(t)
    BY <2>4 DEF InitWriteAddr
  <2>5. CASE InitWriteCmd(t)
    BY <2>5 DEF InitWriteCmd
  <2>6. CASE InitAcked(t)
    BY <2>6 DEF InitAcked
  <2>7. CASE InitNotAcked(t)
    BY <2>7 DEF InitNotAcked
  <2>8. CASE Submit(t)
    BY <2>8 DEF Submit
  <2>9. CASE SubmitLock(t)
    BY <2>9 DEF SubmitLock
  <2>10. CASE GetBuffers(t)
    BY <2>10 DEF GetBuffers
  <2>11. CASE NoBuffers(t)
    BY <2>11 DEF NoBuffers
  <2>12. CASE BuildCmd(t)
    BY <2>12 DEF BuildCmd
  <2>13. CASE ResetFence(t)
    BY <2>13 DEF ResetFence
  <2>14. CASE Kick(t)
    BY <2>14 DEF Kick
  <2>15. CASE FenceReached(t)
    BY <2>15 DEF FenceReached
  <2>16. CASE Response(t)
    BY <2>16 DEF Response, Answers
  <2>17. CASE FenceTimeOut(t)
    BY <2>17 DEF FenceTimeOut
  <2>18. CASE DirectLoad(t)
    BY <2>18 DEF DirectLoad
  <2>19. CASE DirectWriteAddr(t)
    BY <2>19 DEF DirectWriteAddr
  <2>20. CASE DirectWriteCmd(t)
    BY <2>20 DEF DirectWriteCmd
  <2>21. CASE DirectDone(t)
    BY <2>21 DEF DirectDone
  <2>22. CASE DirectGivesUp(t)
    BY <2>22 DEF DirectGivesUp
  <2>23. QED
    BY <1>2, <2>1, <2>2, <2>3, <2>4, <2>5, <2>6, <2>7, <2>8, <2>9, <2>10,
       <2>11, <2>12, <2>13, <2>14, <2>15, <2>16, <2>17, <2>18, <2>19, <2>20,
       <2>21, <2>22
<1>3. CASE Unload
  BY <1>3 DEF Unload
<1>4. CASE PspTakesRing
  BY <1>4 DEF PspTakesRing
<1>5. CASE PspReceive
  BY <1>5 DEF PspReceive
<1>6. CASE PspComplete
  BY <1>6 DEF PspComplete
<1>7. CASE PspDirectStart
  BY <1>7 DEF PspDirectStart
<1>8. CASE PspDirectDone
  BY <1>8 DEF PspDirectDone
<1>9. QED
  BY <1>1, <1>2, <1>3, <1>4, <1>5, <1>6, <1>7, <1>8 DEF Next, Psp

\* The record of executions keeps its type.
LEMMA ExecutedNext ==
  ASSUME Type, Executed, [Next]_vars
  PROVE  Executed'
<1> USE PspAssumption DEF Executed, Goto, thread, driver, memory, regs, mailbox,
                          firmware, history
<1>1. CASE UNCHANGED vars
  BY <1>1 DEF vars
<1>2. ASSUME NEW t \in Thread,
             InitCheck(t) \/ InitTosReady(t) \/ InitGivesUp(t) \/
             InitWriteAddr(t) \/ InitWriteCmd(t) \/ InitAcked(t) \/
             InitNotAcked(t) \/ Submit(t) \/ SubmitLock(t) \/ GetBuffers(t)
             \/ NoBuffers(t) \/ BuildCmd(t) \/ ResetFence(t) \/ Kick(t) \/
             FenceReached(t) \/ Response(t) \/ FenceTimeOut(t) \/
             DirectLoad(t) \/ DirectWriteAddr(t) \/ DirectWriteCmd(t) \/
             DirectDone(t) \/ DirectGivesUp(t)
      PROVE  Executed'
  <2>1. CASE InitCheck(t)
    BY <2>1 DEF InitCheck
  <2>2. CASE InitTosReady(t)
    BY <2>2 DEF InitTosReady
  <2>3. CASE InitGivesUp(t)
    BY <2>3 DEF InitGivesUp
  <2>4. CASE InitWriteAddr(t)
    BY <2>4 DEF InitWriteAddr
  <2>5. CASE InitWriteCmd(t)
    BY <2>5 DEF InitWriteCmd
  <2>6. CASE InitAcked(t)
    BY <2>6 DEF InitAcked
  <2>7. CASE InitNotAcked(t)
    BY <2>7 DEF InitNotAcked
  <2>8. CASE Submit(t)
    BY <2>8 DEF Submit, Type
  <2>9. CASE SubmitLock(t)
    BY <2>9 DEF SubmitLock
  <2>10. CASE GetBuffers(t)
    BY <2>10 DEF GetBuffers
  <2>11. CASE NoBuffers(t)
    BY <2>11 DEF NoBuffers
  <2>12. CASE BuildCmd(t)
    BY <2>12 DEF BuildCmd
  <2>13. CASE ResetFence(t)
    BY <2>13 DEF ResetFence
  <2>14. CASE Kick(t)
    BY <2>14 DEF Kick
  <2>15. CASE FenceReached(t)
    BY <2>15 DEF FenceReached
  <2>16. CASE Response(t)
    BY <2>16 DEF Response
  <2>17. CASE FenceTimeOut(t)
    BY <2>17 DEF FenceTimeOut
  <2>18. CASE DirectLoad(t)
    BY <2>18 DEF DirectLoad
  <2>19. CASE DirectWriteAddr(t)
    BY <2>19 DEF DirectWriteAddr
  <2>20. CASE DirectWriteCmd(t)
    BY <2>20 DEF DirectWriteCmd
  <2>21. CASE DirectDone(t)
    BY <2>21 DEF DirectDone
  <2>22. CASE DirectGivesUp(t)
    BY <2>22 DEF DirectGivesUp
  <2>23. QED
    BY <1>2, <2>1, <2>2, <2>3, <2>4, <2>5, <2>6, <2>7, <2>8, <2>9, <2>10,
       <2>11, <2>12, <2>13, <2>14, <2>15, <2>16, <2>17, <2>18, <2>19, <2>20,
       <2>21, <2>22
<1>3. CASE Unload
  BY <1>3 DEF Unload
<1>4. CASE PspTakesRing
  BY <1>4 DEF PspTakesRing
<1>5. CASE PspReceive
  BY <1>5 DEF PspReceive
<1>6. CASE PspComplete
  <2> DEFINE n == exec.id
  <2>1. UNCHANGED submitted /\ executed' = [executed EXCEPT ![n] = executed[n] + 1]
    BY <1>6 DEF PspComplete
  <2> HIDE DEF n
  <2>2. CASE n \in 1..MaxSubmit
    BY <2>1, <2>2
  <2>3. CASE n \notin 1..MaxSubmit
    BY <2>1, <2>3
  <2>4. QED
    BY <2>2, <2>3
<1>7. CASE PspDirectStart
  BY <1>7 DEF PspDirectStart
<1>8. CASE PspDirectDone
  BY <1>8 DEF PspDirectDone
<1>9. QED
  BY <1>1, <1>2, <1>3, <1>4, <1>5, <1>6, <1>7, <1>8 DEF Next, Psp

\* A command is executed once.
LEMMA OnceNext ==
  ASSUME Type, Where, MutexOwner, Ring, Frames, Executed, Ids, Answers,
         Once, [Next]_vars
  PROVE  Once'
<1> USE DEF Type, MutexOwner, Frames, Ids, Once, Pending, Pc, Submitting,
            Initing, HasRing, InDirect, Goto, thread, driver, memory, regs,
            mailbox, firmware, history
<1>1. CASE UNCHANGED vars
  BY <1>1 DEF vars
<1>2. ASSUME NEW t \in Thread,
             InitCheck(t) \/ InitTosReady(t) \/ InitGivesUp(t) \/
             InitWriteAddr(t) \/ InitWriteCmd(t) \/ InitAcked(t) \/
             InitNotAcked(t) \/ Submit(t) \/ SubmitLock(t) \/ GetBuffers(t)
             \/ NoBuffers(t) \/ BuildCmd(t) \/ ResetFence(t) \/ Kick(t) \/
             FenceReached(t) \/ Response(t) \/ FenceTimeOut(t) \/
             DirectLoad(t) \/ DirectWriteAddr(t) \/ DirectWriteCmd(t) \/
             DirectDone(t) \/ DirectGivesUp(t)
      PROVE  Once'
  <2>1. CASE InitCheck(t)
    BY <2>1 DEF InitCheck
  <2>2. CASE InitTosReady(t)
    BY <2>2 DEF InitTosReady
  <2>3. CASE InitGivesUp(t)
    BY <2>3 DEF InitGivesUp
  <2>4. CASE InitWriteAddr(t)
    BY <2>4 DEF InitWriteAddr
  <2>5. CASE InitWriteCmd(t)
    BY <2>5 DEF InitWriteCmd
  <2>6. CASE InitAcked(t)
    BY <2>6 DEF InitAcked
  <2>7. CASE InitNotAcked(t)
    BY <2>7 DEF InitNotAcked
  <2>8. CASE Submit(t)
    <3>1. submitted + 1 \in 1..MaxSubmit /\ submitted' = submitted + 1
      BY <2>8, PspAssumption DEF Submit, Executed
    <3>2. ~timedOut => executed[submitted + 1] = 0
      BY <3>1
    <3>3. id' = [id EXCEPT ![t] = submitted + 1] /\ UNCHANGED <<executed, timedOut>>
      BY <2>8 DEF Submit
    <3>4. QED
      BY <2>8, <3>1, <3>2, <3>3 DEF Submit
  <2>9. CASE SubmitLock(t)
    BY <2>9 DEF SubmitLock
  <2>10. CASE GetBuffers(t)
    BY <2>10 DEF GetBuffers
  <2>11. CASE NoBuffers(t)
    BY <2>11 DEF NoBuffers
  <2>12. CASE BuildCmd(t)
    BY <2>12 DEF BuildCmd
  <2>13. CASE ResetFence(t)
    BY <2>13 DEF ResetFence
  <2>14. CASE Kick(t)
    BY <2>14 DEF Kick
  <2>15. CASE FenceReached(t)
    BY <2>15 DEF FenceReached
  <2>16. CASE Response(t)
    BY <2>16 DEF Response
  <2>17. CASE FenceTimeOut(t)
    BY <2>17 DEF FenceTimeOut
  <2>18. CASE DirectLoad(t)
    BY <2>18 DEF DirectLoad
  <2>19. CASE DirectWriteAddr(t)
    BY <2>19 DEF DirectWriteAddr
  <2>20. CASE DirectWriteCmd(t)
    BY <2>20 DEF DirectWriteCmd
  <2>21. CASE DirectDone(t)
    BY <2>21 DEF DirectDone
  <2>22. CASE DirectGivesUp(t)
    BY <2>22 DEF DirectGivesUp
  <2>23. QED
    BY <1>2, <2>1, <2>2, <2>3, <2>4, <2>5, <2>6, <2>7, <2>8, <2>9, <2>10,
       <2>11, <2>12, <2>13, <2>14, <2>15, <2>16, <2>17, <2>18, <2>19, <2>20,
       <2>21, <2>22
<1>3. CASE Unload
  BY <1>3 DEF Unload
<1>4. CASE PspTakesRing
  BY <1>4 DEF PspTakesRing, Ring, Untouched
<1>5. CASE PspReceive
  BY <1>5 DEF PspReceive, Answers
<1>6. CASE PspComplete
  BY <1>6 DEF PspComplete, Answers
<1>7. CASE PspDirectStart
  BY <1>7 DEF PspDirectStart
<1>8. CASE PspDirectDone
  BY <1>8 DEF PspDirectDone
<1>9. QED
  BY <1>1, <1>2, <1>3, <1>4, <1>5, <1>6, <1>7, <1>8 DEF Next, Psp

-----------------------------------------------------------------------------
(* Theorems *)

\* The inductive invariant holds in every state.
LEMMA Invariant == OneIniter /\ Spec => []IInv
<1> SUFFICES ASSUME OneIniter PROVE Spec => []IInv
  OBVIOUS
<1>1. Init => IInv
  <2> SUFFICES ASSUME Init PROVE IInv
    OBVIOUS
  <2> USE PspAssumption DEF Init
  <2>1. Type
    <3>1. NoFrame \in [index : Nat, id : Nat, stage : Page] /\ 0 \in Slot
      BY DEF NoFrame, Page, Slot
    <3>2. cmd \in [id : Nat, stage : Page, answered : Nat]
      BY DEF Page
    <3>3. QED
      BY <3>1, <3>2 DEF Type, Pc, Page, Slot
  <2>2. Where /\ MutexOwner /\ Pages /\ Direct
    BY DEF Where, MutexOwner, Pages, Direct, Initing, HasRing, Submitting, InDirect
  <2>3. Ring /\ Buffered /\ Stages
    BY DEF Ring, Untouched, Buffered, Pending, Stages, Safe, Submitting, NoFrame
  <2>4. Frames
    BY DEF Frames, Slot, NoFrame
  <2>5. Ids /\ Answers /\ Once
    BY DEF Ids, Answers, Once, Pending, Submitting, NoFrame
  <2>6. Executed /\ Outcomes
    BY DEF Executed, Outcomes, NoOutcome
  <2>7. QED
    BY <2>1, <2>2, <2>3, <2>4, <2>5, <2>6 DEF IInv
<1>2. IInv /\ [Next]_vars => IInv'
  BY TypeNext, WhereNext, OwnerNext, PagesNext, RingNext, BufferedNext, FramesNext,
     StagesNext, DirectNext, IdsNext, AnswersNext, OutcomesNext,
     ExecutedNext, OnceNext DEF IInv
<1>3. QED
  BY <1>1, <1>2, PTL DEF Spec

\* Whatever times out and however late the PSP gets to a frame, the pages it
\* reads are allocated: the images, the ring, and the command and fence pages.
THEOREM PspPagesLive == OneIniter /\ Spec => []PspReadsLive
<1>1. IInv => PspReadsLive
  <2> SUFFICES ASSUME IInv PROVE PspReadsLive
    OBVIOUS
  <2>1. StagingOutlivesPsp
    BY DEF IInv, Stages, Safe, Pending, NoFrame, StagingOutlivesPsp
  <2>2. RingIsAcked
    BY DEF IInv, Ring, RingIsAcked
  <2>3. PagesOutlivePsp
    BY DEF IInv, Ring, Untouched, Buffered, Loaded, Pending, PagesOutlivePsp
  <2>4. DirectIsLive
    BY DEF IInv, Direct, Pages, InDirect, DirectIsLive
  <2>5. QED
    BY <2>1, <2>2, <2>3, <2>4 DEF PspReadsLive
<1>2. QED
  BY <1>1, Invariant, PTL

\* A submission that comes back with a response has the one to its own command,
\* and no command is executed twice unless a submission has timed out.
THEOREM CommandsRunOnce == OneIniter /\ Spec => []CommandsOnce
<1>1. IInv => CommandsOnce
  <2> SUFFICES ASSUME IInv PROVE CommandsOnce
    OBVIOUS
  <2>1. OwnResponse
    BY DEF IInv, Outcomes, OwnResponse
  <2>2. TwiceNeedsTimeout
    BY DEF IInv, Executed, Once, TwiceNeedsTimeout
  <2>3. QED
    BY <2>1, <2>2 DEF CommandsOnce
<1>2. QED
  BY <1>1, Invariant, PTL
=============================================================================
