------------------------------ MODULE PspRing -------------------------------
(***************************************************************************)
(* The PSP's GPCOM ring: PSP_RING_INIT, the three IOCTLs that submit a     *)
(* frame (SUBMIT, LOAD_IP_FW, SETUP_TMR), the direct firmware mailbox      *)
(* PSP_LOAD_IP_FW, and what DriverUnload does to the pages.                *)
(*                                                                         *)
(* Every frame names the same command page and the same fence page; the    *)
(* PSP reads the command when it gets to the frame, which may be after the *)
(* driver has stopped waiting.  A firmware image is staged in a page of    *)
(* its own that the command names.                                         *)
(***************************************************************************)
EXTENDS Naturals

CONSTANTS Thread,     \* IRPs in the driver at the same time
          Initer,     \* the ones that may be PSP_RING_INIT
          RingPage,   \* pages a ring can be allocated in
          Stage,      \* pages firmware can be staged in
          Slots,      \* frames a ring holds (64 in the driver)
          MaxSubmit,  \* bound: commands submitted in a behaviour
          Null        \* no page, and the owner of a free mutex

ASSUME PspAssumption ==
  /\ Initer \subseteq Thread
  /\ Null \notin Thread \cup RingPage \cup Stage
  /\ Slots \in Nat \ {0} /\ MaxSubmit \in Nat

VARIABLES
  pc,            \* where each thread is
  page,          \* its local ringVa, fwStageVa or fwVa
  id,            \* the command it submitted
  index,         \* the fence value it polls for
  mutex,         \* owner of DeviceMutex
  live,          \* pages that are allocated
  ringVa,        \* DevExt->PspRingVa
  ringCreated,   \* DevExt->PspRingCreated
  wptr,          \* DevExt->PspRingWptr, in frames
  fenceValue,    \* DevExt->PspFenceValue
  buffers,       \* PspCmdVa and PspFenceVa are allocated
  submitted,     \* commands so far
  cmd,           \* the command page: its command, and the command answered
  fence,         \* the fence page
  frame,         \* the fence value each slot of the ring asks for
  reg69,         \* C2PMSG_69/70: the ring address given to the PSP
  c64,           \* C2PMSG_64: "ready" (bit 31) or a ring-init command
  reg67,         \* C2PMSG_67: the write pointer given to the PSP
  reg36,         \* C2PMSG_36/37: the image of the direct mailbox
  c35,           \* C2PMSG_35: "done" (bit 31) or a load command
  pspRing,       \* PSP: the ring it reads
  rptr,          \* PSP: the next slot
  exec,          \* PSP: the frame it is executing
  direct,        \* PSP: the image it is loading from the direct mailbox
  executed,      \* history: how often each command was executed
  timedOut,      \* history: a submission has stopped waiting
  directRaced,   \* history: a direct load gave up, or two were under way
  outcome        \* history: what a thread's last submission came back with

Pc == {"Idle", "InitCheck", "InitTos", "InitAddr", "InitCmd", "InitAck",
       "Acquire", "Buffers", "BuildCmd", "ResetFence", "Kick", "PollFence",
       "Response", "DirectAddr", "DirectCmd", "DirectWait", "Unloaded"}

NoFrame   == [index |-> 0, id |-> 0, stage |-> Null]
NoOutcome == [id |-> 0, answered |-> 0]

thread  == <<pc, page, id, index>>
driver  == <<ringVa, ringCreated, wptr, fenceValue, buffers, submitted>>
memory  == <<cmd, fence, frame>>
regs    == <<reg69, c64, reg67>>
mailbox == <<reg36, c35>>
firmware == <<pspRing, rptr, exec>>
history == <<executed, timedOut, directRaced, outcome>>
vars == <<thread, mutex, live, driver, memory, regs, mailbox, firmware, direct,
          history>>

Init ==
  /\ pc = [t \in Thread |-> "Idle"]
  /\ page = [t \in Thread |-> Null]
  /\ id = [t \in Thread |-> 0]
  /\ index = [t \in Thread |-> 0]
  /\ mutex = Null
  /\ live = {}
  /\ ringVa = Null /\ ringCreated = FALSE /\ wptr = 0 /\ fenceValue = 0
  /\ buffers = FALSE /\ submitted = 0
  /\ cmd = [id |-> 0, stage |-> Null, answered |-> 0]
  /\ fence = 0
  /\ frame = [s \in 0..Slots - 1 |-> 0]
  /\ reg69 = Null /\ c64 = "ready" /\ reg67 = 0
  /\ reg36 = Null /\ c35 = "done"
  /\ pspRing = Null /\ rptr = 0 /\ exec = NoFrame
  /\ direct = Null
  /\ executed = [n \in 1..MaxSubmit |-> 0] /\ timedOut = FALSE
  /\ directRaced = FALSE
  /\ outcome = [t \in Thread |-> NoOutcome]

Goto(t, from, to) == pc[t] = from /\ pc' = [pc EXCEPT ![t] = to]

\* A page that is free becomes t's; MmFreeContiguousMemory.
Allocate(t, pages) == \E p \in pages \ live : /\ page' = [page EXCEPT ![t] = p]
                                              /\ live' = live \cup {p}
Free(t) == /\ live' = live \ {page[t]}
           /\ page' = [page EXCEPT ![t] = Null]

-----------------------------------------------------------------------------
(* PSP_RING_INIT: without the mutex *)

\* Nothing to do if the ring exists already.
InitCheck(t) ==
  /\ t \in Initer
  /\ ~ringCreated
  /\ Goto(t, "Idle", "InitTos")
  /\ UNCHANGED <<page, id, index, mutex, live, driver, memory, regs, mailbox,
                 firmware, direct, history>>

\* Waits for bit 31, allocates, and publishes the page before the PSP has it.
InitTosReady(t) ==
  /\ c64 = "ready"
  /\ Goto(t, "InitTos", "InitAddr")
  /\ Allocate(t, RingPage)
  /\ ringVa' = page'[t]
  /\ UNCHANGED <<id, index, mutex, ringCreated, wptr, fenceValue, buffers,
                 submitted, memory, regs, mailbox, firmware, direct, history>>

\* Time-out, or no memory.
InitGivesUp(t) ==
  /\ Goto(t, "InitTos", "Idle")
  /\ UNCHANGED <<page, id, index, mutex, live, driver, memory, regs, mailbox,
                 firmware, direct, history>>

InitWriteAddr(t) ==
  /\ Goto(t, "InitAddr", "InitCmd")
  /\ reg69' = page[t]
  /\ UNCHANGED <<page, id, index, mutex, live, driver, memory, c64, reg67,
                 mailbox, firmware, direct, history>>

InitWriteCmd(t) ==
  /\ Goto(t, "InitCmd", "InitAck")
  /\ c64' = "ringInit"
  /\ UNCHANGED <<page, id, index, mutex, live, driver, memory, reg69, reg67,
                 mailbox, firmware, direct, history>>

InitAcked(t) ==
  /\ c64 = "ready"
  /\ Goto(t, "InitAck", "Idle")
  /\ ringCreated' = TRUE
  /\ wptr' = 0
  /\ fenceValue' = 0
  /\ page' = [page EXCEPT ![t] = Null]
  /\ UNCHANGED <<id, index, mutex, live, ringVa, buffers, submitted, memory,
                 regs, mailbox, firmware, direct, history>>

\* The page is freed while the PSP may still take it for its ring.
InitNotAcked(t) ==
  /\ c64 # "ready"
  /\ Goto(t, "InitAck", "Idle")
  /\ Free(t)
  /\ ringVa' = Null
  /\ UNCHANGED <<id, index, mutex, ringCreated, wptr, fenceValue, buffers,
                 submitted, memory, regs, mailbox, firmware, direct, history>>

-----------------------------------------------------------------------------
(* The submitting IOCTLs *)

\* The ring is looked at before the mutex is taken.  LOAD_IP_FW also stages its
\* image there; the other commands have none.
Submit(t) ==
  /\ ringCreated /\ ringVa # Null
  /\ submitted < MaxSubmit
  /\ Goto(t, "Idle", "Acquire")
  /\ Allocate(t, Stage) \/ UNCHANGED <<page, live>>
  /\ submitted' = submitted + 1
  /\ id' = [id EXCEPT ![t] = submitted + 1]
  /\ UNCHANGED <<index, mutex, ringVa, ringCreated, wptr, fenceValue, buffers,
                 memory, regs, mailbox, firmware, direct, history>>

SubmitLock(t) ==
  /\ Goto(t, "Acquire", "Buffers")
  /\ mutex = Null
  /\ mutex' = t
  /\ UNCHANGED <<page, id, index, live, driver, memory, regs, mailbox,
                 firmware, direct, history>>

Unlock(t) == mutex = t /\ mutex' = Null

\* The command and fence pages are allocated by the first submission.
GetBuffers(t) ==
  /\ Goto(t, "Buffers", "BuildCmd")
  /\ buffers' = TRUE
  /\ UNCHANGED <<page, id, index, mutex, live, ringVa, ringCreated, wptr,
                 fenceValue, submitted, memory, regs, mailbox, firmware, direct,
                 history>>

NoBuffers(t) ==
  /\ ~buffers
  /\ Goto(t, "Buffers", "Idle")
  /\ Free(t)
  /\ Unlock(t)
  /\ UNCHANGED <<id, index, driver, memory, regs, mailbox, firmware, direct,
                 history>>

BuildCmd(t) ==
  /\ Goto(t, "BuildCmd", "ResetFence")
  /\ cmd' = [id |-> id[t], stage |-> page[t], answered |-> 0]
  /\ UNCHANGED <<page, id, index, mutex, live, driver, fence, frame, regs,
                 mailbox, firmware, direct, history>>

\* Reusing the fence value of the submission before.
SameFence(t) ==
  /\ Goto(t, "ResetFence", "Kick")
  /\ index' = [index EXCEPT ![t] = fenceValue]
  /\ UNCHANGED <<page, id, mutex, live, driver, memory, regs, mailbox,
                 firmware, direct, history>>

\* The fence page is cleared and the next fence value taken.
ResetFence(t) ==
  /\ Goto(t, "ResetFence", "Kick")
  /\ fenceValue' = fenceValue + 1
  /\ index' = [index EXCEPT ![t] = fenceValue + 1]
  /\ fence' = 0
  /\ UNCHANGED <<page, id, mutex, live, ringVa, ringCreated, wptr, buffers,
                 submitted, cmd, frame, regs, mailbox, firmware, direct, history>>

\* The frame goes to slot wptr, then C2PMSG_67 tells the PSP.
Kick(t) ==
  /\ Goto(t, "Kick", "PollFence")
  /\ frame' = [frame EXCEPT ![wptr] = index[t]]
  /\ wptr' = (wptr + 1) % Slots
  /\ reg67' = (wptr + 1) % Slots
  /\ UNCHANGED <<page, id, index, mutex, live, ringVa, ringCreated, fenceValue,
                 buffers, submitted, cmd, fence, reg69, c64, mailbox, firmware,
                 direct, history>>

FenceReached(t) ==
  /\ fence = index[t]
  /\ Goto(t, "PollFence", "Response")
  /\ UNCHANGED <<page, id, index, mutex, live, driver, memory, regs, mailbox,
                 firmware, direct, history>>

\* The response is read and the image freed.
Response(t) ==
  /\ Goto(t, "Response", "Idle")
  /\ outcome' = [outcome EXCEPT ![t] = [id |-> id[t], answered |-> cmd.answered]]
  /\ Free(t)
  /\ Unlock(t)
  /\ UNCHANGED <<id, index, driver, memory, regs, mailbox, firmware, direct,
                 executed, timedOut, directRaced>>

\* Freeing the image on time-out too.
FenceTimeOutFrees(t) ==
  /\ fence # index[t]
  /\ Goto(t, "PollFence", "Idle")
  /\ outcome' = [outcome EXCEPT ![t] = NoOutcome]
  /\ timedOut' = TRUE
  /\ Free(t)
  /\ Unlock(t)
  /\ UNCHANGED <<id, index, driver, memory, regs, mailbox, firmware, direct,
                 executed, directRaced>>

\* 500 polls: the image stays allocated for good.
FenceTimeOut(t) ==
  /\ fence # index[t]
  /\ Goto(t, "PollFence", "Idle")
  /\ outcome' = [outcome EXCEPT ![t] = NoOutcome]
  /\ timedOut' = TRUE
  /\ page' = [page EXCEPT ![t] = Null]
  /\ Unlock(t)
  /\ UNCHANGED <<id, index, live, driver, memory, regs, mailbox, firmware,
                 direct, executed, directRaced>>

-----------------------------------------------------------------------------
(* PSP_LOAD_IP_FW: the direct mailbox, without the mutex *)

InDirect == {"DirectAddr", "DirectCmd", "DirectWait"}

DirectLoad(t) ==
  /\ Goto(t, "Idle", "DirectAddr")
  /\ Allocate(t, Stage)
  /\ directRaced' = (directRaced \/ \E u \in Thread : pc[u] \in InDirect)
  /\ UNCHANGED <<id, index, mutex, driver, memory, regs, mailbox, firmware,
                 direct, executed, timedOut, outcome>>

DirectWriteAddr(t) ==
  /\ Goto(t, "DirectAddr", "DirectCmd")
  /\ reg36' = page[t]
  /\ UNCHANGED <<page, id, index, mutex, live, driver, memory, regs, c35,
                 firmware, direct, history>>

DirectWriteCmd(t) ==
  /\ Goto(t, "DirectCmd", "DirectWait")
  /\ c35' = "load"
  /\ UNCHANGED <<page, id, index, mutex, live, driver, memory, regs, reg36,
                 firmware, direct, history>>

DirectDone(t) ==
  /\ c35 = "done"
  /\ Goto(t, "DirectWait", "Idle")
  /\ Free(t)
  /\ UNCHANGED <<id, index, mutex, driver, memory, regs, mailbox, firmware,
                 direct, history>>

\* 100 polls: the image is freed all the same.
DirectGivesUp(t) ==
  /\ c35 # "done"
  /\ Goto(t, "DirectWait", "Idle")
  /\ Free(t)
  /\ directRaced' = TRUE
  /\ UNCHANGED <<id, index, mutex, driver, memory, regs, mailbox, firmware,
                 direct, executed, timedOut, outcome>>

-----------------------------------------------------------------------------
\* DriverUnload runs when no IRP is left and frees the pages of the ring.
Unload ==
  /\ \A t \in Thread : pc[t] = "Idle"
  /\ pc' = [t \in Thread |-> "Unloaded"]
  /\ live' = live \ {ringVa}
  /\ ringVa' = Null
  /\ ringCreated' = (ringCreated /\ ringVa = Null)
  /\ buffers' = FALSE
  /\ UNCHANGED <<page, id, index, mutex, wptr, fenceValue, submitted, memory,
                 regs, mailbox, firmware, direct, history>>

-----------------------------------------------------------------------------
(* The PSP *)

PspTakesRing ==
  /\ c64 = "ringInit"
  /\ c64' = "ready"
  /\ pspRing' = reg69
  /\ rptr' = 0
  /\ UNCHANGED <<thread, mutex, live, driver, memory, reg69, reg67, mailbox,
                 exec, direct, history>>

\* It reads the frame, and through it the command page as it is now.
PspReceive ==
  /\ pspRing # Null /\ rptr # reg67 /\ exec = NoFrame
  /\ exec' = [index |-> frame[rptr], id |-> cmd.id, stage |-> cmd.stage]
  /\ UNCHANGED <<thread, mutex, live, driver, memory, regs, mailbox,
                 pspRing, rptr, direct, history>>

\* It has executed it: response, then fence.
PspComplete ==
  /\ exec # NoFrame
  /\ exec' = NoFrame
  /\ rptr' = (rptr + 1) % Slots
  /\ cmd' = [cmd EXCEPT !.answered = exec.id]
  /\ fence' = exec.index
  /\ executed' = [executed EXCEPT ![exec.id] = @ + 1]
  /\ UNCHANGED <<thread, mutex, live, driver, frame, regs, mailbox, pspRing,
                 direct, timedOut, directRaced, outcome>>

PspDirectStart ==
  /\ c35 = "load" /\ direct = Null
  /\ direct' = reg36
  /\ UNCHANGED <<thread, mutex, live, driver, memory, regs, mailbox, firmware,
                 history>>

PspDirectDone ==
  /\ direct # Null
  /\ direct' = Null
  /\ c35' = "done"
  /\ UNCHANGED <<thread, mutex, live, driver, memory, regs, reg36, firmware,
                 history>>

Psp == PspTakesRing \/ PspReceive \/ PspComplete \/ PspDirectStart \/ PspDirectDone

Next ==
  \/ \E t \in Thread :
       \/ InitCheck(t) \/ InitTosReady(t) \/ InitGivesUp(t) \/ InitWriteAddr(t)
       \/ InitWriteCmd(t) \/ InitAcked(t) \/ InitNotAcked(t)
       \/ Submit(t) \/ SubmitLock(t) \/ GetBuffers(t) \/ NoBuffers(t)
       \/ BuildCmd(t) \/ ResetFence(t) \/ Kick(t) \/ FenceReached(t)
       \/ Response(t) \/ FenceTimeOut(t)
       \/ DirectLoad(t) \/ DirectWriteAddr(t) \/ DirectWriteCmd(t)
       \/ DirectDone(t) \/ DirectGivesUp(t)
  \/ Unload
  \/ Psp

Spec == Init /\ [][Next]_vars
-----------------------------------------------------------------------------
(* Properties *)

Pending == exec # NoFrame \/ rptr # reg67

\* amdbc250_dream_kmd.c:9476-9480: the staging buffer is freed only once the
\* fence confirms that the PSP is done reading it.
StagingOutlivesPsp ==
  /\ exec.stage # Null => exec.stage \in live
  /\ rptr # reg67 /\ cmd.stage # Null => cmd.stage \in live

\* inc/amdbc250_dream_kmd.h:471 calls PspRingCreated "KM ring initialized and
\* ACKed": the ring the driver writes is the allocated one the PSP reads.
RingIsAcked ==
  ringCreated => ringVa # Null /\ ringVa \in live /\ pspRing = ringVa

\* While the PSP has a frame to fetch or to answer, its ring, command and fence
\* pages are there; only DriverUnload takes them away without asking.
PagesOutlivePsp ==
  Pending /\ (\A t \in Thread : pc[t] # "Unloaded") => buffers /\ pspRing \in live

\* The image of the direct mailbox is there while the PSP loads it, if the
\* driver never stopped waiting for a load and never had two under way: the
\* handler frees it whatever the load returned and takes no mutex.
DirectIsLive == direct # Null /\ ~directRaced => direct \in live

\* The PSP reads, and is about to read, only pages the driver has not freed,
\* whenever it gets to them: the images a command names, the ring with its
\* command and fence pages, and the image of the direct mailbox.
PspReadsLive ==
  StagingOutlivesPsp /\ RingIsAcked /\ PagesOutlivePsp /\ DirectIsLive

\* A submission that reaches its fence reads the response to its own command,
\* although all commands share one page and late ones are still answered.
OwnResponse == \A t \in Thread : outcome[t].answered = outcome[t].id

\* The PSP executes a command twice only after some submission timed out: the
\* frame it left behind then runs whatever command the page holds next.
TwiceNeedsTimeout == (\E n \in 1..MaxSubmit : executed[n] > 1) => timedOut

\* Frames and commands stay in step through the one command page: no response
\* is taken for another's, and no command runs twice unless a wait timed out.
CommandsOnce == OwnResponse /\ TwiceNeedsTimeout

=============================================================================
