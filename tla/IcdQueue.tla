------------------------------- MODULE IcdQueue -------------------------------
(***************************************************************************)
(* How the Vulkan driver (bc250_vulkan_icd.c) submits work.  A command     *)
(* buffer is recorded in memory; vkQueueSubmit gathers what its command    *)
(* buffers hold into batches and sends them to the kernel driver with      *)
(* IOCTL_AMDBC250_SEND_PM4, the last batch of every submit with a fence    *)
(* number.  The kernel driver appends the packet that writes the fence and *)
(* cuts what leaves no room for it.                                        *)
(*                                                                         *)
(* Every device submits through the handle and the fence counter of one    *)
(* global, g_Device, and nothing locks it: threads that use devices of     *)
(* their own, as Vulkan lets them, meet there.  A dword is named by the    *)
(* entry of the submit that holds it, its place in the command buffer and  *)
(* the command buffer.                                                     *)
(***************************************************************************)
EXTENDS Naturals, Sequences, SequencesExt

CONSTANTS
  Thread,    \* threads of the application, each with a device of its own
  Cb,        \* command buffers
  Submits,   \* the pSubmits of a call: sequences of sequences of command
             \* buffers; Other stands for an entry of another sType
  Cmds,      \* dwords one SEND_PM4 carries: 64
  Eop,       \* dwords of the packet that writes the fence: 6
  Packet,    \* dwords of a draw: 3
  Capacity,  \* dwords of a command buffer
  None,      \* no device
  Other,
  Nop        \* the packet of a submit without commands

ASSUME BatchAssumption ==
  /\ {Cmds, Eop, Packet, Capacity} \subseteq Nat
  /\ Eop < Cmds

ASSUME SubmitsAssumption == Submits \subseteq Seq(Seq(Cb) \cup {Other})

VARIABLES
  kmd,    \* g_Device.kmdDevice; 0 is NULL and INVALID_HANDLE_VALUE
  fence,  \* g_Device.fenceValue
  device, \* handle of each thread's device, 0 if it could not be opened
  opened, \* handles of the kernel driver; none is ever closed
  cb,     \* command buffers: [used, recording], used in dwords
  call,   \* the vkQueueSubmit each thread is in
  taken,  \* history: what the kernel driver took of each thread's submits,
          \* [s, dwords, fence]: fence 0 means none
  mark,   \* history: [sent, made]: the highest fence number sent and made
  order   \* history: [fresh, crossed]: every number was higher than the last;
          \* two users of the counter have been between its read and its write

handles == <<kmd, device, opened>>
queue == <<kmd, fence, device, opened, cb, call, taken, mark, order>>

NopDword == <<0, 0, Nop>>

NoCall == [pc |-> "idle", subs |-> <<>>, s |-> 0, base |-> 0, i |-> 0, at |-> 0,
           handle |-> 0, batch |-> <<>>, any |-> FALSE, excuse |-> FALSE]

QueueInit ==
  /\ kmd = 0 /\ fence = 0
  /\ device = [t \in Thread |-> None] /\ opened = 0
  /\ cb = [b \in Cb |-> [used |-> 0, recording |-> FALSE]]
  /\ call = [t \in Thread |-> NoCall] /\ taken = [t \in Thread |-> <<>>]
  /\ mark = [sent |-> 0, made |-> 0]
  /\ order = [fresh |-> TRUE, crossed |-> FALSE]

Idle(t) == call[t].pc = "idle"

\* Threads between reading the fence counter and writing it back.
Counting == {t \in Thread : call[t].pc \in {"next", "gather", "nop"}}

----------------------------------------------------------------------------
(* Devices and fences.                                                     *)

\* bc250_open_kmd: a fresh handle, or none.
Open(handle) == handle \in {0, opened + 1} /\ opened' = IF handle = 0 THEN opened ELSE handle

\* A device that cannot be opened is a device all the same.  The first one
\* makes the counter 1 (the initialiser of g_Device that is meant for it sets
\* nextGpuVa): the kernel driver writes no fence whose number is 0.
CreateDevice(t) ==
  /\ Idle(t) /\ device[t] = None
  /\ \E handle \in {0, opened + 1} :
       /\ Open(handle)
       /\ device' = [device EXCEPT ![t] = handle]
       /\ kmd' = IF kmd = 0 THEN handle ELSE kmd
  /\ fence' = IF fence = 0 THEN 1 ELSE fence
  /\ UNCHANGED <<cb, call, taken, mark, order>>

\* The handle is not closed, only forgotten.
DestroyDevice(t) ==
  /\ Idle(t) /\ device[t] # None
  /\ device' = [device EXCEPT ![t] = None]
  /\ kmd' = IF kmd = device[t] THEN 0 ELSE kmd
  /\ UNCHANGED <<fence, opened, cb, call, taken, mark, order>>

\* The handle of a fence is the number it counts up to; waiting for it and
\* asking for its status always succeed.
CreateFence(t) ==
  /\ Idle(t) /\ device[t] # None
  /\ fence' = fence + 1
  /\ mark' = [mark EXCEPT !.made = fence + 1]
  /\ order' = [fresh |-> order.fresh /\ fence + 1 > mark.made,
               crossed |-> order.crossed \/ Counting # {}]
  /\ UNCHANGED <<handles, cb, call, taken>>

----------------------------------------------------------------------------
(* Command buffers.  An application leaves those alone that are submitted. *)

Pending == UNION {UNION {ToSet(call[t].subs[s]) : s \in {x \in DOMAIN call[t].subs : call[t].subs[x] # Other}}
                  : t \in Thread}

Record(b, used, recording) ==
  /\ b \notin Pending
  /\ cb' = [cb EXCEPT ![b] = [used |-> used, recording |-> recording]]
  /\ UNCHANGED <<handles, fence, call, taken, mark, order>>

BeginCommandBuffer(b) == Record(b, 0, TRUE)
EndCommandBuffer(b) == cb[b].recording /\ Record(b, cb[b].used, FALSE)
ResetCommandBuffer(b) == Record(b, 0, FALSE)

\* A draw that has no room is left out.
CmdDraw(b) ==
  /\ cb[b].recording /\ cb[b].used + Packet <= Capacity
  /\ Record(b, cb[b].used + Packet, TRUE)

----------------------------------------------------------------------------
(* vkQueueSubmit.                                                          *)

\* Keeps call and what else a step of a submit does not touch.
Step(t, c) == call' = [call EXCEPT ![t] = c] /\ UNCHANGED <<device, cb>>

\* The fence counter is read.
Started(c) == [c EXCEPT !.pc = "next", !.base = fence, !.s = 1]
Cross(t) == order' = [order EXCEPT !.crossed = @ \/ Counting \ {t} # {}]

QueueSubmit(t, subs) ==
  /\ Idle(t) /\ device[t] # None
  /\ \A s \in DOMAIN subs : subs[s] # Other => \A i \in DOMAIN subs[s] : ~cb[subs[s][i]].recording
  /\ LET c == [NoCall EXCEPT !.subs = subs] IN
     /\ call' = [call EXCEPT ![t] = IF kmd = 0 THEN [c EXCEPT !.pc = "open"] ELSE Started(c)]
     /\ IF kmd = 0 THEN order' = order ELSE Cross(t)
  /\ UNCHANGED <<handles, fence, cb, taken, mark>>

\* Without a handle the call opens one.  If that fails the work is dropped and
\* the call succeeds.
LazyOpen(t) ==
  /\ call[t].pc = "open"
  /\ \E handle \in {0, opened + 1} :
       /\ Open(handle) /\ kmd' = handle
       /\ IF handle = 0
          THEN Step(t, [call[t] EXCEPT !.pc = "done", !.excuse = TRUE]) /\ order' = order
          ELSE Step(t, Started(call[t])) /\ Cross(t)
  /\ UNCHANGED <<fence, taken, mark>>

\* An entry of another sType is skipped; its number is not used.
NextSubmit(t) ==
  LET c == call[t] IN
  /\ c.pc = "next" /\ c.s <= Len(c.subs)
  /\ Step(t, IF c.subs[c.s] = Other THEN [c EXCEPT !.s = @ + 1]
             ELSE [c EXCEPT !.pc = "gather", !.i = 1, !.at = 0, !.handle = kmd, !.batch = <<>>])
  /\ UNCHANGED <<kmd, opened, fence, taken, mark, order>>

More(c) == c.i <= Len(c.subs[c.s])
Buffer(c) == c.subs[c.s][c.i]
Rest(c) == cb[Buffer(c)].used - c.at
Full(c) == More(c) /\ Rest(c) > 0 /\ Cmds - Len(c.batch) <= Eop

\* Variant: no room is left for the fence.
TakeAll(c) ==
  LET room == Cmds - Len(c.batch)
  IN IF Rest(c) > room THEN room ELSE Rest(c)

\* As much of a command buffer as leaves room for the fence.
Take(c) ==
  LET room == Cmds - Len(c.batch)
  IN IF Rest(c) > room - Eop THEN room - Eop ELSE Rest(c)

Gather(t) ==
  LET c == call[t] IN
  /\ c.pc = "gather" /\ More(c) /\ ~Full(c)
  /\ Step(t, IF Rest(c) = 0 THEN [c EXCEPT !.i = @ + 1, !.at = 0]
             ELSE [c EXCEPT !.batch = @ \o [k \in 1..Take(c) |-> <<c.i, c.at + k, Buffer(c)>>],
                            !.at = @ + Take(c)])
  /\ UNCHANGED <<kmd, opened, fence, taken, mark, order>>

\* SEND_PM4.  The kernel driver cuts a batch that has a fence to what leaves
\* room for the packet that writes it.
Accept(t, s, dwords, number) ==
  LET cut == IF number > 0 /\ Len(dwords) > Cmds - Eop THEN SubSeq(dwords, 1, Cmds - Eop) ELSE dwords
  IN /\ taken' = [taken EXCEPT ![t] = Append(@, [s |-> s, dwords |-> cut, fence |-> number])]
     /\ IF number = 0 THEN UNCHANGED <<mark, order>>
        ELSE /\ mark' = [mark EXCEPT !.sent = number]
             /\ order' = [order EXCEPT !.fresh = @ /\ number > mark.sent]

\* The driver refuses, or there is no handle to send to.
Refuse == UNCHANGED <<taken, mark, order>>

\* A full batch goes without a fence.
SendBatch(t) ==
  LET c == call[t] IN
  /\ c.pc = "gather" /\ Full(c)
  /\ \/ c.handle # 0 /\ Accept(t, c.s, c.batch, 0) /\ Step(t, [c EXCEPT !.batch = <<>>])
     \/ Refuse /\ Step(t, [c EXCEPT !.pc = "next", !.s = @ + 1, !.excuse = TRUE])
  /\ UNCHANGED <<kmd, opened, fence>>

\* What is left goes with the fence.
SendLast(t) ==
  LET c == call[t]
      after == [c EXCEPT !.pc = "next", !.s = @ + 1]
  IN /\ c.pc = "gather" /\ ~More(c)
     /\ \/ /\ c.handle # 0
           /\ Accept(t, c.s, IF c.batch = <<>> THEN <<NopDword>> ELSE c.batch, c.base + c.s - 1)
           /\ Step(t, [after EXCEPT !.any = TRUE])
        \/ Refuse /\ Step(t, [after EXCEPT !.excuse = TRUE])
     /\ UNCHANGED <<kmd, opened, fence>>

\* When no submit was sent a packet that does nothing is, with the first fence.
SendNop(t) ==
  LET c == call[t] IN
  /\ c.pc = "next" /\ c.s > Len(c.subs) /\ ~c.any
  /\ \/ /\ kmd # 0
        /\ Accept(t, 0, <<NopDword>>, c.base)
        /\ Step(t, [c EXCEPT !.pc = "nop", !.any = TRUE])
     \/ Refuse /\ Step(t, [c EXCEPT !.pc = "done", !.excuse = TRUE])
  /\ UNCHANGED <<kmd, opened, fence>>

\* Variant: the counter goes up by one, however many submits there were.
CountUpByOne(t) ==
  LET c == call[t] IN
  /\ c.any /\ (c.pc = "nop" \/ (c.pc = "next" /\ c.s > Len(c.subs)))
  /\ fence' = c.base + 1
  /\ Step(t, [c EXCEPT !.pc = "done"])
  /\ UNCHANGED <<kmd, opened, taken, mark, order>>

\* The counter is written back.
CountUp(t) ==
  LET c == call[t] IN
  /\ c.any /\ (c.pc = "nop" \/ (c.pc = "next" /\ c.s > Len(c.subs)))
  /\ fence' = c.base + (IF c.subs = <<>> THEN 1 ELSE Len(c.subs))
  /\ Step(t, [c EXCEPT !.pc = "done"])
  /\ UNCHANGED <<kmd, opened, taken, mark, order>>

Return(t) ==
  /\ call[t].pc = "done"
  /\ Step(t, NoCall)
  /\ taken' = [taken EXCEPT ![t] = <<>>]
  /\ UNCHANGED <<kmd, opened, fence, mark, order>>

Submitting(t) ==
  \/ LazyOpen(t) \/ NextSubmit(t) \/ Gather(t) \/ SendBatch(t) \/ SendLast(t)
  \/ SendNop(t) \/ CountUp(t) \/ Return(t)

QueueCall(t) ==
  \/ CreateDevice(t) \/ DestroyDevice(t) \/ CreateFence(t)
  \/ \E subs \in Submits : QueueSubmit(t, subs)

Recording ==
  \E b \in Cb : BeginCommandBuffer(b) \/ CmdDraw(b) \/ EndCommandBuffer(b) \/ ResetCommandBuffer(b)

QueueNext == Recording \/ \E t \in Thread : QueueCall(t) \/ Submitting(t)

----------------------------------------------------------------------------
(* Properties.                                                             *)

\* The dwords the command buffers of a submit hold, in the order of Before.
Content(sub) == UNION {{<<i, k, sub[i]>> : k \in 1..cb[sub[i]].used} : i \in DOMAIN sub}
Commands(sub) == IF Content(sub) = {} THEN {NopDword} ELSE Content(sub)
Before(a, b) == a[1] < b[1] \/ (a[1] = b[1] /\ a[2] < b[2])

\* What the kernel driver took of a submit of thread t.
Batches(t, s) == {n \in DOMAIN taken[t] : taken[t][n].s = s}
Fenced(t, s)  == \E n \in Batches(t, s) : taken[t][n].fence # 0

\* The sequences of d, one after the other, list the elements of S in order,
\* each of them once.
Lists(d, S) ==
  /\ \A x \in S : \E n \in DOMAIN d : x \in ToSet(d[n])
  /\ \A n \in DOMAIN d : ToSet(d[n]) \subseteq S
  /\ \A m, n \in DOMAIN d : \A j \in DOMAIN d[m], k \in DOMAIN d[n] :
       Before(<<m, j>>, <<n, k>>) => Before(d[m][j], d[n][k])

InFull(t, s) ==
  Lists([n \in Batches(t, s) |-> taken[t][n].dwords], Commands(call[t].subs[s]))

\* The fence of a submit has its number, and nothing of the submit follows it.
EndsWithFence(t, s) ==
  \A n \in Batches(t, s) : taken[t][n].fence # 0 =>
    taken[t][n].fence = call[t].base + s - 1 /\ \A m \in Batches(t, s) : m <= n

\* A fence number that reaches the kernel driver follows all the commands of
\* its submit, in order and none of them cut off or sent twice, and there is
\* only one; and a call in which nothing was refused has sent such a number
\* for every submit, or for itself if it has none.
SubmitWhole ==
  \A t \in Thread : call[t].pc = "done" =>
    LET c == call[t]
        valid == {s \in DOMAIN c.subs : c.subs[s] # Other}
    IN /\ \A s \in valid : /\ EndsWithFence(t, s)
                           /\ Fenced(t, s) => InFull(t, s)
                           /\ c.excuse \/ Fenced(t, s)
       /\ valid = {} /\ ~c.excuse => Fenced(t, 0)

\* The numbers the kernel driver is given go up, and so do those vkCreateFence
\* gives out, unless two threads used the counter at once: nothing but their
\* order keeps a plain write from undoing an increment.
FencesNew == ~order.crossed => order.fresh
=============================================================================
