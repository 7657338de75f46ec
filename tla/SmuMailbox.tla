----------------------------- MODULE SmuMailbox -----------------------------
(***************************************************************************)
(* The SMU mailboxes.  The driver reaches them through one SMN port of     *)
(* BAR5: an address is written to the index register (0x38) and the        *)
(* register is then read or written through the data register (0x3C), so   *)
(* each access is two steps and the port is shared by every caller.  A     *)
(* message is a series of such accesses to the response, argument and      *)
(* command register of one of three queues.                                *)
(*                                                                         *)
(* A thread is one IRP.  A handler takes DeviceMutex, or does not, and     *)
(* runs its plan, the senders it calls one after the other.                *)
(***************************************************************************)
EXTENDS Naturals, Sequences

CONSTANTS Thread,    \* IRPs in the driver at the same time
          Handlers,  \* the IOCTLs they may be
          MaxSent,   \* bound: messages sent in a behaviour
          PollMax,   \* bound: DIRECT_POLL_MAX_MS, Q2_POLL_MAX_MS
          Null       \* owner of a free mutex

\* The handlers that hold DeviceMutex over the whole plan, and the others.
Locked   == {"SMU_CPU_MSG", "SMU_MSG_ARGS", "SMU_UNLOCK_STEP",
             "PCI_SMN_ACCESS", "EXECUTE_RING_PM4"}
Unlocked == {"GET_SMU_TELEMETRY", "CORE_UNLOCK", "PSP_SMU_MSG", "INIT_HARDWARE"}

ASSUME MailboxAssumption ==
  /\ Null \notin Thread
  /\ Handlers \subseteq Locked \cup Unlocked
  /\ MaxSent \in Nat /\ PollMax \in Nat \ {0}

\* Senders: Direct is Amdbc250PspDirectSmuMsg, Q2 and Q3 are the Msg functions
\* of those queues, Send is DreamV3SmuSendMessage, Peek reads one SMN register.
\* Runs of like messages (seven in the telemetry) are cut to two.
Plans(h) ==
  CASE h = "SMU_CPU_MSG"       -> {<<"Direct">>, <<"Q3">>}
    [] h = "SMU_MSG_ARGS"      -> {<<"Q2">>, <<"Q3">>}
    [] h = "SMU_UNLOCK_STEP"   -> {<<"Direct", "Q2", "Q2">>, <<"Q2", "Q2", "Q3">>}
    [] h = "PCI_SMN_ACCESS"    -> {<<"Peek">>}
    [] h = "EXECUTE_RING_PM4"  -> {<<"Send", "Send">>}
    [] h = "GET_SMU_TELEMETRY" -> {<<"Direct", "Direct", "Peek">>}
    [] h = "CORE_UNLOCK"       -> {<<"Q3", "Peek", "Q3", "Peek">>}
    [] h = "PSP_SMU_MSG"       -> {<<"Direct">>}
    [] h = "INIT_HARDWARE"     -> {<<"Send", "Send">>}

\* What is left of a plan after one of its senders: telemetry and the ring
\* handler ignore failures, VERIFY skips to its Q3 probe, the others stop.
Rest(h, ok, rest) ==
  CASE ok \/ h \in {"GET_SMU_TELEMETRY", "EXECUTE_RING_PM4"} -> rest
    [] ~ok /\ h = "SMU_UNLOCK_STEP" /\ rest # <<>> /\ rest[Len(rest)] = "Q3" -> <<"Q3">>
    [] OTHER -> <<>>

\* The queue a sender uses: C2PMSG_90/82/66 are queue 0.
QueueOf(s) == IF s \in {"Q2", "Q3"} THEN s ELSE "Q0"
Queue == {"Q0", "Q2", "Q3"}

\* A sender's first access.  Direct and Q3 first wait for the mailbox.
FirstStep(s) == CASE s \in {"Direct", "Q3"} -> "ready"
                  [] s = "Q2"   -> "ack"
                  [] s = "Send" -> "look"
                  [] OTHER      -> "peek"

\* SMN registers, and the values they hold: a response code (0, 1 for OK, 2
\* for any failure), or the command, argument or answer of message n.
Smn == Queue \X {"rsp", "arg", "cmd"} \cup {<<"SMN", "other">>}
Code(n) == [kind |-> "code", n |-> n]
Cmd(n)  == [kind |-> "cmd", n |-> n]
Arg(n)  == [kind |-> "arg", n |-> n]
Ans(n)  == [kind |-> "ans", n |-> n]
Ok == 1
Failed == 2

\* What a message came back with: its queue, its number, and the number of the
\* message the answer is to (0: none, Nobody: it is the answer to none).
Nobody == MaxSent + 1
NoResult == [q |-> "Q0", of |-> 0, ans |-> 0]

VARIABLES
  pc,        \* the access a thread is at
  handler,   \* the IOCTL it is
  plan,      \* senders it has still to run, the current one first
  req,       \* the number of its current message
  polls,     \* reads of the response register so far
  addressed, \* it has written the index and not yet used the data register
  result,    \* per thread: what its last message came back with
  smnIndex,  \* NBIO_SMN_INDEX
  reg,       \* the SMN registers
  busy,      \* queues whose command the SMU has not answered yet
  mutex,     \* owner of DeviceMutex
  sent,      \* messages numbered so far
  served,    \* messages the SMU has executed with their own argument
  abandoned, \* queues a caller has left while the SMU was busy
  overrun    \* queues a caller has begun to write while the SMU was busy

thread == <<pc, handler, plan, req, polls, result>>
history == <<served, abandoned, overrun>>
vars == <<thread, addressed, smnIndex, reg, busy, mutex, sent, history>>

Access == {"ready", "look", "ack", "arg", "cmd", "wait", "resp", "peek"}

Init ==
  /\ pc = [t \in Thread |-> "Idle"]
  /\ handler = [t \in Thread |-> "none"]
  /\ plan = [t \in Thread |-> <<>>]
  /\ req = [t \in Thread |-> 0]
  /\ polls = [t \in Thread |-> 0]
  /\ addressed = [t \in Thread |-> FALSE]
  /\ result = [t \in Thread |-> NoResult]
  /\ smnIndex = <<"SMN", "other">>
  /\ reg = [r \in Smn |-> CASE r \in {<<"Q0", "rsp">>, <<"Q3", "rsp">>} -> Code(Ok)
                             [] r[2] = "rsp" -> Code(0)
                             [] OTHER -> Arg(0)]
  /\ busy = {}
  /\ mutex = Null
  /\ sent = 0
  /\ served = {} /\ abandoned = {} /\ overrun = {}

Sender(t) == Head(plan[t])
Q(t)      == QueueOf(Sender(t))

\* The register the current access is for.
Target(t) ==
  CASE pc[t] \in {"ready", "look", "ack", "wait"} -> <<Q(t), "rsp">>
    [] pc[t] \in {"arg", "resp"} -> <<Q(t), "arg">>
    [] pc[t] = "cmd" -> <<Q(t), "cmd">>
    [] pc[t] = "peek" -> <<"SMN", "other">>

-----------------------------------------------------------------------------
\* Thread t begins the first sender of plan p: a new message, unless it peeks.
Begin(t, p) ==
  /\ plan' = [plan EXCEPT ![t] = p]
  /\ pc' = [pc EXCEPT ![t] = FirstStep(Head(p))]
  /\ sent' = sent + 1
  /\ req' = [req EXCEPT ![t] = sent + 1]
  /\ polls' = [polls EXCEPT ![t] = 0]

EnterUnlocked(t, h, p) ==
  /\ h \in Unlocked
  /\ Begin(t, p)
  /\ UNCHANGED mutex

\* Without DeviceMutex around the round trip.
EnterLockedNoMutex(t, h, p) ==
  /\ h \in Locked
  /\ Begin(t, p)
  /\ UNCHANGED mutex

\* Takes DeviceMutex for the whole plan.
EnterLocked(t, h, p) ==
  /\ h \in Locked
  /\ mutex = Null
  /\ mutex' = t
  /\ Begin(t, p)

\* A handler arrives, with the mutex if it is one that takes it.
Enter(t) ==
  /\ pc[t] = "Idle"
  /\ \E h \in Handlers : \E p \in Plans(h) :
       /\ sent + Len(p) <= MaxSent
       /\ handler' = [handler EXCEPT ![t] = h]
       /\ EnterLocked(t, h, p) \/ EnterUnlocked(t, h, p)
  /\ UNCHANGED <<result, addressed, smnIndex, reg, busy, history>>

\* First half of every access: the index register.
Address(t) ==
  /\ pc[t] \in Access
  /\ ~addressed[t]
  /\ smnIndex' = Target(t)
  /\ addressed' = [addressed EXCEPT ![t] = TRUE]
  /\ UNCHANGED <<thread, reg, busy, mutex, sent, history>>

\* Second half: the data register, whatever the index selects by now.
Data(t, step) == /\ pc[t] = step
                 /\ addressed[t]
                 /\ addressed' = [addressed EXCEPT ![t] = FALSE]
                 /\ UNCHANGED <<smnIndex, handler>>

\* The caller may leave while the SMU has not answered.
Leave(t) == abandoned' = abandoned \cup (busy \cap {Q(t)})

\* A sender returns: on with the plan, or out of the handler.
Return(t, ok) ==
  LET rest == Rest(handler[t], ok, Tail(plan[t]))
  IN  /\ Leave(t)
      /\ \/ /\ rest # <<>>
            /\ Begin(t, rest)
            /\ UNCHANGED mutex
         \/ /\ rest = <<>>
            /\ pc' = [pc EXCEPT ![t] = "Idle"]
            /\ plan' = [plan EXCEPT ![t] = <<>>]
            /\ mutex' = IF mutex = t THEN Null ELSE mutex
            /\ UNCHANGED <<req, polls, sent>>

Come(t, n) == result' = [result EXCEPT ![t] = [q |-> Q(t), of |-> req[t], ans |-> n]]

Fail(t) == Return(t, FALSE) /\ Come(t, 0)

Step(t, step) == /\ pc' = [pc EXCEPT ![t] = step]
                 /\ polls' = [polls EXCEPT ![t] = 0]
                 /\ UNCHANGED <<plan, req, result, mutex, sent, abandoned>>

Poll(t) == /\ polls' = [polls EXCEPT ![t] = @ + 1]
           /\ UNCHANGED <<pc, plan, req, result, mutex, sent, abandoned>>

\* Has the response register reached a state the sender takes for an end?
\* Queue 0 knows only OK; queues 2 and 3 five codes.
Done(t) == \/ reg[smnIndex] = Code(Ok)
           \/ reg[smnIndex] = Code(Failed) /\ Sender(t) \in {"Q2", "Q3"}

\* Begins to write a mailbox the SMU has not finished with.
NoteOverrun(t) == overrun' = overrun \cup (busy \cap {Q(t)})

-----------------------------------------------------------------------------
(* The accesses of a sender *)

\* Without the wait: straight on to the message.
ReadyUnchecked(t) ==
  /\ Data(t, "ready")
  /\ Step(t, "ack")
  /\ UNCHANGED <<reg, busy, served, overrun>>

\* Waiting without counting the iterations.
ReadyForever(t) ==
  /\ Data(t, "ready")
  /\ \/ Done(t) /\ Step(t, "ack")
     \/ ~Done(t) /\ UNCHANGED <<pc, plan, req, polls, result, mutex, sent, abandoned>>
  /\ UNCHANGED <<reg, busy, served, overrun>>

\* SmuWaitReady and SmuQ3WaitDone before a message, the time-out included.
Ready(t) ==
  /\ Data(t, "ready")
  /\ \/ Done(t) /\ Step(t, "ack")
     \/ ~Done(t) /\ polls[t] + 1 < PollMax /\ Poll(t)
     \/ ~Done(t) /\ polls[t] + 1 >= PollMax /\ Fail(t)
  /\ UNCHANGED <<reg, busy, served, overrun>>

\* DreamV3SmuSendMessage acknowledges an answer it finds, and waits for none.
Look(t) ==
  /\ Data(t, "look")
  /\ Step(t, IF reg[smnIndex] = Code(Ok) THEN "ack" ELSE "arg")
  /\ NoteOverrun(t)
  /\ UNCHANGED <<reg, busy, served>>

Write(value) == reg' = [reg EXCEPT ![smnIndex] = value]

\* Without clearing it.
AckSkipped(t) ==
  /\ Data(t, "ack")
  /\ Step(t, "arg")
  /\ NoteOverrun(t)
  /\ UNCHANGED <<reg, busy, served>>

\* The response register is cleared, the argument and the command written.
Ack(t) ==
  /\ Data(t, "ack")
  /\ Write(Code(0))
  /\ Step(t, "arg")
  /\ NoteOverrun(t)
  /\ UNCHANGED <<busy, served>>

\* One write stands for the argument block: Q2 has six words, Q3 a high word.
WriteArg(t) ==
  /\ Data(t, "arg")
  /\ Write(Arg(req[t]))
  /\ Step(t, "cmd")
  /\ NoteOverrun(t)
  /\ UNCHANGED <<busy, served>>

\* A write that reaches a command register starts the SMU on that queue.
WriteCmd(t) ==
  /\ Data(t, "cmd")
  /\ Write(Cmd(req[t]))
  /\ busy' = busy \cup {q \in Queue : smnIndex = <<q, "cmd">>}
  /\ Step(t, "wait")
  /\ NoteOverrun(t)
  /\ UNCHANGED served

\* On time-out Direct and Send fail; Q2 and Q3 read the argument all the same
\* and return failure.  Send fails at once on an error code.
Wait(t) ==
  /\ Data(t, "wait")
  /\ \/ /\ Done(t)
        /\ IF reg[smnIndex] = Code(Ok) THEN Step(t, "resp") ELSE Fail(t)
     \/ /\ Sender(t) = "Send" /\ reg[smnIndex] = Code(Failed)
        /\ Fail(t)
     \/ /\ ~Done(t) /\ ~(Sender(t) = "Send" /\ reg[smnIndex] = Code(Failed))
        /\ IF polls[t] + 1 < PollMax THEN Poll(t) ELSE Fail(t)
  /\ UNCHANGED <<reg, busy, served, overrun>>

\* CORE_UNLOCK goes on from its first message, a test, only with the answer to it.
Expected(t) ==
  handler[t] = "CORE_UNLOCK" /\ Len(plan[t]) = 4 => reg[smnIndex] = Ans(req[t])

\* The answer is in the argument register.
Response(t) ==
  /\ Data(t, "resp")
  /\ Return(t, Expected(t))
  /\ Come(t, IF reg[smnIndex].kind = "ans" THEN reg[smnIndex].n ELSE Nobody)
  /\ UNCHANGED <<reg, busy, served, overrun>>

\* A register read through the port; CORE_UNLOCK goes on only if the core mask
\* it reads is the one it knows.
Peek(t) ==
  /\ Data(t, "peek")
  /\ \/ Return(t, TRUE)
     \/ handler[t] = "CORE_UNLOCK" /\ Return(t, FALSE)
  /\ UNCHANGED <<result, reg, busy, served, overrun>>

-----------------------------------------------------------------------------
\* The SMU executes the command of a queue it has been given and answers.
SmuAnswer(q) ==
  LET n == reg[<<q, "cmd">>].n
      own == reg[<<q, "arg">>] = Arg(n)
  IN  /\ q \in busy
      /\ busy' = busy \ {q}
      /\ \/ reg' = [reg EXCEPT ![<<q, "rsp">>] = Code(Ok),
                              ![<<q, "arg">>] = Ans(IF own THEN n ELSE Nobody)]
         \/ reg' = [reg EXCEPT ![<<q, "rsp">>] = Code(Failed)]
      /\ served' = IF own THEN served \cup {n} ELSE served
      /\ UNCHANGED <<thread, addressed, smnIndex, mutex, sent, abandoned, overrun>>

Run(t) == Address(t) \/ Ready(t) \/ Look(t) \/ Ack(t) \/ WriteArg(t)
          \/ WriteCmd(t) \/ Wait(t) \/ Response(t) \/ Peek(t)

Next == \/ \E t \in Thread : Enter(t) \/ Run(t)
        \/ \E q \in Queue : SmuAnswer(q)

Spec == Init /\ [][Next]_vars

\* A thread in the driver keeps running; nothing is assumed of the SMU.
FairSpec == Spec /\ \A t \in Thread : WF_vars(Run(t))
-----------------------------------------------------------------------------
(* Properties *)

\* The data register accesses the SMN register its caller asked for: the claim
\* of amdbc250_dream_kmd.c:6363-6368 ("a caller silently reads a different SMN
\* address than the one it asked for" without the lock).
PortPaired == \A t \in Thread : addressed[t] => smnIndex = Target(t)

\* A message that comes back with an answer comes back with its own, although
\* callers time out and leave late answers behind.  The exception is a queue
\* some sender has begun to write before the SMU had finished with it.
OwnAnswer ==
  \A t \in Thread :
    result[t].ans \in {0, result[t].of} \/ result[t].q \in overrun

\* ... and that takes a caller that gave up before, and a sender that does not
\* wait for the mailbox: never the ones of queue 3.
OverrunNeedsTimeout == overrun \subseteq abandoned \ {"Q3"}

\* Every handler lets go of the mutex, even if the SMU never answers: the poll
\* loops are counted.
HandlersEnd == \A t \in Thread : pc[t] # "Idle" ~> pc[t] = "Idle"

\* The callers that wait for the mailbox see the SMU as SmuService: each
\* message executed at most once, each answer to an executed message.
Service == INSTANCE SmuService WITH
  posted <- {reg[<<q, "cmd">>].n : q \in busy},
  result <- [t \in Thread |-> result[t].ans]
IsService == Service!Spec

=============================================================================
