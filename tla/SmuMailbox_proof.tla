-------------------------- MODULE SmuMailbox_proof --------------------------
(***************************************************************************)
(* Proofs about SmuMailbox for any number of IRPs and messages, as long as *)
(* a handler that takes no DeviceMutex has the mailboxes to itself; that   *)
(* it implements SmuService; and that every handler counts down to its end.*)
(***************************************************************************)
EXTENDS SmuMailbox, TLAPS

\* The control part of the state has its type.
ControlType ==
  /\ pc \in [Thread -> Access \cup {"Idle"}]
  /\ addressed \in [Thread -> BOOLEAN]
  /\ mutex \in Thread \cup {Null}
  /\ handler = [t \in Thread |-> handler[t]]
  /\ \A t \in Thread : pc[t] # "Idle" => handler[t] \in Handlers

\* A handler without the mutex runs while no other handler is inside.
UnlockedComesAlone ==
  \A t, u \in Thread :
    pc[t] # "Idle" /\ handler[t] \in Unlocked /\ pc[u] # "Idle" => t = u

\* DeviceMutex is owned by the handler that is inside and takes it.
Owner == \A t \in Thread : mutex = t <=> pc[t] # "Idle" /\ handler[t] \in Locked

OneInside == \A t, u \in Thread : pc[t] # "Idle" /\ pc[u] # "Idle" => t = u

\* A pair is open only inside a handler.
OpenInside == \A t \in Thread : addressed[t] => pc[t] # "Idle"

PortInv == ControlType /\ Owner /\ OneInside /\ OpenInside /\ PortPaired

USE MailboxAssumption DEF Access

\* No pair is open before the first handler arrives.
LEMMA PortInit == Init => PortInv
BY DEF Init, PortInv, ControlType, Owner, OneInside, OpenInside, PortPaired

\* A sender starts at one of the accesses.
LEMMA FirstIsAccess == \A s : FirstStep(s) \in Access
BY DEF FirstStep

\* What every data half leaves behind: the pair of its thread is closed, and
\* the thread is at another access, or out and without the mutex.
DataStep(t) ==
  /\ addressed' = [addressed EXCEPT ![t] = FALSE]
  /\ UNCHANGED <<smnIndex, handler>>
  /\ pc[t] # "Idle"
  /\ \/ mutex' = mutex /\ (pc' = pc \/ \E a \in Access : pc' = [pc EXCEPT ![t] = a])
     \/ /\ pc' = [pc EXCEPT ![t] = "Idle"]
        /\ mutex' = IF mutex = t THEN Null ELSE mutex

\* A sender that returns begins the next one, or leaves the handler.
LEMMA ReturnControl ==
  ASSUME NEW t, NEW ok, Return(t, ok)
  PROVE  \/ mutex' = mutex /\ \E a \in Access : pc' = [pc EXCEPT ![t] = a]
         \/ /\ pc' = [pc EXCEPT ![t] = "Idle"]
            /\ mutex' = IF mutex = t THEN Null ELSE mutex
BY FirstIsAccess DEF Return, Begin

\* Every data half is such a step.
LEMMA DataHalf ==
  ASSUME NEW t \in Thread,
         Ready(t) \/ Look(t) \/ Ack(t) \/ WriteArg(t) \/ WriteCmd(t)
           \/ Wait(t) \/ Response(t) \/ Peek(t)
  PROVE  DataStep(t)
<1> USE ReturnControl DEF Data, Step, Poll, Fail, DataStep
<1>1. CASE Ready(t)
  BY <1>1 DEF Ready
<1>2. CASE Look(t)
  BY <1>2 DEF Look
<1>3. CASE Ack(t)
  BY <1>3 DEF Ack
<1>4. CASE WriteArg(t)
  BY <1>4 DEF WriteArg
<1>5. CASE WriteCmd(t)
  BY <1>5 DEF WriteCmd
<1>6. CASE Wait(t)
  BY <1>6 DEF Wait
<1>7. CASE Response(t)
  BY <1>7 DEF Response
<1>8. CASE Peek(t)
  BY <1>8 DEF Peek
<1>9. QED
  BY <1>1, <1>2, <1>3, <1>4, <1>5, <1>6, <1>7, <1>8

\* The control part keeps its type, whoever comes.
LEMMA ControlNext == ASSUME ControlType, [Next]_vars PROVE ControlType'
<1> USE DEF ControlType
<1>1. CASE UNCHANGED vars
  BY <1>1 DEF vars, thread
<1>2. ASSUME NEW t \in Thread, Enter(t) PROVE ControlType'
  <2>1. PICK h, p :
               /\ h \in Handlers /\ handler' = [handler EXCEPT ![t] = h] /\ UNCHANGED addressed
               /\ Begin(t, p) /\ mutex' \in {t, mutex}
    BY <1>2 DEF Enter, EnterLocked, EnterUnlocked
  <2>2. PICK a \in Access : pc' = [pc EXCEPT ![t] = a]
    BY <2>1, FirstIsAccess DEF Begin
  <2>3. QED
    BY <2>1, <2>2
<1>3. ASSUME NEW t \in Thread, Address(t) PROVE ControlType'
  BY <1>3 DEF Address, thread
<1>4. ASSUME NEW t \in Thread, DataStep(t) PROVE ControlType'
  BY <1>4 DEF DataStep
<1>5. ASSUME NEW q \in Queue, SmuAnswer(q) PROVE ControlType'
  BY <1>5 DEF SmuAnswer, thread
<1>6. QED
  BY <1>1, <1>2, <1>3, <1>4, <1>5, DataHalf DEF Next, Run

\* Two handlers inside would both own the mutex, or one of them has to be alone:
\* so no one moves the index under a handler.
LEMMA PortNext ==
  ASSUME PortInv, [Next]_vars, UnlockedComesAlone'
  PROVE  PortInv'
<1> USE DEF PortInv, ControlType, Owner, OneInside, OpenInside, PortPaired
<1>1. CASE UNCHANGED vars
  BY <1>1 DEF vars, thread, Target, Q, QueueOf, Sender
<1>2. ASSUME NEW t \in Thread, Enter(t) PROVE PortInv'
  <2>1. PICK h, p :
               /\ h \in Handlers /\ pc[t] = "Idle" /\ handler' = [handler EXCEPT ![t] = h]
               /\ \/ h \in Locked /\ mutex = Null /\ mutex' = t
                  \/ h \in Unlocked /\ mutex' = mutex
               /\ Begin(t, p) /\ UNCHANGED <<addressed, smnIndex>>
    BY <1>2 DEF Enter, EnterLocked, EnterUnlocked
  <2>2. PICK a \in Access : pc' = [pc EXCEPT ![t] = a]
    BY <2>1, FirstIsAccess DEF Begin
  <2>3. /\ pc'[t] = a /\ handler'[t] = h
        /\ \A u \in Thread \ {t} : pc'[u] = pc[u] /\ handler'[u] = handler[u]
    BY <2>1, <2>2
  <2>4. ControlType'
    BY <2>1, <2>2, <2>3
  <2>5. Owner'
    <3>1. h \in Locked => h \notin Unlocked
      BY DEF Locked, Unlocked
    <3>2. mutex # t
      BY <2>1
    <3>3. pc'[t] # "Idle"
      BY <2>3
    <3>4. CASE h \in Locked /\ mutex = Null /\ mutex' = t
      <4>1. \A u \in Thread \ {t} : ~(pc[u] # "Idle" /\ handler[u] \in Locked)
        BY <3>4
      <4>2. \A u \in Thread \ {t} : mutex' # u /\ ~(pc'[u] # "Idle" /\ handler'[u] \in Locked)
        BY <2>3, <3>4, <4>1
      <4>3. mutex' = t /\ pc'[t] # "Idle" /\ handler'[t] \in Locked
        BY <2>3, <3>3, <3>4
      <4>4. QED
        BY <4>2, <4>3
    <3>5. CASE h \in Unlocked /\ mutex' = mutex
      <4>1. mutex' # t /\ handler'[t] \notin Locked
        BY <2>3, <3>1, <3>2, <3>5
      <4>2. \A u \in Thread \ {t} :
              mutex' = u <=> pc'[u] # "Idle" /\ handler'[u] \in Locked
        BY <2>3, <3>5
      <4>3. QED
        BY <4>1, <4>2
    <3>6. QED
      BY <2>1, <3>4, <3>5
  <2>6. OneInside'
    BY <2>4, <2>5 DEF UnlockedComesAlone
  <2>7. \A u \in Thread : ~addressed[u]
    <3>1. \A u \in Thread \ {t} : pc[u] = "Idle"
      BY <2>2, <2>3, <2>6
    <3>2. QED
      BY <2>1, <3>1
  <2>8. QED
    BY <2>1, <2>4, <2>5, <2>6, <2>7
<1>3. ASSUME NEW t \in Thread, Address(t) PROVE PortInv'
  <2>1. \A u \in Thread \ {t} : ~addressed[u]
    BY <1>3 DEF Address
  <2>2. Target(t)' = Target(t)
    BY <1>3 DEF Address, thread, Target, Q, QueueOf, Sender
  <2>3. QED
    BY <1>3, <2>1, <2>2 DEF Address, thread
<1>4. ASSUME NEW t \in Thread, DataStep(t) PROVE PortInv'
  <2>1. \A u \in Thread \ {t} : ~addressed[u]
    BY <1>4 DEF DataStep
  <2>2. \A u \in Thread : ~addressed'[u]
    BY <1>4, <2>1 DEF DataStep
  <2>3. ControlType'
    BY <1>4 DEF DataStep
  <2>4. Owner' /\ OneInside'
    BY <1>4 DEF DataStep
  <2>5. QED
    BY <2>2, <2>3, <2>4
<1>5. ASSUME NEW q \in Queue, SmuAnswer(q) PROVE PortInv'
  BY <1>5 DEF SmuAnswer, thread, Target, Q, QueueOf, Sender
<1>6. QED
  BY <1>1, <1>2, <1>3, <1>4, <1>5, DataHalf DEF Next, Run

\* The claim of amdbc250_dream_kmd.c:6363-6368, as far as it is true: each data
\* access reaches the SMN register its caller has selected, however many
\* handlers run, if one that takes no DeviceMutex comes while nobody is inside.
THEOREM AlonePortPaired == Spec /\ []UnlockedComesAlone => []PortPaired
<1>1. PortInv /\ [Next]_vars /\ UnlockedComesAlone' => PortInv'
  BY PortNext
<1>2. PortInv => PortPaired
  BY DEF PortInv
<1>3. QED
  BY PortInit, <1>1, <1>2, PTL DEF Spec

\* The handlers that take DeviceMutex need nobody's discipline.
THEOREM LockedAlone == Handlers \subseteq Locked /\ Spec => []UnlockedComesAlone
<1>1. CASE Handlers \subseteq Locked
  <2>1. ControlType => UnlockedComesAlone
    BY <1>1 DEF ControlType, UnlockedComesAlone, Locked, Unlocked
  <2>2. ControlType /\ [Next]_vars => ControlType'
    BY ControlNext
  <2>3. Init => ControlType
    BY PortInit DEF PortInv
  <2>4. QED
    BY <2>1, <2>2, <2>3, PTL DEF Spec
<1>2. QED
  BY <1>1

-----------------------------------------------------------------------------
(* What is in the registers *)

Value == [kind : {"code", "cmd", "arg", "ans"}, n : Nat]

DataType ==
  /\ plan = [t \in Thread |-> plan[t]]
  /\ req \in [Thread -> Nat] /\ sent \in Nat
  /\ result \in [Thread -> [q : Queue, of : Nat, ans : Nat]]
  /\ reg \in [Smn -> Value]
  /\ busy \subseteq Queue
  /\ overrun \subseteq Queue /\ abandoned \subseteq Queue

\* The queue of a sender that is about to write: it is free, and shows no
\* answer, unless the queue has been overrun; and queue 3 never is.
Cleared(t) ==
  /\ pc[t] = "look" => Q(t) # "Q3"
  /\ pc[t] = "ack" /\ Q(t) = "Q3" => "Q3" \notin busy
  /\ pc[t] \in {"arg", "cmd"} =>
       Q(t) \in overrun \/ (Q(t) \notin busy /\ reg[<<Q(t), "rsp">>] # Code(Ok))
  /\ pc[t] \in {"arg", "cmd"} /\ Q(t) = "Q3" =>
       "Q3" \notin busy /\ reg[<<"Q3", "rsp">>] = Code(0)
  /\ pc[t] = "cmd" => Q(t) \in overrun \/ reg[<<Q(t), "arg">>] = Arg(req[t])

\* ... and of one that has written: the SMU has its message, or has answered it.
Answered(t) ==
  /\ pc[t] = "wait" =>
       \/ Q(t) \in overrun
       \/ /\ reg[<<Q(t), "cmd">>] = Cmd(req[t])
          /\ Q(t) \in busy => /\ reg[<<Q(t), "arg">>] = Arg(req[t])
                              /\ reg[<<Q(t), "rsp">>] # Code(Ok)
          /\ Q(t) \notin busy /\ reg[<<Q(t), "rsp">>] = Code(Ok) =>
               reg[<<Q(t), "arg">>] = Ans(req[t])
  /\ pc[t] = "resp" =>
       Q(t) \in overrun \/ (Q(t) \notin busy /\ reg[<<Q(t), "arg">>] = Ans(req[t]))

\* A busy queue has its caller waiting for it, or has been left by it.
BusyKnown ==
  \A q \in busy : q \in abandoned \/ \E t \in Thread : pc[t] = "wait" /\ Q(t) = q

Q3Open == "Q3" \in busy => reg[<<"Q3", "rsp">>] = Code(0)

MailInv ==
  /\ PortInv
  /\ DataType
  /\ \A t \in Thread : Cleared(t) /\ Answered(t)
  /\ BusyKnown
  /\ Q3Open
  /\ OwnAnswer
  /\ OverrunNeedsTimeout

\* All mailboxes are free at first.
LEMMA MailInit == Init => MailInv
<1> SUFFICES ASSUME Init PROVE MailInv
  OBVIOUS
<1>1. DataType
  BY DEF Init, DataType, Value, Smn, Queue, Code, Arg, NoResult, Ok
<1>2. \A t \in Thread : Cleared(t) /\ Answered(t)
  BY DEF Init, Cleared, Answered
<1>3. BusyKnown /\ Q3Open /\ OwnAnswer /\ OverrunNeedsTimeout
  BY DEF Init, BusyKnown, Q3Open, OwnAnswer, OverrunNeedsTimeout, NoResult
<1>4. QED
  BY PortInit, <1>1, <1>2, <1>3 DEF MailInv

\* A sender that begins where FirstStep says has nothing to keep yet.
LEMMA FirstSteps ==
  \A s : /\ FirstStep(s) \in {"ready", "look", "ack", "peek"}
         /\ FirstStep(s) = "look" => s = "Send"
         /\ FirstStep(s) = "ack" => s = "Q2"
BY DEF FirstStep

\* Target, without its CASE.
LEMMA Targets ==
  ASSUME NEW t
  PROVE  /\ pc[t] \in {"ready", "look", "ack", "wait"} => Target(t) = <<Q(t), "rsp">>
         /\ pc[t] \in {"arg", "resp"} => Target(t) = <<Q(t), "arg">>
         /\ pc[t] = "cmd" => Target(t) = <<Q(t), "cmd">>
BY DEF Target

\* Each sender has one of the three queues.
LEMMA QueueIs == \A t : Q(t) \in Queue
BY DEF Q, QueueOf, Queue

\* The registers of the queues are distinct.
LEMMA SmnFacts ==
  ASSUME NEW p \in Queue, NEW q \in Queue
  PROVE  /\ <<p, "rsp">> \in Smn /\ <<p, "arg">> \in Smn /\ <<p, "cmd">> \in Smn
         /\ <<p, "rsp">> # <<q, "arg">> /\ <<p, "rsp">> # <<q, "cmd">>
         /\ <<p, "arg">> # <<q, "cmd">>
         /\ <<p, "rsp">> = <<q, "rsp">> => p = q
         /\ <<p, "arg">> = <<q, "arg">> => p = q
         /\ <<p, "cmd">> = <<q, "cmd">> => p = q
BY DEF Smn

\* The codes are distinct, and all that is written is a value.
LEMMA ValueFacts ==
  /\ Code(0) # Code(Ok) /\ Code(0) # Code(Failed) /\ Code(Failed) # Code(Ok)
  /\ Code(0) \in Value /\ Code(Ok) \in Value /\ Code(Failed) \in Value
  /\ \A n \in Nat : Arg(n) \in Value /\ Cmd(n) \in Value /\ Ans(n) \in Value
BY DEF Code, Arg, Cmd, Ans, Value, Ok, Failed

\* A sender that begins owes its queue nothing yet.
LEMMA BeginKeeps ==
  ASSUME NEW t \in Thread, NEW p, MailInv, Begin(t, p)
  PROVE  /\ Cleared(t)' /\ Answered(t)'
         /\ plan' = [u \in Thread |-> plan'[u]]
         /\ req' \in [Thread -> Nat] /\ sent' \in Nat
<1> USE DEF MailInv, PortInv, ControlType, DataType, Begin
<1>1. pc'[t] = FirstStep(Head(p)) /\ plan'[t] = p
  OBVIOUS
<1>2. Q(t)' = QueueOf(Head(p))
  BY <1>1 DEF Q, Sender
<1>3. /\ pc'[t] \in {"ready", "look", "ack", "peek"}
      /\ pc'[t] = "look" => Q(t)' # "Q3"
      /\ pc'[t] = "ack" => Q(t)' # "Q3"
  BY <1>1, <1>2, FirstSteps DEF QueueOf
<1>4. Cleared(t)' /\ Answered(t)'
  BY <1>3 DEF Cleared, Answered
<1>5. DataType
  OBVIOUS
<1>6. plan' = [u \in Thread |-> plan'[u]]
  BY <1>5
<1>7. req' \in [Thread -> Nat] /\ sent' \in Nat
  BY <1>5
<1>8. QED
  BY <1>4, <1>6, <1>7

\* While one thread is inside all others are idle, and a queue is busy only
\* because this one waits for it or because it was left.
LEMMA Alone ==
  ASSUME MailInv, NEW t \in Thread, pc[t] # "Idle"
  PROVE  /\ \A u \in Thread \ {t} : pc[u] = "Idle"
         /\ pc[t] # "wait" => busy \subseteq abandoned
         /\ busy \subseteq abandoned \cup {Q(t)}
BY DEF MailInv, PortInv, OneInside, BusyKnown

\* Nor does a thread that has left.
LEMMA IdleKeeps ==
  ASSUME NEW t, pc'[t] = "Idle"
  PROVE  Cleared(t)' /\ Answered(t)'
BY DEF Cleared, Answered

\* A sender that returns leaves a busy queue abandoned.
LEMMA ReturnKeeps ==
  ASSUME MailInv, PortInv', NEW t \in Thread, NEW ok, pc[t] # "Idle",
         Return(t, ok), UNCHANGED <<reg, busy, overrun>>,
         result' \in [Thread -> [q : Queue, of : Nat, ans : Nat]], OwnAnswer'
  PROVE  MailInv'
<1> USE DEF MailInv, DataType
<1>1. abandoned' = abandoned \cup (busy \cap {Q(t)})
  BY DEF Return, Leave
<1>2. \A u \in Thread \ {t} : pc'[u] = "Idle"
  BY Alone DEF Return, Begin, PortInv, ControlType
<1>3. /\ Cleared(t)' /\ Answered(t)'
      /\ plan' = [u \in Thread |-> plan'[u]]
      /\ req' \in [Thread -> Nat] /\ sent' \in Nat
  <2>1. CASE \E p : Begin(t, p)
    BY <2>1, BeginKeeps
  <2>2. CASE /\ pc' = [pc EXCEPT ![t] = "Idle"]
             /\ plan' = [plan EXCEPT ![t] = <<>>]
             /\ UNCHANGED <<req, polls, sent>>
    <3>1. pc'[t] = "Idle"
      BY <2>2 DEF PortInv, ControlType
    <3>2. QED
      BY <2>2, <3>1, IdleKeeps
  <2>3. QED
    BY <2>1, <2>2 DEF Return
<1>4. \A u \in Thread : Cleared(u)' /\ Answered(u)'
  BY <1>2, <1>3, IdleKeeps
<1>5. busy \subseteq abandoned'
  BY <1>1, Alone
<1>6. BusyKnown' /\ Q3Open' /\ OverrunNeedsTimeout'
  BY <1>1, <1>5 DEF BusyKnown, Q3Open, OverrunNeedsTimeout
<1>7. DataType'
  BY <1>1, <1>3
<1>8. QED
  BY <1>4, <1>6, <1>7

\* A step inside a sender: what is left to show is what it does to the mailbox.
LEMMA StepKeeps ==
  ASSUME MailInv, PortInv', NEW t \in Thread, pc[t] # "Idle",
         NEW s \in Access, Step(t, s),
         reg' \in [Smn -> Value], busy' \subseteq Queue,
         overrun' \subseteq overrun \cup busy, overrun \subseteq overrun',
         Cleared(t)', Answered(t)', Q3Open', OverrunNeedsTimeout',
         \A q \in busy' : q \in abandoned \/ (q = Q(t) /\ s = "wait")
  PROVE  MailInv'
<1> USE DEF MailInv, DataType, Step
<1>1. \A u \in Thread \ {t} : pc'[u] = "Idle"
  BY Alone DEF PortInv, ControlType
<1>2. \A u \in Thread : Cleared(u)' /\ Answered(u)'
  BY <1>1, IdleKeeps
<1>3. pc'[t] = s /\ Q(t)' = Q(t)
  BY DEF PortInv, ControlType, Q, Sender
<1>4. BusyKnown'
  BY <1>3 DEF BusyKnown
<1>5. OwnAnswer'
  BY DEF OwnAnswer
<1>6. DataType'
  OBVIOUS
<1>7. QED
  BY <1>2, <1>4, <1>5, <1>6

\* A poll that has not ended: nothing changes but its count.
LEMMA PollKeeps ==
  ASSUME MailInv, PortInv', NEW t \in Thread, Poll(t),
         UNCHANGED <<reg, busy, overrun>>
  PROVE  MailInv'
<1> USE DEF MailInv, DataType, Poll
<1>1. \A u \in Thread : Q(u)' = Q(u)
  BY DEF Q, Sender
<1>2. \A u \in Thread : Cleared(u)' /\ Answered(u)'
  BY <1>1 DEF Cleared, Answered
<1>3. BusyKnown' /\ Q3Open' /\ OwnAnswer' /\ OverrunNeedsTimeout'
  BY <1>1 DEF BusyKnown, Q3Open, OwnAnswer, OverrunNeedsTimeout
<1>4. QED
  BY <1>2, <1>3

\* A sender that fails reports no answer.
LEMMA FailKeeps ==
  ASSUME MailInv, PortInv', NEW t \in Thread, pc[t] # "Idle",
         Fail(t), UNCHANGED <<reg, busy, overrun>>
  PROVE  MailInv'
<1>1. result' = [result EXCEPT ![t] = [q |-> Q(t), of |-> req[t], ans |-> 0]]
  BY DEF Fail, Come
<1>2. result' \in [Thread -> [q : Queue, of : Nat, ans : Nat]]
  BY <1>1, QueueIs DEF MailInv, DataType
<1>3. OwnAnswer'
  BY <1>1 DEF OwnAnswer, MailInv, DataType
<1>4. QED
  BY <1>2, <1>3, ReturnKeeps DEF Fail

\* The data half reaches the register its sender has selected.
LEMMA AtTarget ==
  ASSUME MailInv, NEW t \in Thread, NEW s, Data(t, s)
  PROVE  /\ s \in {"ready", "look", "ack", "wait"} => smnIndex = <<Q(t), "rsp">>
         /\ s \in {"arg", "resp"} => smnIndex = <<Q(t), "arg">>
         /\ s = "cmd" => smnIndex = <<Q(t), "cmd">>
         /\ pc[t] = s
BY Targets DEF MailInv, PortInv, PortPaired, Data

\* Ready: the wait that keeps queue 3 from being overrun.
LEMMA ReadyKeeps ==
  ASSUME MailInv, PortInv', NEW t \in Thread, Ready(t)
  PROVE  MailInv'
<1>1. pc[t] = "ready" /\ smnIndex = <<Q(t), "rsp">>
  BY AtTarget DEF Ready
<1>2. CASE Done(t) /\ Step(t, "ack")
  <2>1. UNCHANGED <<reg, busy, overrun, abandoned>> /\ pc'[t] = "ack" /\ Q(t)' = Q(t)
    BY <1>2 DEF Ready, Step, MailInv, PortInv, ControlType, Q, Sender
  <2>2. Q(t) = "Q3" => "Q3" \notin busy
    BY <1>1, <1>2, ValueFacts DEF Done, MailInv, Q3Open
  <2>3. Cleared(t)' /\ Answered(t)'
    BY <2>1, <2>2 DEF Cleared, Answered
  <2>4. Q3Open' /\ OverrunNeedsTimeout'
    BY <2>1 DEF MailInv, Q3Open, OverrunNeedsTimeout
  <2>5. busy \subseteq abandoned
    BY <1>1, Alone
  <2>6. QED
    BY <1>1, <1>2, <2>1, <2>3, <2>4, <2>5, StepKeeps DEF MailInv, DataType
<1>3. CASE Poll(t)
  BY <1>3, PollKeeps DEF Ready
<1>4. CASE Fail(t)
  BY <1>1, <1>4, FailKeeps DEF Ready
<1>5. QED
  BY <1>2, <1>3, <1>4 DEF Ready

\* A sender that begins to write a busy mailbox is not one of queue 3, and the
\* caller before it has given up.
LEMMA NoteKeeps ==
  ASSUME MailInv, NEW t \in Thread, pc[t] \notin {"Idle", "wait"}, NoteOverrun(t),
         abandoned' = abandoned, Q(t) = "Q3" => "Q3" \notin busy
  PROVE  /\ overrun' = overrun \cup (busy \cap {Q(t)})
         /\ overrun' \subseteq overrun \cup busy /\ overrun \subseteq overrun'
         /\ Q(t) \in busy => Q(t) \in overrun'
         /\ busy \subseteq abandoned
         /\ OverrunNeedsTimeout'
BY Alone DEF NoteOverrun, MailInv, OverrunNeedsTimeout

\* Look: queue 0 only, and it may find the SMU at work.
LEMMA LookKeeps ==
  ASSUME MailInv, PortInv', NEW t \in Thread, Look(t)
  PROVE  MailInv'
<1>1. pc[t] = "look" /\ smnIndex = <<Q(t), "rsp">> /\ Q(t) # "Q3"
  BY AtTarget DEF Look, MailInv, Cleared
<1>2. PICK s \in {"ack", "arg"} :
         Step(t, s) /\ (s = "arg" => reg[<<Q(t), "rsp">>] # Code(Ok))
  BY <1>1 DEF Look
<1>3. UNCHANGED <<reg, busy, abandoned>> /\ pc'[t] = s /\ Q(t)' = Q(t)
  BY <1>2 DEF Look, Step, MailInv, PortInv, ControlType, Q, Sender
<1>4. /\ overrun' \subseteq overrun \cup busy /\ overrun \subseteq overrun'
      /\ Q(t) \in busy => Q(t) \in overrun'
      /\ busy \subseteq abandoned
      /\ OverrunNeedsTimeout'
  BY <1>1, <1>3, NoteKeeps DEF Look
<1>5. Cleared(t)' /\ Answered(t)'
  BY <1>1, <1>2, <1>3, <1>4 DEF Cleared, Answered
<1>6. Q3Open'
  BY <1>3 DEF MailInv, Q3Open
<1>7. QED
  BY <1>1, <1>2, <1>3, <1>4, <1>5, <1>6, StepKeeps DEF MailInv, DataType

\* Ack: the queue shows no answer from here on.
LEMMA AckKeeps ==
  ASSUME MailInv, PortInv', NEW t \in Thread, Ack(t)
  PROVE  MailInv'
<1>1. /\ pc[t] = "ack" /\ smnIndex = <<Q(t), "rsp">>
      /\ Q(t) = "Q3" => "Q3" \notin busy
  BY AtTarget DEF Ack, MailInv, Cleared
<1>2. /\ Step(t, "arg") /\ reg' = [reg EXCEPT ![<<Q(t), "rsp">>] = Code(0)]
      /\ busy' = busy /\ abandoned' = abandoned /\ pc'[t] = "arg" /\ Q(t)' = Q(t)
  BY <1>1 DEF Ack, Write, Step, MailInv, PortInv, ControlType, Q, Sender
<1>3. /\ reg' \in [Smn -> Value]
      /\ reg'[<<Q(t), "rsp">>] = Code(0)
  BY <1>2, QueueIs, SmnFacts, ValueFacts DEF MailInv, DataType
<1>4. /\ overrun' \subseteq overrun \cup busy /\ overrun \subseteq overrun'
      /\ Q(t) \in busy => Q(t) \in overrun'
      /\ busy \subseteq abandoned
      /\ OverrunNeedsTimeout'
  BY <1>1, <1>2, NoteKeeps DEF Ack
<1>5. Cleared(t)' /\ Answered(t)'
  BY <1>1, <1>2, <1>3, <1>4, ValueFacts DEF Cleared, Answered
<1>6. Q3Open'
  <2>1. reg'[<<"Q3", "rsp">>] = reg[<<"Q3", "rsp">>] \/ reg'[<<"Q3", "rsp">>] = Code(0)
    BY <1>2, QueueIs, SmnFacts DEF MailInv, DataType, Queue
  <2>2. QED
    BY <1>2, <2>1 DEF MailInv, Q3Open
<1>7. QED
  BY <1>1, <1>2, <1>3, <1>4, <1>5, <1>6, StepKeeps DEF MailInv, DataType

\* WriteArg: the argument is in place.
LEMMA WriteArgKeeps ==
  ASSUME MailInv, PortInv', NEW t \in Thread, WriteArg(t)
  PROVE  MailInv'
<1>1. /\ pc[t] = "arg" /\ smnIndex = <<Q(t), "arg">>
      /\ Q(t) \in overrun \/ (Q(t) \notin busy /\ reg[<<Q(t), "rsp">>] # Code(Ok))
      /\ Q(t) = "Q3" => "Q3" \notin busy /\ reg[<<"Q3", "rsp">>] = Code(0)
  BY AtTarget DEF WriteArg, MailInv, Cleared
<1>2. /\ Step(t, "cmd") /\ reg' = [reg EXCEPT ![<<Q(t), "arg">>] = Arg(req[t])]
      /\ busy' = busy /\ abandoned' = abandoned /\ pc'[t] = "cmd" /\ Q(t)' = Q(t)
      /\ req' = req
  BY <1>1 DEF WriteArg, Write, Step, MailInv, PortInv, ControlType, Q, Sender
<1>3. /\ reg' \in [Smn -> Value]
      /\ reg'[<<Q(t), "arg">>] = Arg(req[t])
      /\ \A q \in Queue : reg'[<<q, "rsp">>] = reg[<<q, "rsp">>]
  BY <1>2, QueueIs, SmnFacts, ValueFacts DEF MailInv, DataType
<1>4. /\ overrun' \subseteq overrun \cup busy /\ overrun \subseteq overrun'
      /\ busy \subseteq abandoned
      /\ OverrunNeedsTimeout'
  BY <1>1, <1>2, NoteKeeps DEF WriteArg
<1>5. Cleared(t)' /\ Answered(t)'
  BY <1>1, <1>2, <1>3, <1>4, QueueIs DEF Cleared, Answered
<1>6. Q3Open'
  BY <1>2, <1>3 DEF MailInv, Q3Open, Queue
<1>7. QED
  BY <1>1, <1>2, <1>3, <1>4, <1>5, <1>6, StepKeeps DEF MailInv, DataType

\* WriteCmd: the SMU has the message and its argument.
LEMMA WriteCmdKeeps ==
  ASSUME MailInv, PortInv', NEW t \in Thread, WriteCmd(t)
  PROVE  MailInv'
<1>1. /\ pc[t] = "cmd" /\ smnIndex = <<Q(t), "cmd">>
      /\ Q(t) \in overrun \/ (Q(t) \notin busy /\ reg[<<Q(t), "rsp">>] # Code(Ok))
      /\ Q(t) \in overrun \/ reg[<<Q(t), "arg">>] = Arg(req[t])
      /\ Q(t) = "Q3" => "Q3" \notin busy /\ reg[<<"Q3", "rsp">>] = Code(0)
  BY AtTarget DEF WriteCmd, MailInv, Cleared
<1>2. /\ Step(t, "wait") /\ reg' = [reg EXCEPT ![<<Q(t), "cmd">>] = Cmd(req[t])]
      /\ abandoned' = abandoned /\ pc'[t] = "wait" /\ Q(t)' = Q(t)
      /\ req' = req
  BY <1>1 DEF WriteCmd, Write, Step, MailInv, PortInv, ControlType, Q, Sender
<1>3. busy' = busy \cup {Q(t)}
  BY <1>1, QueueIs, SmnFacts DEF WriteCmd
<1>4. /\ reg' \in [Smn -> Value]
      /\ reg'[<<Q(t), "cmd">>] = Cmd(req[t])
      /\ \A q \in Queue : /\ reg'[<<q, "rsp">>] = reg[<<q, "rsp">>]
                          /\ reg'[<<q, "arg">>] = reg[<<q, "arg">>]
  BY <1>2, QueueIs, SmnFacts, ValueFacts DEF MailInv, DataType
<1>5. /\ overrun' \subseteq overrun \cup busy /\ overrun \subseteq overrun'
      /\ busy \subseteq abandoned
      /\ OverrunNeedsTimeout'
  BY <1>1, <1>2, NoteKeeps DEF WriteCmd
<1>6. Cleared(t)' /\ Answered(t)'
  BY <1>1, <1>2, <1>3, <1>4, <1>5, QueueIs DEF Cleared, Answered
<1>7. Q3Open'
  BY <1>1, <1>3, <1>4 DEF MailInv, Q3Open, Queue
<1>8. QED
  BY <1>1, <1>2, <1>3, <1>4, <1>5, <1>6, <1>7, QueueIs, StepKeeps
  DEF MailInv, DataType

\* Wait: an OK means the SMU has answered this message.
LEMMA WaitKeeps ==
  ASSUME MailInv, PortInv', NEW t \in Thread, Wait(t)
  PROVE  MailInv'
<1>1. pc[t] = "wait" /\ smnIndex = <<Q(t), "rsp">> /\ Answered(t)
  BY AtTarget DEF Wait, MailInv
<1>2. CASE reg[smnIndex] = Code(Ok) /\ Step(t, "resp")
  <2>1. /\ UNCHANGED <<reg, busy, overrun, abandoned, req>>
        /\ pc'[t] = "resp" /\ Q(t)' = Q(t)
    BY <1>2 DEF Wait, Step, MailInv, PortInv, ControlType, Q, Sender
  <2>2. Q(t) \in overrun \/ (Q(t) \notin busy /\ reg[<<Q(t), "arg">>] = Ans(req[t]))
    BY <1>1, <1>2 DEF Answered
  <2>3. Cleared(t)' /\ Answered(t)'
    BY <2>1, <2>2 DEF Cleared, Answered
  <2>4. Q3Open' /\ OverrunNeedsTimeout'
    BY <2>1 DEF MailInv, Q3Open, OverrunNeedsTimeout
  <2>5. busy \subseteq abandoned
    BY <1>1, <2>2, Alone DEF MailInv, OverrunNeedsTimeout
  <2>6. QED
    BY <1>1, <1>2, <2>1, <2>3, <2>4, <2>5, StepKeeps DEF MailInv, DataType
<1>3. CASE Poll(t)
  BY <1>3, PollKeeps DEF Wait
<1>4. CASE Fail(t)
  BY <1>1, <1>4, FailKeeps DEF Wait
<1>5. QED
  BY <1>2, <1>3, <1>4 DEF Wait

\* Response: what it reads is the answer to this message.
LEMMA ResponseKeeps ==
  ASSUME MailInv, PortInv', NEW t \in Thread, Response(t)
  PROVE  MailInv'
<1>1. /\ pc[t] = "resp" /\ smnIndex = <<Q(t), "arg">>
      /\ Q(t) \in overrun \/ reg[<<Q(t), "arg">>] = Ans(req[t])
  BY AtTarget DEF Response, MailInv, Answered
<1>2. PICK n : /\ n = IF reg[smnIndex].kind = "ans" THEN reg[smnIndex].n ELSE Nobody
               /\ result' = [result EXCEPT ![t] =
                               [q |-> Q(t), of |-> req[t], ans |-> n]]
  BY DEF Response, Come
<1>3. n \in Nat
  <2>1. reg[smnIndex] \in Value
    BY <1>1, QueueIs, SmnFacts DEF MailInv, DataType
  <2>2. reg[smnIndex].n \in Nat /\ Nobody \in Nat
    BY <2>1 DEF Value, Nobody
  <2>3. QED
    BY <1>2, <2>2
<1>4. result' \in [Thread -> [q : Queue, of : Nat, ans : Nat]]
  BY <1>2, <1>3, QueueIs DEF MailInv, DataType
<1>5. Q(t) \in overrun \/ n = req[t]
  BY <1>1, <1>2 DEF Ans
<1>6. OwnAnswer'
  BY <1>2, <1>5 DEF Response, OwnAnswer, MailInv, DataType
<1>7. QED
  BY <1>1, <1>4, <1>6, ReturnKeeps DEF Response

\* Peek touches no queue.
LEMMA PeekKeeps ==
  ASSUME MailInv, PortInv', NEW t \in Thread, Peek(t)
  PROVE  MailInv'
<1>1. pc[t] = "peek"
  BY DEF Peek, Data
<1>2. UNCHANGED <<reg, busy, overrun, result>>
  BY DEF Peek
<1>3. OwnAnswer' /\ result' \in [Thread -> [q : Queue, of : Nat, ans : Nat]]
  BY <1>2 DEF MailInv, OwnAnswer, DataType
<1>4. PICK ok : Return(t, ok)
  BY DEF Peek
<1>5. QED
  BY <1>1, <1>2, <1>3, <1>4, ReturnKeeps

\* What the SMU answers a sender that waits: as no one has overrun the queue,
\* the argument is still the one of the command.
LEMMA SmuAnswerKeeps ==
  ASSUME MailInv, PortInv', NEW q \in Queue, SmuAnswer(q)
  PROVE  MailInv'
<1> DEFINE n == reg[<<q, "cmd">>].n
           own == reg[<<q, "arg">>] = Arg(n)
<1>1. /\ q \in busy /\ busy' = busy \ {q}
      /\ UNCHANGED <<pc, plan, req, result, sent, abandoned, overrun>>
      /\ \A u \in Thread : Q(u)' = Q(u)
  BY DEF SmuAnswer, thread, Q, Sender
<1>2. PICK c \in {Code(Ok), Code(Failed)}, a \in Value :
        /\ reg' = [reg EXCEPT ![<<q, "rsp">>] = c, ![<<q, "arg">>] = a]
        /\ c = Code(Ok) /\ own => a = Ans(n)
  <2>1. n \in Nat /\ reg[<<q, "arg">>] \in Value
    BY SmnFacts DEF MailInv, DataType, Value
  <2>2. CASE reg' = [reg EXCEPT ![<<q, "rsp">>] = Code(Ok),
                                ![<<q, "arg">>] = Ans(IF own THEN n ELSE Nobody)]
    <3>1. Ans(IF own THEN n ELSE Nobody) \in Value
      BY <2>1, ValueFacts DEF Nobody
    <3>2. QED
      BY <2>2, <3>1
  <2>3. CASE reg' = [reg EXCEPT ![<<q, "rsp">>] = Code(Failed)]
    <3>1. reg' = [reg EXCEPT ![<<q, "rsp">>] = Code(Failed),
                             ![<<q, "arg">>] = reg[<<q, "arg">>]]
      BY <2>3, SmnFacts DEF MailInv, DataType
    <3>2. QED
      BY <2>1, <3>1, ValueFacts
  <2>4. QED
    BY <2>2, <2>3 DEF SmuAnswer
<1>3. /\ reg' \in [Smn -> Value]
      /\ reg'[<<q, "rsp">>] = c /\ reg'[<<q, "arg">>] = a
      /\ \A p \in Queue : /\ reg'[<<p, "cmd">>] = reg[<<p, "cmd">>]
                          /\ p # q => /\ reg'[<<p, "rsp">>] = reg[<<p, "rsp">>]
                                      /\ reg'[<<p, "arg">>] = reg[<<p, "arg">>]
  BY <1>2, SmnFacts, ValueFacts DEF MailInv, DataType
<1>4. ASSUME NEW t \in Thread PROVE Cleared(t)' /\ Answered(t)'
  <2>1. CASE Q(t) # q
    <3>1. Cleared(t) /\ Answered(t) /\ Q(t) \in Queue
      BY QueueIs DEF MailInv
    <3>2. /\ reg'[<<Q(t), "rsp">>] = reg[<<Q(t), "rsp">>]
          /\ reg'[<<Q(t), "arg">>] = reg[<<Q(t), "arg">>]
          /\ reg'[<<Q(t), "cmd">>] = reg[<<Q(t), "cmd">>]
          /\ Q(t) \in busy' <=> Q(t) \in busy
      BY <1>1, <1>3, <2>1, <3>1
    <3>3. Cleared(t)'
      BY <1>1, <3>1, <3>2, <2>1 DEF Cleared
    <3>4. Answered(t)'
      BY <1>1, <3>1, <3>2 DEF Answered
    <3>5. QED
      BY <3>3, <3>4
  <2>2. CASE Q(t) = q
    <3>1. Cleared(t)'
      BY <1>1, <2>2 DEF Cleared, MailInv
    <3>2. pc[t] = "wait" /\ Q(t) \notin overrun => n = req[t] /\ own
      <4>1. SUFFICES ASSUME pc[t] = "wait", Q(t) \notin overrun
                     PROVE  n = req[t] /\ own
        OBVIOUS
      <4>2. reg[<<q, "cmd">>] = Cmd(req[t]) /\ reg[<<q, "arg">>] = Arg(req[t])
        BY <1>1, <2>2, <4>1 DEF MailInv, Answered
      <4>3. n = req[t]
        BY <4>2 DEF Cmd
      <4>4. QED
        BY <4>2, <4>3
    <3>3. Answered(t)'
      BY <1>1, <1>2, <1>3, <2>2, <3>2 DEF Answered, MailInv
    <3>4. QED
      BY <3>1, <3>3
  <2>3. QED
    BY <2>1, <2>2
<1>5. BusyKnown'
  BY <1>1 DEF BusyKnown, MailInv
<1>6. Q3Open'
  BY <1>1, <1>3 DEF Q3Open, MailInv, Queue
<1>7. OwnAnswer' /\ OverrunNeedsTimeout'
  BY <1>1 DEF OwnAnswer, OverrunNeedsTimeout, MailInv
<1>8. DataType'
  BY <1>1, <1>3 DEF DataType, MailInv
<1>9. QED
  BY <1>4, <1>5, <1>6, <1>7, <1>8 DEF MailInv

\* A handler that enters finds nobody inside.
LEMMA EnterAlone ==
  ASSUME PortInv, PortInv', NEW t \in Thread, pc[t] = "Idle",
         NEW a \in Access, pc' = [pc EXCEPT ![t] = a]
  PROVE  \A u \in Thread : pc[u] = "Idle"
BY DEF PortInv, ControlType, OneInside

\* Enter: with nobody inside, what is busy has been abandoned.
LEMMA EnterKeeps ==
  ASSUME MailInv, PortInv', NEW t \in Thread, Enter(t)
  PROVE  MailInv'
<1>1. PICK p : /\ pc[t] = "Idle" /\ Begin(t, p)
               /\ UNCHANGED <<result, reg, busy, abandoned, overrun>>
  BY DEF Enter, EnterLocked, EnterUnlocked, history
<1>2. \A u \in Thread : pc[u] = "Idle"
  BY <1>1, EnterAlone, FirstIsAccess DEF MailInv, Begin
<1>3. /\ Cleared(t)' /\ Answered(t)' /\ plan' = [u \in Thread |-> plan'[u]]
      /\ req' \in [Thread -> Nat] /\ sent' \in Nat
  BY <1>1, BeginKeeps
<1>4. \A u \in Thread \ {t} : pc'[u] = "Idle"
  BY <1>1, <1>2 DEF Begin, MailInv, PortInv, ControlType
<1>5. \A u \in Thread : Cleared(u)' /\ Answered(u)'
  BY <1>3, <1>4, IdleKeeps
<1>6. busy \subseteq abandoned
  BY <1>2 DEF MailInv, BusyKnown
<1>7. BusyKnown' /\ Q3Open' /\ OwnAnswer' /\ OverrunNeedsTimeout'
  BY <1>1, <1>6 DEF MailInv, BusyKnown, Q3Open, OwnAnswer, OverrunNeedsTimeout
<1>8. DataType'
  BY <1>1, <1>3 DEF MailInv, DataType
<1>9. QED
  BY <1>5, <1>7, <1>8 DEF MailInv

\* Nothing of the mailboxes changes when a pair is opened, or in a stutter.
LEMMA AddressKeeps ==
  ASSUME MailInv, PortInv', UNCHANGED <<thread, reg, busy, sent, history>>
  PROVE  MailInv'
<1> USE DEF thread, history
<1>1. \A u \in Thread : Q(u)' = Q(u)
  BY DEF Q, Sender
<1>2. \A u \in Thread : Cleared(u)' /\ Answered(u)'
  BY <1>1 DEF Cleared, Answered, MailInv
<1>3. BusyKnown' /\ Q3Open' /\ OwnAnswer' /\ OverrunNeedsTimeout'
  BY <1>1 DEF MailInv, BusyKnown, Q3Open, OwnAnswer, OverrunNeedsTimeout
<1>4. DataType'
  BY DEF MailInv, DataType
<1>5. QED
  BY <1>2, <1>3, <1>4 DEF MailInv

\* One step per action.
LEMMA MailNext ==
  ASSUME MailInv, [Next]_vars, UnlockedComesAlone'
  PROVE  MailInv'
<1>1. PortInv'
  BY PortNext DEF MailInv
<1>2. CASE UNCHANGED vars
  BY <1>1, <1>2, AddressKeeps DEF vars
<1>3. ASSUME NEW t \in Thread, Enter(t) PROVE MailInv'
  BY <1>1, <1>3, EnterKeeps
<1>4. ASSUME NEW t \in Thread, Run(t) PROVE MailInv'
  <2>1. CASE Address(t)
    BY <1>1, <2>1, AddressKeeps DEF Address
  <2>2. CASE Ready(t) \/ Look(t) \/ Ack(t) \/ WriteArg(t) \/ WriteCmd(t)
    BY <1>1, <2>2, ReadyKeeps, LookKeeps, AckKeeps, WriteArgKeeps, WriteCmdKeeps
  <2>3. CASE Wait(t) \/ Response(t) \/ Peek(t)
    BY <1>1, <2>3, WaitKeeps, ResponseKeeps, PeekKeeps
  <2>4. QED
    BY <1>4, <2>1, <2>2, <2>3 DEF Run
<1>5. ASSUME NEW q \in Queue, SmuAnswer(q) PROVE MailInv'
  BY <1>1, <1>5, SmuAnswerKeeps
<1>6. QED
  BY <1>2, <1>3, <1>4, <1>5 DEF Next

\* The invariant holds in every state.
LEMMA MailAlways == Spec /\ []UnlockedComesAlone => []MailInv
<1>1. MailInv /\ [Next]_vars /\ UnlockedComesAlone' => MailInv'
  BY MailNext
<1>2. QED
  BY MailInit, <1>1, PTL DEF Spec

\* A message comes back with its own answer or none, unless its queue was
\* written while the SMU was still at work on it.
THEOREM AloneOwnAnswer == Spec /\ []UnlockedComesAlone => []OwnAnswer
<1>1. MailInv => OwnAnswer
  BY DEF MailInv
<1>2. QED
  BY MailAlways, <1>1, PTL

\* ... and that needs a caller that gave up on the queue before; queue 3, whose
\* sender waits for the mailbox, is never written so (SmuQ3WaitDone first).
THEOREM AloneOverrun == Spec /\ []UnlockedComesAlone => []OverrunNeedsTimeout
<1>1. MailInv => OverrunNeedsTimeout
  BY DEF MailInv
<1>2. QED
  BY MailAlways, <1>1, PTL

-----------------------------------------------------------------------------
(* The step simulation of SmuService, as long as the handlers are those    *)
(* that take DeviceMutex and whose senders wait for the mailbox before     *)
(* they write it.                                                          *)

USE MailboxAssumption DEF Access

\* The IOCTLs of run smu_service.
Waiting == {"SMU_CPU_MSG", "PCI_SMN_ACCESS"}

\* Their plans are one sender long, and each sender waits, or only reads.
WaitingPlans ==
  /\ handler \in [Thread -> Waiting \cup {"none"}]
  /\ \A t \in Thread : pc[t] # "Idle" =>
       /\ handler[t] \in Waiting
       /\ plan[t] \in {<<"Direct">>, <<"Q3">>, <<"Peek">>}
       /\ pc[t] # "look"

Posted == {reg[<<q, "cmd">>].n : q \in busy}

\* The number a thread is about to post is new.
Fresh(t) ==
  pc[t] \in {"ready", "ack", "arg", "cmd"} =>
    req[t] \in 1..MaxSent /\ req[t] \notin served /\ req[t] \notin Posted

Numbers ==
  /\ sent <= MaxSent
  /\ served \subseteq 1..sent
  /\ \A q \in busy : reg[<<q, "cmd">>].n \in 1..sent
  /\ \A t \in Thread : req[t] <= sent
  /\ \A t \in Thread : Fresh(t)

\* A busy queue holds one message and its argument, which the SMU has not
\* executed, and no other queue holds the same one.
BusyHolds ==
  \A q \in busy :
    /\ reg[<<q, "rsp">>] = Code(0)
    /\ reg[<<q, "arg">>] = Arg(reg[<<q, "cmd">>].n)
    /\ reg[<<q, "cmd">>].n \notin served
    /\ \A p \in busy : reg[<<p, "cmd">>].n = reg[<<q, "cmd">>].n => p = q

\* A sender past its wait has the mailbox to itself, and is told only of a
\* message the SMU has executed.
OwnsQueue(t) ==
  /\ pc[t] \in {"ack", "arg", "cmd"} => Q(t) \notin busy
  /\ pc[t] \in {"arg", "cmd"} => reg[<<Q(t), "rsp">>] = Code(0)
  /\ pc[t] = "cmd" => reg[<<Q(t), "arg">>] = Arg(req[t])
  /\ pc[t] = "wait" =>
       /\ reg[<<Q(t), "cmd">>] = Cmd(req[t])
       /\ Q(t) \notin busy /\ reg[<<Q(t), "rsp">>] = Code(Ok) =>
            req[t] \in served /\ reg[<<Q(t), "arg">>] = Ans(req[t])
  /\ pc[t] = "resp" => req[t] \in served /\ reg[<<Q(t), "arg">>] = Ans(req[t])

ServiceInv ==
  /\ MailInv
  /\ WaitingPlans
  /\ Numbers
  /\ BusyHolds
  /\ \A t \in Thread : OwnsQueue(t)
  /\ overrun = {}

\* Nothing is posted, executed or answered at first.
LEMMA ServiceInit == Init => ServiceInv /\ Service!Init
<1> SUFFICES ASSUME Init PROVE ServiceInv /\ Service!Init
  OBVIOUS
<1>1. WaitingPlans /\ BusyHolds /\ overrun = {} /\ \A t \in Thread : OwnsQueue(t)
  BY DEF Init, WaitingPlans, BusyHolds, OwnsQueue
<1>2. Numbers
  <2>1. /\ pc = [t \in Thread |-> "Idle"] /\ req = [t \in Thread |-> 0]
        /\ busy = {} /\ sent = 0 /\ served = {}
    BY DEF Init
  <2>2. \A t \in Thread : pc[t] = "Idle" /\ req[t] = 0
    BY <2>1
  <2>3. \A t \in Thread : Fresh(t)
    BY <2>2 DEF Fresh
  <2>4. sent <= MaxSent /\ \A t \in Thread : req[t] <= sent
    BY <2>1, <2>2
  <2>5. QED
    BY <2>1, <2>3, <2>4 DEF Numbers
<1>3. Service!Init
  BY DEF Init, Service!Init, NoResult
<1>4. QED
  BY MailInit, <1>1, <1>2, <1>3 DEF ServiceInv

\* The plans of the waiting handlers are spent after one sender.
LEMMA OneSender ==
  /\ \A h \in Waiting : Plans(h) \subseteq {<<"Direct">>, <<"Q3">>, <<"Peek">>}
  /\ \A h \in Waiting, ok \in BOOLEAN : Rest(h, ok, <<>>) = <<>>
<1>1. \A h \in Waiting : Plans(h) \subseteq {<<"Direct">>, <<"Q3">>, <<"Peek">>}
  <2>1. Plans("SMU_CPU_MSG") = {<<"Direct">>, <<"Q3">>}
    BY DEF Plans
  <2>2. Plans("PCI_SMN_ACCESS") = {<<"Peek">>}
    BY DEF Plans
  <2>3. QED
    BY <2>1, <2>2 DEF Waiting
<1>2. ASSUME NEW h \in Waiting, NEW ok \in BOOLEAN PROVE Rest(h, ok, <<>>) = <<>>
  <2>1. h # "SMU_UNLOCK_STEP"
    BY DEF Waiting
  <2>2. QED
    BY <2>1 DEF Rest
<1>3. QED
  BY <1>1, <1>2

\* A plan of one sender is spent after it.
LEMMA TailOfOne == \A x : Tail(<<x>>) = <<>>
OBVIOUS

\* A waiting handler ends with its sender.
LEMMA ReturnEnds ==
  ASSUME ServiceInv, NEW t \in Thread, pc[t] # "Idle", NEW ok \in BOOLEAN, Return(t, ok)
  PROVE  /\ pc' = [pc EXCEPT ![t] = "Idle"]
         /\ plan' = [plan EXCEPT ![t] = <<>>]
         /\ UNCHANGED <<req, sent>>
<1>1. handler[t] \in Waiting /\ plan[t] \in {<<"Direct">>, <<"Q3">>, <<"Peek">>}
  BY DEF ServiceInv, WaitingPlans
<1>2. Tail(plan[t]) = <<>>
  BY <1>1, TailOfOne
<1>3. Rest(handler[t], ok, Tail(plan[t])) = <<>>
  BY <1>1, <1>2, OneSender
<1>4. QED
  BY <1>3 DEF Return

\* A sender that ends leaves the mailboxes as they are.
LEMMA EndKeeps ==
  ASSUME ServiceInv, MailInv', NEW t \in Thread, pc[t] # "Idle",
         NEW ok \in BOOLEAN, Return(t, ok),
         UNCHANGED <<handler, reg, busy, served, overrun>>
  PROVE  ServiceInv' /\ Posted' = Posted
<1>1. /\ pc' = [pc EXCEPT ![t] = "Idle"] /\ UNCHANGED <<req, sent>>
  BY ReturnEnds
<1>2. \A u \in Thread : pc'[u] = "Idle"
  BY <1>1, Alone DEF ServiceInv, MailInv, PortInv, ControlType
<1>3. WaitingPlans' /\ \A u \in Thread : OwnsQueue(u)' /\ Fresh(u)'
  BY <1>2 DEF ServiceInv, WaitingPlans, OwnsQueue, Fresh
<1>4. Numbers' /\ BusyHolds' /\ Posted' = Posted
  BY <1>1, <1>3 DEF ServiceInv, Numbers, BusyHolds, Posted
<1>5. QED
  BY <1>3, <1>4 DEF ServiceInv

\* A step inside a sender: what is left to show is what it does to its queue.
LEMMA SenderKeeps ==
  ASSUME ServiceInv, MailInv', NEW t \in Thread, pc[t] # "Idle",
         NEW s \in Access \ {"look"}, pc' = [pc EXCEPT ![t] = s],
         UNCHANGED <<handler, plan, req, sent, served, overrun>>,
         \A q \in busy' : reg'[<<q, "cmd">>].n \in 1..sent,
         Fresh(t)', BusyHolds', OwnsQueue(t)'
  PROVE  ServiceInv'
<1>1. \A u \in Thread \ {t} : pc'[u] = "Idle"
  BY Alone DEF ServiceInv, MailInv, PortInv, ControlType
<1>2. \A u \in Thread : OwnsQueue(u)' /\ Fresh(u)'
  BY <1>1 DEF OwnsQueue, Fresh
<1>3. WaitingPlans'
  BY <1>1 DEF ServiceInv, WaitingPlans, MailInv, PortInv, ControlType
<1>4. Numbers'
  BY <1>2 DEF ServiceInv, Numbers
<1>5. QED
  BY <1>2, <1>3, <1>4 DEF ServiceInv

Stutter == Posted' = Posted /\ UNCHANGED <<served, result>>

\* Where the mailboxes stay as they are, SmuService sees nothing.
LEMMA SameQueues ==
  ASSUME ServiceInv, UNCHANGED <<reg, busy, served>>
  PROVE  /\ Posted' = Posted /\ BusyHolds'
         /\ \A q \in busy' : reg'[<<q, "cmd">>].n \in 1..sent
BY DEF ServiceInv, BusyHolds, Posted, Numbers

\* What a step inside a sender leaves alone.
LEMMA StepControl ==
  ASSUME ServiceInv, NEW t \in Thread, NEW s \in Access, NEW r, Data(t, r), Step(t, s)
  PROVE  /\ pc' = [pc EXCEPT ![t] = s] /\ pc'[t] = s /\ pc[t] = r
         /\ UNCHANGED <<handler, plan, req, sent, result, abandoned>>
         /\ Q(t)' = Q(t)
         /\ handler[t] \in Waiting /\ plan[t] \in {<<"Direct">>, <<"Q3">>, <<"Peek">>}
         /\ pc[t] # "Idle"
<1>1. /\ pc' = [pc EXCEPT ![t] = s] /\ pc'[t] = s /\ pc[t] = r
      /\ UNCHANGED <<handler, plan, req, sent, result, abandoned>>
      /\ Q(t)' = Q(t)
  BY DEF Data, Step, Q, Sender, ServiceInv, MailInv, PortInv, ControlType
<1>2. pc[t] # "Idle"
  BY DEF Data, ServiceInv, MailInv, PortInv, OpenInside
<1>3. QED
  BY <1>1, <1>2 DEF ServiceInv, WaitingPlans

\* Ready, unless it gives up: the queue it finds done is free.
LEMMA ReadyRefines ==
  ASSUME ServiceInv, MailInv', NEW t \in Thread, Ready(t), ~Fail(t)
  PROVE  ServiceInv' /\ Stutter
<1>1. /\ pc[t] = "ready" /\ smnIndex = <<Q(t), "rsp">>
      /\ UNCHANGED <<handler, reg, busy, served, overrun>>
  BY AtTarget DEF Ready, Data, ServiceInv
<1>2. CASE Done(t) /\ Step(t, "ack")
  <2>1. /\ pc' = [pc EXCEPT ![t] = "ack"] /\ pc'[t] = "ack"
        /\ UNCHANGED <<plan, req, sent, result>> /\ Q(t)' = Q(t)
    BY <1>2, StepControl DEF Ready
  <2>2. Q(t) \notin busy
    BY <1>1, <1>2, ValueFacts DEF Done, ServiceInv, BusyHolds
  <2>3. OwnsQueue(t)'
    BY <1>1, <2>1, <2>2 DEF OwnsQueue
  <2>4. Fresh(t)'
    BY <1>1, <2>1, SameQueues DEF Fresh, ServiceInv, Numbers
  <2>5. ServiceInv'
    BY <1>1, <2>1, <2>3, <2>4, SameQueues, SenderKeeps
  <2>6. QED
    BY <1>1, <2>1, <2>5, SameQueues DEF Stutter
<1>3. CASE Poll(t)
  <2>1. UNCHANGED <<pc, plan, req, sent, result>>
    BY <1>3 DEF Poll
  <2>2. pc' = [pc EXCEPT ![t] = "ready"] /\ Q(t)' = Q(t)
    BY <1>1, <2>1 DEF Q, Sender, ServiceInv, MailInv, PortInv, ControlType
  <2>3. OwnsQueue(t)' /\ Fresh(t)'
    BY <1>1, <2>1, <2>2, SameQueues DEF OwnsQueue, Fresh, ServiceInv, Numbers
  <2>4. ServiceInv'
    BY <1>1, <2>1, <2>2, <2>3, SameQueues, SenderKeeps
  <2>5. QED
    BY <1>1, <2>1, <2>4, SameQueues DEF Stutter
<1>4. QED
  BY <1>2, <1>3 DEF Ready

\* The registers of a free queue are none of its business.
LEMMA SameBusy ==
  ASSUME ServiceInv, UNCHANGED <<busy, served>>,
         \A q \in busy : /\ reg'[<<q, "rsp">>] = reg[<<q, "rsp">>]
                         /\ reg'[<<q, "arg">>] = reg[<<q, "arg">>]
                         /\ reg'[<<q, "cmd">>] = reg[<<q, "cmd">>]
  PROVE  /\ Posted' = Posted /\ BusyHolds'
         /\ \A q \in busy' : reg'[<<q, "cmd">>].n \in 1..sent
<1>1. Posted' = Posted
  BY DEF Posted
<1>2. ASSUME NEW q \in busy
      PROVE  /\ reg'[<<q, "rsp">>] = Code(0)
             /\ reg'[<<q, "arg">>] = Arg(reg'[<<q, "cmd">>].n)
             /\ reg'[<<q, "cmd">>].n \notin served'
             /\ \A p \in busy : reg'[<<p, "cmd">>].n = reg'[<<q, "cmd">>].n => p = q
  BY DEF ServiceInv, BusyHolds
<1>3. BusyHolds'
  BY <1>2 DEF BusyHolds
<1>4. QED
  BY <1>1, <1>3 DEF ServiceInv, Numbers

\* Ack: a free queue is made ready.
LEMMA AckRefines ==
  ASSUME ServiceInv, MailInv', NEW t \in Thread, Ack(t)
  PROVE  ServiceInv' /\ Stutter
<1>1. /\ pc[t] = "ack" /\ smnIndex = <<Q(t), "rsp">> /\ Q(t) \notin busy
      /\ UNCHANGED <<busy, served>>
  BY AtTarget DEF Ack, ServiceInv, OwnsQueue
<1>2. /\ pc' = [pc EXCEPT ![t] = "arg"] /\ pc'[t] = "arg"
      /\ UNCHANGED <<handler, plan, req, sent, result>> /\ Q(t)' = Q(t)
  BY StepControl DEF Ack
<1>3. /\ reg'[<<Q(t), "rsp">>] = Code(0)
      /\ \A q \in busy : /\ reg'[<<q, "rsp">>] = reg[<<q, "rsp">>]
                         /\ reg'[<<q, "arg">>] = reg[<<q, "arg">>]
                         /\ reg'[<<q, "cmd">>] = reg[<<q, "cmd">>]
  <2>1. reg' = [reg EXCEPT ![<<Q(t), "rsp">>] = Code(0)]
    BY <1>1 DEF Ack, Write
  <2>2. QED
    BY <1>1, <2>1, QueueIs, SmnFacts DEF ServiceInv, MailInv, DataType
<1>4. overrun' = overrun
  BY <1>1 DEF Ack, NoteOverrun
<1>5. /\ Posted' = Posted /\ BusyHolds'
      /\ \A q \in busy' : reg'[<<q, "cmd">>].n \in 1..sent
  BY <1>1, <1>3, SameBusy
<1>6. OwnsQueue(t)' /\ Fresh(t)'
  BY <1>1, <1>2, <1>3, <1>5 DEF OwnsQueue, Fresh, ServiceInv, Numbers
<1>7. ServiceInv'
  BY <1>1, <1>2, <1>4, <1>5, <1>6, SenderKeeps
<1>8. QED
  BY <1>1, <1>2, <1>5, <1>7 DEF Stutter

\* WriteArg: the argument goes to a free queue.
LEMMA WriteArgRefines ==
  ASSUME ServiceInv, MailInv', NEW t \in Thread, WriteArg(t)
  PROVE  ServiceInv' /\ Stutter
<1>1. /\ pc[t] = "arg" /\ smnIndex = <<Q(t), "arg">> /\ Q(t) \notin busy
      /\ reg[<<Q(t), "rsp">>] = Code(0)
      /\ UNCHANGED <<busy, served>>
  BY AtTarget DEF WriteArg, ServiceInv, OwnsQueue
<1>2. /\ pc' = [pc EXCEPT ![t] = "cmd"] /\ pc'[t] = "cmd"
      /\ UNCHANGED <<handler, plan, req, sent, result>> /\ Q(t)' = Q(t)
  BY StepControl DEF WriteArg
<1>3. /\ reg'[<<Q(t), "rsp">>] = Code(0) /\ reg'[<<Q(t), "arg">>] = Arg(req[t])
      /\ \A q \in busy : /\ reg'[<<q, "rsp">>] = reg[<<q, "rsp">>]
                         /\ reg'[<<q, "arg">>] = reg[<<q, "arg">>]
                         /\ reg'[<<q, "cmd">>] = reg[<<q, "cmd">>]
  <2>1. reg' = [reg EXCEPT ![<<Q(t), "arg">>] = Arg(req[t])]
    BY <1>1 DEF WriteArg, Write
  <2>2. QED
    BY <1>1, <2>1, QueueIs, SmnFacts DEF ServiceInv, MailInv, DataType
<1>4. overrun' = overrun
  BY <1>1 DEF WriteArg, NoteOverrun
<1>5. /\ Posted' = Posted /\ BusyHolds'
      /\ \A q \in busy' : reg'[<<q, "cmd">>].n \in 1..sent
  BY <1>1, <1>3, SameBusy
<1>6. OwnsQueue(t)' /\ Fresh(t)'
  BY <1>1, <1>2, <1>3, <1>5 DEF OwnsQueue, Fresh, ServiceInv, Numbers
<1>7. ServiceInv'
  BY <1>1, <1>2, <1>4, <1>5, <1>6, SenderKeeps
<1>8. QED
  BY <1>1, <1>2, <1>5, <1>7 DEF Stutter

\* The write of the command register posts the message.
LEMMA WriteCmdRefines ==
  ASSUME ServiceInv, MailInv', NEW t \in Thread, WriteCmd(t)
  PROVE  ServiceInv' /\ Service!Post
<1>1. /\ pc[t] = "cmd" /\ smnIndex = <<Q(t), "cmd">> /\ Q(t) \notin busy
      /\ reg[<<Q(t), "rsp">>] = Code(0) /\ reg[<<Q(t), "arg">>] = Arg(req[t])
      /\ served' = served
  BY AtTarget DEF WriteCmd, ServiceInv, OwnsQueue
<1>2. /\ pc' = [pc EXCEPT ![t] = "wait"] /\ pc'[t] = "wait"
      /\ UNCHANGED <<handler, plan, req, sent, result>> /\ Q(t)' = Q(t)
  BY StepControl DEF WriteCmd
<1>3. /\ reg'[<<Q(t), "rsp">>] = Code(0) /\ reg'[<<Q(t), "arg">>] = Arg(req[t])
      /\ reg'[<<Q(t), "cmd">>] = Cmd(req[t])
      /\ \A q \in busy : /\ reg'[<<q, "rsp">>] = reg[<<q, "rsp">>]
                         /\ reg'[<<q, "arg">>] = reg[<<q, "arg">>]
                         /\ reg'[<<q, "cmd">>] = reg[<<q, "cmd">>]
  <2>1. reg' = [reg EXCEPT ![<<Q(t), "cmd">>] = Cmd(req[t])]
    BY <1>1 DEF WriteCmd, Write
  <2>2. QED
    BY <1>1, <2>1, QueueIs, SmnFacts DEF ServiceInv, MailInv, DataType
<1>4. overrun' = overrun
  BY <1>1 DEF WriteCmd, NoteOverrun
<1>5. busy' = busy \cup {Q(t)}
  BY <1>1, QueueIs, SmnFacts DEF WriteCmd
<1>6. /\ req[t] \in 1..MaxSent /\ req[t] \notin served /\ req[t] \notin Posted
      /\ req[t] \in 1..sent
  <2>1. req[t] \in 1..MaxSent /\ req[t] \notin served /\ req[t] \notin Posted
    BY <1>1 DEF ServiceInv, Numbers, Fresh
  <2>2. req[t] <= sent /\ sent \in Nat
    BY DEF ServiceInv, Numbers, MailInv, DataType
  <2>3. QED
    BY <2>1, <2>2
<1>7. reg'[<<Q(t), "cmd">>].n = req[t]
  BY <1>3 DEF Cmd
<1>8. \A q \in busy : reg[<<q, "cmd">>].n # req[t]
  BY <1>6 DEF Posted
<1>9. BusyHolds'
  <2>1. ASSUME NEW q \in busy, NEW p \in busy
        PROVE  /\ reg'[<<q, "rsp">>] = Code(0)
               /\ reg'[<<q, "arg">>] = Arg(reg'[<<q, "cmd">>].n)
               /\ reg'[<<q, "cmd">>].n \notin served \cup {req[t]}
               /\ reg'[<<p, "cmd">>].n = reg'[<<q, "cmd">>].n => p = q
    BY <1>3, <1>8 DEF ServiceInv, BusyHolds
  <2>2. QED
    BY <1>1, <1>3, <1>5, <1>6, <1>7, <2>1 DEF BusyHolds
<1>10. \A q \in busy' : reg'[<<q, "cmd">>].n \in 1..sent
  BY <1>3, <1>5, <1>6, <1>7 DEF ServiceInv, Numbers
<1>11. Posted' = Posted \cup {req[t]}
  <2>1. Posted' = {reg'[<<q, "cmd">>].n : q \in busy'}
    BY DEF Posted
  <2>2. QED
    BY <1>3, <1>5, <1>7, <2>1 DEF Posted
<1>12. OwnsQueue(t)' /\ Fresh(t)'
  BY <1>2, <1>3, <1>5 DEF OwnsQueue, Fresh
<1>13. ServiceInv'
  BY <1>1, <1>2, <1>4, <1>9, <1>10, <1>12, SenderKeeps
<1>14. Service!Post
  BY <1>1, <1>2, <1>6, <1>11 DEF Service!Post, Posted
<1>15. QED
  BY <1>13, <1>14

\* A sender that gives up reports no answer.
LEMMA FailRefines ==
  ASSUME ServiceInv, MailInv', NEW t \in Thread, pc[t] # "Idle", Fail(t),
         UNCHANGED <<handler, reg, busy, served, overrun>>
  PROVE  ServiceInv' /\ Service!Reset(t)
<1>1. result' = [result EXCEPT ![t] = [q |-> Q(t), of |-> req[t], ans |-> 0]]
  BY DEF Fail, Come
<1>2. ServiceInv' /\ Posted' = Posted
  BY EndKeeps DEF Fail
<1>3. [u \in Thread |-> result'[u].ans]
        = [[u \in Thread |-> result[u].ans] EXCEPT ![t] = 0]
  BY <1>1 DEF ServiceInv, MailInv, DataType
<1>4. QED
  BY <1>2, <1>3 DEF Service!Reset, Posted

\* Wait, unless it gives up: an OK means the message has been executed.
LEMMA WaitRefines ==
  ASSUME ServiceInv, MailInv', NEW t \in Thread, Wait(t), ~Fail(t)
  PROVE  ServiceInv' /\ Stutter
<1>1. /\ pc[t] = "wait" /\ smnIndex = <<Q(t), "rsp">>
      /\ UNCHANGED <<handler, reg, busy, served, overrun>>
  BY AtTarget DEF Wait, Data, ServiceInv
<1>2. CASE reg[smnIndex] = Code(Ok) /\ Step(t, "resp")
  <2>1. /\ pc' = [pc EXCEPT ![t] = "resp"] /\ pc'[t] = "resp"
        /\ UNCHANGED <<plan, req, sent, result>> /\ Q(t)' = Q(t)
    BY <1>2, StepControl DEF Wait
  <2>2. Q(t) \notin busy
    BY <1>1, <1>2, ValueFacts DEF ServiceInv, BusyHolds
  <2>3. req[t] \in served /\ reg[<<Q(t), "arg">>] = Ans(req[t])
    BY <1>1, <1>2, <2>2 DEF ServiceInv, OwnsQueue
  <2>4. OwnsQueue(t)' /\ Fresh(t)'
    BY <1>1, <2>1, <2>3 DEF OwnsQueue, Fresh
  <2>5. ServiceInv'
    BY <1>1, <2>1, <2>4, SameQueues, SenderKeeps
  <2>6. QED
    BY <1>1, <2>1, <2>5, SameQueues DEF Stutter
<1>3. CASE Poll(t)
  <2>1. UNCHANGED <<pc, plan, req, sent, result>>
    BY <1>3 DEF Poll
  <2>2. pc' = [pc EXCEPT ![t] = "wait"] /\ Q(t)' = Q(t)
    BY <1>1, <2>1 DEF Q, Sender, ServiceInv, MailInv, PortInv, ControlType
  <2>3. OwnsQueue(t)
    BY DEF ServiceInv
  <2>4. OwnsQueue(t)' /\ Fresh(t)'
    BY <1>1, <2>1, <2>2, <2>3 DEF OwnsQueue, Fresh
  <2>5. ServiceInv'
    BY <1>1, <2>1, <2>2, <2>4, SameQueues, SenderKeeps
  <2>6. QED
    BY <1>1, <2>1, <2>5, SameQueues DEF Stutter
<1>4. QED
  BY <1>2, <1>3 DEF Wait

\* The caller is given the answer of a message the SMU has executed: its own.
LEMMA ResponseRefines ==
  ASSUME ServiceInv, MailInv', NEW t \in Thread, Response(t)
  PROVE  ServiceInv' /\ Service!Answer(t)
<1>1. /\ pc[t] = "resp" /\ smnIndex = <<Q(t), "arg">>
      /\ req[t] \in served /\ reg[<<Q(t), "arg">>] = Ans(req[t])
      /\ UNCHANGED <<handler, reg, busy, served, overrun>>
  BY AtTarget DEF Response, Data, ServiceInv, OwnsQueue
<1>2. result' = [result EXCEPT ![t] =
                   [q |-> Q(t), of |-> req[t], ans |-> req[t]]]
  <2>1. reg[smnIndex].kind = "ans" /\ reg[smnIndex].n = req[t]
    BY <1>1 DEF Ans
  <2>2. QED
    BY <2>1 DEF Response, Come
<1>3. ServiceInv' /\ Posted' = Posted
  <2>1. \E ok \in BOOLEAN : Return(t, ok)
    BY DEF Response, Expected
  <2>2. QED
    BY <1>1, <2>1, EndKeeps
<1>4. [u \in Thread |-> result'[u].ans]
        = [[u \in Thread |-> result[u].ans] EXCEPT ![t] = req[t]]
  BY <1>2 DEF ServiceInv, MailInv, DataType
<1>5. QED
  BY <1>1, <1>3, <1>4 DEF Service!Answer, Posted

\* Peek: no message, no effect.
LEMMA PeekRefines ==
  ASSUME ServiceInv, MailInv', NEW t \in Thread, Peek(t)
  PROVE  ServiceInv' /\ Stutter
<1>1. /\ pc[t] = "peek"
      /\ UNCHANGED <<handler, result, reg, busy, served, overrun>>
  BY DEF Peek, Data
<1>2. PICK ok \in BOOLEAN : Return(t, ok)
  BY DEF Peek
<1>3. QED
  BY <1>1, <1>2, EndKeeps DEF Stutter

\* Enter: the number it takes is new.
LEMMA EnterRefines ==
  ASSUME ServiceInv, MailInv', NEW t \in Thread, Enter(t), Handlers \subseteq Waiting
  PROVE  ServiceInv' /\ Stutter
<1>1. PICK h \in Waiting, p \in {<<"Direct">>, <<"Q3">>, <<"Peek">>} :
        /\ sent + Len(p) <= MaxSent /\ pc[t] = "Idle"
        /\ handler' = [handler EXCEPT ![t] = h] /\ Begin(t, p)
  BY OneSender DEF Enter, EnterLocked, EnterUnlocked, Waiting
<1>2. UNCHANGED <<result, reg, busy, served, overrun>>
  BY DEF Enter, history
<1>3. \A u \in Thread : pc[u] = "Idle"
  BY <1>1, EnterAlone, FirstIsAccess DEF ServiceInv, MailInv, Begin
<1>4. /\ pc' = [pc EXCEPT ![t] = FirstStep(Head(p))] /\ plan' = [plan EXCEPT ![t] = p]
      /\ sent' = sent + 1 /\ req' = [req EXCEPT ![t] = sent + 1]
  BY <1>1 DEF Begin
<1>5. Len(p) = 1 /\ Head(p) \in {"Direct", "Q3", "Peek"}
  OBVIOUS
<1>6. FirstStep(Head(p)) \in {"ready", "peek"}
  BY <1>5, FirstSteps
<1>7. /\ pc'[t] \in {"ready", "peek"}
      /\ \A u \in Thread \ {t} : pc'[u] = "Idle"
  BY <1>3, <1>4, <1>6 DEF ServiceInv, MailInv, PortInv, ControlType
<1>8. WaitingPlans'
  <2>1. handler' \in [Thread -> Waiting \cup {"none"}] /\ handler'[t] \in Waiting
    BY <1>1 DEF ServiceInv, WaitingPlans
  <2>2. plan'[t] = p
    BY <1>4 DEF ServiceInv, MailInv, DataType
  <2>3. QED
    BY <1>7, <2>1, <2>2 DEF WaitingPlans
<1>9. \A u \in Thread : OwnsQueue(u)'
  BY <1>7 DEF OwnsQueue
<1>10. sent \in Nat /\ sent + 1 <= MaxSent /\ req \in [Thread -> Nat]
  BY <1>1, <1>5 DEF ServiceInv, MailInv, DataType
<1>11. Posted' = Posted /\ BusyHolds'
  BY <1>2, SameQueues
<1>12. \A n \in Posted \cup served : n \in 1..sent
  BY DEF ServiceInv, Numbers, Posted
<1>13. \A u \in Thread : Fresh(u)'
  <2>1. req'[t] = sent + 1
    BY <1>4, <1>10
  <2>2. req'[t] \in 1..MaxSent /\ req'[t] \notin served /\ req'[t] \notin Posted
    BY <1>10, <1>12, <2>1
  <2>3. QED
    BY <1>2, <1>7, <1>11, <2>2 DEF Fresh
<1>14. Numbers'
  <2>1. \A u \in Thread : req[u] <= sent
    BY DEF ServiceInv, Numbers
  <2>2. \A u \in Thread : req'[u] <= sent'
    BY <1>4, <1>10, <2>1
  <2>3. served' \subseteq 1..sent'
    BY <1>2, <1>4, <1>10, <1>12
  <2>4. \A q \in busy' : reg'[<<q, "cmd">>].n \in 1..sent'
    <3>1. \A q \in busy : reg[<<q, "cmd">>].n \in 1..sent
      BY DEF ServiceInv, Numbers
    <3>2. 1..sent \subseteq 1..sent'
      BY <1>4, <1>10
    <3>3. QED
      BY <1>2, <3>1, <3>2
  <2>5. QED
    BY <1>4, <1>10, <1>13, <2>2, <2>3, <2>4 DEF Numbers
<1>15. QED
  BY <1>2, <1>8, <1>9, <1>11, <1>14 DEF ServiceInv, Stutter

\* Opening a pair, or a stutter.
LEMMA AddressRefines ==
  ASSUME ServiceInv, MailInv', UNCHANGED <<thread, reg, busy, sent, history>>
  PROVE  ServiceInv' /\ Stutter
<1> USE DEF thread, history
<1>1. \A u \in Thread : Q(u)' = Q(u)
  BY DEF Q, Sender
<1>2. Posted' = Posted /\ BusyHolds' /\ WaitingPlans'
  BY SameQueues DEF ServiceInv, WaitingPlans
<1>3. \A u \in Thread : OwnsQueue(u)' /\ Fresh(u)'
  BY <1>1, <1>2 DEF ServiceInv, Numbers, OwnsQueue, Fresh
<1>4. Numbers'
  BY <1>3 DEF ServiceInv, Numbers
<1>5. QED
  BY <1>2, <1>3, <1>4 DEF ServiceInv, Stutter

\* The SMU executes the message of one queue, with its own argument.
LEMMA SmuAnswerRefines ==
  ASSUME ServiceInv, MailInv', NEW q \in Queue, SmuAnswer(q)
  PROVE  ServiceInv' /\ Service!Execute
<1> DEFINE n == reg[<<q, "cmd">>].n
<1>1. /\ q \in busy /\ busy' = busy \ {q}
      /\ UNCHANGED <<pc, handler, plan, req, result, sent, overrun>>
      /\ \A u \in Thread : Q(u)' = Q(u)
  BY DEF SmuAnswer, thread, Q, Sender
<1>2. reg[<<q, "arg">>] = Arg(n) /\ n \notin served /\ n \in 1..sent /\ n \in Posted
  BY <1>1 DEF ServiceInv, BusyHolds, Numbers, Posted
<1>3. served' = served \cup {n}
  BY <1>2 DEF SmuAnswer
<1>4. /\ reg'[<<q, "rsp">>] = Code(Ok) => reg'[<<q, "arg">>] = Ans(n)
      /\ \A p \in Queue : /\ reg'[<<p, "cmd">>] = reg[<<p, "cmd">>]
                          /\ p # q => /\ reg'[<<p, "rsp">>] = reg[<<p, "rsp">>]
                                      /\ reg'[<<p, "arg">>] = reg[<<p, "arg">>]
  <2>1. \/ reg' = [reg EXCEPT ![<<q, "rsp">>] = Code(Ok), ![<<q, "arg">>] = Ans(n)]
        \/ reg' = [reg EXCEPT ![<<q, "rsp">>] = Code(Failed)]
    BY <1>2 DEF SmuAnswer
  <2>2. reg \in [Smn -> Value]
    BY DEF ServiceInv, MailInv, DataType
  <2>3. QED
    BY <2>1, <2>2, SmnFacts, ValueFacts
<1>5. busy \subseteq Queue
  BY DEF ServiceInv, MailInv, DataType
<1>6. \A p \in busy \ {q} : reg[<<p, "cmd">>].n # n
  BY <1>1 DEF ServiceInv, BusyHolds
<1>7. Posted' = Posted \ {n}
  <2>1. Posted' = {reg[<<p, "cmd">>].n : p \in busy \ {q}}
    BY <1>1, <1>4, <1>5 DEF Posted
  <2>2. QED
    BY <1>1, <1>6, <2>1 DEF Posted
<1>8. BusyHolds'
  <2>1. ASSUME NEW p \in busy \ {q}, NEW r \in busy \ {q}
        PROVE  /\ reg'[<<p, "rsp">>] = Code(0)
               /\ reg'[<<p, "arg">>] = Arg(reg'[<<p, "cmd">>].n)
               /\ reg'[<<p, "cmd">>].n \notin served'
               /\ reg'[<<r, "cmd">>].n = reg'[<<p, "cmd">>].n => r = p
    <3>1. /\ reg'[<<p, "rsp">>] = reg[<<p, "rsp">>]
          /\ reg'[<<p, "arg">>] = reg[<<p, "arg">>]
          /\ reg'[<<p, "cmd">>] = reg[<<p, "cmd">>]
          /\ reg'[<<r, "cmd">>] = reg[<<r, "cmd">>]
      BY <1>4, <1>5
    <3>2. QED
      BY <1>3, <1>6, <3>1 DEF ServiceInv, BusyHolds
  <2>2. QED
    BY <1>1, <2>1 DEF BusyHolds
<1>9. ASSUME NEW t \in Thread PROVE OwnsQueue(t)' /\ Fresh(t)'
  <2>1. Fresh(t)'
    BY <1>1, <1>2, <1>3, <1>7 DEF Fresh, ServiceInv, Numbers
  <2>2. OwnsQueue(t) /\ Q(t) \in Queue
    BY QueueIs DEF ServiceInv
  <2>3. CASE Q(t) # q
    <3>1. /\ reg'[<<Q(t), "rsp">>] = reg[<<Q(t), "rsp">>]
          /\ reg'[<<Q(t), "arg">>] = reg[<<Q(t), "arg">>]
          /\ reg'[<<Q(t), "cmd">>] = reg[<<Q(t), "cmd">>]
          /\ Q(t) \in busy' <=> Q(t) \in busy
      BY <1>1, <1>4, <2>2, <2>3
    <3>2. QED
      BY <1>1, <1>3, <2>1, <2>2, <3>1 DEF OwnsQueue
  <2>4. CASE Q(t) = q
    <3>1. pc[t] \notin {"ack", "arg", "cmd"}
      BY <1>1, <2>2, <2>4 DEF OwnsQueue
    <3>2. pc[t] # "resp"
      BY <1>2, <2>2, <2>4 DEF OwnsQueue, Arg, Ans
    <3>3. pc[t] = "wait" => reg'[<<q, "cmd">>] = Cmd(req[t]) /\ n = req[t]
      BY <1>4, <2>2, <2>4 DEF OwnsQueue, Cmd
    <3>4. QED
      BY <1>1, <1>3, <1>4, <2>1, <2>4, <3>1, <3>2, <3>3 DEF OwnsQueue
  <2>5. QED
    BY <2>3, <2>4
<1>10. Numbers'
  <2>1. served' \subseteq 1..sent'
    BY <1>1, <1>2, <1>3 DEF ServiceInv, Numbers
  <2>2. \A p \in busy' : reg'[<<p, "cmd">>].n \in 1..sent'
    BY <1>1, <1>4, <1>5 DEF ServiceInv, Numbers
  <2>3. QED
    BY <1>1, <1>9, <2>1, <2>2 DEF ServiceInv, Numbers
<1>11. WaitingPlans' /\ overrun' = {}
  BY <1>1 DEF ServiceInv, WaitingPlans
<1>12. Service!Execute
  BY <1>1, <1>2, <1>3, <1>7 DEF Service!Execute, Posted
<1>13. QED
  BY <1>8, <1>9, <1>10, <1>11, <1>12 DEF ServiceInv

\* Each step of SmuMailbox is a step of SmuService or a stutter.
LEMMA ServiceNext ==
  ASSUME Handlers \subseteq Waiting, ServiceInv, [Next]_vars
  PROVE  ServiceInv' /\ [Service!Next]_(Service!vars)
<1>1. MailInv'
  <2>1. Handlers \cap Unlocked = {}
    BY DEF Waiting, Unlocked
  <2>2. ControlType'
    BY ControlNext DEF ServiceInv, MailInv, PortInv
  <2>3. UnlockedComesAlone'
    BY <2>1, <2>2 DEF ControlType, UnlockedComesAlone
  <2>4. QED
    BY <2>3, MailNext DEF ServiceInv
<1>2. Stutter => [Service!Next]_(Service!vars)
  BY DEF Stutter, Service!vars, Posted
<1>3. CASE UNCHANGED vars
  BY <1>1, <1>2, <1>3, AddressRefines DEF vars
<1>4. ASSUME NEW t \in Thread, Enter(t)
      PROVE  ServiceInv' /\ [Service!Next]_(Service!vars)
  BY <1>1, <1>2, <1>4, EnterRefines
<1>5. ASSUME NEW t \in Thread, Run(t)
      PROVE  ServiceInv' /\ [Service!Next]_(Service!vars)
  <2>1. CASE Address(t)
    BY <1>1, <1>2, <2>1, AddressRefines DEF Address
  <2>2. CASE Ready(t) \/ Wait(t)
    <3>1. CASE Fail(t)
      <4>1. pc[t] # "Idle" /\ UNCHANGED <<handler, reg, busy, served, overrun>>
        BY <2>2 DEF Ready, Wait, Data
      <4>2. ServiceInv' /\ Service!Reset(t)
        BY <1>1, <3>1, <4>1, FailRefines
      <4>3. QED
        BY <4>2 DEF Service!Next
    <3>2. CASE ~Fail(t)
      BY <1>1, <1>2, <2>2, <3>2, ReadyRefines, WaitRefines
    <3>3. QED
      BY <3>1, <3>2
  <2>3. CASE Look(t)
    BY <2>3 DEF Look, Data, ServiceInv, WaitingPlans
  <2>4. CASE Ack(t) \/ WriteArg(t) \/ Peek(t)
    BY <1>1, <1>2, <2>4, AckRefines, WriteArgRefines, PeekRefines
  <2>5. CASE WriteCmd(t)
    BY <1>1, <2>5, WriteCmdRefines DEF Service!Next
  <2>6. CASE Response(t)
    BY <1>1, <2>6, ResponseRefines DEF Service!Next
  <2>7. QED
    BY <1>5, <2>1, <2>2, <2>3, <2>4, <2>5, <2>6 DEF Run
<1>6. ASSUME NEW q \in Queue, SmuAnswer(q)
      PROVE  ServiceInv' /\ [Service!Next]_(Service!vars)
  BY <1>1, <1>6, SmuAnswerRefines DEF Service!Next
<1>7. QED
  BY <1>3, <1>4, <1>5, <1>6 DEF Next

\* The handlers that take DeviceMutex and wait for the mailbox (SmuWaitReady,
\* SmuQ3WaitDone) see the SMU as SmuService: each message is executed at most
\* once and each answer is the answer of an executed message, whatever times
\* out in between.
THEOREM WaitingIsService == Handlers \subseteq Waiting /\ Spec => IsService
<1>1. CASE Handlers \subseteq Waiting
  <2>1. ServiceInv /\ [Next]_vars => ServiceInv'
    BY <1>1, ServiceNext
  <2>2. ServiceInv /\ [Next]_vars => [Service!Next]_(Service!vars)
    BY <1>1, ServiceNext
  <2>3. Init => ServiceInv /\ Service!Init
    BY ServiceInit
  <2>4. QED
    BY <2>1, <2>2, <2>3, PTL DEF Spec, IsService, Service!Spec
<1>2. QED
  BY <1>1

-----------------------------------------------------------------------------
(* How far a handler has to go                                             *)

\* The accesses of a sender in their order.
Stage(step) == CASE step \in {"ready", "look"} -> 6
                 [] step = "ack"  -> 5
                 [] step = "arg"  -> 4
                 [] step = "cmd"  -> 3
                 [] step = "wait" -> 2
                 [] step \in {"resp", "peek"} -> 1
                 [] OTHER -> 0

\* Senders left, accesses left, polls left, and the half of an access.
Rank(t) == <<Len(plan[t]), Stage(pc[t]), PollMax - polls[t], IF addressed[t] THEN 0 ELSE 1>>

\* The rank of t becomes smaller in lexicographic order.
Falls(t) ==
  \E k \in 1..4 : /\ Rank(t)'[k] < Rank(t)[k]
                  /\ \A j \in 1..k - 1 : Rank(t)'[j] = Rank(t)[j]

\* A step of a handler lowers its rank, and no other step raises it.
HandlersCountDown ==
  \A t \in Thread : /\ Run(t) => Falls(t)
                    /\ pc[t] # "Idle" => Falls(t) \/ Rank(t)' = Rank(t)

Senders == {"Direct", "Q2", "Q3", "Send", "Peek"}

\* A handler inside has senders left, and has not polled to the end.
CountType ==
  /\ ControlType
  /\ plan \in [Thread -> Seq(Senders)]
  /\ polls \in [Thread -> 0..PollMax - 1]
  /\ \A t \in Thread : pc[t] # "Idle" <=> plan[t] # <<>>

LEMMA PlanSenders ==
  ASSUME NEW h \in Handlers, NEW p \in Plans(h)
  PROVE  p \in Seq(Senders) /\ p # <<>>
<1>1. h \in Locked \cup Unlocked
  OBVIOUS
<1>2. p \in {<<"Direct">>, <<"Q3">>, <<"Q2">>, <<"Peek">>, <<"Direct", "Q2", "Q2">>,
             <<"Q2", "Q2", "Q3">>, <<"Send", "Send">>, <<"Direct", "Direct", "Peek">>,
             <<"Q3", "Peek", "Q3", "Peek">>}
  BY <1>1 DEF Plans, Locked, Unlocked
<1>3. /\ <<"Direct">> \in Seq(Senders) /\ <<"Q3">> \in Seq(Senders)
      /\ <<"Q2">> \in Seq(Senders) /\ <<"Peek">> \in Seq(Senders)
  BY DEF Senders
<1>4. /\ <<"Direct", "Q2", "Q2">> \in Seq(Senders) /\ <<"Q2", "Q2", "Q3">> \in Seq(Senders)
      /\ <<"Send", "Send">> \in Seq(Senders) /\ <<"Direct", "Direct", "Peek">> \in Seq(Senders)
  BY DEF Senders
<1>5. <<"Q3", "Peek", "Q3", "Peek">> \in Seq(Senders)
  BY DEF Senders
<1>6. p # <<>>
  BY <1>2
<1>7. QED
  BY <1>2, <1>3, <1>4, <1>5, <1>6

LEMMA RestShorter ==
  ASSUME NEW h, NEW ok, NEW rest \in Seq(Senders)
  PROVE  Rest(h, ok, rest) \in Seq(Senders) /\ Len(Rest(h, ok, rest)) <= Len(rest)
<1> DEFINE r == Rest(h, ok, rest)
<1>1. r = rest \/ r = <<>> \/ (rest # <<>> /\ r = <<"Q3">>)
  <2>1. CASE ok \/ h \in {"GET_SMU_TELEMETRY", "EXECUTE_RING_PM4"}
    <3>1. r = rest
      BY <2>1 DEF Rest
    <3>2. QED
      BY <3>1
  <2>2. CASE ~(ok \/ h \in {"GET_SMU_TELEMETRY", "EXECUTE_RING_PM4"})
    <3>1. CASE h = "SMU_UNLOCK_STEP" /\ rest # <<>> /\ rest[Len(rest)] = "Q3"
      <4>1. r = <<"Q3">>
        BY <2>2, <3>1 DEF Rest
      <4>2. QED
        BY <3>1, <4>1
    <3>2. CASE ~(h = "SMU_UNLOCK_STEP" /\ rest # <<>> /\ rest[Len(rest)] = "Q3")
      <4>1. r = <<>>
        BY <2>2, <3>2 DEF Rest
      <4>2. QED
        BY <4>1
    <3>3. QED
      BY <3>1, <3>2
  <2>3. QED
    BY <2>1, <2>2
<1>2. <<"Q3">> \in Seq(Senders) /\ Len(<<"Q3">>) = 1 /\ <<>> \in Seq(Senders) /\ Len(<<>>) = 0
  BY DEF Senders
<1>3. Len(rest) \in Nat /\ (rest # <<>> => Len(rest) >= 1)
  OBVIOUS
<1> HIDE DEF r
<1>4. r \in Seq(Senders) /\ Len(r) <= Len(rest)
  <2>1. CASE r = rest
    BY <1>3, <2>1
  <2>2. CASE r = <<>>
    BY <1>2, <1>3, <2>2
  <2>3. CASE rest # <<>> /\ r = <<"Q3">>
    BY <1>2, <1>3, <2>3
  <2>4. QED
    BY <1>1, <2>1, <2>2, <2>3
<1>5. QED
  BY <1>4 DEF r

\* A data half polls once more, goes on to a later access, or ends its sender.
Moves(t) ==
  /\ pc[t] # "Idle" /\ addressed' = [addressed EXCEPT ![t] = FALSE]
  /\ \/ /\ UNCHANGED <<pc, plan>>
        /\ polls[t] + 1 < PollMax /\ polls' = [polls EXCEPT ![t] = polls[t] + 1]
     \/ /\ UNCHANGED plan /\ polls' = [polls EXCEPT ![t] = 0]
        /\ \E s \in Access : Stage(s) < Stage(pc[t]) /\ pc' = [pc EXCEPT ![t] = s]
     \/ \E ok : Return(t, ok)

LEMMA Stages ==
  /\ Stage("ready") = 6 /\ Stage("look") = 6 /\ Stage("ack") = 5 /\ Stage("arg") = 4
  /\ Stage("cmd") = 3 /\ Stage("wait") = 2 /\ Stage("resp") = 1 /\ Stage("peek") = 1
  /\ \A s : Stage(s) \in Nat
BY DEF Stage

LEMMA StepMoves ==
  ASSUME NEW t \in Thread, NEW from \in Access, Data(t, from), NEW s \in Access,
         Stage(s) < Stage(from), Step(t, s)
  PROVE  Moves(t)
BY DEF Data, Step, Moves

LEMMA PollMoves ==
  ASSUME NEW t \in Thread, NEW from \in Access, Data(t, from), polls[t] + 1 < PollMax, Poll(t)
  PROVE  Moves(t)
BY DEF Data, Poll, Moves

LEMMA ReturnMoves ==
  ASSUME NEW t \in Thread, NEW from \in Access, Data(t, from), NEW ok, Return(t, ok)
  PROVE  Moves(t)
BY DEF Data, Moves

LEMMA DataMoves ==
  ASSUME NEW t \in Thread,
         Ready(t) \/ Look(t) \/ Ack(t) \/ WriteArg(t) \/ WriteCmd(t)
           \/ Wait(t) \/ Response(t) \/ Peek(t)
  PROVE  Moves(t)
<1>1. CASE Ready(t)
  <2>1. /\ Data(t, "ready")
        /\ Step(t, "ack") \/ (polls[t] + 1 < PollMax /\ Poll(t)) \/ Return(t, FALSE)
    BY <1>1 DEF Ready, Fail
  <2>2. CASE Step(t, "ack")
    BY <2>1, <2>2, Stages, StepMoves
  <2>3. CASE polls[t] + 1 < PollMax /\ Poll(t)
    BY <2>1, <2>3, PollMoves
  <2>4. CASE Return(t, FALSE)
    BY <2>1, <2>4, ReturnMoves
  <2>5. QED
    BY <2>1, <2>2, <2>3, <2>4
<1>2. CASE Look(t)
  <2>1. Data(t, "look") /\ (Step(t, "ack") \/ Step(t, "arg"))
    BY <1>2 DEF Look
  <2>2. QED
    BY <2>1, Stages, StepMoves
<1>3. CASE Ack(t) \/ WriteArg(t) \/ WriteCmd(t)
  <2>1. \/ Data(t, "ack") /\ Step(t, "arg")
        \/ Data(t, "arg") /\ Step(t, "cmd")
        \/ Data(t, "cmd") /\ Step(t, "wait")
    BY <1>3 DEF Ack, WriteArg, WriteCmd
  <2>2. QED
    BY <2>1, Stages, StepMoves
<1>4. CASE Wait(t)
  <2>1. /\ Data(t, "wait")
        /\ Step(t, "resp") \/ (polls[t] + 1 < PollMax /\ Poll(t)) \/ Return(t, FALSE)
    BY <1>4 DEF Wait, Fail
  <2>2. CASE Step(t, "resp")
    BY <2>1, <2>2, Stages, StepMoves
  <2>3. CASE polls[t] + 1 < PollMax /\ Poll(t)
    BY <2>1, <2>3, PollMoves
  <2>4. CASE Return(t, FALSE)
    BY <2>1, <2>4, ReturnMoves
  <2>5. QED
    BY <2>1, <2>2, <2>3, <2>4
<1>5. CASE Response(t) \/ Peek(t)
  <2>1. (Data(t, "resp") \/ Data(t, "peek")) /\ \E ok : Return(t, ok)
    BY <1>5 DEF Response, Peek
  <2>2. QED
    BY <2>1, ReturnMoves
<1>6. QED
  BY <1>1, <1>2, <1>3, <1>4, <1>5

\* The four numbers of a rank.
LEMMA RankIs ==
  ASSUME NEW t
  PROVE  /\ Rank(t)[1] = Len(plan[t]) /\ Rank(t)[2] = Stage(pc[t])
         /\ Rank(t)[3] = PollMax - polls[t] /\ Rank(t)[4] = IF addressed[t] THEN 0 ELSE 1
         /\ Rank(t)'[1] = Len(plan'[t]) /\ Rank(t)'[2] = Stage(pc'[t])
         /\ Rank(t)'[3] = PollMax - polls'[t] /\ Rank(t)'[4] = IF addressed'[t] THEN 0 ELSE 1
BY DEF Rank

LEMMA SameRank ==
  ASSUME NEW t, plan'[t] = plan[t], pc'[t] = pc[t], polls'[t] = polls[t],
         addressed'[t] = addressed[t]
  PROVE  Rank(t)' = Rank(t)
BY DEF Rank

\* A sender that ends is taken off the plan.
LEMMA ReturnCounts ==
  ASSUME CountType, NEW t \in Thread, pc[t] # "Idle", NEW ok, Return(t, ok)
  PROVE  /\ plan' \in [Thread -> Seq(Senders)] /\ polls' \in [Thread -> 0..PollMax - 1]
         /\ Len(plan'[t]) < Len(plan[t]) /\ (pc'[t] # "Idle" <=> plan'[t] # <<>>)
         /\ \A u \in Thread \ {t} : pc'[u] = pc[u] /\ plan'[u] = plan[u] /\ polls'[u] = polls[u]
<1> DEFINE rest == Rest(handler[t], ok, Tail(plan[t]))
<1>1. /\ plan \in [Thread -> Seq(Senders)] /\ polls \in [Thread -> 0..PollMax - 1]
      /\ plan[t] # <<>> /\ pc \in [Thread -> Access \cup {"Idle"}]
  BY DEF CountType, ControlType
<1>2. Tail(plan[t]) \in Seq(Senders) /\ Len(Tail(plan[t])) < Len(plan[t]) /\ Len(plan[t]) \in Nat
  BY <1>1
<1>3. rest \in Seq(Senders) /\ Len(rest) < Len(plan[t])
  <2>1. rest \in Seq(Senders) /\ Len(rest) <= Len(Tail(plan[t]))
    BY <1>2, RestShorter
  <2> HIDE DEF rest
  <2>2. Len(rest) \in Nat /\ Len(Tail(plan[t])) \in Nat
    BY <1>2, <2>1
  <2>3. QED
    BY <1>2, <2>1, <2>2
<1>4. \/ rest # <<>> /\ Begin(t, rest)
      \/ /\ rest = <<>> /\ pc' = [pc EXCEPT ![t] = "Idle"]
         /\ plan' = [plan EXCEPT ![t] = <<>>] /\ UNCHANGED polls
  BY DEF Return
<1> HIDE DEF rest
<1>5. CASE rest # <<>> /\ Begin(t, rest)
  <2>1. PICK a \in Access : pc' = [pc EXCEPT ![t] = a]
    BY <1>5, FirstIsAccess DEF Begin
  <2>2. plan' = [plan EXCEPT ![t] = rest] /\ polls' = [polls EXCEPT ![t] = 0]
    BY <1>5 DEF Begin
  <2>3. 0 \in 0..PollMax - 1
    OBVIOUS
  <2>4. QED
    BY <1>1, <1>3, <1>5, <2>1, <2>2, <2>3
<1>6. CASE /\ rest = <<>> /\ pc' = [pc EXCEPT ![t] = "Idle"]
           /\ plan' = [plan EXCEPT ![t] = <<>>] /\ UNCHANGED polls
  <2>1. <<>> \in Seq(Senders) /\ Len(<<>>) < Len(plan[t])
    BY <1>3, <1>6
  <2>2. QED
    BY <1>1, <1>6, <2>1
<1>7. QED
  BY <1>4, <1>5, <1>6

\* Every data half lowers the rank of its thread and touches no other.
LEMMA MovesCount ==
  ASSUME CountType, ControlType', NEW t \in Thread, Moves(t)
  PROVE  CountType' /\ Falls(t) /\ \A u \in Thread \ {t} : Rank(u)' = Rank(u)
<1>1. /\ plan \in [Thread -> Seq(Senders)] /\ polls \in [Thread -> 0..PollMax - 1]
      /\ pc \in [Thread -> Access \cup {"Idle"}] /\ addressed \in [Thread -> BOOLEAN]
      /\ \A u \in Thread : pc[u] # "Idle" <=> plan[u] # <<>>
  BY DEF CountType, ControlType
<1>2. \A u \in Thread \ {t} : addressed'[u] = addressed[u]
  BY <1>1 DEF Moves
<1>3. CASE /\ UNCHANGED <<pc, plan>>
           /\ polls[t] + 1 < PollMax /\ polls' = [polls EXCEPT ![t] = polls[t] + 1]
  <2>1. polls[t] \in Nat /\ polls[t] + 1 \in 0..PollMax - 1 /\ PollMax \in Nat
    BY <1>1, <1>3
  <2>2. polls' \in [Thread -> 0..PollMax - 1] /\ polls'[t] = polls[t] + 1
        /\ \A u \in Thread \ {t} : polls'[u] = polls[u]
    BY <1>1, <1>3, <2>1
  <2>3. CountType'
    BY <1>1, <1>3, <2>2 DEF CountType
  <2>4. Rank(t)'[3] < Rank(t)[3]
    BY <2>1, <2>2, RankIs
  <2>5. \A j \in 1..2 : Rank(t)'[j] = Rank(t)[j]
    BY <1>3, RankIs
  <2>6. Falls(t)
    BY <2>4, <2>5 DEF Falls
  <2>7. QED
    BY <1>2, <1>3, <2>2, <2>3, <2>6, SameRank
<1>4. CASE /\ UNCHANGED plan /\ polls' = [polls EXCEPT ![t] = 0]
           /\ \E s \in Access : Stage(s) < Stage(pc[t]) /\ pc' = [pc EXCEPT ![t] = s]
  <2>1. PICK s \in Access : Stage(s) < Stage(pc[t]) /\ pc' = [pc EXCEPT ![t] = s]
    BY <1>4
  <2>2. /\ pc'[t] = s /\ s # "Idle" /\ polls' \in [Thread -> 0..PollMax - 1]
        /\ \A u \in Thread \ {t} : pc'[u] = pc[u] /\ polls'[u] = polls[u]
    BY <1>1, <1>4, <2>1
  <2>3. CountType'
    BY <1>1, <1>4, <2>2 DEF CountType, Moves
  <2>4. Rank(t)'[2] < Rank(t)[2] /\ \A j \in 1..1 : Rank(t)'[j] = Rank(t)[j]
    BY <1>4, <2>1, <2>2, RankIs
  <2>5. Falls(t)
    BY <2>4 DEF Falls
  <2>6. QED
    BY <1>2, <1>4, <2>2, <2>3, <2>5, SameRank
<1>5. CASE \E ok : Return(t, ok)
  <2>1. PICK ok : Return(t, ok)
    BY <1>5
  <2>2. /\ plan' \in [Thread -> Seq(Senders)] /\ polls' \in [Thread -> 0..PollMax - 1]
        /\ Len(plan'[t]) < Len(plan[t]) /\ (pc'[t] # "Idle" <=> plan'[t] # <<>>)
        /\ \A u \in Thread \ {t} : pc'[u] = pc[u] /\ plan'[u] = plan[u] /\ polls'[u] = polls[u]
    BY <2>1, ReturnCounts DEF Moves
  <2>3. CountType'
    BY <1>1, <2>2 DEF CountType
  <2>4. Rank(t)'[1] < Rank(t)[1] /\ \A j \in 1..0 : Rank(t)'[j] = Rank(t)[j]
    BY <2>2, RankIs
  <2>5. Falls(t)
    BY <2>4 DEF Falls
  <2>6. QED
    BY <1>2, <2>2, <2>3, <2>5, SameRank
<1>6. QED
  BY <1>3, <1>4, <1>5 DEF Moves

\* So does the first half of an access.
LEMMA AddressCounts ==
  ASSUME CountType, ControlType', NEW t \in Thread, Address(t)
  PROVE  CountType' /\ Falls(t) /\ \A u \in Thread \ {t} : Rank(u)' = Rank(u)
<1>1. /\ addressed \in [Thread -> BOOLEAN] /\ ~addressed[t]
      /\ addressed' = [addressed EXCEPT ![t] = TRUE] /\ UNCHANGED <<pc, plan, polls>>
  BY DEF CountType, ControlType, Address, thread
<1>2. CountType'
  BY <1>1 DEF CountType
<1>3. Rank(t)'[4] < Rank(t)[4] /\ \A j \in 1..3 : Rank(t)'[j] = Rank(t)[j]
  BY <1>1, RankIs
<1>4. \A u \in Thread \ {t} : addressed'[u] = addressed[u]
  BY <1>1
<1>5. Falls(t)
  BY <1>3 DEF Falls
<1>6. \A u \in Thread \ {t} : Rank(u)' = Rank(u)
  BY <1>1, <1>4, SameRank
<1>7. QED
  BY <1>2, <1>5, <1>6

LEMMA RunCounts ==
  ASSUME CountType, ControlType', NEW t \in Thread, Run(t)
  PROVE  CountType' /\ Falls(t) /\ \A u \in Thread \ {t} : Rank(u)' = Rank(u)
<1>1. CASE Address(t)
  BY <1>1, AddressCounts
<1>2. CASE ~Address(t)
  <2>1. Moves(t)
    BY <1>2, DataMoves DEF Run
  <2>2. QED
    BY <2>1, MovesCount
<1>3. QED
  BY <1>1, <1>2

\* A handler that arrives brings its own plan.
LEMMA EnterCounts ==
  ASSUME CountType, ControlType', NEW t \in Thread, Enter(t)
  PROVE  CountType' /\ pc[t] = "Idle" /\ \A u \in Thread \ {t} : Rank(u)' = Rank(u)
<1>1. PICK h, p : /\ h \in Handlers /\ p \in Plans(h) /\ Begin(t, p)
                  /\ pc[t] = "Idle" /\ UNCHANGED addressed
  BY DEF Enter, EnterLocked, EnterUnlocked
<1>2. p \in Seq(Senders) /\ p # <<>>
  BY <1>1, PlanSenders
<1>3. PICK a \in Access : pc' = [pc EXCEPT ![t] = a]
  BY <1>1, FirstIsAccess DEF Begin
<1>4. /\ plan' = [plan EXCEPT ![t] = p] /\ polls' = [polls EXCEPT ![t] = 0] /\ 0 \in 0..PollMax - 1
  BY <1>1 DEF Begin
<1>5. /\ plan \in [Thread -> Seq(Senders)] /\ polls \in [Thread -> 0..PollMax - 1]
      /\ pc \in [Thread -> Access \cup {"Idle"}]
      /\ \A u \in Thread : pc[u] # "Idle" <=> plan[u] # <<>>
  BY DEF CountType, ControlType
<1>6. /\ plan' \in [Thread -> Seq(Senders)] /\ polls' \in [Thread -> 0..PollMax - 1]
      /\ pc'[t] = a /\ plan'[t] = p
      /\ \A u \in Thread \ {t} : pc'[u] = pc[u] /\ plan'[u] = plan[u] /\ polls'[u] = polls[u]
  BY <1>2, <1>3, <1>4, <1>5
<1>7. CountType'
  BY <1>2, <1>5, <1>6 DEF CountType
<1>8. QED
  BY <1>1, <1>6, <1>7, SameRank

LEMMA CountNext ==
  ASSUME CountType, [Next]_vars
  PROVE  CountType' /\ HandlersCountDown
<1>1. ControlType'
  BY ControlNext DEF CountType
<1>2. ASSUME UNCHANGED <<pc, plan, polls, addressed>>
      PROVE  CountType' /\ \A t \in Thread : Rank(t)' = Rank(t)
  BY <1>1, <1>2, SameRank DEF CountType
<1>3. CountType' /\ \A t \in Thread : pc[t] # "Idle" => Falls(t) \/ Rank(t)' = Rank(t)
  <2>1. CASE UNCHANGED vars
    BY <1>2, <2>1 DEF vars, thread
  <2>2. ASSUME NEW q \in Queue, SmuAnswer(q)
        PROVE  CountType' /\ \A t \in Thread : pc[t] # "Idle" => Falls(t) \/ Rank(t)' = Rank(t)
    BY <1>2, <2>2 DEF SmuAnswer, thread
  <2>3. ASSUME NEW t \in Thread, Enter(t)
        PROVE  CountType' /\ \A u \in Thread : pc[u] # "Idle" => Falls(u) \/ Rank(u)' = Rank(u)
    BY <1>1, <2>3, EnterCounts
  <2>4. ASSUME NEW t \in Thread, Run(t)
        PROVE  CountType' /\ \A u \in Thread : pc[u] # "Idle" => Falls(u) \/ Rank(u)' = Rank(u)
    BY <1>1, <2>4, RunCounts
  <2>5. QED
    BY <2>1, <2>2, <2>3, <2>4 DEF Next
<1>4. \A t \in Thread : Run(t) => Falls(t)
  BY <1>1, RunCounts
<1>5. QED
  BY <1>3, <1>4 DEF HandlersCountDown

\* Whatever IRPs run beside it, with the mutex or without, and whether the SMU
\* answers or not, every access of a handler brings its return nearer: it lowers,
\* in lexicographic order, the senders it has still to run, the accesses of the
\* current one and the polls of the current loop, and nobody else's step raises
\* them.  The loops that wait for the SMU are counted.
THEOREM AccessesCountDown == Spec => [][HandlersCountDown]_vars
<1>1. Init => CountType
  <2>1. Init => ControlType
    BY PortInit DEF PortInv
  <2>2. <<>> \in Seq(Senders) /\ 0 \in 0..PollMax - 1
    OBVIOUS
  <2>3. QED
    BY <2>1, <2>2 DEF Init, CountType
<1>2. CountType /\ [Next]_vars => CountType' /\ [HandlersCountDown]_vars
  BY CountNext
<1>3. QED
  BY <1>1, <1>2, PTL DEF Spec
=============================================================================
