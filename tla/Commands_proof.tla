---------------------------- MODULE Commands_proof ----------------------------
(***************************************************************************)
(* Proofs about the two ways a command takes: GfxRing, for any number of   *)
(* IRPs, any ring and any commands, however bring-up and resets, which     *)
(* take no lock, fall between them; and SwPm4, the software executor, for  *)
(* any streams, indirect buffers and memory.                               *)
(***************************************************************************)
EXTENDS GfxRing, SwPm4, FiniteSetTheorems, TLAPS

-----------------------------------------------------------------------------
(* The inductive invariant of GfxRing *)

BringUp == {"Lazy", "Zero", "Restart", "Alloc", "Base", "Probe"}
Pc == {"Idle", "Lock", "Body", "Eop", "Kick", "Record", "Send", "Software",
       "Check", "Wait", "Signal"} \cup BringUp
Request == [handler : Ioctls \cup {"none"}, call : Nat, fence : Nat, ib : BOOLEAN, count : Nat,
            page : Page \cup {Null}, met : BOOLEAN]
Content == [kind : {"zero", "nop", "ib", "cmd", "eop"}, n : Nat, of : Nat, call : Nat]

Type ==
  /\ pc \in [Thread -> Pc] /\ req \in [Thread -> Request] /\ calls \in Nat
  /\ lock \in Thread \cup {Null}
  /\ va \in Page \cup {Null} /\ live \subseteq Page /\ base \in Page \cup {Null}
  /\ initialized \in BOOLEAN /\ fencePage \in BOOLEAN
  /\ desync \in BOOLEAN /\ overlapped \in BOOLEAN
  /\ wptr \in 0..Size /\ hwWptr \in 0..Size
  /\ ring \in [Places -> Content]
  /\ config \in [writable : BOOLEAN, extended : BOOLEAN]

\* Which IOCTL a thread is in, from where it is.
Where ==
  \A t \in Thread :
    /\ pc[t] = "Idle" <=> req[t].handler = "none"
    /\ pc[t] \in {"Lock", "Body", "Eop", "Kick"} =>
         req[t].handler \in {"SUBMIT_COMMANDS", "SEND_PM4"}
    /\ pc[t] = "Record" => req[t].handler = "SUBMIT_COMMANDS"
    /\ pc[t] \in {"Send", "Software"} => req[t].handler = "SEND_PM4"
    /\ req[t].handler = "SEND_PM4" => req[t].count \in Counts
    /\ req[t].handler = "SEND_PM4" /\ pc[t] = "Eop" => req[t].fence > 0

Inside(t) == pc[t] \in {"Body", "Eop", "Kick"}
LockOwner == \A t \in Thread : Inside(t) <=> lock = t

\* Each bring-up has a ring of its own, and when the last of them is done the
\* ring that is published, if there still is one, counts as initialized.
Rings ==
  /\ va # Null => va \in live
  /\ initialized => fencePage
  /\ va # Null /\ (\A t \in Thread : pc[t] \notin Unsure) => initialized
  /\ \A t \in Thread :
       /\ pc[t] \in Unsure => req[t].page \in live
       /\ pc[t] = "Probe" => fencePage
       /\ \A u \in Thread \ {t} :
            pc[t] \in Unsure /\ pc[u] \in Unsure => req[u].page # req[t].page

\* A call that no bring-up has met keeps the ring it has found.
Unmet ==
  \A t \in Thread : pc[t] # "Idle" /\ ~req[t].met =>
    /\ \A u \in Thread \ {t} : pc[u] \notin Unsure
    /\ pc[t] \in {"Lock", "Body"} /\ req[t].handler = "SEND_PM4" => va # Null
    /\ pc[t] \in {"Eop", "Kick"} => va # Null

\* Bring-ups that come one at a time: the ring is that of the one that is at
\* work, or the one the hardware has; and the classic order never holds two.
Raising == {"Alloc"} \cup Unsure

OneAtATime ==
  ~overlapped =>
    /\ \A t \in Thread, u \in Thread : t # u /\ pc[t] \in Raising => pc[u] \notin Raising
    /\ \A t \in Thread : pc[t] \in Unsure => va = req[t].page /\ ~initialized
    /\ initialized => va # Null /\ base = va
    /\ ~config.extended => /\ live \subseteq {va}
                           /\ \A t \in Thread : pc[t] = "Alloc" => va = Null

\* The two write pointers part only while the lock is held.
Pointers ==
  /\ lock = Null /\ ~desync => hwWptr = wptr
  /\ \A t \in Thread : pc[t] = "Body" /\ ~desync => hwWptr = wptr

\* No two calls have a number in common, and none has written a dword before it
\* is at work on the ring.
Numbers ==
  /\ \A t \in Thread : pc[t] # "Idle" => req[t].call \in 1..calls
  /\ \A t, u \in Thread : t # u /\ pc[t] # "Idle" /\ pc[u] # "Idle" =>
       req[t].call # req[u].call
  /\ \A i \in Places : ring[i].call <= calls
  /\ \A t \in Thread : pc[t] \notin {"Idle", "Eop", "Kick", "Record"} =>
       \A i \in Places : ring[i].call # req[t].call

\* What a call writes: its body, the commands or the indirect buffer, and the
\* packet of its fence.
Sends(t)  == req[t].handler = "SEND_PM4"
Fenced(t) == Sends(t) => req[t].fence > 0
Kind(t)   == IF Sends(t) THEN "cmd" ELSE "ib"
Body(t)   == IF Sends(t) THEN req[t].count ELSE IbDwords

BodyAt(t, b) == \A i \in b..b + Body(t) - 1 :
                  ring[i] = Dword(Kind(t), i - b, Body(t), req[t].call)
EopAt(t, e) == \A i \in e..e + EopDwords - 1 :
                 ring[i] = Dword("eop", i - e, EopDwords, req[t].call)
NopsFrom(n) == \A i \in Places : i >= n => ring[i] = Nop

\* The body did not fit behind the pointer.  Only SEND_PM4 pads then, and it
\* looks ahead for the fence.
Wrapped(t) == IF Sends(t) THEN /\ hwWptr + Body(t) + (IF Fenced(t) THEN EopDwords ELSE 0) > Size
                               /\ NopsFrom(hwWptr)
              ELSE hwWptr + Body(t) > Size

WithBody(t, b) ==
  /\ b \in Nat /\ b + Body(t) <= Size /\ wptr = b + Body(t) /\ BodyAt(t, b)
  /\ \A i \in Places : ring[i].call = req[t].call => i \in b..b + Body(t) - 1
  /\ b = hwWptr \/ (b = 0 /\ Wrapped(t))

WithEop(t, b, e) ==
  /\ b \in Nat /\ e \in Nat /\ b + Body(t) <= Size /\ e + EopDwords <= Size
  /\ wptr = e + EopDwords
  /\ BodyAt(t, b) /\ EopAt(t, e)
  /\ \A i \in Places : ring[i].call = req[t].call =>
       i \in (b..b + Body(t) - 1) \cup (e..e + EopDwords - 1)
  /\ \/ e = b + Body(t) /\ (b = hwWptr \/ (b = 0 /\ Wrapped(t)))
     \/ /\ ~Sends(t) /\ b = hwWptr /\ e = 0
        /\ b + Body(t) + EopDwords > Size /\ NopsFrom(b + Body(t))

\* What a call has written when it goes on to its fence, and when it kicks.
BodyOnly(t) == /\ \E b \in Nat : WithBody(t, b)
               /\ Sends(t) /\ Fenced(t) => wptr + EopDwords <= Size
Whole(t) == \E b, e \in Nat : WithEop(t, b, e)

Layout ==
  \A t \in Thread : ~desync /\ ~req[t].met =>
    /\ pc[t] = "Eop" => Fenced(t) /\ BodyOnly(t)
    /\ pc[t] = "Kick" /\ Fenced(t) => Whole(t)
    /\ pc[t] = "Kick" /\ ~Fenced(t) => BodyOnly(t)

IInv == /\ Type /\ Where /\ LockOwner /\ Rings /\ Unmet /\ OneAtATime
        /\ Pointers /\ Numbers /\ Layout

-----------------------------------------------------------------------------
(* Every step preserves every part *)

\* What a caller may ask for.
LEMMA Asked ==
  ASSUME NEW n \in Nat, NEW r \in Requests(n)
  PROVE  /\ r \in Request /\ r.call = n /\ r.handler \in Ioctls
         /\ r.met <=> \E u \in Thread : pc[u] \in Unsure
         /\ r.handler = "SEND_PM4" => r.count \in Counts
<1> DEFINE late == \E u \in Thread : pc[u] \in Unsure
           ask(h, fs, ibs, cs) ==
             [handler : {h}, call : {n}, fence : fs, ib : ibs, count : cs, page : {Null},
              met : {late}]
<1> SUFFICES /\ r \in Request /\ r.call = n /\ r.handler \in Ioctls /\ r.met = late
             /\ r.handler = "SEND_PM4" => r.count \in Counts
  BY Zenon
<1> USE GfxAssumption
<1>0. late \in BOOLEAN
  OBVIOUS
<1> HIDE DEF late
<1>1. ASSUME NEW h \in Ioctls, NEW fs \in SUBSET Nat, NEW ibs \in SUBSET BOOLEAN,
             NEW cs \in SUBSET Nat, r \in ask(h, fs, ibs, cs)
      PROVE  r \in Request /\ r.call = n /\ r.handler = h /\ r.count \in cs /\ r.met = late
  BY <1>0, <1>1 DEF Request
<1>2. /\ 0..MaxFence \in SUBSET Nat /\ 1..MaxFence \in SUBSET Nat /\ {0} \in SUBSET Nat
      /\ Counts \in SUBSET Nat /\ BOOLEAN \in SUBSET BOOLEAN /\ {FALSE} \in SUBSET BOOLEAN
  OBVIOUS
<1>3. \/ r \in ask("SUBMIT_COMMANDS", 0..MaxFence, BOOLEAN, {0})
      \/ r \in ask("SEND_PM4", 0..MaxFence, {FALSE}, Counts)
      \/ \E h \in {"WAIT_FENCE", "SIGNAL_FENCE"} : r \in ask(h, 1..MaxFence, {FALSE}, {0})
      \/ \E h \in Resets \cup {"GET_NBIO_STATUS"} : r \in ask(h, {0}, {FALSE}, {0})
  BY Zenon DEF Requests, late
<1> HIDE DEF ask
<1>4. CASE r \in ask("SUBMIT_COMMANDS", 0..MaxFence, BOOLEAN, {0})
  BY <1>1, <1>2, <1>4 DEF Ioctls
<1>5. CASE r \in ask("SEND_PM4", 0..MaxFence, {FALSE}, Counts)
  BY <1>1, <1>2, <1>5 DEF Ioctls
<1>6. CASE \E h \in {"WAIT_FENCE", "SIGNAL_FENCE"} : r \in ask(h, 1..MaxFence, {FALSE}, {0})
  BY <1>1, <1>2, <1>6 DEF Ioctls
<1>7. CASE \E h \in Resets \cup {"GET_NBIO_STATUS"} : r \in ask(h, {0}, {FALSE}, {0})
  BY <1>1, <1>2, <1>7 DEF Ioctls, Resets
<1>8. QED
  BY <1>3, <1>4, <1>5, <1>6, <1>7

\* Where an IOCTL begins depends on its name alone.
LEMMA Entries ==
  /\ Entry("SUBMIT_COMMANDS") = "Lock" /\ Entry("SEND_PM4") = "Send"
  /\ Entry("WAIT_FENCE") = "Check" /\ Entry("SIGNAL_FENCE") = "Signal"
  /\ Entry("GET_NBIO_STATUS") = "Lazy"
  /\ \A h \in Resets : Entry(h) = "Zero"
BY DEF Entry, Resets

\* A step does one thing to what it is in.
LEMMA EnterDoes ==
  ASSUME Type, NEW t \in Thread, Enter(t)
  PROVE  \E r \in Request :
           /\ pc[t] = "Idle" /\ calls' = calls + 1
           /\ r.call = calls + 1 /\ r.handler \in Ioctls
           /\ r.handler = "SEND_PM4" => r.count \in Counts
           /\ r.met <=> \E u \in Thread : pc[u] \in Unsure
           /\ Entry(r.handler) \in {"Lock", "Send", "Check", "Signal", "Lazy", "Zero"}
           /\ r.handler = "SEND_PM4" => Entry(r.handler) = "Send"
           /\ req' = [req EXCEPT ![t] = r]
           /\ pc' = [pc EXCEPT ![t] = Entry(r.handler)]
           /\ \A u \in Thread : u # t => pc'[u] = pc[u] /\ req'[u] = req[u]
           /\ pc'[t] = Entry(r.handler) /\ req'[t] = r
           /\ UNCHANGED <<lock, memory, pointer, ring, config>>
<1>1. calls + 1 \in Nat /\ calls' = calls + 1
  BY DEF Type, Enter
<1>2. PICK r \in Requests(calls') :
           /\ req' = [req EXCEPT ![t] = r]
           /\ pc' = [pc EXCEPT ![t] = Entry(r.handler)]
  BY DEF Enter
<1>3. /\ r \in Request /\ r.call = calls + 1 /\ (r.handler = "SEND_PM4" => r.count \in Counts)
      /\ r.handler \in Ioctls
      /\ r.met <=> \E u \in Thread : pc[u] \in Unsure
  BY <1>1, <1>2, Asked, Zenon
<1>4. /\ Entry(r.handler) \in {"Lock", "Send", "Check", "Signal", "Lazy", "Zero"}
      /\ r.handler = "SEND_PM4" => Entry(r.handler) = "Send"
  BY <1>3, Entries DEF Ioctls
<1>5. /\ \A u \in Thread : u # t => pc'[u] = pc[u] /\ req'[u] = req[u]
      /\ pc'[t] = Entry(r.handler) /\ req'[t] = r
  BY <1>2 DEF Type
<1>6. pc[t] = "Idle" /\ UNCHANGED <<lock, memory, pointer, ring, config>>
  BY DEF Enter
<1>7. QED
  BY <1>1, <1>2, <1>3, <1>4, <1>5, <1>6

\* What a call asked for stays as it is; that it was met is not forgotten.
Keeps(u) ==
  /\ req'[u].handler = req[u].handler /\ req'[u].call = req[u].call
  /\ req'[u].fence = req[u].fence /\ req'[u].ib = req[u].ib /\ req'[u].count = req[u].count
  /\ req[u].met => req'[u].met

LEMMA NoneType == NoRequest \in Request
BY DEF NoRequest, Request

LEMMA GotoDoes ==
  ASSUME Type, NEW t \in Thread, NEW from, NEW to \in Pc, Goto(t, from, to)
  PROVE  /\ pc[t] = from /\ pc'[t] = to /\ calls' = calls
         /\ pc' \in [Thread -> Pc] /\ req' \in [Thread -> Request]
         /\ \A u \in Thread : u # t => pc'[u] = pc[u] /\ req'[u] = req[u] /\ Keeps(u)
         /\ to = "Idle" => req'[t] = NoRequest
         /\ to # "Idle" => req'[t] = req[t] /\ Keeps(t)
BY NoneType DEF Type, Goto, Keeps

LEMMA MeetsDoes ==
  ASSUME Type, NEW t \in Thread, NEW from, NEW to \in Pc, NEW page \in Page \cup {Null},
         Meets(t, from, to, page)
  PROVE  /\ pc[t] = from /\ pc'[t] = to /\ calls' = calls
         /\ pc' \in [Thread -> Pc] /\ req' \in [Thread -> Request]
         /\ \A u \in Thread : u # t => /\ pc'[u] = pc[u] /\ Keeps(u)
                                       /\ req'[u].page = req[u].page
                                       /\ pc[u] # "Idle" => req'[u].met
         /\ to = "Idle" => req'[t] = NoRequest
         /\ to # "Idle" => Keeps(t) /\ req'[t].page = page /\ req'[t].met = req[t].met
<1>1. /\ pc[t] = from /\ pc' = [pc EXCEPT ![t] = to] /\ calls' = calls
      /\ pc' \in [Thread -> Pc]
  BY DEF Meets, Type
<1>2. ASSUME NEW u \in Thread, u # t
      PROVE  req'[u] = IF pc[u] = "Idle" THEN req[u] ELSE [req[u] EXCEPT !.met = TRUE]
  BY <1>2 DEF Meets
<1>3. to = "Idle" => req'[t] = NoRequest
  BY DEF Meets
<1>4. to # "Idle" => req'[t] = [req[t] EXCEPT !.page = page]
  BY DEF Meets
<1>5. ASSUME NEW u \in Thread, u # t
      PROVE  /\ Keeps(u) /\ req'[u].page = req[u].page /\ (pc[u] # "Idle" => req'[u].met)
             /\ req'[u] \in Request
  <2>1. req[u] \in Request
    BY DEF Type
  <2>2. CASE pc[u] = "Idle"
    BY <1>2, <1>5, <2>1, <2>2 DEF Keeps
  <2>3. CASE pc[u] # "Idle"
    <3>1. req'[u] = [req[u] EXCEPT !.met = TRUE]
      BY <1>2, <1>5, <2>3
    <3>2. QED
      BY <2>1, <2>3, <3>1 DEF Keeps, Request
  <2>4. QED
    BY <2>2, <2>3
<1>6. req'[t] \in Request /\ (to # "Idle" =>
        Keeps(t) /\ req'[t].page = page /\ req'[t].met = req[t].met)
  <2>1. req[t] \in Request
    BY DEF Type
  <2>2. QED
    BY <1>3, <1>4, <2>1, NoneType DEF Keeps, Request
<1>7. req' \in [Thread -> Request]
  <2>1. DOMAIN req' = Thread /\ req' = [u \in Thread |-> req'[u]]
    BY DEF Meets
  <2>2. QED
    BY <1>5, <1>6, <2>1
<1>8. QED
  BY <1>1, <1>3, <1>5, <1>6, <1>7

\* A step of bring-up or reset.
Brings(t) == Lazy(t) \/ ZeroPointer(t) \/ Restart(t) \/ Alloc(t) \/ Base(t) \/ Probe(t)

\* The others leave the ring's memory and its bring-up alone, and only find a
\* ring where there is one.
LEMMA Submits ==
  ASSUME Type, NEW t \in Thread, Run(t), ~Brings(t)
  PROVE  /\ UNCHANGED <<memory, config>>
         /\ pc[t] \notin BringUp \cup {"Idle"} /\ pc'[t] \notin BringUp
         /\ calls' = calls
         /\ pc' \in [Thread -> Pc] /\ req' \in [Thread -> Request]
         /\ \A u \in Thread : u # t => pc'[u] = pc[u] /\ req'[u] = req[u] /\ Keeps(u)
         /\ pc'[t] = "Idle" => req'[t] = NoRequest
         /\ pc'[t] # "Idle" => req'[t] = req[t] /\ Keeps(t)
         /\ pc'[t] \in {"Lock", "Body"} => va # Null \/ pc[t] = "Lock"
         /\ pc'[t] \in {"Eop", "Kick"} => va # Null \/ pc[t] = "Eop"
<1> DEFINE Moves(from, to) ==
      /\ from \in Pc /\ to \in Pc /\ Goto(t, from, to) /\ UNCHANGED <<memory, config>>
      /\ from \notin BringUp \cup {"Idle"} /\ to \notin BringUp
      /\ to \in {"Lock", "Body"} => va # Null \/ from = "Lock"
      /\ to \in {"Eop", "Kick"} => va # Null \/ from = "Eop"
<1>1. \E from, to : Moves(from, to)
  <2> USE DEF Pc, BringUp
  <2>1. CASE Lock(t)
    BY <2>1 DEF Lock
  <2>2. CASE SubmitIb(t)
    BY <2>2 DEF SubmitIb
  <2>3. CASE SubmitNothing(t)
    BY <2>3 DEF SubmitNothing
  <2>4. CASE SendBody(t)
    BY <2>4 DEF SendBody
  <2>5. CASE Eop(t)
    BY <2>5 DEF Eop
  <2>6. CASE Kick(t)
    BY <2>6 DEF Kick
  <2>7. CASE Record(t)
    BY <2>7 DEF Record
  <2>8. CASE Send(t)
    BY <2>8 DEF Send, AfterKiq
  <2>9. CASE SendKiq(t)
    BY <2>9 DEF SendKiq, AfterKiq
  <2>10. CASE Software(t)
    BY <2>10 DEF Software
  <2>11. CASE Check(t)
    BY <2>11 DEF Check
  <2>12. CASE Wake(t)
    BY <2>12 DEF Wake
  <2>13. CASE Timeout(t)
    BY <2>13 DEF Timeout
  <2>14. CASE Signal(t)
    BY <2>14 DEF Signal
  <2>15. QED
    BY <2>1, <2>2, <2>3, <2>4, <2>5, <2>6, <2>7, <2>8, <2>9, <2>10,
       <2>11, <2>12, <2>13, <2>14 DEF Run, Brings
<1>2. PICK from, to : Moves(from, to)
  BY <1>1
<1>3. QED
  BY <1>2, GotoDoes

\* Bring-up and resets leave the lock alone, and move a pointer or write the
\* ring only with desync to show for it if the lock is held.
LEMMA BringsDoes ==
  ASSUME Type, NEW t \in Thread, Brings(t)
  PROVE  /\ pc[t] \in BringUp /\ pc'[t] \in BringUp \cup {"Idle"} /\ calls' = calls
         /\ pc' \in [Thread -> Pc] /\ req' \in [Thread -> Request]
         /\ \A u \in Thread : u # t => /\ pc'[u] = pc[u] /\ Keeps(u)
                                       /\ req'[u].page = req[u].page
         /\ pc'[t] = "Idle" => req'[t] = NoRequest
         /\ pc'[t] # "Idle" => Keeps(t)
         /\ lock' = lock
         /\ \/ UNCHANGED <<ring, pointer>>
            \/ /\ ring' \in {ring, Blank}
               /\ wptr' \in {0, wptr} /\ hwWptr' \in {0, hwWptr}
               /\ desync' = (wptr' # hwWptr' \/ lock # Null)
<1> USE GfxAssumption DEF Pc, BringUp, pointer
<1>0. Null \in Page \cup {Null}
  OBVIOUS
<1>1. CASE Lazy(t)
  <2>1. PICK to \in {"Idle", "Alloc"} : Goto(t, "Lazy", to)
    BY <1>1 DEF Lazy
  <2>2. UNCHANGED <<lock, ring, pointer>>
    BY <1>1 DEF Lazy
  <2>3. QED
    BY <2>1, <2>2, GotoDoes
<1>2. CASE ZeroPointer(t)
  <2>1. Meets(t, "Zero", "Restart", Null) /\ "Restart" \in Pc
    BY <1>2 DEF ZeroPointer
  <2>2. lock' = lock /\ ring' = ring /\ Point(0, hwWptr)
    BY <1>2 DEF ZeroPointer
  <2>3. /\ ring' \in {ring, Blank} /\ wptr' \in {0, wptr} /\ hwWptr' \in {0, hwWptr}
        /\ desync' = (wptr' # hwWptr' \/ lock # Null)
    BY <2>2 DEF Point
  <2>4. /\ pc[t] \in BringUp /\ pc'[t] \in BringUp \cup {"Idle"} /\ calls' = calls
        /\ pc' \in [Thread -> Pc] /\ req' \in [Thread -> Request]
        /\ \A u \in Thread : u # t => /\ pc'[u] = pc[u] /\ Keeps(u)
                                      /\ req'[u].page = req[u].page
        /\ pc'[t] = "Idle" => req'[t] = NoRequest
        /\ pc'[t] # "Idle" => Keeps(t)
    <3> HIDE DEF Pc
    <3>1. /\ pc[t] = "Zero" /\ pc'[t] = "Restart" /\ calls' = calls
          /\ pc' \in [Thread -> Pc] /\ req' \in [Thread -> Request]
          /\ \A u \in Thread : u # t => /\ pc'[u] = pc[u] /\ Keeps(u)
                                        /\ req'[u].page = req[u].page
          /\ Keeps(t)
      BY <1>0, <2>1, MeetsDoes
    <3>2. QED
      BY <3>1
  <2>5. QED
    BY <2>2, <2>3, <2>4, Zenon
<1>3. CASE Restart(t)
  <2>1. PICK to \in {"Idle", "Alloc"} : Meets(t, "Restart", to, Null)
    BY <1>3 DEF Restart
  <2>2. lock' = lock /\ ring' = ring /\ (Point(wptr, 0) \/ UNCHANGED pointer)
    BY <1>3 DEF Restart
  <2>3. \/ UNCHANGED <<ring, pointer>>
        \/ /\ ring' \in {ring, Blank} /\ wptr' \in {0, wptr} /\ hwWptr' \in {0, hwWptr}
           /\ desync' = (wptr' # hwWptr' \/ lock # Null)
    BY <2>2 DEF Point
  <2>4. QED
    BY <1>0, <2>1, <2>2, <2>3, MeetsDoes
<1>4. CASE Alloc(t)
  <2>1. lock' = lock
    BY <1>4 DEF Alloc
  <2>2. CASE Goto(t, "Alloc", "Idle") /\ UNCHANGED <<pointer, ring>>
    BY <2>1, <2>2, GotoDoes
  <2>3. CASE \E p \in Page \ live : /\ Meets(t, "Alloc", "Base", p)
                                    /\ ring' = Blank /\ Point(0, hwWptr)
    <3>1. PICK p \in Page \cup {Null} : Meets(t, "Alloc", "Base", p)
      BY <2>3
    <3>2. /\ ring' \in {ring, Blank} /\ wptr' \in {0, wptr} /\ hwWptr' \in {0, hwWptr}
          /\ desync' = (wptr' # hwWptr' \/ lock # Null)
      BY <2>3 DEF Point
    <3>3. /\ pc[t] \in BringUp /\ pc'[t] \in BringUp \cup {"Idle"} /\ calls' = calls
          /\ pc' \in [Thread -> Pc] /\ req' \in [Thread -> Request]
          /\ \A u \in Thread : u # t => /\ pc'[u] = pc[u] /\ Keeps(u)
                                        /\ req'[u].page = req[u].page
          /\ pc'[t] = "Idle" => req'[t] = NoRequest
          /\ pc'[t] # "Idle" => Keeps(t)
      BY <3>1, MeetsDoes
    <3>4. QED
      BY <2>1, <3>2, <3>3, Zenon
  <2>4. QED
    BY <1>4, <2>2, <2>3 DEF Alloc
<1>5. CASE Base(t)
  <2>1. PICK to \in {"Idle", "Probe"} : Goto(t, "Base", to)
    BY <1>5 DEF Base
  <2>2. UNCHANGED <<lock, ring, pointer>>
    BY <1>5 DEF Base
  <2>3. QED
    BY <2>1, <2>2, GotoDoes
<1>6. CASE Probe(t)
  <2>1. Goto(t, "Probe", "Idle")
    BY <1>6 DEF Probe
  <2>2. lock' = lock /\ ring' = ring /\ (Point(wptr, 0) \/ UNCHANGED pointer)
    BY <1>6 DEF Probe, Accept
  <2>3. QED
    BY <2>1, <2>2, GotoDoes DEF Point
<1>7. QED
  BY <1>1, <1>2, <1>3, <1>4, <1>5, <1>6 DEF Brings

\* An allocation fails, or its page is published.
LEMMA AllocDoes ==
  ASSUME Type, NEW t \in Thread, Alloc(t)
  PROVE  /\ pc[t] = "Alloc" /\ UNCHANGED <<fencePage, base, overlapped, config>>
         /\ \/ pc'[t] = "Idle" /\ UNCHANGED <<va, live, initialized>>
            \/ \E p \in Page \ live :
                 /\ pc'[t] = "Base" /\ req'[t].page = p
                 /\ va' = p /\ live' = live \cup {p} /\ ~initialized'
<1>1. CASE Goto(t, "Alloc", "Idle") /\ UNCHANGED <<va, live, initialized>>
  BY <1>1 DEF Alloc, Goto, Type
<1>2. ASSUME NEW p \in Page \ live, Meets(t, "Alloc", "Base", p),
             va' = p /\ live' = live \cup {p} /\ ~initialized'
      PROVE  pc[t] = "Alloc" /\ pc'[t] = "Base" /\ req'[t].page = p
  <2>1. pc[t] = "Alloc" /\ pc'[t] = "Base"
    BY <1>2 DEF Meets, Type
  <2>2. req'[t] = [req[t] EXCEPT !.page = p]
    BY <1>2 DEF Meets
  <2>3. QED
    BY <2>1, <2>2 DEF Type, Request
<1>3. QED
  BY <1>1, <1>2 DEF Alloc

\* A step moves one thread, and forgets the request of one that is done.
LEMMA RunDoes ==
  ASSUME Type, NEW t \in Thread, Run(t)
  PROVE  /\ pc[t] # "Idle" /\ calls' = calls
         /\ pc' \in [Thread -> Pc] /\ req' \in [Thread -> Request]
         /\ \A u \in Thread : u # t => pc'[u] = pc[u] /\ Keeps(u)
         /\ pc'[t] = "Idle" => req'[t] = NoRequest
         /\ pc'[t] # "Idle" => Keeps(t)
BY Submits, BringsDoes DEF BringUp

LEMMA PacketType ==
  ASSUME NEW r \in [Places -> Content], NEW w \in Nat, NEW kind \in {"ib", "cmd", "eop"},
         NEW of \in Nat, NEW c \in Nat
  PROVE  Packet(r, w, kind, of, c) \in [Places -> Content] /\ Padded(r, w) \in [Places -> Content]
<1>1. \A i \in Places : i \in Int /\ (i \in w..w + of - 1 => i - w \in Nat)
  BY GfxAssumption DEF Places
<1>2. Nop \in Content
  BY DEF Nop, Dword, Content
<1>3. \A i \in Places : i \in w..w + of - 1 => Dword(kind, i - w, of, c) \in Content
  BY <1>1 DEF Dword, Content
<1>4. Packet(r, w, kind, of, c) \in [Places -> Content]
  BY <1>3 DEF Packet
<1>5. Padded(r, w) \in [Places -> Content]
  BY <1>2 DEF Padded
<1>6. QED
  BY <1>4, <1>5

LEMMA BlankType == Blank \in [Places -> Content]
BY DEF Blank, Zero, Dword, Content

\* The write pointer stays in the ring, and what is written there are dwords.
LEMMA WriteType ==
  ASSUME Type, Where, NEW t \in Thread, SubmitIb(t) \/ SendBody(t) \/ Eop(t)
  PROVE  ring' \in [Places -> Content] /\ wptr' \in 0..Size
<1> USE GfxAssumption DEF IbDwords, EopDwords
<1>0. ring \in [Places -> Content] /\ wptr \in 0..Size /\ wptr \in Nat /\ req[t].call \in Nat
  BY DEF Type, Request
<1>1. CASE SubmitIb(t)
  <2> DEFINE w == IF wptr + IbDwords > Size THEN 0 ELSE wptr
  <2>1. w \in Nat /\ w + IbDwords \in 0..Size
    BY <1>0
  <2>2. ring' = Packet(ring, w, "ib", IbDwords, req[t].call) /\ wptr' = w + IbDwords
    BY <1>1 DEF SubmitIb
  <2>3. QED
    BY <1>0, <2>1, <2>2, PacketType
<1>2. CASE SendBody(t)
  <2> DEFINE total == req[t].count + (IF req[t].fence > 0 THEN EopDwords ELSE 0)
             wraps == wptr + total > Size
             w == IF wraps THEN 0 ELSE wptr
             r == IF wraps THEN Padded(ring, wptr) ELSE ring
  <2>1. w \in Nat /\ w + req[t].count \in 0..Size /\ req[t].count \in Nat
    BY <1>0, <1>2 DEF SendBody, Where, Is
  <2>2. ring' = Packet(r, w, "cmd", req[t].count, req[t].call) /\ wptr' = w + req[t].count
    BY <1>2 DEF SendBody
  <2>3. r \in [Places -> Content]
    BY <1>0, PacketType
  <2>4. QED
    BY <1>0, <2>1, <2>2, <2>3, PacketType
<1>3. CASE Eop(t)
  <2> DEFINE wraps == wptr + EopDwords > Size
             w == IF wraps THEN 0 ELSE wptr
             r == IF wraps THEN Padded(ring, wptr) ELSE ring
  <2>1. w \in Nat /\ w + EopDwords \in 0..Size
    BY <1>0
  <2>2. \/ ring' = ring /\ wptr' = wptr
        \/ ring' = Packet(r, w, "eop", EopDwords, req[t].call) /\ wptr' = w + EopDwords
    BY <1>3 DEF Eop
  <2>3. r \in [Places -> Content]
    BY <1>0, PacketType
  <2>4. Packet(r, w, "eop", EopDwords, req[t].call) \in [Places -> Content]
    BY <1>0, <2>1, <2>3, PacketType
  <2>5. QED
    BY <1>0, <2>1, <2>2, <2>4, Zenon
<1>4. QED
  BY <1>1, <1>2, <1>3

\* Who has the lock, and who moves which pointer.
LEMMA SubmitsMoves ==
  ASSUME Type, NEW t \in Thread, Run(t), ~Brings(t)
  PROVE  \/ Lock(t) /\ lock = Null /\ lock' = t /\ UNCHANGED <<pointer, ring>>
            /\ pc[t] = "Lock" /\ pc'[t] = "Body"
         \/ SubmitNothing(t) /\ lock' = Null /\ UNCHANGED <<pointer, ring>>
            /\ pc[t] = "Body" /\ pc'[t] = "Record"
         \/ (SubmitIb(t) \/ SendBody(t)) /\ UNCHANGED <<lock, hwWptr, desync>>
            /\ pc[t] = "Body" /\ pc'[t] \in {"Eop", "Kick"}
         \/ Eop(t) /\ UNCHANGED <<lock, hwWptr, desync>>
            /\ pc[t] = "Eop" /\ pc'[t] = "Kick"
         \/ Kick(t) /\ lock' = Null /\ wptr' = wptr /\ hwWptr' = wptr /\ ring' = ring
            /\ desync' = (desync /\ req[t].met)
            /\ pc[t] = "Kick" /\ pc'[t] \in {"Idle", "Record"}
         \/ UNCHANGED <<lock, pointer, ring>>
            /\ pc[t] \notin {"Lock", "Body", "Eop", "Kick"}
            /\ pc'[t] \notin {"Body", "Eop", "Kick"}
            /\ (pc[t] = "Record" => pc'[t] = "Idle")
<1> USE DEF Type, Goto, pointer
<1>1. CASE Lock(t)
  BY <1>1 DEF Lock
<1>2. CASE SubmitIb(t)
  BY <1>2 DEF SubmitIb
<1>3. CASE SubmitNothing(t)
  BY <1>3 DEF SubmitNothing
<1>4. CASE SendBody(t)
  BY <1>4 DEF SendBody
<1>5. CASE Eop(t)
  BY <1>5 DEF Eop
<1>6. CASE Kick(t)
  BY <1>6 DEF Kick
<1>7. CASE Record(t)
  BY <1>7 DEF Record
<1>8. CASE Send(t)
  BY <1>8 DEF Send, AfterKiq
<1>9. CASE SendKiq(t)
  BY <1>9 DEF SendKiq, AfterKiq
<1>10. CASE Software(t)
  BY <1>10 DEF Software
<1>11. CASE Check(t)
  BY <1>11 DEF Check
<1>12. CASE Wake(t)
  BY <1>12 DEF Wake
<1>13. CASE Timeout(t)
  BY <1>13 DEF Timeout
<1>14. CASE Signal(t)
  BY <1>14 DEF Signal
<1>15. QED
  BY <1>1, <1>2, <1>3, <1>4, <1>5, <1>6, <1>7, <1>8, <1>9, <1>10,
     <1>11, <1>12, <1>13, <1>14 DEF Run, Brings

\* Every variable keeps its type.
LEMMA TypeNext == Type /\ Where /\ [Next]_vars => Type'
<1> SUFFICES ASSUME Type, Where, [Next]_vars PROVE Type'
  OBVIOUS
<1> USE GfxAssumption
<1>1. CASE UNCHANGED vars
  BY <1>1 DEF vars, thread, memory, pointer, Type
<1>2. ASSUME NEW t \in Thread, Enter(t)
      PROVE  Type'
  <2>1. PICK r \in Request :
           /\ calls' = calls + 1
           /\ Entry(r.handler) \in {"Lock", "Send", "Check", "Signal", "Lazy", "Zero"}
           /\ req' = [req EXCEPT ![t] = r]
           /\ pc' = [pc EXCEPT ![t] = Entry(r.handler)]
           /\ UNCHANGED <<lock, memory, pointer, ring, config>>
    BY <1>2, EnterDoes
  <2>2. QED
    BY <2>1 DEF Type, memory, pointer, Pc, BringUp
<1>3. ASSUME NEW t \in Thread, Run(t), ~Brings(t)
      PROVE  Type'
  <2>1. /\ UNCHANGED <<memory, config>> /\ calls' = calls
        /\ pc' \in [Thread -> Pc] /\ req' \in [Thread -> Request]
    BY <1>3, Submits
  <2>2. ring' \in [Places -> Content] /\ wptr' \in 0..Size
    BY <1>3, SubmitsMoves, WriteType DEF Type, pointer
  <2>3. hwWptr' \in 0..Size /\ lock' \in Thread \cup {Null} /\ desync' \in BOOLEAN
    BY <1>3, SubmitsMoves DEF Type, pointer, Request
  <2>4. QED
    BY <2>1, <2>2, <2>3 DEF Type, memory
<1>4. ASSUME NEW t \in Thread, Brings(t)
      PROVE  Type'
  <2>1. /\ pc' \in [Thread -> Pc] /\ req' \in [Thread -> Request] /\ calls' = calls
        /\ lock' = lock
        /\ \/ UNCHANGED <<ring, pointer>>
           \/ /\ ring' \in {ring, Blank}
              /\ wptr' \in {0, wptr} /\ hwWptr' \in {0, hwWptr}
              /\ desync' = (wptr' # hwWptr' \/ lock # Null)
    BY <1>4, BringsDoes
  <2>2. /\ ring' \in [Places -> Content] /\ wptr' \in 0..Size /\ hwWptr' \in 0..Size
        /\ lock' \in Thread \cup {Null}
    BY <2>1, BlankType DEF Type, pointer
  <2>3. desync' \in BOOLEAN
    BY <2>1, Zenon DEF Type, pointer
  <2>4. /\ va' \in Page \cup {Null} /\ live' \subseteq Page /\ base' \in Page \cup {Null}
        /\ config' = config
    <3>1. req[t].page \in Page \cup {Null}
      BY DEF Type, Request
    <3>2. QED
      BY <1>4, <3>1 DEF Type, Brings, Lazy, ZeroPointer, Restart, Alloc, Base, Probe, Accept,
         Refuse, memory
  <2>5. initialized' \in BOOLEAN /\ fencePage' \in BOOLEAN /\ overlapped' \in BOOLEAN
    <3>1. initialized' \in {initialized, TRUE, FALSE} /\ fencePage' \in {fencePage, TRUE}
      BY <1>4 DEF Brings, Lazy, ZeroPointer, Restart, Alloc, Base, Probe, Accept,
         Refuse, memory
    <3>2. overlapped' = overlapped \/ ToAlloc(t)
      BY <1>4 DEF Brings, Lazy, ZeroPointer, Restart, Alloc, Base, Probe, memory
    <3>3. overlapped' \in BOOLEAN
      BY <3>2 DEF Type, ToAlloc
    <3>4. QED
      BY <3>1, <3>3 DEF Type
  <2>6. QED
    BY <2>1, <2>2, <2>3, <2>4, <2>5 DEF Type
<1>5. QED
  BY <1>1, <1>2, <1>3, <1>4 DEF Next, Run, Brings

\* A thread stays in the IOCTL it is in, and in the part of it for that IOCTL.
LEMMA WhereNext == Type /\ Where /\ [Next]_vars => Where'
<1> SUFFICES ASSUME Type, Where, [Next]_vars PROVE Where'
  OBVIOUS
<1> USE DEF NoRequest
<1>1. CASE UNCHANGED vars
  BY <1>1 DEF vars, thread, Where
<1>2. ASSUME NEW t \in Thread, Enter(t)
      PROVE  Where'
  <2>1. PICK r \in Request :
           /\ r.handler \in Ioctls
           /\ r.handler = "SEND_PM4" => r.count \in Counts
           /\ Entry(r.handler) \in {"Lock", "Send", "Check", "Signal", "Lazy", "Zero"}
           /\ \A u \in Thread : u # t => pc'[u] = pc[u] /\ req'[u] = req[u]
           /\ pc'[t] = Entry(r.handler) /\ req'[t] = r
    BY <1>2, EnterDoes
  <2>2. QED
    BY <2>1, Entries DEF Where, Ioctls, Resets
<1>3. ASSUME NEW t \in Thread, Run(t)
      PROVE  Where'
  <2>1. \A u \in Thread : u # t => pc'[u] = pc[u] /\ Keeps(u)
    BY <1>3, RunDoes
  <2>2. /\ pc[t] # "Idle"
        /\ pc'[t] = "Idle" => req'[t] = NoRequest
        /\ pc'[t] # "Idle" => Keeps(t)
    BY <1>3, RunDoes
  <2>3. /\ pc'[t] \in {"Lock", "Body", "Eop", "Kick"} =>
             pc[t] \in {"Send", "Lock", "Body", "Eop"}
        /\ pc'[t] = "Record" => (Is(t, "SUBMIT_COMMANDS") \/ (pc[t] = "Kick" /\ ~Is(t, "SEND_PM4")))
        /\ pc'[t] \in {"Send", "Software"} => pc[t] = "Send"
        /\ pc'[t] = "Eop" => Is(t, "SUBMIT_COMMANDS") \/ req[t].fence > 0
    <3>1. CASE Brings(t)
      BY <3>1, BringsDoes DEF BringUp
    <3>2. CASE ~Brings(t)
      BY <1>3, <3>2 DEF Run, Brings, Goto, Type, Lock, SubmitIb, SubmitNothing, SendBody, Eop, Kick,
         Record, Send, SendKiq, AfterKiq, Software, Check, Wake, Timeout, Signal
    <3>3. QED
      BY <3>1, <3>2
  <2>4. QED
    BY <2>1, <2>2, <2>3 DEF Where, Keeps, Is
<1>4. QED
  BY <1>1, <1>2, <1>3 DEF Next

\* GfxRing.Lock has the owner that the code thinks it has.
LEMMA OwnerNext == Type /\ LockOwner /\ [Next]_vars => LockOwner'
<1> SUFFICES ASSUME Type, LockOwner, [Next]_vars PROVE LockOwner'
  OBVIOUS
<1> USE GfxAssumption DEF LockOwner, Inside
<1>1. CASE UNCHANGED vars
  BY <1>1 DEF vars, thread
<1>2. ASSUME NEW t \in Thread, Enter(t)
      PROVE  LockOwner'
  BY <1>2, EnterDoes
<1>3. ASSUME NEW t \in Thread, Run(t)
      PROVE  LockOwner'
  <2>1. \A u \in Thread : u # t => pc'[u] = pc[u]
    BY <1>3, RunDoes
  <2>2. CASE Brings(t)
    BY <2>1, <2>2, BringsDoes DEF BringUp
  <2>3. CASE ~Brings(t)
    BY <1>3, <2>1, <2>3, SubmitsMoves
  <2>4. QED
    BY <2>2, <2>3
<1>4. QED
  BY <1>1, <1>2, <1>3 DEF Next

\* However bring-ups overlap, none frees the ring of another.
LEMMA RingsNext == Type /\ Rings /\ [Next]_vars => Rings'
<1> SUFFICES ASSUME Type, Rings, [Next]_vars PROVE Rings'
  OBVIOUS
<1> USE GfxAssumption DEF Unsure
<1>1. CASE UNCHANGED vars
  BY <1>1 DEF vars, thread, memory, Rings
<1>2. ASSUME NEW t \in Thread, Enter(t)
      PROVE  Rings'
  BY <1>2, EnterDoes DEF Rings, memory
<1>3. ASSUME NEW t \in Thread, Run(t), ~Brings(t)
      PROVE  Rings'
  BY <1>3, Submits DEF Rings, memory, BringUp
<1>4. ASSUME NEW t \in Thread, Brings(t)
      PROVE  Rings'
  <2>1. /\ \A u \in Thread : u # t => pc'[u] = pc[u] /\ req'[u].page = req[u].page
        /\ req[t].page \in Page \cup {Null}
    BY <1>4, BringsDoes DEF Type, Request
  <2> USE DEF Goto, Meets, Type, Rings
  <2>2. CASE Lazy(t)
    <3>1. pc[t] = "Lazy" /\ pc'[t] \in {"Idle", "Alloc"}
          /\ UNCHANGED <<va, live, initialized, fencePage>>
      BY <2>2 DEF Lazy
    <3>2. QED
      BY <2>1, <3>1
  <2>3. CASE ZeroPointer(t)
    <3>1. pc[t] = "Zero" /\ pc'[t] = "Restart"
          /\ UNCHANGED <<va, live, initialized, fencePage>>
      BY <2>3 DEF ZeroPointer, memory
    <3>2. QED
      BY <2>1, <3>1
  <2>4. CASE Restart(t)
    <3>1. pc[t] = "Restart" /\ pc'[t] \in {"Idle", "Alloc"}
          /\ UNCHANGED <<va, live, initialized>> /\ fencePage' \in {fencePage, TRUE}
      BY <2>4 DEF Restart
    <3>2. fencePage => fencePage'
      BY <3>1
    <3>3. QED
      BY <2>1, <3>1, <3>2
  <2>5. CASE Alloc(t)
    <3>1. CASE pc[t] = "Alloc" /\ pc'[t] = "Idle" /\ UNCHANGED <<va, live, initialized, fencePage>>
      BY <2>1, <3>1
    <3>2. CASE \E p \in Page \ live : /\ pc[t] = "Alloc" /\ pc'[t] = "Base"
                                      /\ req'[t].page = p /\ va' = p /\ live' = live \cup {p}
                                      /\ ~initialized' /\ fencePage' = fencePage
      BY <2>1, <3>2
    <3>3. QED
      BY <2>5, <3>1, <3>2, AllocDoes
  <2>6. CASE Base(t)
    <3>1. CASE /\ pc[t] = "Base" /\ pc'[t] = "Idle" /\ Refuse(t)
               /\ UNCHANGED <<initialized, fencePage>>
      BY <2>1, <3>1 DEF Refuse
    <3>2. CASE /\ fencePage /\ pc[t] = "Base" /\ pc'[t] = "Probe" /\ req'[t].page = req[t].page
               /\ UNCHANGED <<va, live, initialized, fencePage>>
      BY <2>1, <3>2
    <3>3. QED
      BY <2>6, <3>1, <3>2 DEF Base
  <2>7. CASE Probe(t)
    <3>1. pc[t] = "Probe" /\ pc'[t] = "Idle" /\ fencePage /\ fencePage' = fencePage
      BY <2>7 DEF Probe
    <3>2. CASE initialized' /\ UNCHANGED <<va, live>>
      BY <2>1, <3>1, <3>2
    <3>3. CASE Refuse(t) /\ ~initialized'
      BY <2>1, <3>1, <3>3 DEF Refuse
    <3>4. QED
      BY <2>7, <3>2, <3>3 DEF Probe, Accept
  <2>8. QED
    BY <1>4, <2>2, <2>3, <2>4, <2>5, <2>6, <2>7 DEF Brings
<1>5. QED
  BY <1>1, <1>2, <1>3, <1>4 DEF Next, Run, Brings

\* Every bring-up leaves its mark on the calls beside it before it can take a
\* ring away.
LEMMA UnmetNext == Type /\ Where /\ Unmet /\ [Next]_vars => Unmet'
<1> SUFFICES ASSUME Type, Where, Unmet, [Next]_vars PROVE Unmet'
  OBVIOUS
<1> USE GfxAssumption DEF Unsure
<1>1. CASE UNCHANGED vars
  BY <1>1 DEF vars, thread, memory, Unmet
<1>2. ASSUME NEW t \in Thread, Enter(t)
      PROVE  Unmet'
  BY <1>2, EnterDoes DEF Unmet, memory
<1>3. ASSUME NEW t \in Thread, Run(t), ~Brings(t)
      PROVE  Unmet'
  <2>1. /\ va' = va /\ pc'[t] \notin BringUp
        /\ \A u \in Thread : u # t => pc'[u] = pc[u] /\ req'[u] = req[u]
        /\ pc'[t] # "Idle" => req'[t] = req[t] /\ pc[t] # "Idle"
        /\ pc'[t] \in {"Lock", "Body"} => va # Null \/ pc[t] = "Lock"
        /\ pc'[t] \in {"Eop", "Kick"} => va # Null \/ pc[t] = "Eop"
    BY <1>3, Submits DEF memory
  <2>2. QED
    BY <2>1 DEF Unmet, BringUp
<1>4. ASSUME NEW t \in Thread, Brings(t)
      PROVE  Unmet'
  <2>1. /\ pc[t] \in BringUp /\ pc'[t] \in BringUp \cup {"Idle"}
        /\ \A u \in Thread : u # t => pc'[u] = pc[u] /\ Keeps(u)
        /\ pc'[t] # "Idle" => Keeps(t)
    BY <1>4, BringsDoes
  <2>2. CASE /\ va' = va
             /\ pc'[t] \in Unsure => pc[t] \in Unsure
    BY <2>1, <2>2 DEF Unmet, BringUp, Keeps
  <2>3. CASE pc[t] \in Unsure /\ pc'[t] \notin Unsure
    BY <2>1, <2>3 DEF Unmet, BringUp, Keeps
  <2>4. CASE \A u \in Thread : u # t /\ pc[u] # "Idle" => req'[u].met
    BY <2>1, <2>4 DEF Unmet, BringUp, Keeps
  <2>5. CASE Alloc(t)
    <3>1. CASE \E p \in Page \ live : Meets(t, "Alloc", "Base", p)
      <4>1. PICK p \in Page \cup {Null} : Meets(t, "Alloc", "Base", p)
        BY <3>1
      <4>2. "Base" \in Pc
        BY DEF Pc, BringUp
      <4>3. QED
        BY <2>4, <4>1, <4>2, MeetsDoes
    <3>2. CASE pc'[t] = "Idle" /\ va' = va
      BY <2>2, <3>2
    <3>3. QED
      BY <2>5, <3>1, <3>2 DEF Alloc, Goto, Type
  <2>6. CASE Lazy(t) \/ ZeroPointer(t) \/ Restart(t)
    BY <2>2, <2>6 DEF Lazy, ZeroPointer, Restart, Goto, Meets, Type, memory
  <2>7. CASE Base(t)
    BY <2>2, <2>3, <2>7 DEF Base, Goto, Type
  <2>8. CASE Probe(t)
    BY <2>3, <2>8 DEF Probe, Goto, Type
  <2>9. QED
    BY <1>4, <2>5, <2>6, <2>7, <2>8 DEF Brings
<1>5. QED
  BY <1>1, <1>2, <1>3, <1>4 DEF Next, Run, Brings

\* Bring-ups that come one at a time find the ring of the one before, or none.
LEMMA OneAtATimeNext ==
  Type /\ Rings /\ OneAtATime /\ [Next]_vars => OneAtATime'
<1> SUFFICES ASSUME Type, Rings, OneAtATime, [Next]_vars, ~overlapped' PROVE OneAtATime'
  BY DEF OneAtATime
<1> USE GfxAssumption DEF Unsure, Raising
<1>1. CASE UNCHANGED vars
  BY <1>1 DEF vars, thread, memory, OneAtATime
<1>2. ASSUME NEW t \in Thread, Enter(t)
      PROVE  OneAtATime'
  BY <1>2, EnterDoes DEF OneAtATime, memory
<1>3. ASSUME NEW t \in Thread, Run(t), ~Brings(t)
      PROVE  OneAtATime'
  BY <1>3, Submits DEF OneAtATime, memory, BringUp
<1>4. ASSUME NEW t \in Thread, Brings(t)
      PROVE  OneAtATime'
  <2>1. \A u \in Thread : u # t => pc'[u] = pc[u] /\ req'[u].page = req[u].page
    BY <1>4, BringsDoes
  <2>2. ~overlapped
    BY <1>4 DEF Brings, Lazy, ZeroPointer, Restart, Alloc, Base, Probe, ToAlloc, memory
  <2>3. /\ \A u \in Thread, w \in Thread : u # w /\ pc[u] \in Raising => pc[w] \notin Raising
        /\ \A u \in Thread : pc[u] \in Unsure => va = req[u].page /\ ~initialized
        /\ initialized => va # Null /\ base = va
        /\ ~config.extended => live \subseteq {va}
        /\ ~config.extended => \A u \in Thread : pc[u] = "Alloc" => va = Null
    BY <2>2 DEF OneAtATime
  <2> DEFINE Goal ==
        /\ \A u \in Thread, w \in Thread : u # w /\ pc'[u] \in Raising => pc'[w] \notin Raising
        /\ \A u \in Thread : pc'[u] \in Unsure => va' = req'[u].page /\ ~initialized'
        /\ initialized' => va' # Null /\ base' = va'
        /\ ~config'.extended => live' \subseteq {va'}
        /\ ~config'.extended => \A u \in Thread : pc'[u] = "Alloc" => va' = Null
  <2>4. SUFFICES Goal
    BY DEF OneAtATime
  <2>5. ASSUME pc[t] \notin Raising, pc'[t] \notin Raising,
               UNCHANGED <<va, live, initialized, base, config>>
        PROVE  Goal
    BY <2>1, <2>3, <2>5
  <2>6. ASSUME ToAlloc(t), pc[t] \notin Raising, pc'[t] = "Alloc",
               ~config.extended => va = Null,
               UNCHANGED <<va, live, initialized, base, config>>
        PROVE  Goal
    <3>1. \A u \in Thread : pc[u] \notin Raising
      BY <2>6 DEF ToAlloc
    <3>2. QED
      BY <2>1, <2>3, <2>6, <3>1
  <2>7. CASE Lazy(t)
    <3>1. CASE ~initialized /\ ToAlloc(t) /\ pc'[t] = "Alloc"
      <4>1. \A u \in Thread : pc[u] \notin Unsure
        <5>1. pc[t] \notin Raising
          BY <2>7 DEF Lazy, Goto
        <5>2. QED
          BY <3>1, <5>1 DEF ToAlloc
      <4>2. va = Null
        BY <3>1, <4>1 DEF Rings
      <4>3. QED
        BY <2>6, <2>7, <3>1, <4>2 DEF Lazy, Goto
    <3>2. CASE pc'[t] = "Idle"
      BY <2>5, <2>7, <3>2 DEF Lazy, Goto
    <3>3. QED
      BY <2>7, <3>1, <3>2 DEF Lazy, Goto, Type
  <2>8. CASE ZeroPointer(t)
    BY <2>5, <2>8 DEF ZeroPointer, Meets, Type, memory
  <2>9. CASE Restart(t)
    <3>1. CASE (config.extended \/ va = Null) /\ ToAlloc(t) /\ pc'[t] = "Alloc"
      BY <2>6, <2>9, <3>1 DEF Restart, Meets
    <3>2. CASE pc'[t] = "Idle"
      BY <2>5, <2>9, <3>2 DEF Restart, Meets
    <3>3. QED
      BY <2>9, <3>1, <3>2 DEF Restart, Meets, Type
  <2>10. CASE Alloc(t)
    <3>1. pc[t] = "Alloc" /\ UNCHANGED <<base, config>>
      BY <2>10, AllocDoes
    <3>2. CASE pc'[t] = "Idle" /\ UNCHANGED <<va, live, initialized>>
      BY <2>1, <2>3, <3>1, <3>2
    <3>3. CASE \E p \in Page \ live : /\ pc'[t] = "Base" /\ req'[t].page = p /\ va' = p
                                      /\ live' = live \cup {p} /\ ~initialized'
      <4>1. ~config.extended => live = {}
        BY <2>3, <3>1 DEF Type
      <4>2. QED
        BY <2>1, <2>3, <3>1, <3>3, <4>1
    <3>4. QED
      BY <2>10, <3>2, <3>3, AllocDoes
  <2>11. CASE Base(t)
    <3>1. pc[t] = "Base" /\ ~initialized /\ ~initialized' /\ config' = config
      BY <2>3, <2>11 DEF Base, Goto
    <3>2. CASE pc'[t] = "Idle" /\ va' = Null /\ live' = live \ {req[t].page}
      BY <2>1, <2>3, <3>1, <3>2
    <3>3. CASE pc'[t] = "Probe" /\ req'[t].page = req[t].page /\ UNCHANGED <<va, live>>
      BY <2>1, <2>3, <3>1, <3>3
    <3>4. QED
      BY <2>11, <3>2, <3>3 DEF Base, Goto, Type, Refuse
  <2>12. CASE Probe(t)
    <3>1. pc[t] = "Probe" /\ pc'[t] = "Idle" /\ UNCHANGED <<base, config>>
      BY <2>12 DEF Probe, Goto, Type
    <3>2. CASE base = req[t].page /\ UNCHANGED <<va, live>>
      <4>1. va = base /\ va # Null
        BY <2>3, <3>1, <3>2 DEF Rings, Type
      <4>2. QED
        BY <2>1, <2>3, <3>1, <3>2, <4>1
    <3>3. CASE va' = Null /\ live' = live \ {req[t].page} /\ ~initialized'
      BY <2>1, <2>3, <3>1, <3>3
    <3>4. QED
      BY <2>12, <3>2, <3>3 DEF Probe, Accept, Refuse
  <2>13. QED
    BY <1>4, <2>4, <2>7, <2>8, <2>9, <2>10, <2>11, <2>12 DEF Brings
<1>5. QED
  BY <1>1, <1>2, <1>3, <1>4 DEF Next, Run, Brings

\* Only who holds the lock moves a write pointer, or desync is there to tell.
LEMMA PointersNext == Type /\ LockOwner /\ Pointers /\ [Next]_vars => Pointers'
<1> SUFFICES ASSUME Type, LockOwner, Pointers, [Next]_vars PROVE Pointers'
  OBVIOUS
<1> USE GfxAssumption DEF pointer
<1>1. CASE UNCHANGED vars
  BY <1>1 DEF vars, thread, Pointers
<1>2. ASSUME NEW t \in Thread, Enter(t)
      PROVE  Pointers'
  BY <1>2, EnterDoes DEF Pointers
<1>3. ASSUME NEW t \in Thread, Run(t), ~Brings(t)
      PROVE  Pointers'
  <2>1. \A u \in Thread : u # t => pc'[u] = pc[u]
    BY <1>3, Submits
  <2>2. \A u \in Thread : pc[u] = "Body" => lock = u
    BY DEF LockOwner, Inside
  <2>3. pc[t] \in {"Body", "Eop", "Kick"} => lock = t
    BY DEF LockOwner, Inside
  <2>4. t # Null
    OBVIOUS
  <2>5. QED
    BY <1>3, <2>1, <2>2, <2>3, <2>4, SubmitsMoves DEF Pointers
<1>4. ASSUME NEW t \in Thread, Brings(t)
      PROVE  Pointers'
  <2>1. /\ pc'[t] # "Body" /\ \A u \in Thread : u # t => pc'[u] = pc[u]
        /\ lock' = lock
        /\ UNCHANGED pointer \/ desync' = (wptr' # hwWptr' \/ lock # Null)
    BY <1>4, BringsDoes DEF BringUp
  <2>2. CASE UNCHANGED pointer
    BY <2>1, <2>2 DEF Pointers
  <2>3. CASE desync' = (wptr' # hwWptr' \/ lock # Null)
    BY <2>1, <2>3 DEF Pointers
  <2>4. QED
    BY <2>1, <2>2, <2>3
<1>5. QED
  BY <1>1, <1>2, <1>3, <1>4 DEF Next, Run, Brings

\* What a packet, and padding, leave in each place.
LEMMA PacketCalls ==
  ASSUME NEW r, NEW w, NEW kind, NEW of, NEW c, NEW i \in Places
  PROVE  Packet(r, w, kind, of, c)[i].call \in {c, r[i].call}
BY DEF Packet, Dword

LEMMA PaddedCalls ==
  ASSUME NEW r, NEW w, NEW i \in Places
  PROVE  Padded(r, w)[i].call \in {0, r[i].call}
BY DEF Padded, Dword, Nop

\* Who changes the ring numbers what it writes with its own call.
LEMMA RunWrites ==
  ASSUME Type, NEW t \in Thread, Run(t)
  PROVE  /\ \A i \in Places : \/ ring'[i].call \in {0, ring[i].call}
                              \/ pc[t] \in {"Body", "Eop"} /\ ring'[i].call = req[t].call
         /\ pc'[t] \notin {"Idle", "Eop", "Kick", "Record"} =>
              pc[t] \notin {"Body", "Eop", "Kick", "Record"}
<1>1. CASE Brings(t)
  <2>1. \A i \in Places : Blank[i].call = 0
    BY DEF Blank, Zero, Dword
  <2>2. ring' \in {ring, Blank} /\ pc[t] \in BringUp
    BY <1>1, BringsDoes
  <2>3. QED
    BY <2>1, <2>2 DEF BringUp
<1>2. CASE ~Brings(t)
  <2>1. pc'[t] \notin {"Idle", "Eop", "Kick", "Record"} =>
          pc[t] \notin {"Body", "Eop", "Kick", "Record"}
    BY <1>2, SubmitsMoves
  <2>2. CASE ring' = ring
    BY <2>1, <2>2
  <2>3. CASE pc[t] = "Body" /\ SubmitIb(t)
    <3>1. PICK w : ring' = Packet(ring, w, "ib", IbDwords, req[t].call)
      BY <2>3 DEF SubmitIb
    <3>2. QED
      BY <2>1, <2>3, <3>1, PacketCalls
  <2>4. CASE /\ pc[t] \in {"Body", "Eop"}
             /\ \E w, kind, of : \/ ring' = Packet(ring, w, kind, of, req[t].call)
                                 \/ ring' = Packet(Padded(ring, wptr), w, kind, of, req[t].call)
    <3>1. PICK r, w, kind, of : /\ ring' = Packet(r, w, kind, of, req[t].call)
                                /\ r = ring \/ r = Padded(ring, wptr)
      BY <2>4
    <3>2. \A i \in Places : r[i].call \in {0, ring[i].call}
      BY <3>1, PaddedCalls
    <3>3. \A i \in Places : ring'[i].call \in {req[t].call, r[i].call}
      BY <3>1, PacketCalls
    <3>4. QED
      BY <2>1, <2>4, <3>2, <3>3
  <2>5. CASE pc[t] = "Body" /\ SendBody(t)
    BY <2>4, <2>5 DEF SendBody
  <2>6. CASE pc[t] = "Eop" /\ Eop(t)
    BY <2>2, <2>4, <2>6 DEF Eop
  <2>7. QED
    BY <1>2, <2>2, <2>3, <2>5, <2>6, SubmitsMoves
<1>3. QED
  BY <1>1, <1>2

\* Every call has a number of its own, and the ring holds none that is to come.
LEMMA NumbersNext == Type /\ Numbers /\ [Next]_vars => Numbers'
<1> SUFFICES ASSUME Type, Numbers, [Next]_vars PROVE Numbers'
  OBVIOUS
<1> USE DEF Numbers
<1>0. /\ calls \in Nat /\ \A i \in Places : ring[i].call \in Nat
      /\ \A u \in Thread : req[u].call \in Nat
  BY DEF Type, Content, Request
<1>1. CASE UNCHANGED vars
  BY <1>1 DEF vars, thread
<1>2. ASSUME NEW t \in Thread, Enter(t)
      PROVE  Numbers'
  <2>1. PICK r \in Request :
           /\ pc[t] = "Idle" /\ calls' = calls + 1 /\ r.call = calls + 1
           /\ req' = [req EXCEPT ![t] = r]
           /\ pc' = [pc EXCEPT ![t] = Entry(r.handler)]
           /\ ring' = ring
    BY <1>2, EnterDoes
  <2>2. /\ req'[t] = r
        /\ \A u \in Thread : u # t => pc'[u] = pc[u] /\ req'[u] = req[u]
    BY <2>1 DEF Type
  <2>3. \A i \in Places : ring[i].call < r.call
    BY <1>0, <2>1
  <2>4. \A u \in Thread : pc[u] # "Idle" => req[u].call < r.call
    BY <1>0, <2>1
  <2>5. QED
    BY <1>0, <2>1, <2>2, <2>3, <2>4
<1>3. ASSUME NEW t \in Thread, Run(t)
      PROVE  Numbers'
  <2>1. /\ pc[t] # "Idle" /\ calls' = calls
        /\ \A u \in Thread : u # t => pc'[u] = pc[u] /\ req'[u].call = req[u].call
        /\ pc'[t] # "Idle" => req'[t].call = req[t].call
    BY <1>3, RunDoes DEF Keeps
  <2>2. /\ \A i \in Places : \/ ring'[i].call \in {0, ring[i].call}
                             \/ pc[t] \in {"Body", "Eop"} /\ ring'[i].call = req[t].call
        /\ pc'[t] \notin {"Idle", "Eop", "Kick", "Record"} =>
             pc[t] \notin {"Body", "Eop", "Kick", "Record"}
    BY <1>3, RunWrites
  <2>3. /\ \A u \in Thread : pc'[u] # "Idle" => pc[u] # "Idle" /\ req'[u].call = req[u].call
    BY <2>1
  <2>4. \A i \in Places : ring'[i].call <= calls'
    BY <1>0, <2>1, <2>2
  <2>5. ASSUME NEW u \in Thread, pc'[u] \notin {"Idle", "Eop", "Kick", "Record"}, NEW i \in Places
        PROVE  ring'[i].call # req'[u].call
    <3>1. pc[u] \notin {"Idle", "Eop", "Kick", "Record"} /\ req'[u].call = req[u].call /\ req[u].call # 0
      BY <1>0, <2>1, <2>2, <2>3, <2>5
    <3>2. ring[i].call # req[u].call
      BY <3>1
    <3>3. pc[t] \in {"Body", "Eop"} => u # t
      BY <2>2, <2>5
    <3>4. QED
      BY <2>1, <2>2, <3>1, <3>2, <3>3
  <2>6. QED
    BY <2>1, <2>3, <2>4, <2>5
<1>4. QED
  BY <1>1, <1>2, <1>3 DEF Next

\* Who writes the ring, or has written, is not disturbed, or desync tells.
LEMMA OthersKeep ==
  ASSUME Type, LockOwner, NEW t \in Thread, Enter(t) \/ Run(t),
         NEW u \in Thread, u # t, pc[u] \in {"Eop", "Kick"}
  PROVE  UNCHANGED <<ring, wptr, hwWptr, desync>> \/ desync'
<1> USE DEF pointer
<1>1. lock = u /\ lock # Null /\ lock # t /\ pc[t] \notin {"Body", "Eop", "Kick"}
  BY GfxAssumption DEF LockOwner, Inside
<1>2. CASE Enter(t)
  BY <1>2, EnterDoes
<1>3. CASE Brings(t)
  BY <1>1, <1>3, BringsDoes
<1>4. CASE Run(t) /\ ~Brings(t)
  BY <1>1, <1>4, SubmitsMoves
<1>5. QED
  BY <1>2, <1>3, <1>4

LEMMA SameLayout ==
  ASSUME NEW t \in Thread, UNCHANGED <<ring, wptr, hwWptr>>, Keeps(t)
  PROVE  /\ Fenced(t)' = Fenced(t) /\ (BodyOnly(t) => BodyOnly(t)') /\ (Whole(t) => Whole(t)')
<1>1. /\ Sends(t)' = Sends(t) /\ Fenced(t)' = Fenced(t)
      /\ Body(t)' = Body(t) /\ Kind(t)' = Kind(t) /\ req'[t].call = req[t].call
  BY DEF Keeps, Sends, Fenced, Body, Kind
<1>2. Wrapped(t)' = Wrapped(t)
  BY <1>1, Zenon DEF Wrapped, NopsFrom
<1>3. \A b \in Nat : BodyAt(t, b)' = BodyAt(t, b) /\ EopAt(t, b)' = EopAt(t, b)
  BY <1>1, Zenon DEF BodyAt, EopAt
<1>4. \A b \in Nat : WithBody(t, b) => WithBody(t, b)'
  BY <1>1, <1>2, <1>3, Zenon DEF WithBody
<1>5. \A b, e \in Nat : WithEop(t, b, e) => WithEop(t, b, e)'
  <2> SUFFICES ASSUME NEW b \in Nat, NEW e \in Nat, WithEop(t, b, e)
               PROVE  WithEop(t, b, e)'
    OBVIOUS
  <2>1. NopsFrom(b + Body(t))' = NopsFrom(b + Body(t))
    BY <1>1, Zenon DEF NopsFrom
  <2>2. QED
    BY <1>1, <1>2, <1>3, <2>1, Zenon DEF WithEop
<1>6. QED
  BY <1>1, <1>4, <1>5, Zenon DEF BodyOnly, Whole

\* What is in a place after a packet, or padding, was written.
LEMMA PacketAt ==
  ASSUME NEW r, NEW w \in Nat, NEW kind, NEW of \in Nat, NEW c, NEW i \in Places
  PROVE  /\ i \in w..w + of - 1 => Packet(r, w, kind, of, c)[i] = Dword(kind, i - w, of, c)
         /\ i \notin w..w + of - 1 => Packet(r, w, kind, of, c)[i] = r[i]
BY DEF Packet

LEMMA PaddedAt ==
  ASSUME NEW r, NEW w \in Nat, NEW i \in Places
  PROVE  /\ i >= w => Padded(r, w)[i] = Nop
         /\ i < w => Padded(r, w)[i] = r[i]
BY GfxAssumption DEF Padded, Places

\* SUBMIT_COMMANDS leaves its indirect buffer where the hardware will come by.
LEMMA IbLayout ==
  ASSUME Type, Where, Pointers, Numbers, NEW t \in Thread, SubmitIb(t), ~desync
  PROVE  ~Sends(t)' /\ BodyOnly(t)'
<1> USE GfxAssumption
<1> PICK w : w = IF wptr + IbDwords > Size THEN 0 ELSE wptr
  OBVIOUS
<1>1. /\ pc[t] = "Body" /\ req'[t] = req[t] /\ ~Sends(t) /\ hwWptr' = hwWptr
      /\ ring' = Packet(ring, w, "ib", IbDwords, req[t].call) /\ wptr' = w + IbDwords
  BY DEF SubmitIb, Is, Goto, Sends
<1>2. hwWptr = wptr /\ wptr \in 0..Size
  BY <1>1 DEF Pointers, Type
<1>3. w \in Nat /\ w + IbDwords <= Size /\ (w = hwWptr \/ (w = 0 /\ hwWptr + IbDwords > Size))
  BY <1>2 DEF IbDwords, EopDwords
<1>4. ~Sends(t)' /\ Body(t)' = IbDwords /\ Kind(t)' = "ib"
  BY <1>1 DEF Sends, Body, Kind
<1>5. \A i \in w..w + IbDwords - 1 : i \in Places
  BY <1>3 DEF Places, IbDwords
<1>6. BodyAt(t, w)'
  <2>1. \A i \in w..w + IbDwords - 1 :
           ring'[i] = Dword("ib", i - w, IbDwords, req[t].call)
    <3> TAKE i \in w..w + IbDwords - 1
    <3>1. i \in Places /\ w \in Nat /\ IbDwords \in Nat /\ i \in w..w + IbDwords - 1
      BY <1>3, <1>5 DEF IbDwords
    <3>2. Packet(ring, w, "ib", IbDwords, req[t].call)[i]
            = Dword("ib", i - w, IbDwords, req[t].call)
      BY <3>1, Zenon DEF Packet
    <3>3. QED
      BY <1>1, <3>2, Zenon
  <2>2. QED
    BY <1>1, <1>4, <2>1 DEF BodyAt
<1>7. \A i \in Places : ring'[i].call = req[t].call => i \in w..w + IbDwords - 1
  BY <1>1, <1>3, PacketAt DEF Numbers, IbDwords
<1>8. WithBody(t, w)'
  BY <1>1, <1>3, <1>4, <1>6, <1>7 DEF WithBody, Wrapped
<1>9. QED
  BY <1>3, <1>4, <1>8 DEF BodyOnly

\* SEND_PM4 leaves its commands where the hardware will come by, with room for
\* the fence and padding where there was not.
LEMMA SendLayout ==
  ASSUME Type, Where, Pointers, Numbers, NEW t \in Thread, SendBody(t), ~desync
  PROVE  Sends(t)' /\ BodyOnly(t)'
<1> DEFINE n == req[t].count
           eop == IF req[t].fence > 0 THEN EopDwords ELSE 0
           wraps == wptr + (n + eop) > Size
           r == IF wraps THEN Padded(ring, wptr) ELSE ring
<1> USE GfxAssumption
<1> PICK w : w = IF wraps THEN 0 ELSE wptr
  OBVIOUS
<1>1. /\ pc[t] = "Body" /\ req'[t] = req[t] /\ Sends(t) /\ hwWptr' = hwWptr
      /\ ring' = Packet(r, w, "cmd", n, req[t].call) /\ wptr' = w + n
  BY DEF SendBody, Is, Goto, Sends
<1>2. hwWptr = wptr /\ wptr \in 0..Size /\ n \in Nat \ {0} /\ 2 * (n + EopDwords) <= Size
  BY <1>1 DEF Pointers, Type, Where, Sends
<1>3. /\ w \in Nat /\ w + (n + eop) <= Size /\ eop \in {0, EopDwords}
      /\ w = hwWptr \/ (w = 0 /\ wraps /\ hwWptr + (n + eop) > Size /\ n < hwWptr)
  BY <1>2 DEF EopDwords
<1>4. /\ Sends(t)' /\ Body(t)' = n /\ Kind(t)' = "cmd"
      /\ Fenced(t)' => req[t].fence > 0
      /\ ~Fenced(t)' => ~(req[t].fence > 0)
  BY <1>1 DEF Sends, Body, Kind, Fenced
<1>5. req[t].call # 0 /\ \A i \in Places : r[i].call # req[t].call
  <2>1. req[t].call # 0 /\ \A i \in Places : ring[i].call # req[t].call
    BY <1>1 DEF Numbers, Type
  <2>2. \A i \in Places : Padded(ring, wptr)[i].call # req[t].call
    BY <2>1, PaddedCalls
  <2>3. QED
    BY <2>1, <2>2
<1>6. wraps => \A i \in Places : i >= wptr => r[i] = Nop
  BY <1>2, PaddedAt
<1> HIDE DEF r, n, eop, wraps
<1>7. \A i \in w..w + n - 1 : i \in Places
  BY <1>2, <1>3 DEF Places, EopDwords
<1>8. BodyAt(t, w)'
  <2>1. \A i \in w..w + n - 1 : ring'[i] = Dword("cmd", i - w, n, req[t].call)
    <3> TAKE i \in w..w + n - 1
    <3>1. i \in Places /\ w \in Nat /\ n \in Nat /\ i \in w..w + n - 1
      BY <1>2, <1>3, <1>7
    <3>2. Packet(r, w, "cmd", n, req[t].call)[i] = Dword("cmd", i - w, n, req[t].call)
      BY <3>1, Zenon DEF Packet
    <3>3. QED
      BY <1>1, <3>2, Zenon
  <2>2. QED
    BY <1>1, <1>4, <2>1 DEF BodyAt
<1>9. \A i \in Places : ring'[i].call = req[t].call => i \in w..w + n - 1
  <2> SUFFICES ASSUME NEW i \in Places, i \notin w..w + n - 1 PROVE ring'[i].call # req[t].call
    OBVIOUS
  <2>1. n \in Nat /\ w \in Nat
    BY <1>2, <1>3
  <2>2. Packet(r, w, "cmd", n, req[t].call)[i] = r[i]
    BY <2>1, PacketAt
  <2>3. QED
    BY <1>1, <1>5, <2>2, Zenon
<1>10. w # hwWptr => NopsFrom(hwWptr)'
  <2> SUFFICES ASSUME w # hwWptr, NEW i \in Places, i >= hwWptr
               PROVE  ring'[i] = Nop
    BY <1>1 DEF NopsFrom
  <2>1. w = 0 /\ wraps /\ n < hwWptr
    BY <1>3
  <2>2. i \notin w..w + n - 1 /\ i \in Int
    BY <1>2, <2>1 DEF Places
  <2>3. QED
    BY <1>1, <1>2, <1>3, <1>6, <2>1, <2>2, PacketAt
<1>11. w # hwWptr => Wrapped(t)'
  <2>1. hwWptr + n + (IF Fenced(t)' THEN EopDwords ELSE 0) = hwWptr + (n + eop)
    BY <1>1, <1>2, <1>4 DEF eop, EopDwords
  <2>2. QED
    BY <1>1, <1>3, <1>4, <1>10, <2>1 DEF Wrapped
<1>12. WithBody(t, w)'
  BY <1>1, <1>2, <1>3, <1>4, <1>8, <1>9, <1>11 DEF WithBody, EopDwords
<1>13. Fenced(t)' => wptr' + EopDwords <= Size
  BY <1>1, <1>2, <1>3, <1>4 DEF eop, EopDwords
<1>14. QED
  BY <1>3, <1>4, <1>12, <1>13 DEF BodyOnly

\* DreamV3WriteEopFence leaves the fence after its call, or at the start of the
\* ring behind padding.
LEMMA EopLayout ==
  ASSUME Type, Where, Numbers, NEW t \in Thread, Eop(t), va # Null,
         Fenced(t), BodyOnly(t)
  PROVE  Fenced(t)' /\ Whole(t)'
<1> DEFINE wraps == wptr + EopDwords > Size
           r == IF wraps THEN Padded(ring, wptr) ELSE ring
<1> USE GfxAssumption
<1> PICK e : e = IF wraps THEN 0 ELSE wptr
  OBVIOUS
<1> PICK n : n = Body(t)
  OBVIOUS
<1>1. PICK b \in Nat : WithBody(t, b)
  BY DEF BodyOnly
<1>2. /\ pc[t] = "Eop" /\ req'[t] = req[t] /\ hwWptr' = hwWptr
      /\ ring' = Packet(r, e, "eop", EopDwords, req[t].call) /\ wptr' = e + EopDwords
  BY DEF Eop, Is, Goto
<1>3. n \in Nat \ {0} /\ 2 * (n + EopDwords) <= Size
  BY DEF Body, Sends, Where, IbDwords
<1>4. /\ Sends(t)' = Sends(t) /\ Fenced(t)' = Fenced(t) /\ Body(t)' = n
      /\ Kind(t)' = Kind(t)
  BY <1>2 DEF Sends, Body, Kind, Fenced
<1>5. /\ wptr = b + n /\ b + n <= Size /\ hwWptr \in 0..Size
      /\ BodyAt(t, b)
      /\ \A i \in Places : ring[i].call = req[t].call => i \in b..b + n - 1
      /\ b = hwWptr \/ (b = 0 /\ Wrapped(t))
  BY <1>1 DEF WithBody, Type
<1>6. Sends(t) => wptr + EopDwords <= Size
  BY DEF BodyOnly
<1>7. /\ e \in Nat /\ e + EopDwords <= Size
      /\ e = b + n \/ (~Sends(t) /\ b = hwWptr /\ wraps /\ e = 0 /\ b > EopDwords)
  <2>1. CASE wraps
    <3>1. ~Sends(t) /\ e = 0 /\ EopDwords <= Size /\ b + n + EopDwords > Size
      BY <1>3, <1>5, <1>6, <2>1 DEF EopDwords
    <3>2. b > EopDwords
      BY <1>3, <3>1 DEF EopDwords, Body, IbDwords
    <3>3. QED
      BY <1>5, <2>1, <3>1, <3>2 DEF EopDwords
  <2>2. CASE ~wraps
    BY <1>3, <1>5, <2>2 DEF EopDwords
  <2>3. QED
    BY <2>1, <2>2
<1>8. /\ \A i \in Places : i < b + n => r[i] = ring[i]
      /\ \A i \in Places : wraps /\ i >= b + n => r[i] = Nop
      /\ \A i \in Places : r[i] = ring[i] \/ r[i] = Nop
  BY <1>3, <1>5, PaddedAt DEF Places
<1>9. \A i \in Places : r[i].call = req[t].call => ring[i].call = req[t].call
  <2>1. req[t].call # 0
    BY <1>2 DEF Numbers, Type
  <2>2. \A i \in Places : Padded(ring, wptr)[i].call \in {0, ring[i].call}
    BY PaddedCalls
  <2>3. QED
    BY <2>1, <2>2
<1> HIDE DEF wraps, r
<1>10. \A i \in Places : /\ i \in e..e + EopDwords - 1 =>
                              ring'[i] = Dword("eop", i - e, EopDwords, req[t].call)
                         /\ i \notin e..e + EopDwords - 1 => ring'[i] = r[i]
  BY <1>2, Zenon DEF Packet
<1>11. EopAt(t, e)'
  <2>1. \A i \in e..e + EopDwords - 1 : i \in Places
    BY <1>7 DEF Places, EopDwords
  <2>2. \A i \in e..e + EopDwords - 1 :
           ring'[i] = Dword("eop", i - e, EopDwords, req[t].call)
    BY <1>10, <2>1
  <2>3. QED
    BY <1>2, <2>2 DEF EopAt
<1>12. BodyAt(t, b)'
  <2>1. ASSUME NEW i \in b..b + n - 1
        PROVE  ring'[i] = ring[i]
    <3>1. i \in Places /\ i < b + n /\ i \notin e..e + EopDwords - 1
      BY <1>3, <1>5, <1>7 DEF Places, EopDwords
    <3>2. QED
      BY <1>8, <1>10, <3>1
  <2>2. QED
    BY <1>2, <1>4, <1>5, <2>1 DEF BodyAt
<1>13. \A i \in Places : ring'[i].call = req[t].call =>
         i \in (b..b + n - 1) \cup (e..e + EopDwords - 1)
  BY <1>5, <1>9, <1>10
<1>14. CASE e = b + n
  <2>1. b = hwWptr \/ (b = 0 /\ Wrapped(t)')
    <3>1. CASE Sends(t) /\ b # hwWptr
      <4>1. /\ b = 0 /\ hwWptr + n + EopDwords > Size /\ NopsFrom(hwWptr)
        BY <1>5, <3>1 DEF Wrapped, Fenced
      <4>2. ASSUME NEW i \in Places, i >= hwWptr
            PROVE  ring'[i] = Nop
        <5>1. i \notin e..e + EopDwords - 1 /\ i \in Int /\ i >= wptr
          BY <1>3, <1>5, <1>14, <4>1, <4>2 DEF Places, EopDwords
        <5>2. ring[i] = Nop /\ (r[i] = ring[i] \/ r[i] = Nop)
          BY <1>8, <4>1, <4>2 DEF NopsFrom
        <5>3. QED
          BY <1>10, <5>1, <5>2
      <4>3. NopsFrom(hwWptr)'
        BY <1>2, <4>2 DEF NopsFrom
      <4>4. QED
        BY <1>2, <1>4, <3>1, <4>1, <4>3 DEF Wrapped
    <3>2. CASE ~Sends(t)
      BY <1>2, <1>4, <1>5, <3>2 DEF Wrapped
    <3>3. QED
      BY <3>1, <3>2
  <2>2. WithEop(t, b, e)'
    BY <1>2, <1>4, <1>5, <1>7, <1>11, <1>12, <1>13, <1>14, <2>1 DEF WithEop
  <2>3. QED
    BY <1>1, <1>4, <1>7, <2>2 DEF Whole
<1>15. CASE e # b + n
  <2>1. ~Sends(t) /\ b = hwWptr /\ wraps /\ e = 0 /\ b > EopDwords
    BY <1>7, <1>15
  <2>2. b + n + EopDwords > Size
    BY <1>5, <2>1 DEF wraps
  <2>3. ASSUME NEW i \in Places, i >= b + n
        PROVE  ring'[i] = Nop
    <3>1. i \notin e..e + EopDwords - 1
      BY <1>3, <2>1, <2>3 DEF Places, EopDwords
    <3>2. QED
      BY <1>8, <1>10, <2>1, <2>3, <3>1
  <2>4. NopsFrom(b + Body(t))'
    BY <1>4, <2>3 DEF NopsFrom
  <2>5. WithEop(t, b, e)'
    BY <1>2, <1>4, <1>5, <1>7, <1>11, <1>12, <1>13, <2>1, <2>2, <2>4 DEF WithEop
  <2>6. QED
    BY <1>1, <1>4, <1>7, <2>5 DEF Whole
<1>16. QED
  BY <1>14, <1>15

\* Where a call goes on to its fence or to the doorbell.
LEMMA GoesOn ==
  ASSUME Type, NEW t \in Thread, Run(t), pc'[t] \in {"Eop", "Kick"}
  PROVE  /\ desync' = desync /\ req'[t] = req[t]
         /\ \/ SubmitIb(t) /\ pc'[t] = "Eop"
            \/ SendBody(t) /\ (pc'[t] = "Eop" <=> req[t].fence > 0)
            \/ Eop(t) /\ pc[t] = "Eop" /\ pc'[t] = "Kick"
<1>1. ~Brings(t)
  BY BringsDoes DEF BringUp
<1>2. req'[t] = req[t]
  BY <1>1, Submits
<1>3. /\ SubmitIb(t) => pc'[t] = "Eop"
      /\ SendBody(t) => (pc'[t] = "Eop" <=> req[t].fence > 0)
  BY DEF SubmitIb, SendBody, Goto, Type
<1>4. QED
  BY <1>1, <1>2, <1>3, SubmitsMoves

\* Every call that is about to kick has its packets in place.
LEMMA LayoutNext ==
  /\ Type /\ Where /\ LockOwner /\ Unmet /\ Pointers /\ Numbers /\ Layout
  /\ [Next]_vars
  => Layout'
<1> SUFFICES ASSUME Type, Where, LockOwner, Unmet, Pointers, Numbers, Layout, [Next]_vars
             PROVE  Layout'
  OBVIOUS
<1> DEFINE Laid(t) == ~desync /\ ~req[t].met =>
                         /\ pc[t] = "Eop" => Fenced(t) /\ BodyOnly(t)
                         /\ pc[t] = "Kick" /\ Fenced(t) => Whole(t)
                         /\ pc[t] = "Kick" /\ ~Fenced(t) => BodyOnly(t)
<1>1. ASSUME NEW t \in Thread, UNCHANGED <<ring, wptr, hwWptr, desync>>,
             Keeps(t), pc'[t] = pc[t]
      PROVE  Laid(t)'
  <2>1. Fenced(t)' = Fenced(t) /\ (BodyOnly(t) => BodyOnly(t)') /\ (Whole(t) => Whole(t)')
    BY <1>1, SameLayout
  <2>2. Laid(t)
    BY Zenon DEF Layout
  <2>3. req[t].met => req'[t].met
    BY <1>1 DEF Keeps
  <2>4. QED
    BY <1>1, <2>1, <2>2, <2>3, Zenon
<1>2. CASE UNCHANGED vars
  <2>1. UNCHANGED <<ring, wptr, hwWptr, desync, req, pc>>
    BY <1>2 DEF vars, pointer, thread
  <2>2. \A t \in Thread : Laid(t)'
    BY <1>1, <2>1 DEF Keeps
  <2>3. QED
    BY <2>2, Zenon DEF Layout
<1>3. ASSUME NEW t \in Thread, Enter(t) \/ Run(t)
      PROVE  Layout'
  <2>1. ASSUME NEW u \in Thread, u # t
        PROVE  Laid(u)'
    <3>1. pc'[u] = pc[u] /\ Keeps(u)
      BY <1>3, <2>1, RunDoes, EnterDoes DEF Keeps
    <3>2. CASE pc[u] \in {"Eop", "Kick"}
      <4>1. UNCHANGED <<ring, wptr, hwWptr, desync>> \/ desync'
        BY <1>3, <2>1, <3>2, OthersKeep
      <4>2. QED
        BY <1>1, <3>1, <4>1
    <3>3. CASE pc[u] \notin {"Eop", "Kick"}
      BY <3>1, <3>3
    <3>4. QED
      BY <3>2, <3>3
  <2>2. Laid(t)'
    <3>1. CASE pc'[t] \notin {"Eop", "Kick"}
      BY <3>1
    <3>2. CASE Enter(t)
      <4>1. pc'[t] \in {"Lock", "Send", "Check", "Signal", "Lazy", "Zero"}
        BY <3>2, EnterDoes
      <4>2. QED
        BY <3>1, <4>1
    <3>3. CASE Run(t) /\ pc'[t] \in {"Eop", "Kick"}
      <4>0. desync' = desync /\ req'[t] = req[t]
        BY <3>3, GoesOn
      <4>1. CASE SubmitIb(t) /\ pc'[t] = "Eop"
        <5>1. ~desync => ~Sends(t)' /\ BodyOnly(t)'
          BY <4>1, IbLayout
        <5>2. QED
          BY <4>0, <4>1, <5>1 DEF Fenced
      <4>2. CASE SendBody(t) /\ (pc'[t] = "Eop" <=> req[t].fence > 0)
        <5>1. ~desync => Sends(t)' /\ BodyOnly(t)'
          BY <4>2, SendLayout
        <5>2. (pc'[t] = "Eop" => Fenced(t)') /\ (~desync => (Fenced(t)' => pc'[t] = "Eop"))
          BY <4>0, <4>2, <5>1 DEF Fenced
        <5>3. pc'[t] # "Eop" \/ pc'[t] # "Kick"
          OBVIOUS
        <5>4. QED
          BY <4>0, <5>1, <5>2, <5>3
      <4>3. CASE Eop(t) /\ pc[t] = "Eop" /\ pc'[t] = "Kick"
        <5>1. ~desync /\ ~req[t].met => Fenced(t) /\ BodyOnly(t) /\ va # Null
          BY <4>3 DEF Layout, Unmet
        <5>2. ~desync /\ ~req[t].met => Fenced(t)' /\ Whole(t)'
          BY <4>3, <5>1, EopLayout
        <5>3. QED
          BY <4>0, <4>3, <5>2
      <4>4. QED
        BY <3>3, <4>1, <4>2, <4>3, GoesOn
    <3>4. QED
      BY <1>3, <3>1, <3>2, <3>3
  <2>3. \A u \in Thread : Laid(u)'
    BY <2>1, <2>2
  <2>4. QED
    BY <2>3, Zenon DEF Layout
<1>4. QED
  BY <1>2, <1>3 DEF Next

-----------------------------------------------------------------------------
(* The invariant, and what follows from it *)

LEMMA InitInv == Init => IInv
<1> SUFFICES ASSUME Init PROVE IInv
  OBVIOUS
<1> USE GfxAssumption DEF Init
<1>1. NoRequest \in Request /\ Blank \in [Places -> Content]
  BY BlankType, NoneType
<1>2. \A t \in Thread : pc[t] = "Idle" /\ req[t] = NoRequest
  OBVIOUS
<1>3. Type
  <2>1. pc \in [Thread -> Pc] /\ req \in [Thread -> Request]
    BY <1>1 DEF Pc
  <2>2. wptr \in 0..Size /\ hwWptr \in 0..Size /\ calls \in Nat
    OBVIOUS
  <2>3. initialized \in BOOLEAN /\ fencePage \in BOOLEAN /\ desync \in BOOLEAN
        /\ overlapped \in BOOLEAN
    BY Zenon
  <2>4. QED
    BY <1>1, <2>1, <2>2, <2>3 DEF Type
<1>4. Where
  BY <1>2 DEF Where, NoRequest
<1>5. LockOwner /\ Pointers /\ Layout
  BY <1>2 DEF LockOwner, Inside, Pointers, Layout
<1>6. Rings /\ Unmet /\ OneAtATime
  BY <1>2 DEF Rings, Unmet, OneAtATime, Raising, Unsure
<1>7. Numbers
  BY <1>2 DEF Numbers, Blank, Zero, Dword
<1>8. QED
  BY <1>3, <1>4, <1>5, <1>6, <1>7 DEF IInv

LEMMA NextInv == IInv /\ [Next]_vars => IInv'
BY TypeNext, WhereNext, OwnerNext, RingsNext, UnmetNext, OneAtATimeNext, PointersNext,
   NumbersNext, LayoutNext DEF IInv

THEOREM Inductive == Spec => []IInv
<1>1. Init => IInv
  BY InitInv
<1>2. IInv /\ [Next]_vars => IInv'
  BY NextInv
<1>3. QED
  BY <1>1, <1>2, PTL DEF Spec

\* PointersAgree: while nobody holds the lock the driver's write pointer is the
\* hardware's, across bring-ups and resets, except where one of them has moved
\* only one of the two, or moved one under the owner of the lock.
THEOREM PointersKept == Spec => []PointersAgree
<1>1. IInv => PointersAgree
  BY DEF IInv, Pointers, PointersAgree
<1>2. QED
  BY <1>1, Inductive, PTL

\* UnverifiedNeverKicked: whoever is at the fence or the doorbell, and was met
\* by no bring-up, has a ring that is allocated and whose base was read back.
THEOREM OnlyVerified == Spec => []UnverifiedNeverKicked
<1>1. IInv => UnverifiedNeverKicked
  <2> SUFFICES ASSUME IInv, NEW t \in Thread, pc[t] \in {"Eop", "Kick"}, ~req[t].met,
                      ~overlapped
               PROVE  initialized /\ va \in live /\ base = va /\ fencePage
    BY DEF UnverifiedNeverKicked
  <2>1. va # Null /\ \A u \in Thread \ {t} : pc[u] \notin Unsure
    BY DEF IInv, Unmet
  <2>2. \A u \in Thread : pc[u] \notin Unsure
    BY <2>1 DEF Unsure
  <2>3. initialized /\ va \in live /\ fencePage
    BY <2>1, <2>2 DEF IInv, Rings
  <2>4. QED
    BY <2>3 DEF IInv, OneAtATime
<1>2. QED
  BY <1>1, Inductive, PTL

\* NoRingLeak: every bring-up works on a ring that is its own, however many run
\* at once; in the classic order, one at a time leave nothing behind.
THEOREM NothingLeaks == Spec => []NoRingLeak
<1>1. IInv => NoRingLeak
  <2> SUFFICES ASSUME IInv PROVE NoRingLeak
    OBVIOUS
  <2>1. \A t \in Thread : pc[t] \in Unsure =>
          /\ req[t].page \in live
          /\ \A u \in Thread \ {t} : pc[u] \in Unsure => req[u].page # req[t].page
    BY DEF IInv, Rings
  <2>2. ~config.extended /\ ~overlapped => live = {va} \ {Null}
    <3> SUFFICES ASSUME ~config.extended, ~overlapped PROVE live = {va} \ {Null}
      OBVIOUS
    <3>1. live \subseteq {va} /\ live \subseteq Page /\ (va # Null => va \in live)
      BY DEF IInv, OneAtATime, Rings, Type
    <3>2. QED
      BY <3>1, GfxAssumption
  <2>3. QED
    BY <2>1, <2>2 DEF NoRingLeak
<1>2. QED
  BY <1>1, Inductive, PTL

\* The three ways a call lies before the doorbell: behind the old pointer; from
\* the start of the ring on; or its body behind the pointer and its fence, of
\* SUBMIT_COMMANDS, at the start.
Lies(t, n, m, b, e) ==
  \/ b = hwWptr /\ e = b + n
  \/ /\ b = 0 /\ e = n /\ n + m < hwWptr
     /\ IF Sends(t) THEN NopsFrom(hwWptr) ELSE Size - hwWptr < IbDwords
  \/ b = hwWptr /\ e = 0 /\ m < hwWptr /\ NopsFrom(b + n)

LEMMA KickLies ==
  ASSUME IInv, NEW t \in Thread, pc[t] = "Kick", ~desync, ~req[t].met,
         NEW n, n = Body(t),
         NEW m, m = IF Fenced(t) THEN EopDwords ELSE 0
  PROVE  \E b, e \in Nat :
           /\ n \in Nat \ {0} /\ m \in Nat
           /\ b + n <= Size /\ e + m <= Size /\ wptr = e + m
           /\ \A i \in b..b + n - 1 : ring[i] = Dword(Kind(t), i - b, n, req[t].call)
           /\ \A i \in e..e + m - 1 : ring[i] = Dword("eop", i - e, EopDwords, req[t].call)
           /\ \A i \in Places : ring[i].call = req[t].call =>
                i \in (b..b + n - 1) \cup (e..e + m - 1)
           /\ Lies(t, n, m, b, e)
<1> USE GfxAssumption
<1>1. n \in Nat \ {0} /\ 2 * (n + EopDwords) <= Size /\ (~Sends(t) => n = IbDwords)
  BY DEF IInv, Where, Body, Sends, IbDwords
<1>2. hwWptr \in 0..Size
  BY DEF IInv, Type
<1>3. CASE Fenced(t)
  <2>1. m = EopDwords
    BY <1>3
  <2>2. PICK b \in Nat, e \in Nat : WithEop(t, b, e)
    BY <1>3 DEF IInv, Layout, Whole
  <2>3. /\ b + n <= Size /\ e + m <= Size /\ wptr = e + m
        /\ \A i \in b..b + n - 1 : ring[i] = Dword(Kind(t), i - b, n, req[t].call)
        /\ \A i \in e..e + m - 1 : ring[i] = Dword("eop", i - e, EopDwords, req[t].call)
        /\ \A i \in Places : ring[i].call = req[t].call =>
                i \in (b..b + n - 1) \cup (e..e + m - 1)
    BY <2>1, <2>2 DEF WithEop, BodyAt, EopAt
  <2>4. CASE e = b + n /\ b = hwWptr
    BY <1>1, <2>1, <2>3, <2>4 DEF Lies, EopDwords
  <2>5. CASE e = b + n /\ b = 0 /\ Wrapped(t)
    <3>1. hwWptr + n + (IF Sends(t) THEN m ELSE 0) > Size /\ (Sends(t) => NopsFrom(hwWptr))
      BY <1>1, <1>2, <1>3, <2>1, <2>5 DEF Wrapped, EopDwords
    <3>2. n + m < hwWptr /\ (~Sends(t) => Size - hwWptr < IbDwords)
      BY <1>1, <1>2, <2>1, <3>1 DEF EopDwords, IbDwords
    <3>3. Lies(t, n, m, b, e)
      BY <1>1, <2>5, <3>1, <3>2 DEF Lies
    <3>4. QED
      BY <1>1, <2>1, <2>3, <3>3 DEF EopDwords
  <2>6. CASE ~Sends(t) /\ b = hwWptr /\ e = 0 /\ b + n + EopDwords > Size /\ NopsFrom(b + n)
    <3>1. m < hwWptr
      BY <1>1, <1>2, <2>1, <2>6 DEF EopDwords, IbDwords
    <3>2. Lies(t, n, m, b, e)
      BY <2>6, <3>1 DEF Lies
    <3>3. QED
      BY <1>1, <2>1, <2>3, <3>2 DEF EopDwords
  <2>7. QED
    BY <2>2, <2>4, <2>5, <2>6 DEF WithEop
<1>4. CASE ~Fenced(t)
  <2>1. m = 0 /\ Sends(t)
    BY <1>4 DEF Fenced
  <2>2. PICK b \in Nat : WithBody(t, b)
    BY <1>4 DEF IInv, Layout, BodyOnly
  <2>3. /\ b + n <= Size /\ wptr = b + n
        /\ \A i \in b..b + n - 1 : ring[i] = Dword(Kind(t), i - b, n, req[t].call)
        /\ \A i \in Places : ring[i].call = req[t].call => i \in b..b + n - 1
    BY <2>2 DEF WithBody, BodyAt
  <2>4. Lies(t, n, m, b, b + n)
    <3>1. CASE b = hwWptr
      BY <3>1 DEF Lies
    <3>2. CASE b = 0 /\ Wrapped(t)
      <4>1. hwWptr + n > Size /\ NopsFrom(hwWptr)
        BY <1>1, <1>2, <1>4, <2>1, <3>2 DEF Wrapped
      <4>2. n + m < hwWptr
        BY <1>1, <1>2, <2>1, <4>1 DEF EopDwords
      <4>3. QED
        BY <1>1, <2>1, <3>2, <4>1, <4>2 DEF Lies
    <3>3. QED
      BY <2>2, <3>1, <3>2 DEF WithBody
  <2>5. b + n \in Nat /\ (b + n) + m = b + n /\ (b + n)..(b + n) + m - 1 = {}
    BY <1>1, <2>1
  <2>6. QED
    BY <1>1, <2>1, <2>3, <2>4, <2>5
<1>5. QED
  BY <1>3, <1>4

\* What KickRunsOwn says of a doorbell.
Runs(t) ==
  LET path == Path(hwWptr, wptr)
      own  == {i \in path : ring[i].call = req[t].call}
      size == (IF Is(t, "SEND_PM4") THEN req[t].count ELSE IbDwords)
              + (IF Is(t, "SEND_PM4") /\ req[t].fence = 0 THEN 0 ELSE EopDwords)
      rest == {i \in path \ own : ring[i] # Nop}
  IN  /\ Cardinality(own) = size
      /\ rest = {} \/ /\ Is(t, "SUBMIT_COMMANDS") /\ Cardinality(rest) < IbDwords
                      /\ \A i \in rest : i >= hwWptr /\ wptr < hwWptr
      /\ \A i \in own : ring[i].n + 1 < ring[i].of => ring[i + 1].n = ring[i].n + 1
      /\ \A i \in own : ring[i].kind = "eop" /\ ring[i].n = 0 =>
           i = 0 \/ (i - 1 \in own /\ ring[i - 1].kind # "eop")

\* The places from the old pointer to the new one hold the call's body and its
\* fence, and padding; if SUBMIT_COMMANDS wraps its body they also hold the few
\* places at the end of the ring that it skips.
LEMMA PathHolds ==
  ASSUME NEW t \in Thread, NEW n \in Nat \ {0}, NEW m \in Nat, NEW b \in Nat, NEW e \in Nat,
         b + n <= Size, e + m <= Size, wptr = e + m, hwWptr \in 0..Size, Lies(t, n, m, b, e)
  PROVE  /\ (b..b + n - 1) \cup (e..e + m - 1) \subseteq Path(hwWptr, wptr)
         /\ Path(hwWptr, wptr) \subseteq Places
         /\ (b..b + n - 1) \cap (e..e + m - 1) = {}
         /\ \A i \in Path(hwWptr, wptr) :
              \/ i \in (b..b + n - 1) \cup (e..e + m - 1)
              \/ ring[i] = Nop
              \/ ~Sends(t) /\ i \in hwWptr..Size - 1 /\ wptr < hwWptr /\ Size - hwWptr < IbDwords
<1> USE GfxAssumption
<1>1. CASE b = hwWptr /\ e = b + n
  <2>1. Path(hwWptr, wptr) = hwWptr..wptr - 1
    BY <1>1 DEF Path
  <2>2. QED
    BY <1>1, <2>1 DEF Places
<1>2. CASE /\ b = 0 /\ e = n /\ n + m < hwWptr
           /\ IF Sends(t) THEN NopsFrom(hwWptr) ELSE Size - hwWptr < IbDwords
  <2>1. Path(hwWptr, wptr) = (hwWptr..Size - 1) \cup (0..wptr - 1)
    BY <1>2 DEF Path
  <2>2. wptr = n + m /\ wptr < hwWptr
    BY <1>2
  <2>3. \A i \in hwWptr..Size - 1 : ring[i] = Nop \/ (~Sends(t) /\ Size - hwWptr < IbDwords)
    BY <1>2 DEF NopsFrom, Places
  <2>4. QED
    BY <1>2, <2>1, <2>2, <2>3 DEF Places
<1>3. CASE b = hwWptr /\ e = 0 /\ m < hwWptr /\ NopsFrom(b + n)
  <2>1. Path(hwWptr, wptr) = (hwWptr..Size - 1) \cup (0..wptr - 1)
    BY <1>3 DEF Path
  <2>2. \A i \in hwWptr..Size - 1 : i \in b..b + n - 1 \/ ring[i] = Nop
    BY <1>3 DEF NopsFrom, Places
  <2>3. QED
    BY <1>3, <2>1, <2>2 DEF Places
<1>4. QED
  BY <1>1, <1>2, <1>3 DEF Lies

LEMMA Interval ==
  ASSUME NEW a \in Int, NEW k \in Nat
  PROVE  IsFiniteSet(a..a + k - 1) /\ Cardinality(a..a + k - 1) = k
<1>1. a + k - 1 \in Int /\ (a + k - 1) - a + 1 = k /\ (a > a + k - 1 => k = 0)
  OBVIOUS
<1>2. QED
  BY <1>1, FS_Interval

LEMMA TwoIntervals ==
  ASSUME NEW a \in Int, NEW k \in Nat, NEW c \in Int, NEW l \in Nat,
         (a..a + k - 1) \cap (c..c + l - 1) = {}
  PROVE  Cardinality((a..a + k - 1) \cup (c..c + l - 1)) = k + l
<1> DEFINE A == a..a + k - 1
           B == c..c + l - 1
<1>1. /\ IsFiniteSet(A) /\ Cardinality(A) = k /\ IsFiniteSet(B) /\ Cardinality(B) = l
      /\ A \cap B = {}
  BY Interval
<1> HIDE DEF A, B
<1>2. Cardinality(A \cup B) = k + l - Cardinality(A \cap B)
  BY <1>1, FS_Union
<1>3. Cardinality(A \cap B) = 0
  BY <1>1, FS_EmptySet
<1>4. Cardinality(A \cup B) = k + l
  BY <1>2, <1>3
<1>5. QED
  BY <1>4 DEF A, B

LEMMA KickRuns ==
  ASSUME IInv, NEW t \in Thread, pc[t] = "Kick", ~desync, ~req[t].met
  PROVE  Runs(t)
<1> USE GfxAssumption
<1>a. PICK n : n = Body(t)
  OBVIOUS
<1>b. PICK m : m = IF Fenced(t) THEN EopDwords ELSE 0
  OBVIOUS
<1>c. PICK path : path = Path(hwWptr, wptr)
  OBVIOUS
<1> DEFINE own  == {i \in path : ring[i].call = req[t].call}
           rest == {i \in path \ own : ring[i] # Nop}
<1>1. PICK b \in Nat, e \in Nat :
           /\ n \in Nat \ {0} /\ m \in Nat
           /\ b + n <= Size /\ e + m <= Size /\ wptr = e + m
           /\ \A i \in b..b + n - 1 : ring[i] = Dword(Kind(t), i - b, n, req[t].call)
           /\ \A i \in e..e + m - 1 : ring[i] = Dword("eop", i - e, EopDwords, req[t].call)
           /\ \A i \in Places : ring[i].call = req[t].call =>
                i \in (b..b + n - 1) \cup (e..e + m - 1)
           /\ Lies(t, n, m, b, e)
  BY <1>a, <1>b, KickLies
<1>0. /\ n \in Nat \ {0} /\ m \in Nat /\ b \in Nat /\ e \in Nat
      /\ n \in Nat /\ b \in Int /\ e \in Int
      /\ b + n <= Size /\ e + m <= Size /\ wptr = e + m /\ Lies(t, n, m, b, e)
  BY <1>1
<1>2. hwWptr \in 0..Size
  BY DEF IInv, Type
<1>3. /\ (b..b + n - 1) \cup (e..e + m - 1) \subseteq path
      /\ path \subseteq Places
      /\ (b..b + n - 1) \cap (e..e + m - 1) = {}
      /\ \A i \in path :
           \/ i \in (b..b + n - 1) \cup (e..e + m - 1)
           \/ ring[i] = Nop
           \/ ~Sends(t) /\ i \in hwWptr..Size - 1 /\ wptr < hwWptr /\ Size - hwWptr < IbDwords
  <2>1. /\ (b..b + n - 1) \cup (e..e + m - 1) \subseteq Path(hwWptr, wptr)
        /\ Path(hwWptr, wptr) \subseteq Places
        /\ (b..b + n - 1) \cap (e..e + m - 1) = {}
        /\ \A i \in Path(hwWptr, wptr) :
             \/ i \in (b..b + n - 1) \cup (e..e + m - 1)
             \/ ring[i] = Nop
             \/ ~Sends(t) /\ i \in hwWptr..Size - 1 /\ wptr < hwWptr /\ Size - hwWptr < IbDwords
    BY <1>0, <1>2, PathHolds, Zenon
  <2>2. QED
    BY <1>c, <2>1
<1>4. /\ \A i \in b..b + n - 1 : ring[i].call = req[t].call /\ ring[i].n = i - b
                                 /\ ring[i].of = n /\ ring[i].kind = Kind(t)
      /\ \A i \in e..e + m - 1 : ring[i].call = req[t].call /\ ring[i].n = i - e
                                 /\ ring[i].of = EopDwords /\ ring[i].kind = "eop"
  <2>1. ASSUME NEW i \in b..b + n - 1
        PROVE  ring[i].call = req[t].call /\ ring[i].n = i - b /\ ring[i].of = n
               /\ ring[i].kind = Kind(t)
    <3>1. ring[i] = Dword(Kind(t), i - b, n, req[t].call)
      BY <1>1, Zenon
    <3>2. QED
      BY <3>1 DEF Dword
  <2>2. ASSUME NEW i \in e..e + m - 1
        PROVE  ring[i].call = req[t].call /\ ring[i].n = i - e /\ ring[i].of = EopDwords
               /\ ring[i].kind = "eop"
    <3>1. ring[i] = Dword("eop", i - e, EopDwords, req[t].call)
      BY <1>1, Zenon
    <3>2. QED
      BY <3>1 DEF Dword
  <2>3. QED
    BY <2>1, <2>2
<1>5. own = (b..b + n - 1) \cup (e..e + m - 1)
  BY <1>1, <1>3, <1>4
<1>6. Cardinality(own) = n + m
  <2>1. n \in Nat /\ m \in Nat /\ b \in Int /\ e \in Int
    BY <1>0
  <2>2. (b..b + n - 1) \cap (e..e + m - 1) = {}
    BY <1>3
  <2> HIDE GfxAssumption
  <2>3. Cardinality((b..b + n - 1) \cup (e..e + m - 1)) = n + m
    BY <2>1, <2>2, TwoIntervals
  <2> HIDE DEF own
  <2>4. QED
    BY <1>5, <2>3
<1>7. \/ rest = {}
      \/ /\ ~Sends(t) /\ Cardinality(rest) < IbDwords
         /\ \A i \in rest : i >= hwWptr /\ wptr < hwWptr
  <2>1. \A i \in rest : /\ ~Sends(t) /\ i \in hwWptr..Size - 1
                        /\ wptr < hwWptr /\ Size - hwWptr < IbDwords
    BY <1>3, <1>5
  <2>2. CASE rest # {}
    <3>1. /\ ~Sends(t) /\ rest \in SUBSET (hwWptr..Size - 1)
          /\ wptr < hwWptr /\ Size - hwWptr < IbDwords
      BY <2>1, <2>2
    <3>2. IsFiniteSet(hwWptr..Size - 1) /\ Cardinality(hwWptr..Size - 1) = Size - hwWptr
      <4>1. /\ hwWptr \in Int /\ Size - hwWptr \in Nat
            /\ hwWptr + (Size - hwWptr) - 1 = Size - 1
        BY <1>2
      <4>2. QED
        BY <4>1, Interval
    <3>3. IsFiniteSet(rest) /\ Cardinality(rest) <= Size - hwWptr
      <4> DEFINE tail == hwWptr..Size - 1
      <4>1. IsFiniteSet(tail) /\ rest \in SUBSET tail
        BY <3>1, <3>2
      <4> HIDE DEF rest, tail
      <4>2. IsFiniteSet(rest) /\ Cardinality(rest) <= Cardinality(tail)
        BY <4>1, FS_Subset
      <4> USE DEF tail
      <4>3. QED
        BY <3>2, <4>2
    <3>4. Cardinality(rest) \in Nat
      BY <3>3, FS_CardinalityType
    <3>5. QED
      BY <1>2, <2>1, <3>1, <3>3, <3>4 DEF IbDwords
  <2>3. QED
    BY <2>2
<1>8. \A i \in own : ring[i].n + 1 < ring[i].of => ring[i + 1].n = ring[i].n + 1
  <2>1. ASSUME NEW i \in b..b + n - 1, ring[i].n + 1 < ring[i].of
        PROVE  ring[i + 1].n = ring[i].n + 1
    <3>1. i + 1 \in b..b + n - 1
      BY <1>1, <1>4, <2>1
    <3>2. QED
      BY <1>1, <1>4, <2>1, <3>1
  <2>2. ASSUME NEW i \in e..e + m - 1, ring[i].n + 1 < ring[i].of
        PROVE  ring[i + 1].n = ring[i].n + 1
    <3>1. m = EopDwords
      BY <1>0, <1>b, <2>2
    <3>2. i + 1 \in e..e + m - 1
      BY <1>1, <1>4, <2>2, <3>1
    <3>3. QED
      BY <1>1, <1>4, <2>2, <3>2
  <2>3. QED
    BY <1>5, <2>1, <2>2
<1>9. \A i \in own : ring[i].kind = "eop" /\ ring[i].n = 0 =>
        i = 0 \/ (i - 1 \in own /\ ring[i - 1].kind # "eop")
  <2>1. Kind(t) # "eop"
    BY DEF Kind
  <2>2. e = 0 \/ e = b + n
    BY <1>1 DEF Lies
  <2>3. \A i \in own : ring[i].kind = "eop" /\ ring[i].n = 0 => i = e
    BY <1>1, <1>4, <1>5, <2>1
  <2>4. e = b + n => e - 1 \in b..b + n - 1
    BY <1>1
  <2>5. QED
    BY <1>4, <1>5, <2>1, <2>2, <2>3, <2>4
<1>10. n = IF Is(t, "SEND_PM4") THEN req[t].count ELSE IbDwords
  BY <1>a DEF Body, Sends, Is
<1>11. m = IF Is(t, "SEND_PM4") /\ req[t].fence = 0 THEN 0 ELSE EopDwords
  <2>1. req[t].fence \in Nat
    BY DEF IInv, Type, Request
  <2>2. QED
    BY <1>b, <2>1 DEF Fenced, Sends, Is
<1>12. ~Sends(t) => Is(t, "SUBMIT_COMMANDS")
  BY DEF IInv, Where, Sends, Is
<1> HIDE DEF own, rest
<1>13. QED
  BY <1>c, <1>6, <1>7, <1>8, <1>9, <1>10, <1>11, <1>12 DEF Runs, own, rest


\* KickRunsOwn: what a doorbell makes the command processor run is the packets
\* of the call that rings it, whole and in order, for any size of the ring and
\* any lap.
THEOREM KicksItsOwn == Spec => KickRunsOwn
<1>1. IInv => \A t \in Thread : ~desync /\ ~req[t].met /\ Kick(t) => Runs(t)
  BY KickRuns DEF Kick, Goto
<1>2. IInv /\ [Next]_vars =>
        [\A t \in Thread : ~desync /\ ~req[t].met /\ Kick(t) => Runs(t)]_vars
  BY <1>1
<1>3. QED
  BY <1>2, Inductive, PTL DEF Spec, KickRunsOwn, Runs

-----------------------------------------------------------------------------
(* The inductive invariant of SwPm4 *)

Calling == [buf : Nat, size : Nat, i : Nat, depth : Nat]

\* A call has all it was told to run, and is at the start of a packet or done.
CallOk(f) ==
  /\ f.buf \in DOMAIN mem /\ f.size <= Len(mem[f.buf].code)
  /\ f.i < f.size => f.i \in mem[f.buf].starts

Loaded ==
  /\ windows \in Windows /\ mmio \in Nat
  /\ \A b \in DOMAIN mem : Stream(mem[b]) /\ (b # 0 => MaxIb <= Len(mem[b].code))

CallsOk == stack \in Seq(Calling) /\ \A k \in 1..Len(stack) : CallOk(stack[k])

Pm4Inv == Loaded /\ CallsOk /\ StaysInside /\ MovesOwned

LEMMA Pm4InitInv == ASSUME Pm4Init PROVE Pm4Inv
<1>1. PICK s \in Streams, m \in Memories :
        /\ mem = [b \in {0} \cup DOMAIN m |-> IF b = 0 THEN s ELSE m[b]]
        /\ stack = <<Frame(0, Len(s.code), MaxDepth)>>
  BY DEF Pm4Init
<1>2. /\ windows \in Windows /\ mmio \in Nat /\ wrote.regs = {} /\ move = NoMove
      /\ over = FALSE
  BY Pm4Assumption DEF Pm4Init, Written
<1>3. DOMAIN mem = {0} \cup DOMAIN m /\ mem[0] = s /\ \A b \in DOMAIN m : mem[b] = m[b]
  BY <1>1, StreamAssumption
<1>4. Stream(s) /\ \A b \in DOMAIN m : Stream(m[b]) /\ MaxIb <= Len(m[b].code)
  BY StreamAssumption
<1>5. Loaded
  BY <1>2, <1>3, <1>4 DEF Loaded
<1>6. Frame(0, Len(s.code), MaxDepth) \in Calling
  BY <1>4, Pm4Assumption DEF Stream, Frame, Calling
<1>7. CallOk(Frame(0, Len(s.code), MaxDepth))
  BY <1>3, <1>4 DEF CallOk, Frame, Stream
<1>8. CallsOk
  BY <1>1, <1>6, <1>7 DEF CallsOk
<1>9. QED
  BY <1>2, <1>5, <1>8 DEF Pm4Inv, StaysInside, ReadsInBounds, RegistersInBar, MovesOwned, NoMove

-----------------------------------------------------------------------------
(* How a call goes on *)

LEMMA TopIs ==
  ASSUME CallsOk, stack # <<>>
  PROVE  /\ Len(stack) \in Nat \ {0} /\ Top \in Calling /\ Top = stack[Len(stack)] /\ CallOk(Top)
BY DEF CallsOk, Top

LEMMA ReadingIs ==
  ASSUME NEW d \in Reading
  PROVE  d.count \in Nat /\ d.count >= 1 /\ d.base \in Nat /\ d.val \in Nat
<1>1. d.val \in 0..Word - 1 /\ Word \in Nat
  BY Pm4Assumption DEF Reading
<1>2. QED
  BY <1>1 DEF Reading

\* What a packet holds, and behind the end of a buffer too.
LEMMA FetchIs ==
  ASSUME Loaded, CallsOk, Running
  PROVE  /\ \A k \in Nat : Fetch(k) \in Reading
         /\ \A k \in Nat : Arg(k) \in Reading
         /\ Hdr \in Reading
         /\ Top.i \in mem[Top.buf].starts /\ Top.i < Len(mem[Top.buf].code)
         /\ Hdr = mem[Top.buf].code[Top.i + 1]
<1> DEFINE code == mem[Top.buf].code
<1>1. Top \in Calling /\ CallOk(Top) /\ Top.i < Top.size
  BY TopIs DEF Running
<1>2. code \in Seq(Reading) /\ Top.i \in Nat /\ Top.i < Len(code) /\ Top.i \in mem[Top.buf].starts
  BY <1>1 DEF Calling, CallOk, Loaded, Stream
<1> HIDE DEF code
<1>3. ASSUME NEW k \in Nat PROVE Fetch(k) \in Reading
  BY <1>2, <1>3 DEF Fetch, code
<1>4. Hdr = code[Top.i + 1]
  BY <1>2 DEF Hdr, Fetch, code
<1>5. \A k \in Nat : Arg(k) \in Reading
  BY <1>3 DEF Arg
<1>6. Hdr \in Reading
  BY <1>3 DEF Hdr
<1>7. QED
  BY <1>2, <1>3, <1>4, <1>5, <1>6 DEF code

LEMMA FurtherIs ==
  ASSUME NEW f \in Calling, NEW n \in Nat
  PROVE  LET g == [f EXCEPT !.i = f.i + n]
         IN  g \in Calling /\ g.i = f.i + n /\ g.buf = f.buf /\ g.size = f.size
<1>1. f = [buf |-> f.buf, size |-> f.size, i |-> f.i, depth |-> f.depth]
  BY DEF Calling
<1>2. [f EXCEPT !.i = f.i + n] = [buf |-> f.buf, size |-> f.size, i |-> f.i + n, depth |-> f.depth]
  BY <1>1
<1>3. f.buf \in Nat /\ f.size \in Nat /\ f.i + n \in Nat /\ f.depth \in Nat
  BY DEF Calling
<1>4. QED
  BY <1>2, <1>3 DEF Calling

LEMMA Advanced ==
  ASSUME Loaded, CallsOk, Running, NEW n \in Nat, NEW s, s = Ahead(n),
         n = Length(Hdr) \/ Top.i + n >= Top.size
  PROVE  s \in Seq(Calling) /\ Len(s) = Len(stack) /\ \A k \in 1..Len(s) : CallOk(s[k])
<1> DEFINE f == [Top EXCEPT !.i = Top.i + n]
<1>1. /\ stack \in Seq(Calling) /\ Len(stack) \in Nat \ {0} /\ Top \in Calling
      /\ Top = stack[Len(stack)] /\ CallOk(Top)
  BY TopIs DEF CallsOk, Running
<1>2. f \in Calling /\ f.i = Top.i + n /\ f.buf = Top.buf /\ f.size = Top.size
  BY <1>1, FurtherIs
<1>3. s = [stack EXCEPT ![Len(stack)] = f]
  <2>1. s = [stack EXCEPT ![Len(stack)] = [stack[Len(stack)] EXCEPT !.i = stack[Len(stack)].i + n]]
    BY DEF Ahead
  <2>2. QED
    BY <1>1, <2>1, Zenon
<1> HIDE DEF f
<1>4. CallOk(f)
  <2>1. ASSUME f.i < f.size PROVE f.i \in mem[f.buf].starts
    <3>1. n = Length(Hdr)
      BY <1>1, <1>2, <2>1 DEF Calling
    <3>2. LET next == Top.i + Length(Hdr) IN
          next \in mem[Top.buf].starts \/ next >= Len(mem[Top.buf].code)
      BY <1>1, FetchIs DEF Loaded, Stream, CallOk
    <3>3. Len(mem[Top.buf].code) \in Nat /\ Top.size <= Len(mem[Top.buf].code)
      BY <1>1 DEF Loaded, Stream, CallOk
    <3>4. QED
      BY <1>1, <1>2, <2>1, <3>1, <3>2, <3>3 DEF Calling
  <2>2. QED
    BY <1>1, <1>2, <2>1 DEF CallOk
<1>5. s \in Seq(Calling) /\ Len(s) = Len(stack)
      /\ \A k \in 1..Len(stack) : s[k] = IF k = Len(stack) THEN f ELSE stack[k]
  BY <1>1, <1>2, <1>3
<1>6. QED
  BY <1>4, <1>5 DEF CallsOk

LEMMA Unloaded == ASSUME Loaded, Fixed PROVE Loaded'
BY DEF Loaded, Fixed

\* A packet is passed, or what is left of the buffer.
LEMMA AdvanceOk ==
  ASSUME Loaded, CallsOk, Running, Fixed, NEW n \in Nat, Advance(n),
         n = Length(Hdr) \/ Top.i + n >= Top.size
  PROVE  Loaded' /\ CallsOk'
<1>1. stack' \in Seq(Calling) /\ \A k \in 1..Len(stack') : CallOk(stack'[k])
  BY Advanced DEF Advance
<1>2. mem' = mem
  BY DEF Fixed
<1>3. QED
  BY <1>1, <1>2, Unloaded DEF CallsOk, CallOk

LEMMA ShorterIs ==
  ASSUME NEW S, NEW q \in Seq(S), NEW n \in 0..Len(q)
  PROVE  /\ SubSeq(q, 1, n) \in Seq(S) /\ Len(SubSeq(q, 1, n)) = n
         /\ \A k \in 1..n : SubSeq(q, 1, n)[k] = q[k]
OBVIOUS

LEMMA ReturnOk ==
  ASSUME Loaded, CallsOk, stack # <<>>, Fixed, NEW s, Return(s)
  PROVE  Loaded' /\ CallsOk'
<1>1. /\ stack \in Seq(Calling) /\ Len(stack) \in Nat \ {0}
      /\ \A k \in 1..Len(stack) : CallOk(stack[k])
  BY TopIs DEF CallsOk
<1>2. mem' = mem
  BY DEF Fixed
<1>3. CASE Len(stack) = 1
  <2>1. stack' = <<>>
    BY <1>3 DEF Return
  <2>2. QED
    BY <2>1, Unloaded DEF CallsOk
<1>4. CASE Len(stack) # 1
  <2>1. stack' = SubSeq(stack, 1, Len(stack) - 1)
    BY <1>4 DEF Return
  <2>2. /\ stack' \in Seq(Calling) /\ Len(stack') = Len(stack) - 1
        /\ \A k \in 1..Len(stack') : stack'[k] = stack[k]
    <3>1. Len(stack) - 1 \in 0..Len(stack)
      BY <1>1
    <3>2. QED
      BY <1>1, <2>1, <3>1, ShorterIs
  <2>3. \A k \in 1..Len(stack') : CallOk(stack'[k])
    BY <1>1, <2>2
  <2>4. QED
    BY <1>2, <2>2, <2>3, Unloaded DEF CallsOk, CallOk
<1>5. QED
  BY <1>3, <1>4

LEMMA QuietOk == ASSUME Quiet PROVE MovesOwned' /\ RegistersInBar'
BY DEF Quiet, Written, MovesOwned, RegistersInBar, NoMove

LEMMA UsesOk == ASSUME ~over, NEW n, Uses(n), ~(Top.i + n > Top.size) PROVE ~over'
BY Zenon DEF Uses

LEMMA SkipOk ==
  ASSUME Loaded, CallsOk, Running, Fixed, Skip, Hdr.type \in {0, 3}
  PROVE  Loaded' /\ CallsOk'
<1>1. Hdr.count \in Nat /\ 1 + Hdr.count \in Nat
  BY FetchIs, ReadingIs
<1>2. Length(Hdr) = 1 + Hdr.count
  BY DEF Length
<1>3. QED
  BY <1>1, <1>2, AdvanceOk DEF Skip

\* Registers are written, all of them in the window, or the call ends.
LEMMA WriteRegistersOk ==
  ASSUME Pm4Inv, Running, NEW offset, NEW checked, NEW written, NEW skip \in Nat,
         WriteRegisters(offset, checked, written, skip), ~over',
         skip = Length(Hdr) \/ Top.i + skip >= Top.size,
         RangeValid(offset, checked) => \A r \in written : r < mmio
  PROVE  Pm4Inv'
<1>1. Loaded /\ CallsOk /\ Fixed /\ stack # <<>>
  BY DEF Pm4Inv, Running, WriteRegisters
<1>2. Loaded' /\ CallsOk'
  BY <1>1, AdvanceOk, ReturnOk DEF WriteRegisters
<1>3. RegistersInBar'
  BY <1>1 DEF WriteRegisters, Written, RegistersInBar, Fixed
<1>4. MovesOwned'
  BY DEF WriteRegisters, MovesOwned, NoMove
<1>5. QED
  BY <1>2, <1>3, <1>4 DEF Pm4Inv, StaysInside, ReadsInBounds

LEMMA UsesAll ==
  ASSUME Pm4Inv, Running, NEW n, Uses(n), ~(Top.i + n > Top.size) PROVE ~over'
BY UsesOk DEF Pm4Inv, StaysInside, ReadsInBounds

-----------------------------------------------------------------------------
(* The packets *)

\* Where a call is in its buffer, as numbers.
LEMMA Counted ==
  ASSUME Pm4Inv, Running
  PROVE  /\ Loaded /\ CallsOk /\ stack # <<>> /\ ~over
         /\ Top.i \in Nat /\ Top.size \in Nat /\ Top.i < Top.size
         /\ Hdr \in Reading /\ Hdr.count \in Nat /\ Hdr.count >= 1
<1>1. Loaded /\ CallsOk /\ stack # <<>> /\ ~over /\ Top.i < Top.size
  BY Zenon DEF Pm4Inv, Running, StaysInside, ReadsInBounds
<1>2. Top.i \in Nat /\ Top.size \in Nat
  BY <1>1, TopIs DEF Calling
<1>3. Hdr \in Reading /\ Hdr.count \in Nat /\ Hdr.count >= 1
  BY <1>1, FetchIs, ReadingIs
<1>4. QED
  BY <1>1, <1>2, <1>3

\* Nothing is written or moved.
LEMMA StillInv ==
  ASSUME Pm4Inv, Quiet, ~over', Loaded', CallsOk' PROVE Pm4Inv'
BY QuietOk DEF Pm4Inv, StaysInside, ReadsInBounds

LEMMA DoneInv == ASSUME Pm4Inv, Done PROVE Pm4Inv'
<1>1. Loaded' /\ CallsOk'
  BY ReturnOk DEF Done, Pm4Inv
<1>2. Quiet /\ ~over'
  BY Zenon DEF Done, Pm4Inv, StaysInside, ReadsInBounds
<1>3. QED
  BY <1>1, <1>2, StillInv

LEMMA TooSmallInv == ASSUME Pm4Inv, TooSmall PROVE Pm4Inv'
<1>1. Loaded' /\ CallsOk'
  BY ReturnOk DEF TooSmall, Pm4Inv, Running
<1>2. Quiet /\ ~over'
  BY Zenon DEF TooSmall, Pm4Inv, StaysInside, ReadsInBounds
<1>3. QED
  BY <1>1, <1>2, StillInv

LEMMA OtherTypeInv == ASSUME Pm4Inv, OtherType PROVE Pm4Inv'
<1>1. Running /\ Advance(1) /\ Fixed /\ Length(Hdr) = 1
  BY DEF OtherType, Length
<1>2. Loaded' /\ CallsOk'
  BY <1>1, Counted, AdvanceOk
<1>3. Quiet /\ ~over'
  BY Zenon DEF OtherType, Pm4Inv, StaysInside, ReadsInBounds
<1>4. QED
  BY <1>2, <1>3, StillInv

\* A packet of type 3 that only lets the call go on.
LEMMA PassesInv ==
  ASSUME Pm4Inv, Running, Hdr.type = 3, Skip, Fixed, Quiet, ~over' PROVE Pm4Inv'
<1>1. Loaded' /\ CallsOk'
  BY Counted, SkipOk
<1>2. QED
  BY <1>1, StillInv

LEMMA NopPacketInv == ASSUME Pm4Inv, NopPacket PROVE Pm4Inv'
<1>1. Running /\ Hdr.type = 3 /\ Skip /\ Fixed /\ Quiet /\ over' = over
  BY DEF NopPacket, Type3
<1>2. ~over'
  BY <1>1, Counted
<1>3. QED
  BY <1>1, <1>2, PassesInv

LEMMA IgnoreInv == ASSUME Pm4Inv, Ignore PROVE Pm4Inv'
<1>1. Running /\ Hdr.type = 3 /\ Skip /\ Fixed /\ Quiet /\ over' = over
  BY DEF Ignore, Short, Type3
<1>2. ~over'
  BY <1>1, Counted
<1>3. QED
  BY <1>1, <1>2, PassesInv

LEMMA EndOfPipeInv == ASSUME Pm4Inv, EndOfPipe PROVE Pm4Inv'
<1>1. Running /\ Hdr.type = 3 /\ Skip /\ Fixed /\ Quiet /\ over' = over
  BY DEF EndOfPipe, Type3
<1>2. ~over'
  BY <1>1, Counted
<1>3. QED
  BY <1>1, <1>2, PassesInv

LEMMA Type0Inv == ASSUME Pm4Inv, Type0 PROVE Pm4Inv'
<1> DEFINE left == Top.size - Top.i - 1
           n == IF Hdr.count < left THEN Hdr.count ELSE left
<1>1. /\ Running /\ Hdr.type = 0 /\ Uses(1 + n)
      /\ WriteRegisters(Hdr.base, Hdr.count, Hdr.base..Hdr.base + n - 1, 1 + n)
  BY DEF Type0
<1>2. /\ Top.i \in Nat /\ Top.size \in Nat /\ Top.i < Top.size /\ Hdr.count \in Nat
      /\ Hdr.base \in Nat
  BY <1>1, Counted, ReadingIs
<1>3. /\ n \in Nat /\ 1 + n \in Nat /\ n <= Hdr.count /\ ~(Top.i + (1 + n) > Top.size)
      /\ n = Hdr.count \/ Top.i + (1 + n) >= Top.size
  BY <1>2
<1>4. ~over'
  BY <1>1, <1>3, UsesAll
<1>5. 1 + n = Length(Hdr) \/ Top.i + (1 + n) >= Top.size
  BY <1>1, <1>3 DEF Length
<1> HIDE DEF n
<1>6. RangeValid(Hdr.base, Hdr.count) => \A r \in Hdr.base..Hdr.base + n - 1 : r < mmio
  BY <1>1, <1>2, <1>3, Counted DEF RangeValid, Loaded
<1>7. QED
  BY <1>1, <1>3, <1>4, <1>5, <1>6, WriteRegistersOk

\* A packet that is whole uses its own dwords.
LEMMA FitsIs ==
  ASSUME Pm4Inv, Running, Fits, Hdr.type = 3
  PROVE  /\ 1 + Hdr.count \in Nat /\ 1 + Hdr.count = Length(Hdr)
         /\ \A n \in Nat : n <= 1 + Hdr.count => ~(Top.i + n > Top.size)
<1>1. Top.i \in Nat /\ Top.size \in Nat /\ Hdr.count \in Nat
  BY Counted
<1>2. 1 + Hdr.count = Length(Hdr)
  BY DEF Length
<1>3. QED
  BY <1>1, <1>2 DEF Fits

LEMMA WriteDataInv == ASSUME Pm4Inv, WriteData PROVE Pm4Inv'
<1> DEFINE n == Hdr.count - 3
           to == Arg(1).val
           all == IF Arg(0).one THEN {to : d \in 1..n} ELSE to..to + n - 1
<1>1. /\ Running /\ Fits /\ Hdr.type = 3 /\ Hdr.count >= 3 /\ Uses(1 + Hdr.count)
      /\ \/ WriteRegisters(to, n, all, 1 + Hdr.count)
         \/ Skip /\ Quiet /\ Fixed
  BY DEF WriteData, Type3
<1>2. to \in Nat /\ n \in Nat /\ 1 + Hdr.count \in Nat /\ 1 + Hdr.count = Length(Hdr)
  <2>1. to \in Nat
    BY <1>1, Counted, FetchIs, ReadingIs
  <2>2. QED
    BY <1>1, <2>1, Counted, FitsIs
<1>3. ~over'
  BY <1>1, <1>2, FitsIs, UsesAll
<1> HIDE DEF n, to
<1>4. RangeValid(to, n) => \A r \in all : r < mmio
  BY <1>1, <1>2, Counted DEF RangeValid, Loaded
<1> HIDE DEF all
<1>5. CASE WriteRegisters(to, n, all, 1 + Hdr.count)
  BY <1>1, <1>2, <1>3, <1>4, <1>5, WriteRegistersOk
<1>6. CASE Skip /\ Quiet /\ Fixed
  BY <1>1, <1>3, <1>6, PassesInv
<1>7. QED
  BY <1>1, <1>5, <1>6

LEMMA ModIs == ASSUME NEW a \in Nat, NEW m \in Nat \ {0} PROVE a % m \in Nat
OBVIOUS

LEMMA SetRegInv == ASSUME Pm4Inv, SetReg PROVE Pm4Inv'
<1> DEFINE n == Hdr.count - 1
           from == (Gc + Arg(0).val) % Word
<1>1. /\ Running /\ Fits /\ Hdr.type = 3 /\ Uses(1 + Hdr.count)
      /\ WriteRegisters(from, n, from..from + n - 1, 1 + Hdr.count)
  BY DEF SetReg, Type3
<1>2. n \in Nat /\ 1 + Hdr.count \in Nat /\ 1 + Hdr.count = Length(Hdr)
  BY <1>1, Counted, FitsIs
<1>3. from \in Nat
  <2>1. Arg(0).val \in Nat /\ Gc \in Nat
    BY <1>1, Counted, FetchIs, ReadingIs, Pm4Assumption
  <2>2. Gc + Arg(0).val \in Nat
    BY <2>1
  <2>3. QED
    BY <2>2, ModIs, Pm4Assumption
<1>4. ~over'
  BY <1>1, <1>2, FitsIs, UsesAll
<1> HIDE DEF n, from
<1>5. RangeValid(from, n) => \A r \in from..from + n - 1 : r < mmio
  BY <1>1, <1>2, <1>3, Counted DEF RangeValid, Loaded
<1>6. QED
  BY <1>1, <1>2, <1>4, <1>5, WriteRegistersOk

LEMMA DispatchInv == ASSUME Pm4Inv, Dispatch PROVE Pm4Inv'
<1>1. /\ Running /\ Fits /\ Hdr.type = 3 /\ Hdr.count >= 4 /\ Uses(5) /\ Skip /\ Fixed
      /\ wrote' = [regs |-> DispatchRegs, dispatch |-> TRUE] /\ move' = NoMove
  BY DEF Dispatch, Type3
<1>2. Hdr.count \in Nat /\ 5 <= 1 + Hdr.count
  BY <1>1, Counted
<1>3. ~over'
  BY <1>1, <1>2, FitsIs, UsesAll
<1>4. Loaded' /\ CallsOk'
  BY <1>1, Counted, SkipOk
<1>5. RegistersInBar' /\ MovesOwned'
  BY <1>1 DEF RegistersInBar, DispatchFits, MovesOwned, NoMove, Fixed
<1>6. QED
  BY <1>3, <1>4, <1>5 DEF Pm4Inv, StaysInside, ReadsInBounds

-----------------------------------------------------------------------------
(* Moves *)

\* ULONG64 sums of less than 2^64 are what they are.
LEMMA SumIs == ASSUME NEW a \in Nat, NEW m \in Nat, a < m PROVE a % m = a
OBVIOUS

LEMMA ProductIs == ASSUME NEW a \in Nat, NEW b \in Nat PROVE a * b \in Nat
OBVIOUS

\* What an operand resolves to is in memory the driver owns, to its last byte.
LEMMA Resolved ==
  ASSUME windows \in Windows, NEW a \in Nat, NEW n \in Nat, NEW k \in Resolve(a, n)
  PROVE  k \in Nat /\ \E w \in windows : w.va <= k /\ k + n <= w.va + w.size
<1>1. n <= MaxMove
  BY Pm4Assumption DEF Resolve
<1>2. PICK w \in windows : InWindow(w, a, n) /\ k = w.va + (a - w.base)
  BY <1>1, Pm4Assumption DEF Resolve
<1>3. /\ w.base \in Nat /\ w.size \in Nat /\ w.va \in Nat
      /\ w.base + w.size + MaxMove <= Word * Word
  BY WindowAssumption
<1>4. MaxMove \in Nat /\ Word * Word \in Nat
  BY ProductIs, Pm4Assumption
<1>5. a >= w.base /\ a < w.base + w.size /\ Add(a, n) <= w.base + w.size
  BY <1>2 DEF InWindow
<1>6. a + n < Word * Word
  BY <1>1, <1>3, <1>4, <1>5
<1>7. Add(a, n) = a + n
  BY <1>4, <1>6, SumIs DEF Add
<1>8. QED
  BY <1>2, <1>3, <1>5, <1>7

LEMMA DmaDataInv == ASSUME Pm4Inv, DmaData PROVE Pm4Inv'
<1> DEFINE n == Arg(5).val
           from == Arg(1).val + Arg(2).val * Word
           to == Arg(3).val + Arg(4).val * Word
<1>1. /\ Running /\ Fits /\ Hdr.type = 3 /\ Hdr.count >= 6 /\ Uses(7) /\ Skip /\ Fixed
      /\ wrote'.regs = {}
      /\ \/ /\ n > 0
            /\ \E s \in Resolve(from, n), d \in Resolve(to, n) :
                 Disjoint(s, d, n) /\ move' = [src |-> s, dst |-> d, len |-> n]
         \/ move' = NoMove
  BY DEF DmaData, Type3, Written
<1>2. Hdr.count \in Nat /\ 7 <= 1 + Hdr.count
  BY <1>1, Counted
<1>3. ~over'
  BY <1>1, <1>2, FitsIs, UsesAll
<1>4. Loaded' /\ CallsOk' /\ windows \in Windows /\ windows' = windows
  BY <1>1, Counted, SkipOk DEF Loaded, Fixed
<1>5. n \in Nat /\ from \in Nat /\ to \in Nat
  <2>1. \A k \in Nat : Arg(k).val \in Nat
    BY <1>1, Counted, FetchIs, ReadingIs
  <2>2. Arg(2).val * Word \in Nat /\ Arg(4).val * Word \in Nat
    BY <2>1, ProductIs, Pm4Assumption
  <2>3. QED
    BY <2>1, <2>2
<1> HIDE DEF n, from, to
<1>6. MovesOwned'
  <2>1. CASE move' = NoMove
    BY <2>1 DEF MovesOwned, NoMove
  <2>2. CASE /\ n > 0
             /\ \E s \in Resolve(from, n), d \in Resolve(to, n) :
                  Disjoint(s, d, n) /\ move' = [src |-> s, dst |-> d, len |-> n]
    <3>1. PICK s \in Resolve(from, n), d \in Resolve(to, n) :
            Disjoint(s, d, n) /\ move' = [src |-> s, dst |-> d, len |-> n]
      BY <2>2
    <3>2. s \in Nat /\ \E w \in windows : w.va <= s /\ s + n <= w.va + w.size
      BY <1>4, <1>5, Resolved
    <3>3. d \in Nat /\ \E w \in windows : w.va <= d /\ d + n <= w.va + w.size
      BY <1>4, <1>5, Resolved
    <3>4. s + n <= d \/ d + n <= s
      BY <1>5, <3>1, <3>2, <3>3 DEF Disjoint
    <3>5. move'.src = s /\ move'.dst = d /\ move'.len = n
      BY <3>1
    <3>6. QED
      BY <1>4, <3>2, <3>3, <3>4, <3>5 DEF MovesOwned
  <2>3. QED
    BY <1>1, <2>1, <2>2
<1>7. QED
  BY <1>1, <1>3, <1>4, <1>6 DEF Pm4Inv, StaysInside, ReadsInBounds, RegistersInBar

-----------------------------------------------------------------------------
(* Indirect buffers *)

LEMMA IndirectBufferInv == ASSUME Pm4Inv, IndirectBuffer PROVE Pm4Inv'
<1> DEFINE buf == Arg(0).val
           size == Arg(2).val
           called == Ahead(1 + Hdr.count)
           frame == Frame(buf, size, DepthLeft)
<1>1. /\ Running /\ Fits /\ Hdr.type = 3 /\ Hdr.count >= 3 /\ Uses(4) /\ Quiet /\ Fixed
  BY DEF IndirectBuffer, Type3
<1>2. \/ /\ SizeOk(size) /\ buf \in DOMAIN mem \ {0} /\ DepthLeft > 0
         /\ stack' = Append(called, frame)
      \/ stack' = called
  BY DEF IndirectBuffer
<1>3. Hdr.count \in Nat /\ 4 <= 1 + Hdr.count
  BY <1>1, Counted
<1>4. ~over'
  BY <1>1, <1>3, FitsIs, UsesAll
<1>5. called \in Seq(Calling) /\ \A k \in 1..Len(called) : CallOk(called[k])
  BY <1>1, Counted, FitsIs, Advanced
<1> HIDE DEF called
<1>6. CASE SizeOk(size) /\ buf \in DOMAIN mem \ {0} /\ DepthLeft > 0
           /\ stack' = Append(called, frame)
  <2>1. Top.depth \in Nat
    BY <1>1, Counted, TopIs DEF Calling
  <2>2. buf \in Nat /\ size \in Nat
    BY <1>1, Counted, FetchIs, ReadingIs
  <2>3. frame \in Calling /\ frame.buf = buf /\ frame.size = size /\ frame.i = 0
    BY <1>6, <2>1, <2>2 DEF Frame, Calling, DepthLeft
  <2> HIDE DEF frame
  <2>4. CallOk(frame)
    <3>1. Stream(mem[buf]) /\ MaxIb <= Len(mem[buf].code)
      BY <1>1, <1>6, Counted DEF Loaded
    <3>2. QED
      BY <1>6, <2>2, <2>3, <3>1, Pm4Assumption DEF CallOk, SizeOk, Stream
  <2>5. stack' \in Seq(Calling) /\ \A k \in 1..Len(stack') : CallOk(stack'[k])
    BY <1>5, <1>6, <2>3, <2>4
  <2>6. QED
    BY <1>1, <1>4, <2>5, Counted, Unloaded, StillInv DEF CallsOk, CallOk, Fixed
<1>7. CASE stack' = called
  BY <1>1, <1>4, <1>5, <1>7, Counted, Unloaded, StillInv DEF CallsOk, CallOk, Fixed
<1>8. QED
  BY <1>2, <1>6, <1>7

LEMMA Pm4InvNext == ASSUME Pm4Inv, [Pm4Next]_pm4Vars PROVE Pm4Inv'
<1>1. CASE Pm4Next
  BY <1>1, DoneInv, Type0Inv, OtherTypeInv, NopPacketInv, TooSmallInv, IgnoreInv, WriteDataInv,
     SetRegInv, DispatchInv, EndOfPipeInv, DmaDataInv, IndirectBufferInv DEF Pm4Next
<1>2. CASE UNCHANGED pm4Vars
  BY <1>2 DEF pm4Vars, Pm4Inv, Loaded, CallsOk, CallOk, StaysInside, ReadsInBounds,
     RegistersInBar, DispatchFits, MovesOwned
<1>3. QED
  BY <1>1, <1>2

LEMMA Pm4Always == Pm4Spec => []Pm4Inv
BY Pm4InitInv, Pm4InvNext, PTL DEF Pm4Spec

\* The software executor uses no dword behind the end of the stream or of the
\* indirect buffer it was given and writes no register outside of what is mapped
\* of BAR5, for any streams, any indirect buffers, any nesting of them and any
\* size INIT_HARDWARE is given: it looks at CommandCount before it uses a
\* packet's operands, and DreamV3SwRegRangeValid computes in 64 bits.  What is
\* left are the fixed registers of a DISPATCH_DIRECT, and only in a mapping
\* too small for them.
THEOREM ExecutorStaysInside == Pm4Spec => []StaysInside
<1>1. Pm4Inv => StaysInside
  BY DEF Pm4Inv
<1>2. QED
  BY <1>1, Pm4Always, PTL

\* A DMA_DATA copies between memory the driver owns, all of it, and never onto
\* itself, whatever 64-bit addresses and length the packet names, as long as
\* no such memory lies within a move of the end of the addresses.
THEOREM OnlyOwnedMoved == Pm4Spec => []MovesOwned
<1>1. Pm4Inv => MovesOwned
  BY DEF Pm4Inv
<1>2. QED
  BY <1>1, Pm4Always, PTL

\* The executor takes every packet of a stream for one, and nothing else, at
\* every level: a nested call, which may end anywhere, leaves the place of its
\* caller alone.
THEOREM OnlyPacketsRead == Pm4Spec => []NothingMisread
<1>1. Pm4Inv => NothingMisread
  BY FetchIs DEF Pm4Inv, NothingMisread
<1>2. QED
  BY <1>1, Pm4Always, PTL

-----------------------------------------------------------------------------
(* How far the calls have to go                                            *)

\* What is left of the k-th call of s, and that it has to return; 0 if there is
\* none.
Left(s, k) ==
  IF k \in 1..Len(s) THEN 1 + (IF s[k].i < s[k].size THEN s[k].size - s[k].i ELSE 0) ELSE 0

\* The numbers Left(stack, 1), ..., Left(stack, MaxDepth) become smaller in
\* lexicographic order.
CountsDown ==
  \E k \in 1..MaxDepth : /\ Left(stack', k) < Left(stack, k)
                         /\ \A j \in 1..k - 1 : Left(stack', j) = Left(stack, j)

\* A nested call has one level less than its caller, and never none.
DepthCounted ==
  \A k \in 1..Len(stack) : stack[k].depth = MaxDepth + 1 - k /\ stack[k].depth > 0

DepthBounded == Len(stack) <= MaxDepth

\* The call goes on behind a packet or a part of one.
Further(s) ==
  /\ Running /\ Len(s) = Len(stack)
  /\ \A j \in 1..Len(stack) - 1 : s[j] = stack[j]
  /\ LET f == s[Len(stack)]
     IN f.i \in Nat /\ f.i > Top.i /\ f.size = Top.size /\ f.depth = Top.depth

\* It ends,
Ended(s) ==
  /\ stack # <<>> /\ Len(s) = Len(stack) - 1
  /\ \A j \in 1..Len(s) : s[j] = stack[j]

\* or makes a nested one.
Nests(s) ==
  \E called, f : /\ Further(called) /\ s = Append(called, f)
                 /\ called \in Seq(Calling) /\ f \in Calling
                 /\ f.depth = Top.depth - 1 /\ f.depth > 0

LEMMA AheadIs ==
  ASSUME Pm4Inv, Running, NEW n \in Nat, n > 0, NEW s, s = Ahead(n)
  PROVE  Further(s)
<1> DEFINE f == [Top EXCEPT !.i = Top.i + n]
<1>1. /\ stack \in Seq(Calling) /\ Len(stack) \in Nat \ {0} /\ Top \in Calling
      /\ Top = stack[Len(stack)]
  BY TopIs DEF Pm4Inv, CallsOk, Running
<1>2. f \in Calling /\ f.i = Top.i + n /\ f.size = Top.size /\ f.depth = Top.depth
  <2>1. f \in Calling /\ f.i = Top.i + n /\ f.size = Top.size
    BY <1>1, FurtherIs
  <2>2. f.depth = Top.depth
    BY <1>1 DEF Calling
  <2>3. QED
    BY <2>1, <2>2
<1>3. s = [stack EXCEPT ![Len(stack)] = f]
  <2>1. s = [stack EXCEPT ![Len(stack)] = [stack[Len(stack)] EXCEPT !.i = stack[Len(stack)].i + n]]
    BY DEF Ahead
  <2>2. QED
    BY <1>1, <2>1, Zenon
<1>4. Top.i \in Nat
  BY <1>1 DEF Calling
<1> HIDE DEF f
<1>5. /\ Len(s) = Len(stack) /\ s[Len(stack)] = f
      /\ \A j \in 1..Len(stack) - 1 : s[j] = stack[j]
  BY <1>1, <1>2, <1>3
<1>6. f.i \in Nat /\ f.i > Top.i
  BY <1>2, <1>4
<1>7. QED
  BY <1>2, <1>5, <1>6, Zenon DEF Further

LEMMA ReturnIs ==
  ASSUME Pm4Inv, stack # <<>>, NEW r, Return(r)
  PROVE  Ended(stack')
<1>1. stack \in Seq(Calling) /\ Len(stack) \in Nat \ {0}
  BY TopIs DEF Pm4Inv, CallsOk
<1>2. CASE Len(stack) = 1
  <2>1. stack' = <<>>
    BY <1>2 DEF Return
  <2>2. QED
    BY <1>2, <2>1 DEF Ended
<1>3. CASE Len(stack) # 1
  <2>1. stack' = SubSeq(stack, 1, Len(stack) - 1) /\ Len(stack) - 1 \in 0..Len(stack)
    BY <1>1, <1>3 DEF Return
  <2>2. Len(stack') = Len(stack) - 1 /\ \A j \in 1..Len(stack) - 1 : stack'[j] = stack[j]
    BY <1>1, <2>1, ShorterIs
  <2>3. QED
    BY <2>2 DEF Ended
<1>4. QED
  BY <1>2, <1>3

\* Every packet moves the call it is in, and only that one.
LEMMA StackMoves ==
  ASSUME Pm4Inv, Pm4Next
  PROVE  Further(stack') \/ Ended(stack') \/ Nests(stack')
<1>1. CASE Done \/ TooSmall
  BY <1>1, ReturnIs DEF Done, TooSmall, Running
<1>2. CASE Type0
  <2> DEFINE left == Top.size - Top.i - 1
             n == IF Hdr.count < left THEN Hdr.count ELSE left
  <2>1. Running /\ stack # <<>> /\ (Advance(1 + n) \/ \E r : Return(r))
    BY <1>2, Counted DEF Type0, WriteRegisters
  <2>2. 1 + n \in Nat /\ 1 + n > 0
    BY <2>1, Counted
  <2> HIDE DEF n
  <2>3. QED
    BY <2>1, <2>2, AheadIs, ReturnIs DEF Advance
<1>3. CASE OtherType
  BY <1>3, AheadIs DEF OtherType, Advance
<1>4. CASE NopPacket \/ Ignore \/ Dispatch \/ EndOfPipe \/ DmaData
  <2>1. Running /\ Advance(1 + Hdr.count)
    BY <1>4 DEF NopPacket, Ignore, Dispatch, EndOfPipe, DmaData, Short, Type3, Skip
  <2>2. 1 + Hdr.count \in Nat /\ 1 + Hdr.count > 0
    BY <2>1, Counted
  <2>3. QED
    BY <2>1, <2>2, AheadIs DEF Advance
<1>5. CASE WriteData \/ SetReg
  <2>1. Running /\ (Advance(1 + Hdr.count) \/ \E r : Return(r))
    BY <1>5 DEF WriteData, SetReg, WriteRegisters, Type3, Skip
  <2>2. stack # <<>> /\ 1 + Hdr.count \in Nat /\ 1 + Hdr.count > 0
    BY <2>1, Counted
  <2>3. QED
    BY <2>1, <2>2, AheadIs, ReturnIs DEF Advance
<1>6. CASE IndirectBuffer
  <2> DEFINE buf == Arg(0).val
             size == Arg(2).val
             called == Ahead(1 + Hdr.count)
             frame == Frame(buf, size, DepthLeft)
  <2>1. Running /\ Fits /\ Hdr.type = 3
    BY <1>6 DEF IndirectBuffer, Type3
  <2>2. \/ DepthLeft > 0 /\ stack' = Append(called, frame)
        \/ stack' = called
    BY <1>6 DEF IndirectBuffer
  <2>3. 1 + Hdr.count \in Nat /\ 1 + Hdr.count > 0
    BY <2>1, Counted
  <2>4. called \in Seq(Calling)
    BY <2>1, Counted, FitsIs, Advanced
  <2>5. Further(called)
    BY <2>1, <2>3, AheadIs
  <2>6. Top.depth \in Nat /\ buf \in Nat /\ size \in Nat
    BY <2>1, Counted, TopIs, FetchIs, ReadingIs DEF Calling
  <2>7. CASE DepthLeft > 0 /\ stack' = Append(called, frame)
    <3> HIDE DEF called, buf, size
    <3>1. frame \in Calling /\ frame.depth = Top.depth - 1 /\ frame.depth > 0
      BY <2>6, <2>7 DEF Frame, Calling, DepthLeft
    <3> HIDE DEF frame
    <3>2. QED
      BY <2>4, <2>5, <2>7, <3>1 DEF Nests
  <2>8. QED
    BY <2>2, <2>5, <2>7
<1>7. QED
  BY <1>1, <1>2, <1>3, <1>4, <1>5, <1>6 DEF Pm4Next

LEMMA DepthKept ==
  ASSUME Pm4Inv, DepthCounted, Pm4Next
  PROVE  DepthCounted'
<1>1. stack \in Seq(Calling) /\ Len(stack) \in Nat
  BY DEF Pm4Inv, CallsOk
<1>2. ASSUME NEW s, Further(s)
      PROVE  /\ stack # <<>> /\ Len(s) = Len(stack)
             /\ \A k \in 1..Len(s) : s[k].depth = stack[k].depth
  <2>1. stack # <<>> /\ Len(s) = Len(stack) /\ s[Len(stack)].depth = stack[Len(stack)].depth
    BY <1>2 DEF Further, Running, Top
  <2>2. \A k \in 1..Len(stack) - 1 : s[k].depth = stack[k].depth
    BY <1>2 DEF Further
  <2>3. QED
    BY <1>1, <2>1, <2>2
<1>3. CASE Further(stack')
  BY <1>2, <1>3 DEF DepthCounted
<1>4. CASE Ended(stack')
  <2>1. Len(stack') = Len(stack) - 1 /\ \A k \in 1..Len(stack') : stack'[k] = stack[k]
    BY <1>4 DEF Ended
  <2>2. \A k \in 1..Len(stack') : k \in 1..Len(stack)
    BY <1>1, <2>1
  <2>3. QED
    BY <2>1, <2>2 DEF DepthCounted
<1>5. CASE Nests(stack')
  <2>1. PICK called, f :
          /\ Further(called) /\ stack' = Append(called, f) /\ called \in Seq(Calling)
          /\ f \in Calling /\ f.depth = Top.depth - 1 /\ f.depth > 0
    BY <1>5 DEF Nests
  <2>2. /\ stack # <<>> /\ Len(called) = Len(stack)
        /\ \A k \in 1..Len(called) : called[k].depth = stack[k].depth
    BY <1>2, <2>1
  <2>3. Top.depth = MaxDepth + 1 - Len(stack)
    BY <1>1, <2>2 DEF DepthCounted, Top
  <2>4. Len(stack') = Len(stack) + 1 /\ stack'[Len(stack) + 1] = f
        /\ \A k \in 1..Len(stack) : stack'[k] = called[k]
    BY <2>1, <2>2
  <2>5. f.depth = MaxDepth + 1 - (Len(stack) + 1)
    BY <1>1, <2>1, <2>3, Pm4Assumption
  <2>6. QED
    BY <1>1, <2>1, <2>2, <2>4, <2>5 DEF DepthCounted
<1>6. QED
  BY <1>3, <1>4, <1>5, StackMoves

LEMMA DepthIs ==
  ASSUME Pm4Inv, DepthCounted
  PROVE  DepthBounded /\ Len(stack) \in Nat
<1>1. Len(stack) \in Nat /\ MaxDepth \in Nat
  BY Pm4Assumption DEF Pm4Inv, CallsOk
<1>2. CASE Len(stack) = 0
  BY <1>1, <1>2 DEF DepthBounded
<1>3. CASE Len(stack) # 0
  <2>1. MaxDepth + 1 - Len(stack) > 0
    BY <1>1, <1>3 DEF DepthCounted
  <2>2. QED
    BY <1>1, <2>1 DEF DepthBounded
<1>4. QED
  BY <1>1, <1>2, <1>3

LEMMA StepCounts ==
  ASSUME Pm4Inv, DepthCounted, Pm4Next
  PROVE  CountsDown
<1> DEFINE top == Len(stack)
<1>1. stack \in Seq(Calling) /\ top \in Nat /\ top <= MaxDepth /\ MaxDepth \in Nat
  BY DepthIs, Pm4Assumption DEF DepthBounded, Pm4Inv, CallsOk
<1>2. ASSUME stack # <<>>
      PROVE  /\ top \in 1..MaxDepth /\ Top.i \in Nat /\ Top.size \in Nat
             /\ Left(stack, top) = 1 + (IF Top.i < Top.size THEN Top.size - Top.i ELSE 0)
  <2>1. top # 0 /\ Top = stack[top] /\ Top \in Calling
    BY <1>1, <1>2, TopIs DEF Pm4Inv
  <2>2. QED
    BY <1>1, <2>1 DEF Left, Calling
<1>3. ASSUME NEW s, stack' = s, stack # <<>>, Len(s) >= top, Len(s) \in Nat, Running,
             \A j \in 1..top - 1 : s[j] = stack[j], s[top].i \in Nat, s[top].i > Top.i,
             s[top].size = Top.size
      PROVE  CountsDown
  <2>1. Left(stack', top) = 1 + (IF s[top].i < Top.size THEN Top.size - s[top].i ELSE 0)
    BY <1>1, <1>2, <1>3 DEF Left
  <2>2. Left(stack', top) < Left(stack, top)
    BY <1>2, <1>3, <2>1 DEF Running
  <2>3. \A j \in 1..top - 1 : Left(stack', j) = Left(stack, j)
    BY <1>1, <1>3 DEF Left
  <2>4. QED
    BY <1>2, <1>3, <2>2, <2>3 DEF CountsDown
<1>4. CASE Further(stack')
  BY <1>1, <1>3, <1>4 DEF Further, Running
<1>5. CASE Nests(stack')
  <2>1. PICK called, f : /\ Further(called) /\ stack' = Append(called, f)
                         /\ called \in Seq(Calling) /\ f \in Calling
    BY <1>5 DEF Nests
  <2>2. Len(called) = top /\ Len(stack') = top + 1 /\ \A j \in 1..top : stack'[j] = called[j]
    BY <2>1 DEF Further
  <2>3. stack # <<>> /\ Running /\ top \in 1..top
    BY <1>1, <1>2, <2>1 DEF Further, Running
  <2>4. /\ stack'[top].i \in Nat /\ stack'[top].i > Top.i /\ stack'[top].size = Top.size
        /\ \A j \in 1..top - 1 : stack'[j] = stack[j]
    BY <1>1, <2>1, <2>2, <2>3 DEF Further
  <2>5. QED
    BY <1>1, <1>3, <2>2, <2>3, <2>4
<1>6. CASE Ended(stack')
  <2>1. stack # <<>> /\ Len(stack') = top - 1 /\ \A j \in 1..top - 1 : stack'[j] = stack[j]
    BY <1>6 DEF Ended
  <2>2. Left(stack', top) = 0
    BY <1>1, <2>1 DEF Left
  <2>3. 0 < Left(stack, top)
    BY <1>2, <2>1
  <2>4. \A j \in 1..top - 1 : Left(stack', j) = Left(stack, j)
    BY <1>1, <2>1 DEF Left
  <2>5. QED
    BY <1>2, <2>1, <2>2, <2>3, <2>4 DEF CountsDown
<1>7. QED
  BY <1>4, <1>5, <1>6, StackMoves

LEMMA DepthAlways == Pm4Spec => [](Pm4Inv /\ DepthCounted)
<1>1. Pm4Init => DepthCounted
  BY Pm4Assumption DEF Pm4Init, DepthCounted, Frame
<1>2. Pm4Inv /\ DepthCounted /\ [Pm4Next]_pm4Vars => DepthCounted'
  BY DepthKept DEF pm4Vars, DepthCounted
<1>3. QED
  BY <1>1, <1>2, Pm4Always, PTL DEF Pm4Spec

\* However indirect buffers name each other or themselves, at most MaxDepth calls
\* of DreamV3SwPm4Process are on the kernel stack: Depth counts them.
THEOREM StackBounded == Pm4Spec => []DepthBounded
<1>1. Pm4Inv /\ DepthCounted => DepthBounded
  BY DepthIs
<1>2. QED
  BY <1>1, DepthAlways, PTL

\* Every step of the executor brings its end nearer: it lowers, in lexicographic
\* order, the MaxDepth numbers that say what each call has left.  No packet, of
\* length 0 or not, is taken twice by one call, and none changes its caller's.
THEOREM ExecutorCountsDown == Pm4Spec => [][CountsDown]_pm4Vars
<1>1. Pm4Inv /\ DepthCounted /\ [Pm4Next]_pm4Vars => [CountsDown]_pm4Vars
  BY StepCounts
<1>2. QED
  BY <1>1, DepthAlways, PTL DEF Pm4Spec
=============================================================================
