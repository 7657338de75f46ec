--------------------------- MODULE VulkanIcd_proof ---------------------------
(***************************************************************************)
(* Proofs about the memory objects, the fence numbers and the batches of   *)
(* the Vulkan driver, for any number of threads, addresses, table entries  *)
(* and submits.                                                            *)
(***************************************************************************)
EXTENDS VulkanIcd, TLAPS

----------------------------------------------------------------------------
(* The inductive invariant.                                                *)

Entry == 1..Slots

\* None when a thread is in no vkAllocateMemory.
AllocType == alloc \in [Thread -> {None} \cup [va : Va, idx : 0..Slots, stored : BOOLEAN]]

Type ==
  /\ num \in 0..Slots /\ live \subseteq Va
  /\ table \in [Entry -> Va \cup {None}]
  /\ objs \subseteq [handle : Entry, va : Va, late : BOOLEAN]
  /\ past \in [raced : BOOLEAN, freed : BOOLEAN]
  /\ AllocType
  /\ \A t \in Memory!Allocating :
       IF alloc[t].stored THEN num > 0 ELSE alloc[t].idx < Slots

\* One allocation at a time.
Single == \A t, u \in Memory!Allocating : t = u

\* The entries in use are among those counted, name allocated memory, and no
\* two of them the same.
Entries ==
  /\ \A i \in Entry : table[i] # None => i <= num /\ table[i] \in live
  /\ \A i, j \in Entry : table[i] # None /\ table[i] = table[j] => i = j

\* Objects that were in time have entries of their own; the others share the
\* last, which is used up when one of them is freed.
Objects ==
  /\ \A o \in objs : ~o.late =>
       /\ o.handle <= num
       /\ table[o.handle] = o.va \/ (o.handle = Slots /\ past.freed)
  /\ \A o, p \in objs : ~o.late /\ ~p.late /\ o.handle = p.handle => o = p
  /\ \A o \in objs : o.late => o.handle = Slots /\ num = Slots
  /\ past.freed => num = Slots /\ table[Slots] = None

\* The memory of a call is in the entry it has counted, once it is done with
\* the table, and in no other; nobody has a handle to that entry.
Calls ==
  \A t \in Memory!Allocating :
    LET a == alloc[t] IN
    /\ a.va \in live
    /\ IF a.stored /\ a.idx < Slots
       THEN /\ num = a.idx + 1 /\ table[num] = a.va /\ ~past.freed
            /\ \A o \in objs : ~o.late /\ o.handle < num
       ELSE a.idx = num /\ \A i \in Entry : table[i] # a.va

IInv == Type /\ (~past.raced => Single /\ Entries /\ Objects /\ Calls)

----------------------------------------------------------------------------
(* The steps of the memory objects.                                        *)

\* A call is not None.
LEMMA CallNotNone ==
  ASSUME NEW c \in [va : Va, idx : 0..Slots, stored : BOOLEAN]
  PROVE  c # None
<1>1. c \in [va : Va, idx : Nat, stored : BOOLEAN]
  BY SlotsAssumption
<1>2. QED
  BY <1>1, NoneAssumption

\* vkAllocateMemory up to the two reads of the counter.
LEMMA AllocateInv ==
  ASSUME IInv, NEW t \in Thread, Memory!AllocateMemory(t)
  PROVE  IInv'
<1> USE SlotsAssumption, NoneAssumption DEF Entry
<1>1. PICK va \in Va \ live :
        /\ live' = live \cup {va}
        /\ alloc' = [alloc EXCEPT ![t] = [va |-> va, idx |-> num, stored |-> num = Slots]]
  BY DEF Memory!AllocateMemory
<1>2. /\ UNCHANGED <<table, num, objs>> /\ t \notin Memory!Allocating
      /\ past' = [past EXCEPT !.raced = @ \/ Memory!Allocating # {}]
  BY DEF Memory!AllocateMemory
<1> DEFINE full == num = Slots
           new == [va |-> va, idx |-> num, stored |-> full]
<1>3. alloc' = [alloc EXCEPT ![t] = new]
  BY <1>1
<1>4. /\ new \in [va : Va, idx : 0..Slots, stored : BOOLEAN] /\ new # None
      /\ new.va = va /\ new.idx = num /\ new.stored = full
  <2>1. full \in BOOLEAN /\ num \in 0..Slots /\ va \in Va
    BY DEF IInv, Type
  <2> HIDE DEF full
  <2>2. /\ new \in [va : Va, idx : 0..Slots, stored : BOOLEAN]
        /\ new.va = va /\ new.idx = num /\ new.stored = full
    BY <2>1
  <2>3. QED
    BY <2>2, CallNotNone
<1>5. full <=> num = Slots
  OBVIOUS
<1> HIDE DEF new, full
<1>6. /\ alloc'[t] = new /\ \A u \in Thread \ {t} : alloc'[u] = alloc[u]
      /\ AllocType'
  BY <1>3, <1>4 DEF IInv, Type, AllocType
<1>7. Memory!Allocating' = Memory!Allocating \cup {t}
  BY <1>4, <1>6 DEF Memory!Allocating
<1>8. /\ past'.freed = past.freed
      /\ ~past'.raced => ~past.raced /\ Memory!Allocating = {}
      /\ past' \in [raced : BOOLEAN, freed : BOOLEAN]
  BY <1>2 DEF IInv, Type
<1>9. Type'
  <2>1. ASSUME NEW u \in Memory!Allocating'
        PROVE  IF alloc'[u].stored THEN num' > 0 ELSE alloc'[u].idx < Slots
    <3>1. CASE u = t
      <4>1. alloc'[u].idx = num /\ alloc'[u].stored = full
        BY <1>4, <1>6, <3>1
      <4>2. num' = num /\ num \in 0..Slots
        BY <1>2 DEF IInv, Type
      <4>3. QED
        BY <1>5, <4>1, <4>2
    <3>2. CASE u # t
      BY <1>2, <1>6, <1>7, <3>2 DEF IInv, Type, Memory!Allocating
    <3>3. QED
      BY <3>1, <3>2
  <2>2. QED
    BY <1>1, <1>2, <1>6, <1>8, <2>1 DEF IInv, Type
<1>10. ASSUME ~past'.raced
      PROVE  (Single /\ Entries /\ Objects /\ Calls)'
  <2>1. Entries /\ Objects /\ Memory!Allocating' = {t}
    BY <1>7, <1>8, <1>10 DEF IInv
  <2>2. Entries' /\ \A i \in Entry : table'[i] # va
    BY <1>1, <1>2, <2>1 DEF Entries
  <2>3. Objects'
    BY <1>2, <1>8, <2>1 DEF Objects
  <2>4. Calls'
    <3>1. /\ alloc'[t] = new /\ va \in live' /\ num' = num /\ num \in 0..Slots
          /\ new.stored => ~(new.idx < Slots)
      BY <1>1, <1>2, <1>4, <1>6, <1>5 DEF IInv, Type
    <3>2. QED
      BY <1>4, <2>1, <2>2, <3>1 DEF Calls
  <2>5. QED
    BY <2>1, <2>2, <2>3, <2>4 DEF Single
<1>11. QED
  BY <1>9, <1>10 DEF IInv

\* The entry is filled and the counter written back.
LEMMA StoreInv ==
  ASSUME IInv, NEW t \in Thread, Memory!Store(t)
  PROVE  IInv'
<1> USE SlotsAssumption, NoneAssumption DEF Entry
<1> DEFINE a == alloc[t]
<1>1. /\ t \in Memory!Allocating /\ ~a.stored
      /\ num' = a.idx + 1 /\ table' = [table EXCEPT ![num'] = a.va]
      /\ alloc' = [alloc EXCEPT ![t].stored = TRUE]
      /\ UNCHANGED <<live, objs, past>>
  BY DEF Memory!Store
<1>2. a \in [va : Va, idx : 0..Slots, stored : BOOLEAN] /\ a.idx < Slots
  BY <1>1 DEF IInv, Type, AllocType, Memory!Allocating
<1> DEFINE new == [a EXCEPT !.stored = TRUE]
<1>3. /\ new \in [va : Va, idx : 0..Slots, stored : BOOLEAN]
      /\ new.va = a.va /\ new.idx = a.idx /\ new.stored /\ new # None
  <2>1. /\ new \in [va : Va, idx : 0..Slots, stored : BOOLEAN]
        /\ new.va = a.va /\ new.idx = a.idx /\ new.stored
    BY <1>2
  <2>2. QED
    BY <2>1, CallNotNone
<1> HIDE DEF new
<1>4. /\ alloc'[t] = new /\ \A u \in Thread \ {t} : alloc'[u] = alloc[u]
      /\ AllocType'
  <2>1. alloc' = [alloc EXCEPT ![t] = new]
    BY <1>1 DEF new
  <2>2. QED
    BY <1>3, <2>1 DEF IInv, Type, AllocType
<1>5. Memory!Allocating' = Memory!Allocating
  BY <1>1, <1>3, <1>4 DEF Memory!Allocating
<1>6. num' \in Entry /\ num' > 0
  BY <1>1, <1>2
<1>7. /\ table'[num'] = a.va /\ \A i \in Entry \ {num'} : table'[i] = table[i]
      /\ table' \in [Entry -> Va \cup {None}]
  BY <1>1, <1>2, <1>6 DEF IInv, Type
<1>8. Type'
  <2>1. ASSUME NEW u \in Memory!Allocating'
        PROVE  IF alloc'[u].stored THEN num' > 0 ELSE alloc'[u].idx < Slots
    <3>1. CASE u = t
      BY <1>3, <1>6, <1>4, <3>1
    <3>2. CASE u # t
      BY <1>5, <1>6, <1>4, <3>2 DEF IInv, Type, Memory!Allocating
    <3>3. QED
      BY <3>1, <3>2
  <2>2. UNCHANGED <<live, objs, past>> /\ num' \in 0..Slots
    BY <1>1, <1>6
  <2>3. \A u \in Memory!Allocating' :
           IF alloc'[u].stored THEN num' > 0 ELSE alloc'[u].idx < Slots
    BY <2>1
  <2>4. QED
    BY <1>4, <1>7, <2>2, <2>3 DEF IInv, Type
<1>9. ASSUME ~past'.raced
      PROVE  (Single /\ Entries /\ Objects /\ Calls)'
  <2>1. Single /\ Entries /\ Objects /\ Calls
    BY <1>1, <1>9 DEF IInv
  <2>2. /\ a.idx = num /\ a.va \in live /\ \A i \in Entry : table[i] # a.va
        /\ num' = num + 1
    BY <1>1, <1>2, <2>1 DEF Calls
  <2>3. table[num'] = None
    BY <1>6, <2>1, <2>2 DEF Entries, IInv, Type
  <2>4. Entries'
    <3>1. \A i \in Entry : table'[i] # None => i <= num' /\ table'[i] \in live'
      BY <1>1, <1>6, <1>7, <2>1, <2>2 DEF Entries, IInv, Type
    <3>2. \A i, j \in Entry : table'[i] # None /\ table'[i] = table'[j] => i = j
      BY <1>7, <2>1, <2>2 DEF Entries
    <3>3. QED
      BY <3>1, <3>2 DEF Entries
  <2>5. ~past.freed /\ \A o \in objs : ~o.late /\ o.handle <= num
    BY <1>2, <2>1, <2>2 DEF Objects
  <2>6. Objects'
    BY <1>1, <1>7, <2>1, <2>2, <2>5 DEF Objects, IInv, Type
  <2>7. Calls'
    <3>1. Memory!Allocating' = {t}
      BY <1>1, <1>5, <2>1 DEF Single
    <3>2. QED
      BY <1>1, <1>2, <1>3, <1>6, <1>7, <1>4, <2>2, <2>5, <3>1 DEF Calls, IInv, Type
  <2>8. QED
    BY <1>5, <2>1, <2>4, <2>6, <2>7 DEF Single
<1>10. QED
  BY <1>8, <1>9 DEF IInv

\* vkAllocateMemory returns a handle.
LEMMA ReturnInv ==
  ASSUME IInv, NEW t \in Thread, Memory!AllocateReturns(t)
  PROVE  IInv'
<1> USE SlotsAssumption, NoneAssumption DEF Entry
<1> DEFINE a == alloc[t]
           late == a.idx = Slots
<1>1. t \in Memory!Allocating /\ a.stored /\ UNCHANGED <<table, num, live, past>>
  BY DEF Memory!AllocateReturns
<1>2. alloc' = [alloc EXCEPT ![t] = None]
  BY DEF Memory!AllocateReturns
<1>3. PICK handle \in {num, IF late THEN a.idx ELSE a.idx + 1} :
        objs' = objs \cup {[handle |-> handle, va |-> a.va, late |-> late]}
  BY DEF Memory!AllocateReturns
<1>4. a \in [va : Va, idx : 0..Slots, stored : BOOLEAN] /\ num > 0
  BY <1>1 DEF IInv, Type, AllocType, Memory!Allocating
<1> DEFINE new == [handle |-> handle, va |-> a.va, late |-> late]
<1>5. /\ handle \in Entry /\ new \in [handle : Entry, va : Va, late : BOOLEAN]
      /\ new.handle = handle /\ new.va = a.va /\ new.late = late
  <2>1. handle \in Entry /\ late \in BOOLEAN /\ a.va \in Va
    BY <1>3, <1>4 DEF IInv, Type
  <2> HIDE DEF late
  <2>2. QED
    BY <2>1
<1>6. objs' = objs \cup {new}
  BY <1>3
<1> HIDE DEF new
<1>7. Memory!Allocating' = Memory!Allocating \ {t}
      /\ AllocType' /\ \A u \in Thread \ {t} : alloc'[u] = alloc[u]
  BY <1>2 DEF IInv, Type, AllocType, Memory!Allocating
<1>8. Type'
  BY <1>1, <1>6, <1>5, <1>7 DEF IInv, Type, Memory!Allocating
<1>9. ASSUME ~past'.raced
      PROVE  (Single /\ Entries /\ Objects /\ Calls)'
  <2>1. Single /\ Entries /\ Objects /\ Calls
    BY <1>1, <1>9 DEF IInv
  <2>2. Entries' /\ Memory!Allocating' = {}
    BY <1>1, <1>7, <2>1 DEF Entries, Single
  <2>3. handle = num
    BY <1>1, <1>3, <1>4, <2>1 DEF Calls
  <2>4. Objects'
    <3>1. CASE late
      <4>1. num = Slots
        BY <1>1, <1>4, <2>1, <3>1 DEF Calls
      <4>2. QED
        BY <1>1, <1>5, <1>6, <2>1, <2>3, <3>1, <4>1 DEF Objects
    <3>2. CASE ~late
      <4>1. /\ num \in Entry /\ table[num] = a.va /\ ~past.freed
            /\ \A o \in objs : ~o.late /\ o.handle < num
        BY <1>1, <1>4, <1>5, <2>1, <2>3, <3>2 DEF Calls
      <4>2. \A o \in objs : o.handle \in Nat /\ o.handle # num
        BY <4>1 DEF IInv, Type
      <4>3. new.handle = num /\ new.va = a.va /\ ~new.late /\ objs' = objs \cup {new}
        BY <1>5, <1>6, <2>3, <3>2
      <4>4. QED
        BY <1>1, <2>1, <4>1, <4>2, <4>3 DEF Objects
    <3>3. QED
      BY <3>1, <3>2
  <2>5. QED
    BY <2>2, <2>4 DEF Single, Calls
<1>10. QED
  BY <1>8, <1>9 DEF IInv

\* vkFreeMemory empties the entry of its handle.
LEMMA FreeInv ==
  ASSUME IInv, NEW o \in objs, Memory!FreeMemory(o)
  PROVE  IInv'
<1> USE SlotsAssumption, NoneAssumption DEF Entry
<1>1. /\ objs' = objs \ {o} /\ table' = [table EXCEPT ![o.handle] = None]
      /\ live' = live \ {table[o.handle]}
      /\ past' = [past EXCEPT !.freed = @ \/ o.late]
      /\ UNCHANGED <<num, alloc>>
  BY DEF Memory!FreeMemory
<1>2. o.handle \in Entry /\ o.late \in BOOLEAN
  BY DEF IInv, Type
<1>3. /\ table'[o.handle] = None
      /\ \A i \in Entry \ {o.handle} : table'[i] = table[i]
      /\ table' \in [Entry -> Va \cup {None}]
  BY <1>1, <1>2 DEF IInv, Type
<1>4. past'.raced = past.raced /\ past'.freed = (past.freed \/ o.late)
  BY <1>1, <1>2 DEF IInv, Type
<1>5. Memory!Allocating' = Memory!Allocating
  BY <1>1 DEF Memory!Allocating
<1>6. Type'
  BY <1>1, <1>2, <1>3, <1>5 DEF IInv, Type, AllocType
<1>7. ASSUME ~past'.raced
      PROVE  (Single /\ Entries /\ Objects /\ Calls)'
  <2>1. Single /\ Entries /\ Objects /\ Calls
    BY <1>4, <1>7 DEF IInv
  <2>2. Entries'
    BY <1>1, <1>2, <1>3, <2>1 DEF Entries
  <2>3. Objects'
    <3>1. ASSUME NEW p \in objs', ~p.late
          PROVE  /\ p.handle <= num'
                 /\ table'[p.handle] = p.va \/ (p.handle = Slots /\ past'.freed)
      <4>1. p.handle \in Entry /\ p \in objs /\ p # o
        BY <1>1 DEF IInv, Type
      <4>2. CASE p.handle = o.handle
        BY <1>1, <1>4, <2>1, <3>1, <4>1, <4>2 DEF Objects
      <4>3. CASE p.handle # o.handle
        BY <1>1, <1>3, <1>4, <2>1, <3>1, <4>1, <4>3 DEF Objects
      <4>4. QED
        BY <4>2, <4>3
    <3>2. past'.freed => num' = Slots /\ table'[Slots] = None
      BY <1>1, <1>2, <1>3, <1>4, <2>1 DEF Objects
    <3>3. QED
      BY <1>1, <2>1, <3>1, <3>2 DEF Objects
  <2>4. Calls'
    <3> SUFFICES ASSUME NEW t \in Memory!Allocating
                 PROVE  LET a == alloc[t] IN
                        /\ a.va \in live'
                        /\ IF a.stored /\ a.idx < Slots
                           THEN /\ num = a.idx + 1 /\ table'[num] = a.va /\ ~past'.freed
                                /\ \A p \in objs' : ~p.late /\ p.handle < num
                           ELSE a.idx = num /\ \A i \in Entry : table'[i] # a.va
      BY <1>1, <1>5 DEF Calls
    <3> DEFINE a == alloc[t]
    <3>1. a \in [va : Va, idx : 0..Slots, stored : BOOLEAN]
      BY DEF IInv, Type, AllocType, Memory!Allocating
    <3>2. CASE a.stored /\ a.idx < Slots
      <4>1. /\ num = a.idx + 1 /\ table[num] = a.va /\ ~past.freed /\ num \in Entry
            /\ \A p \in objs : ~p.late /\ p.handle < num
        BY <2>1, <3>1, <3>2 DEF Calls
      <4>2. o.handle # num /\ table[o.handle] # a.va
        BY <1>2, <2>1, <3>1, <4>1 DEF Entries
      <4>3. QED
        BY <1>1, <1>3, <1>4, <2>1, <3>2, <4>1, <4>2 DEF Calls
    <3>3. CASE ~(a.stored /\ a.idx < Slots)
      BY <1>1, <1>2, <1>3, <2>1, <3>1, <3>3 DEF Calls
    <3>4. QED
      BY <3>2, <3>3
  <2>5. QED
    BY <1>5, <2>1, <2>2, <2>3, <2>4 DEF Single
<1>8. QED
  BY <1>6, <1>7 DEF IInv

----------------------------------------------------------------------------

\* What submits and records leaves the memory objects alone.
LEMMA InvNext == IInv /\ [Next]_vars => IInv'
<1> SUFFICES ASSUME IInv, [Next]_vars PROVE IInv'
  OBVIOUS
<1>1. CASE UNCHANGED memory
  BY <1>1 DEF memory, IInv, Type, AllocType, Single, Entries, Objects, Calls, Memory!Allocating
<1>2. ASSUME NEW t \in Thread, Memory!MemoryCall(t) \/ Memory!MemoryStep(t)
      PROVE  IInv'
  BY <1>2, AllocateInv, StoreInv, ReturnInv, FreeInv DEF Memory!MemoryCall, Memory!MemoryStep
<1>3. QED
  BY <1>1, <1>2 DEF Next, vars

\* The handle of a memory object names the memory that vkAllocateMemory took
\* for it, whatever is allocated and freed beside it, as long as no two
\* allocations overlap; a full table costs the object in its last entry.
THEOREM HandlesNameOwn == Spec => []HandleNamesOwn
<1>1. Init => IInv
  BY SlotsAssumption, NoneAssumption
     DEF Init, Memory!MemoryInit, IInv, Type, AllocType, Entry, Single, Entries,
         Objects, Calls, Memory!Allocating
<1>2. IInv => HandleNamesOwn
  <2> SUFFICES ASSUME IInv, ~past.raced PROVE Memory!HandleNamesOwn
    BY DEF HandleNamesOwn, Memory!HandleNamesOwn
  <2>1. Entries /\ Objects
    BY DEF IInv
  <2>2. \A o \in objs : o.handle \in Entry /\ o.va \in Va
    BY DEF IInv, Type
  <2>3. \A o \in objs : ~o.late =>
          \/ table[o.handle] = o.va /\ o.va \in live
          \/ o.handle = Slots /\ past.freed
    BY <2>1, <2>2, NoneAssumption DEF Entries, Objects
  <2>4. QED
    BY <2>1, <2>3 DEF Entries, Objects, Entry, Memory!HandleNamesOwn
<1>3. QED
  BY <1>1, <1>2, InvNext, PTL DEF Spec

----------------------------------------------------------------------------
(* The fence numbers.                                                      *)

\* What a call has, whatever is in it.
Whole(c) == c = [pc |-> c.pc, subs |-> c.subs, s |-> c.s, base |-> c.base, i |-> c.i,
                 at |-> c.at, handle |-> c.handle, batch |-> c.batch, any |-> c.any,
                 excuse |-> c.excuse]

\* Which submit a call is at: past one that was sent if any was, and past the
\* last only to finish.
Placed(c) ==
  /\ c.pc \in {"idle", "open", "next", "gather", "nop", "done"}
  /\ c.s \in Nat /\ c.base \in Nat /\ c.any \in BOOLEAN /\ Len(c.subs) \in Nat
  /\ c.subs # <<>> => Len(c.subs) > 0
  /\ c.pc \in {"idle", "open"} => ~c.any
  /\ c.pc \in {"next", "gather"} => c.s \in 1..Len(c.subs) + 1 /\ (c.any => c.s > 1)
  /\ c.pc = "gather" => c.s <= Len(c.subs)
  /\ c.pc = "nop" => c.any

QueueType ==
  /\ fence \in Nat
  /\ mark \in [sent : Nat, made : Nat]
  /\ order \in [fresh : BOOLEAN, crossed : BOOLEAN]
  /\ DOMAIN device = Thread
  /\ call = [t \in Thread |-> call[t]]
  /\ \A t \in Thread : Whole(call[t]) /\ Placed(call[t])

\* The first device makes the counter 1, so a fence always has a number.
Begun == \A t \in Thread : device[t] # None \/ ~Idle(t) => fence > 0

\* A number no submit of c has sent and none before it.
Unsent(c) == c.base + (IF c.pc = "nop" THEN 1 ELSE IF c.any THEN c.s - 1 ELSE 0)

\* Nobody else has written to the counter since a call read it.
Ascending ==
  /\ order.fresh
  /\ \A t, u \in Counting : t = u
  /\ mark.made <= fence
  /\ Counting = {} => mark.sent < fence \/ mark.sent = 0
  /\ \A t \in Counting : call[t].base = fence /\ mark.sent < Unsent(call[t])

QInv == QueueType /\ Begun /\ (~order.crossed => Ascending)

\* What a step makes of a call: all that the numbers depend on.
Keyed(c, pc, s, base, any, subs) ==
  Whole(c) /\ c.pc = pc /\ c.s = s /\ c.base = base /\ c.any = any /\ c.subs = subs

LEMMA Sets ==
  ASSUME NEW c, NEW pc, NEW s, NEW base, NEW any, NEW subs, Keyed(c, pc, s, base, any, subs), NEW x
  PROVE  /\ Keyed([c EXCEPT !.pc = x], x, s, base, any, subs)
         /\ Keyed([c EXCEPT !.s = x], pc, x, base, any, subs)
         /\ Keyed([c EXCEPT !.base = x], pc, s, x, any, subs)
         /\ Keyed([c EXCEPT !.any = x], pc, s, base, x, subs)
         /\ Keyed([c EXCEPT !.subs = x], pc, s, base, any, x)
         /\ Keyed([c EXCEPT !.i = x], pc, s, base, any, subs)
         /\ Keyed([c EXCEPT !.at = x], pc, s, base, any, subs)
         /\ Keyed([c EXCEPT !.handle = x], pc, s, base, any, subs)
         /\ Keyed([c EXCEPT !.batch = x], pc, s, base, any, subs)
         /\ Keyed([c EXCEPT !.excuse = x], pc, s, base, any, subs)
<1>1. Keyed([c EXCEPT !.pc = x], x, s, base, any, subs)
  BY DEF Keyed, Whole
<1>2. Keyed([c EXCEPT !.s = x], pc, x, base, any, subs)
  BY DEF Keyed, Whole
<1>3. Keyed([c EXCEPT !.base = x], pc, s, x, any, subs)
  BY DEF Keyed, Whole
<1>4. Keyed([c EXCEPT !.any = x], pc, s, base, x, subs)
  BY DEF Keyed, Whole
<1>5. Keyed([c EXCEPT !.i = x], pc, s, base, any, subs)
  BY DEF Keyed, Whole
<1>6. Keyed([c EXCEPT !.at = x], pc, s, base, any, subs)
  BY DEF Keyed, Whole
<1>7. Keyed([c EXCEPT !.handle = x], pc, s, base, any, subs)
  BY DEF Keyed, Whole
<1>8. Keyed([c EXCEPT !.batch = x], pc, s, base, any, subs)
  BY DEF Keyed, Whole
<1>9. Keyed([c EXCEPT !.excuse = x], pc, s, base, any, subs)
  BY DEF Keyed, Whole
<1>10. Keyed([c EXCEPT !.subs = x], pc, s, base, any, x)
  BY DEF Keyed, Whole
<1>11. QED
  BY <1>1, <1>2, <1>3, <1>4, <1>5, <1>6, <1>7, <1>8, <1>9, <1>10

\* Several at once.
LEMMA SetsMore ==
  ASSUME NEW c, NEW pc, NEW s, NEW base, NEW any, NEW subs, Keyed(c, pc, s, base, any, subs),
         NEW x, NEW y, NEW z
  PROVE  /\ Keyed([c EXCEPT !.pc = x, !.s = y], x, y, base, any, subs)
         /\ Keyed([c EXCEPT !.pc = x, !.s = y, !.excuse = z], x, y, base, any, subs)
         /\ Keyed([c EXCEPT !.pc = x, !.any = y], x, s, base, y, subs)
         /\ Keyed([c EXCEPT !.pc = x, !.excuse = y], x, s, base, any, subs)
         /\ Keyed([c EXCEPT !.i = x, !.at = y], pc, s, base, any, subs)
         /\ Keyed([c EXCEPT !.batch = x, !.at = y], pc, s, base, any, subs)
<1>1. Keyed([c EXCEPT !.pc = x, !.s = y], x, y, base, any, subs)
  <2>1. [c EXCEPT !.pc = x, !.s = y] = [[c EXCEPT !.pc = x] EXCEPT !.s = y]
    BY Zenon
  <2>2. Keyed([c EXCEPT !.pc = x], x, s, base, any, subs)
    BY Sets
  <2> DEFINE d == [c EXCEPT !.pc = x]
  <2> HIDE DEF d
  <2>3. Keyed([d EXCEPT !.s = y], x, y, base, any, subs)
    BY <2>2, Sets DEF d
  <2>4. QED
    BY <2>1, <2>3 DEF d
<1>2. Keyed([c EXCEPT !.pc = x, !.s = y, !.excuse = z], x, y, base, any, subs)
  <2>1. [c EXCEPT !.pc = x, !.s = y, !.excuse = z]
          = [[c EXCEPT !.pc = x, !.s = y] EXCEPT !.excuse = z]
    BY Zenon
  <2>2. QED
    BY <1>1, <2>1, Sets, Zenon
<1>3. Keyed([c EXCEPT !.pc = x, !.any = y], x, s, base, y, subs)
  <2>1. [c EXCEPT !.pc = x, !.any = y] = [[c EXCEPT !.pc = x] EXCEPT !.any = y]
    BY Zenon
  <2>2. Keyed([c EXCEPT !.pc = x], x, s, base, any, subs)
    BY Sets
  <2>3. QED
    BY <2>1, <2>2, Sets, Zenon
<1>4. Keyed([c EXCEPT !.pc = x, !.excuse = y], x, s, base, any, subs)
  <2>1. [c EXCEPT !.pc = x, !.excuse = y] = [[c EXCEPT !.pc = x] EXCEPT !.excuse = y]
    BY Zenon
  <2>2. Keyed([c EXCEPT !.pc = x], x, s, base, any, subs)
    BY Sets
  <2>3. QED
    BY <2>1, <2>2, Sets, Zenon
<1>5. Keyed([c EXCEPT !.i = x, !.at = y], pc, s, base, any, subs)
  <2>1. [c EXCEPT !.i = x, !.at = y] = [[c EXCEPT !.i = x] EXCEPT !.at = y]
    BY Zenon
  <2>2. Keyed([c EXCEPT !.i = x], pc, s, base, any, subs)
    BY Sets
  <2>3. QED
    BY <2>1, <2>2, Sets, Zenon
<1>6. Keyed([c EXCEPT !.batch = x, !.at = y], pc, s, base, any, subs)
  <2>1. [c EXCEPT !.batch = x, !.at = y] = [[c EXCEPT !.batch = x] EXCEPT !.at = y]
    BY Zenon
  <2>2. Keyed([c EXCEPT !.batch = x], pc, s, base, any, subs)
    BY Sets
  <2>3. QED
    BY <2>1, <2>2, Sets, Zenon
<1>7. QED
  BY <1>1, <1>2, <1>3, <1>4, <1>5, <1>6

LEMMA StartedIs ==
  ASSUME NEW d, NEW pc, NEW s, NEW base, NEW any, NEW subs, Keyed(d, pc, s, base, any, subs)
  PROVE  Keyed(Started(d), "next", 1, fence, any, subs)
<1>1. Started(d) = [[[d EXCEPT !.pc = "next"] EXCEPT !.base = fence] EXCEPT !.s = 1]
  BY Zenon DEF Started
<1>2. Keyed([d EXCEPT !.pc = "next"], "next", s, base, any, subs)
  BY Sets
<1>3. Keyed([[d EXCEPT !.pc = "next"] EXCEPT !.base = fence], "next", s, fence, any, subs)
  BY <1>2, Sets, Zenon
<1>4. Keyed([[[d EXCEPT !.pc = "next"] EXCEPT !.base = fence] EXCEPT !.s = 1],
            "next", 1, fence, any, subs)
  BY <1>3, Sets, Zenon
<1>5. QED
  BY <1>1, <1>4, Zenon

LEMMA CallIs ==
  ASSUME QInv, NEW t \in Thread
  PROVE  /\ Keyed(call[t], call[t].pc, call[t].s, call[t].base, call[t].any, call[t].subs)
         /\ Placed(call[t])
BY Zenon DEF QInv, QueueType, Keyed

LEMMA NoCallIs == Keyed(NoCall, "idle", 0, 0, FALSE, <<>>) /\ Placed(NoCall)
BY DEF Keyed, Whole, Placed, NoCall

Types == /\ fence \in Nat
         /\ mark \in [sent : Nat, made : Nat]
         /\ order \in [fresh : BOOLEAN, crossed : BOOLEAN]

\* One thread's call moves.
LEMMA CallMoves ==
  ASSUME QueueType, NEW t \in Thread, NEW c, Whole(c), Placed(c),
         call' = [call EXCEPT ![t] = c], DOMAIN device' = Thread, Types'
  PROVE  /\ QueueType'
         /\ call'[t] = c /\ \A u \in Thread \ {t} : call'[u] = call[u]
<1>1. call' = [u \in Thread |-> IF u = t THEN c ELSE call[u]]
  BY DEF QueueType
<1>2. call'[t] = c /\ \A u \in Thread \ {t} : call'[u] = call[u]
  BY <1>1
<1>3. call' = [u \in Thread |-> call'[u]]
  BY <1>1
<1>4. \A u \in Thread : Whole(call'[u]) /\ Placed(call'[u])
  BY <1>2, Zenon DEF QueueType
<1>5. QED
  BY <1>2, <1>3, <1>4 DEF QueueType, Types

Counts(c) == c.pc \in {"next", "gather", "nop"}

LEMMA CountingIs ==
  ASSUME NEW t \in Thread, NEW c, call'[t] = c, \A u \in Thread \ {t} : call'[u] = call[u]
  PROVE  /\ Counts(c) => Counting' = Counting \cup {t}
         /\ ~Counts(c) => Counting' = Counting \ {t}
         /\ t \in Counting <=> Counts(call[t])
BY DEF Counting, Counts

\* A call goes on with its submits: what it sends is higher than what was.
LEMMA GoesOn ==
  ASSUME QInv, NEW t \in Thread, NEW c, Whole(c), Placed(c),
         call' = [call EXCEPT ![t] = c], device' = device, fence' = fence, Types',
         Counts(call[t]), Counts(c), c.base = call[t].base,
         mark'.made = mark.made, order'.crossed = order.crossed,
         order.fresh /\ fence > 0 /\ call[t].base = fence /\ mark.sent < Unsent(call[t])
           => order'.fresh /\ mark'.sent < Unsent(c)
  PROVE  QInv'
<1>1. QueueType /\ Begun
  BY DEF QInv
<1>2. /\ QueueType' /\ call'[t] = c /\ \A u \in Thread \ {t} : call'[u] = call[u]
  BY <1>1, CallMoves DEF QueueType
<1>3. Counting' = Counting /\ t \in Counting
  BY <1>2, CountingIs
<1>4. Begun'
  BY <1>1, <1>2 DEF Begun, Idle, Counts
<1>5. ASSUME ~order'.crossed PROVE Ascending'
  <2>1. Ascending /\ fence > 0
    BY <1>1, <1>5 DEF QInv, Begun, Idle, Counts
  <2>2. Counting = {t} /\ call[t].base = fence /\ mark.sent < Unsent(call[t])
    BY <1>3, <2>1 DEF Ascending
  <2>3. order'.fresh /\ mark'.sent < Unsent(c)
    BY <2>1, <2>2 DEF Ascending
  <2>4. mark'.made <= fence'
    BY <2>1 DEF Ascending
  <2>5. \A u \in Counting' : call'[u].base = fence' /\ mark'.sent < Unsent(call'[u])
    BY <1>2, <1>3, <2>2, <2>3
  <2>6. QED
    BY <1>3, <2>2, <2>3, <2>4, <2>5 DEF Ascending
<1>6. QED
  BY <1>2, <1>4, <1>5 DEF QInv

\* A call begins to count.
LEMMA Starts ==
  ASSUME QInv, NEW t \in Thread, NEW d, Whole(d), Placed(d), ~d.any, fence > 0,
         call' = [call EXCEPT ![t] = Started(d)], ~Counts(call[t]),
         UNCHANGED <<device, fence, mark>>, Cross(t)
  PROVE  QInv'
<1> DEFINE c == Started(d)
<1>1. QueueType /\ Begun
  BY DEF QInv
<1>2. /\ c.pc = "next" /\ c.s = 1 /\ c.base = fence /\ ~c.any /\ c.subs = d.subs
      /\ Whole(c) /\ c.any = d.any
  <2>1. Keyed(d, d.pc, d.s, d.base, d.any, d.subs)
    BY DEF Keyed
  <2>2. Keyed(c, "next", 1, fence, d.any, d.subs)
    BY <2>1, StartedIs, Zenon
  <2> HIDE DEF c
  <2>3. QED
    BY <2>2 DEF Keyed
<1>3. Placed(c) /\ Counts(c) /\ Unsent(c) = fence
  <2>1. fence \in Nat /\ Len(d.subs) \in Nat /\ d.any \in BOOLEAN
        /\ (d.subs # <<>> => Len(d.subs) > 0)
    BY <1>1 DEF QueueType, Placed
  <2> HIDE DEF c
  <2>2. QED
    BY <1>2, <2>1 DEF Placed, Counts, Unsent
<1> HIDE DEF c
<1>4. order' = [order EXCEPT !.crossed = order.crossed \/ Counting \ {t} # {}]
  BY DEF Cross
<1>5. Types' /\ order'.fresh = order.fresh
      /\ (~order'.crossed => ~order.crossed /\ Counting \ {t} = {})
  BY <1>1, <1>4 DEF QueueType, Types
<1>6. call' = [call EXCEPT ![t] = c]
  BY DEF c
<1>7. QueueType' /\ call'[t] = c /\ \A u \in Thread \ {t} : call'[u] = call[u]
  BY <1>1, <1>2, <1>3, <1>5, <1>6, CallMoves DEF QueueType
<1>8. Counting' = Counting \cup {t} /\ t \notin Counting
  BY <1>3, <1>7, CountingIs
<1>9. Begun'
  BY <1>1, <1>7 DEF Begun, Idle
<1>10. ASSUME ~order'.crossed PROVE Ascending'
  <2>1. Ascending /\ Counting = {} /\ Counting' = {t}
    BY <1>5, <1>8, <1>10 DEF QInv
  <2>2. order'.fresh /\ mark'.made <= fence'
    BY <1>5, <2>1 DEF Ascending
  <2>3. mark'.sent < Unsent(c)
    BY <1>1, <1>3, <2>1 DEF Ascending, QueueType
  <2>4. QED
    BY <1>2, <1>7, <2>1, <2>2, <2>3 DEF Ascending
<1>11. QED
  BY <1>7, <1>9, <1>10 DEF QInv

\* A call that has sent no number stops counting, or one that does not count
\* moves.
LEMMA Stops ==
  ASSUME QInv, NEW t \in Thread, NEW c, Whole(c), Placed(c), ~Counts(c),
         call' = [call EXCEPT ![t] = c], UNCHANGED <<device, fence, mark, order>>,
         Idle(t) => device[t] # None,
         Counts(call[t]) => ~call[t].any /\ call[t].pc # "nop"
  PROVE  QInv'
<1>1. QueueType /\ Begun /\ Types'
  BY DEF QInv, QueueType, Types
<1>2. QueueType' /\ call'[t] = c /\ \A u \in Thread \ {t} : call'[u] = call[u]
  BY <1>1, CallMoves DEF QueueType
<1>3. Counting' = Counting \ {t} /\ (t \in Counting <=> Counts(call[t]))
  BY <1>2, CountingIs
<1>4. Begun'
  BY <1>1, <1>2 DEF Begun, Idle
<1>5. ASSUME ~order'.crossed PROVE Ascending'
  <2>1. Ascending
    BY <1>5 DEF QInv
  <2>2. ASSUME Counting' = {} PROVE mark.sent < fence \/ mark.sent = 0
    <3>1. CASE t \in Counting
      <4>1. mark.sent < Unsent(call[t]) /\ call[t].base = fence /\ fence \in Nat
        BY <1>1, <2>1, <3>1 DEF Ascending, QueueType
      <4>2. Unsent(call[t]) = call[t].base + 0
        BY <1>3, <3>1 DEF Unsent
      <4>3. QED
        BY <4>1, <4>2
    <3>2. CASE t \notin Counting
      BY <1>3, <2>1, <2>2, <3>2 DEF Ascending
    <3>3. QED
      BY <3>1, <3>2
  <2>3. \A u \in Counting' : call'[u].base = fence /\ mark.sent < Unsent(call'[u])
    BY <1>2, <1>3, <2>1 DEF Ascending, Counting
  <2>4. QED
    BY <1>3, <2>1, <2>2, <2>3 DEF Ascending
<1>6. QED
  BY <1>2, <1>4, <1>5 DEF QInv

\* What the kernel driver takes with a number is higher than what it took
\* before.
LEMMA Accepted ==
  ASSUME QInv, NEW t, NEW s, NEW dwords, NEW number \in Nat, Accept(t, s, dwords, number)
  PROVE  /\ mark' \in [sent : Nat, made : Nat] /\ order' \in [fresh : BOOLEAN, crossed : BOOLEAN]
         /\ mark'.made = mark.made /\ order'.crossed = order.crossed
         /\ number = 0 => mark' = mark /\ order' = order
         /\ number > 0 => /\ mark'.sent = number
                          /\ order.fresh /\ number > mark.sent => order'.fresh
<1>1. mark \in [sent : Nat, made : Nat] /\ order \in [fresh : BOOLEAN, crossed : BOOLEAN]
  BY DEF QInv, QueueType
<1>2. CASE number = 0
  <2>1. mark' = mark /\ order' = order
    BY <1>2 DEF Accept
  <2>2. QED
    BY <1>1, <1>2, <2>1
<1>3. CASE number > 0
  <2>1. /\ mark' = [mark EXCEPT !.sent = number]
        /\ order' = [order EXCEPT !.fresh = order.fresh /\ number > mark.sent]
    BY <1>3 DEF Accept
  <2>2. mark' \in [sent : Nat, made : Nat] /\ mark'.sent = number /\ mark'.made = mark.made
    BY <1>1, <2>1
  <2>3. (number > mark.sent) \in BOOLEAN
    OBVIOUS
  <2>4. /\ order' \in [fresh : BOOLEAN, crossed : BOOLEAN] /\ order'.crossed = order.crossed
        /\ order'.fresh = (order.fresh /\ number > mark.sent)
    BY <1>1, <2>1, <2>3
  <2>5. QED
    BY <1>3, <2>2, <2>4
<1>4. QED
  BY <1>2, <1>3

\* The next submit.
LEMMA NextSubmitInv == ASSUME QInv, NEW t \in Thread, NextSubmit(t) PROVE QInv'
<1> DEFINE e == call[t]
           skip == [e EXCEPT !.s = e.s + 1]
           go == [e EXCEPT !.pc = "gather", !.i = 1, !.at = 0, !.handle = kmd, !.batch = <<>>]
<1>1. /\ e.pc = "next" /\ e.s <= Len(e.subs)
      /\ call' = [call EXCEPT ![t] = IF e.subs[e.s] = Other THEN skip ELSE go]
      /\ UNCHANGED <<device, fence, mark, order>>
  BY DEF NextSubmit, Step
<1>2. Keyed(e, "next", e.s, e.base, e.any, e.subs) /\ Placed(e)
  BY <1>1, CallIs
<1>3. Keyed(skip, "next", e.s + 1, e.base, e.any, e.subs)
  BY <1>2, Sets, Zenon
<1>4. Keyed(go, "gather", e.s, e.base, e.any, e.subs)
  <2>1. go = [[[[[e EXCEPT !.pc = "gather"] EXCEPT !.i = 1] EXCEPT !.at = 0]
                EXCEPT !.handle = kmd] EXCEPT !.batch = <<>>]
    BY Zenon
  <2>2. Keyed([e EXCEPT !.pc = "gather"], "gather", e.s, e.base, e.any, e.subs)
    BY <1>2, Sets, Zenon
  <2>3. Keyed([[e EXCEPT !.pc = "gather"] EXCEPT !.i = 1], "gather", e.s, e.base, e.any, e.subs)
    BY <2>2, Sets, Zenon
  <2>4. Keyed([[[e EXCEPT !.pc = "gather"] EXCEPT !.i = 1] EXCEPT !.at = 0],
              "gather", e.s, e.base, e.any, e.subs)
    BY <2>3, Sets, Zenon
  <2>5. Keyed([[[[e EXCEPT !.pc = "gather"] EXCEPT !.i = 1] EXCEPT !.at = 0] EXCEPT !.handle = kmd],
              "gather", e.s, e.base, e.any, e.subs)
    BY <2>4, Sets, Zenon
  <2>6. Keyed([[[[[e EXCEPT !.pc = "gather"] EXCEPT !.i = 1] EXCEPT !.at = 0]
                EXCEPT !.handle = kmd] EXCEPT !.batch = <<>>],
              "gather", e.s, e.base, e.any, e.subs)
    BY <2>5, Sets, Zenon
  <2>7. QED
    BY <2>1, <2>6, Zenon
<1>5. Counts(e) /\ Types' /\ mark'.made = mark.made /\ order'.crossed = order.crossed
  BY <1>1 DEF Counts, Types, QInv, QueueType
<1>6. mark.sent \in Nat
  BY DEF QInv, QueueType
<1> HIDE DEF e, skip, go
<1>7. Placed(skip) /\ Counts(skip) /\ Placed(go) /\ Counts(go)
  BY <1>1, <1>2, <1>3, <1>4 DEF Placed, Counts, Keyed
<1>8. ASSUME mark.sent < Unsent(e) PROVE mark.sent < Unsent(skip) /\ mark.sent < Unsent(go)
  BY <1>1, <1>2, <1>3, <1>4, <1>6, <1>8 DEF Unsent, Keyed, Placed
<1>9. CASE e.subs[e.s] = Other
  BY <1>1, <1>3, <1>5, <1>7, <1>8, <1>9, GoesOn DEF e, Keyed
<1>10. CASE e.subs[e.s] # Other
  BY <1>1, <1>4, <1>5, <1>7, <1>8, <1>10, GoesOn DEF e, Keyed
<1>11. QED
  BY <1>9, <1>10

LEMMA GatherInv == ASSUME QInv, NEW t \in Thread, Gather(t) PROVE QInv'
<1> DEFINE e == call[t]
<1>1. /\ e.pc = "gather" /\ UNCHANGED <<device, fence, mark, order>>
      /\ call' = [call EXCEPT ![t] =
           IF Rest(e) = 0 THEN [e EXCEPT !.i = e.i + 1, !.at = 0]
           ELSE [e EXCEPT !.batch = e.batch \o [k \in 1..Take(e) |-> <<e.i, e.at + k, Buffer(e)>>],
                          !.at = e.at + Take(e)]]
  BY DEF Gather, Step
<1>2. Keyed(e, "gather", e.s, e.base, e.any, e.subs) /\ Placed(e)
  BY <1>1, CallIs
<1>3. PICK c : call' = [call EXCEPT ![t] = c] /\ Keyed(c, "gather", e.s, e.base, e.any, e.subs)
  <2>1. Keyed([e EXCEPT !.i = e.i + 1, !.at = 0], "gather", e.s, e.base, e.any, e.subs)
    BY <1>2, SetsMore, Zenon
  <2>2. ASSUME NEW batch, NEW at
        PROVE  Keyed([e EXCEPT !.batch = batch, !.at = at], "gather", e.s, e.base, e.any, e.subs)
    BY <1>2, SetsMore, Zenon
  <2>3. QED
    BY <1>1, <2>1, <2>2, Zenon
<1>4. Counts(e) /\ Types' /\ mark'.made = mark.made /\ order'.crossed = order.crossed
  BY <1>1 DEF Counts, Types, QInv, QueueType
<1> HIDE DEF e
<1>5. Placed(c) /\ Counts(c) /\ Unsent(c) = Unsent(e)
  BY <1>1, <1>2, <1>3 DEF Placed, Counts, Unsent, Keyed
<1>6. QED
  BY <1>1, <1>3, <1>4, <1>5, GoesOn DEF e, Keyed

\* A batch without a fence.
LEMMA SendBatchInv == ASSUME QInv, NEW t \in Thread, SendBatch(t) PROVE QInv'
<1> DEFINE e == call[t]
           sent == [e EXCEPT !.batch = <<>>]
           off == [e EXCEPT !.pc = "next", !.s = e.s + 1, !.excuse = TRUE]
<1>1. /\ e.pc = "gather" /\ More(e) /\ UNCHANGED <<device, fence>>
      /\ \/ Accept(t, e.s, e.batch, 0) /\ call' = [call EXCEPT ![t] = sent]
         \/ UNCHANGED <<mark, order>> /\ call' = [call EXCEPT ![t] = off]
  BY DEF SendBatch, Step, Refuse, Full
<1>2. Keyed(e, "gather", e.s, e.base, e.any, e.subs) /\ Placed(e)
  BY <1>1, CallIs
<1>3. Keyed(sent, "gather", e.s, e.base, e.any, e.subs)
  BY <1>2, Sets, Zenon
<1>4. Keyed(off, "next", e.s + 1, e.base, e.any, e.subs)
  BY <1>2, SetsMore, Zenon
<1>5. UNCHANGED <<mark, order>>
  BY <1>1, Accepted
<1>6. Counts(e) /\ Types' /\ mark'.made = mark.made /\ order'.crossed = order.crossed
  BY <1>1, <1>5 DEF Counts, Types, QInv, QueueType
<1>7. mark.sent \in Nat
  BY DEF QInv, QueueType
<1> HIDE DEF e, sent, off
<1>8. Placed(sent) /\ Counts(sent) /\ Placed(off) /\ Counts(off)
  BY <1>2, <1>3, <1>4 DEF Placed, Counts, Keyed
<1>9. ASSUME mark.sent < Unsent(e) PROVE mark.sent < Unsent(sent) /\ mark.sent < Unsent(off)
  BY <1>2, <1>3, <1>4, <1>7, <1>9 DEF Unsent, Placed, Keyed
<1>10. CASE call' = [call EXCEPT ![t] = sent]
  BY <1>1, <1>3, <1>5, <1>6, <1>8, <1>9, <1>10, GoesOn DEF e, Keyed
<1>11. CASE call' = [call EXCEPT ![t] = off]
  BY <1>1, <1>4, <1>5, <1>6, <1>8, <1>9, <1>11, GoesOn DEF e, Keyed
<1>12. QED
  BY <1>1, <1>10, <1>11

\* The batch with the fence: no submit of the call, and none of an earlier one,
\* has sent its number.
LEMMA SendLastInv == ASSUME QInv, NEW t \in Thread, SendLast(t) PROVE QInv'
<1> DEFINE e == call[t]
           after == [e EXCEPT !.pc = "next", !.s = e.s + 1]
           done == [after EXCEPT !.any = TRUE]
           off == [after EXCEPT !.excuse = TRUE]
           number == e.base + e.s - 1
<1>1. /\ e.pc = "gather" /\ UNCHANGED <<device, fence>>
      /\ \/ /\ \E dwords : Accept(t, e.s, dwords, number)
            /\ call' = [call EXCEPT ![t] = done]
         \/ UNCHANGED <<mark, order>> /\ call' = [call EXCEPT ![t] = off]
  BY DEF SendLast, Step, Refuse
<1>2. Keyed(e, "gather", e.s, e.base, e.any, e.subs) /\ Placed(e)
  BY <1>1, CallIs
<1>3. Keyed(done, "next", e.s + 1, e.base, TRUE, e.subs)
      /\ Keyed(off, "next", e.s + 1, e.base, e.any, e.subs)
  <2>1. Keyed(after, "next", e.s + 1, e.base, e.any, e.subs)
    BY <1>2, SetsMore, Zenon
  <2> HIDE DEF after
  <2>2. QED
    BY <2>1, Sets, Zenon
<1>4. mark.sent \in Nat /\ fence \in Nat
  BY DEF QInv, QueueType
<1> HIDE DEF e, done, off
<1>5. e.base \in Nat /\ e.s \in Nat /\ e.s >= 1 /\ e.s <= Len(e.subs) /\ Len(e.subs) \in Nat
      /\ (e.any => e.s > 1)
  BY <1>2 DEF Placed, Keyed
<1>6. number \in Nat /\ (e.base > 0 => number > 0)
  BY <1>5
<1>7. Placed(done) /\ Counts(done) /\ Placed(off) /\ Counts(off) /\ Counts(e)
  <2>1. e.subs # <<>> => Len(e.subs) > 0
    BY <1>5
  <2>2. Placed(done)
    <3>1. done.pc = "next" /\ done.s = e.s + 1 /\ done.base = e.base /\ done.any = TRUE
          /\ done.subs = e.subs
      BY <1>3 DEF Keyed
    <3>2. e.s + 1 \in 1..Len(e.subs) + 1 /\ e.s + 1 > 1 /\ e.s + 1 \in Nat
      BY <1>5
    <3>3. QED
      BY <1>5, <2>1, <3>1, <3>2 DEF Placed
  <2>3. Placed(off)
    BY <1>2, <1>3, <1>5, <2>1 DEF Placed, Keyed
  <2>4. QED
    BY <1>2, <1>3, <2>2, <2>3 DEF Counts, Keyed
<1>8. /\ Unsent(done) = number + 1
      /\ mark.sent < Unsent(e) => number > mark.sent /\ mark.sent < Unsent(off)
  BY <1>2, <1>3, <1>4, <1>5 DEF Unsent, Keyed, Placed
<1> HIDE DEF number
<1>9. CASE (\E dwords : Accept(t, e.s, dwords, number)) /\ call' = [call EXCEPT ![t] = done]
  <2>1. /\ mark' \in [sent : Nat, made : Nat] /\ order' \in [fresh : BOOLEAN, crossed : BOOLEAN]
        /\ mark'.made = mark.made /\ order'.crossed = order.crossed
        /\ number > 0 => /\ mark'.sent = number
                         /\ order.fresh /\ number > mark.sent => order'.fresh
    BY <1>6, <1>9, Accepted
  <2>2. Types'
    BY <1>1, <1>4, <2>1 DEF Types
  <2>3. ASSUME order.fresh, fence > 0, e.base = fence, mark.sent < Unsent(e)
        PROVE  order'.fresh /\ mark'.sent < Unsent(done)
    <3>1. number > 0 /\ number > mark.sent
      BY <1>6, <1>8, <2>3
    <3>2. order'.fresh /\ mark'.sent = number
      BY <2>1, <2>3, <3>1
    <3>3. QED
      BY <1>6, <1>8, <3>2
  <2>4. QED
    BY <1>1, <1>3, <1>7, <1>9, <2>1, <2>2, <2>3, GoesOn DEF e, Keyed
<1>10. CASE UNCHANGED <<mark, order>> /\ call' = [call EXCEPT ![t] = off]
  <2>1. Types' /\ mark'.made = mark.made /\ order'.crossed = order.crossed
    BY <1>1, <1>10 DEF Types, QInv, QueueType
  <2>2. QED
    BY <1>1, <1>3, <1>7, <1>8, <1>10, <2>1, GoesOn DEF e, Keyed
<1>11. QED
  BY <1>1, <1>9, <1>10

\* The packet of a call that sent nothing, with the first number of the call.
LEMMA SendNopInv == ASSUME QInv, NEW t \in Thread, SendNop(t) PROVE QInv'
<1> DEFINE e == call[t]
           sent == [e EXCEPT !.pc = "nop", !.any = TRUE]
           off == [e EXCEPT !.pc = "done", !.excuse = TRUE]
<1>1. /\ e.pc = "next" /\ ~e.any /\ UNCHANGED <<device, fence>>
      /\ \/ Accept(t, 0, <<NopDword>>, e.base) /\ call' = [call EXCEPT ![t] = sent]
         \/ UNCHANGED <<mark, order>> /\ call' = [call EXCEPT ![t] = off]
  BY DEF SendNop, Step, Refuse
<1>2. Keyed(e, "next", e.s, e.base, e.any, e.subs) /\ Placed(e)
  BY <1>1, CallIs
<1>3. Keyed(sent, "nop", e.s, e.base, TRUE, e.subs)
  BY <1>2, SetsMore, Zenon
<1>4. Keyed(off, "done", e.s, e.base, e.any, e.subs)
  BY <1>2, SetsMore, Zenon
<1>5. mark.sent \in Nat /\ fence \in Nat
  BY DEF QInv, QueueType
<1>6. e.base \in Nat
  BY <1>2 DEF Placed
<1> HIDE DEF e, sent, off
<1>7. Placed(sent) /\ Counts(sent) /\ Placed(off) /\ ~Counts(off) /\ Counts(e)
  BY <1>2, <1>3, <1>4 DEF Placed, Counts, Keyed
<1>8. Unsent(sent) = e.base + 1 /\ Unsent(e) = e.base
  BY <1>1, <1>2, <1>3, <1>6 DEF Unsent, Keyed
<1>9. CASE Accept(t, 0, <<NopDword>>, e.base) /\ call' = [call EXCEPT ![t] = sent]
  <2>1. /\ mark' \in [sent : Nat, made : Nat] /\ order' \in [fresh : BOOLEAN, crossed : BOOLEAN]
        /\ mark'.made = mark.made /\ order'.crossed = order.crossed
        /\ e.base > 0 => /\ mark'.sent = e.base
                         /\ order.fresh /\ e.base > mark.sent => order'.fresh
    BY <1>6, <1>9, Accepted
  <2>2. Types'
    BY <1>1, <1>5, <2>1 DEF Types
  <2>3. ASSUME order.fresh, fence > 0, e.base = fence, mark.sent < Unsent(e)
        PROVE  order'.fresh /\ mark'.sent < Unsent(sent)
    BY <1>5, <1>6, <1>8, <2>1, <2>3
  <2>4. QED
    BY <1>1, <1>3, <1>7, <1>9, <2>1, <2>2, <2>3, GoesOn DEF e, Keyed
<1>10. CASE UNCHANGED <<mark, order>> /\ call' = [call EXCEPT ![t] = off]
  <2>1. ~Idle(t)
    BY <1>1 DEF Idle, e
  <2>2. QED
    BY <1>1, <1>4, <1>7, <1>10, <2>1, Stops DEF e, Keyed
<1>11. QED
  BY <1>1, <1>9, <1>10

\* The counter is written back: past every number the call has sent.
LEMMA CountUpInv == ASSUME QInv, NEW t \in Thread, CountUp(t) PROVE QInv'
<1> DEFINE e == call[t]
           done == [e EXCEPT !.pc = "done"]
<1>1. /\ e.any /\ (e.pc = "nop" \/ (e.pc = "next" /\ e.s > Len(e.subs)))
      /\ fence' = e.base + (IF e.subs = <<>> THEN 1 ELSE Len(e.subs))
      /\ call' = [call EXCEPT ![t] = done] /\ UNCHANGED <<device, mark, order>>
  BY DEF CountUp, Step
<1>2. Keyed(e, e.pc, e.s, e.base, e.any, e.subs) /\ Placed(e)
  BY CallIs
<1>3. Keyed(done, "done", e.s, e.base, e.any, e.subs)
  BY <1>2, Sets, Zenon
<1>4. mark \in [sent : Nat, made : Nat] /\ order \in [fresh : BOOLEAN, crossed : BOOLEAN]
      /\ QueueType /\ Begun /\ DOMAIN device = Thread
  BY DEF QInv, QueueType
<1> HIDE DEF e, done
<1>5. Placed(done) /\ ~Counts(done) /\ Counts(e)
  BY <1>1, <1>2, <1>3 DEF Placed, Counts, Keyed
<1>6. fence' \in Nat /\ fence' > 0 /\ fence' > e.base /\ Unsent(e) <= fence'
  BY <1>1, <1>2 DEF Placed, Unsent
<1>7. Types' /\ DOMAIN device' = Thread
  BY <1>1, <1>4, <1>6 DEF Types
<1>8. QueueType' /\ call'[t] = done /\ \A u \in Thread \ {t} : call'[u] = call[u]
  BY <1>1, <1>3, <1>4, <1>5, <1>7, CallMoves DEF Keyed
<1>9. Counting' = Counting \ {t} /\ t \in Counting
  BY <1>5, <1>8, CountingIs DEF e
<1>10. Begun'
  BY <1>6 DEF Begun
<1>11. ASSUME ~order'.crossed PROVE Ascending'
  <2>1. Ascending
    BY <1>1, <1>11 DEF QInv
  <2>2. Counting' = {} /\ e.base = fence /\ mark.sent < Unsent(e)
    BY <1>9, <2>1 DEF Ascending, e
  <2>3. fence \in Nat /\ Unsent(e) \in Nat /\ mark.sent \in Nat /\ mark.made \in Nat
    BY <1>1, <1>2, <1>4, <2>2 DEF QueueType, Unsent, Placed
  <2>4. mark'.sent < fence' /\ mark'.made <= fence' /\ order'.fresh
    BY <1>1, <1>6, <2>1, <2>2, <2>3 DEF Ascending
  <2>5. QED
    BY <2>2, <2>4 DEF Ascending
<1>12. QED
  BY <1>8, <1>10, <1>11 DEF QInv

\* A call that has to open a handle: it begins, or ends.
LEMMA LazyOpenInv == ASSUME QInv, NEW t \in Thread, LazyOpen(t) PROVE QInv'
<1> DEFINE e == call[t]
           off == [e EXCEPT !.pc = "done", !.excuse = TRUE]
<1>1. /\ e.pc = "open" /\ UNCHANGED <<device, fence, mark>>
      /\ \/ call' = [call EXCEPT ![t] = off] /\ order' = order
         \/ call' = [call EXCEPT ![t] = Started(e)] /\ Cross(t)
  BY DEF LazyOpen, Step
<1>2. Keyed(e, "open", e.s, e.base, e.any, e.subs) /\ Placed(e)
  BY <1>1, CallIs
<1>3. Keyed(off, "done", e.s, e.base, e.any, e.subs)
  BY <1>2, SetsMore, Zenon
<1>4. ~Idle(t) /\ ~e.any
  BY <1>1, <1>2 DEF Idle, Placed
<1>5. fence > 0
  BY <1>4 DEF QInv, Begun
<1> HIDE DEF e, off
<1>6. Placed(off) /\ ~Counts(off) /\ ~Counts(e)
  BY <1>1, <1>2, <1>3, <1>4 DEF Placed, Counts, Keyed
<1>7. CASE call' = [call EXCEPT ![t] = off] /\ order' = order
  BY <1>1, <1>3, <1>4, <1>6, <1>7, Stops DEF e, Keyed
<1>8. CASE call' = [call EXCEPT ![t] = Started(e)] /\ Cross(t)
  BY <1>1, <1>2, <1>4, <1>5, <1>6, <1>8, Starts DEF e, Keyed
<1>9. QED
  BY <1>1, <1>7, <1>8

LEMMA QueueSubmitInv ==
  ASSUME QInv, NEW t \in Thread, NEW subs \in Submits, QueueSubmit(t, subs) PROVE QInv'
<1> DEFINE c == [NoCall EXCEPT !.subs = subs]
           open == [c EXCEPT !.pc = "open"]
<1>1. /\ Idle(t) /\ device[t] # None /\ UNCHANGED <<device, fence, mark>>
      /\ \/ call' = [call EXCEPT ![t] = open] /\ order' = order
         \/ call' = [call EXCEPT ![t] = Started(c)] /\ Cross(t)
  BY DEF QueueSubmit, handles
<1>2. Keyed(c, "idle", 0, 0, FALSE, subs)
  BY NoCallIs, Sets, Zenon
<1>3. Keyed(open, "open", 0, 0, FALSE, subs)
  BY <1>2, Sets, Zenon
<1>4. Len(subs) \in Nat /\ (subs # <<>> => Len(subs) > 0)
  BY SubmitsAssumption
<1>5. fence > 0
  BY <1>1 DEF QInv, Begun
<1>6. ~Counts(call[t])
  BY <1>1 DEF Idle, Counts
<1> HIDE DEF c, open
<1>7. Placed(c) /\ Placed(open) /\ ~Counts(open)
  <2>1. ASSUME NEW d, NEW pc \in {"idle", "open"}, Keyed(d, pc, 0, 0, FALSE, subs) PROVE Placed(d)
    <3>1. d.pc = pc /\ d.s = 0 /\ d.base = 0 /\ d.any = FALSE /\ d.subs = subs
      BY <2>1 DEF Keyed
    <3> DEFINE Sized(x) == Len(x) \in Nat /\ (x # <<>> => Len(x) > 0)
    <3>2. Sized(d.subs)
      <4>1. Sized(subs)
        BY <1>4
      <4> HIDE DEF Sized
      <4>2. QED
        BY <3>1, <4>1, Zenon
    <3>3. /\ d.pc \in {"idle", "open", "next", "gather", "nop", "done"}
          /\ d.pc \notin {"next", "gather"} /\ d.pc # "gather" /\ d.pc # "nop"
      BY <3>1
    <3>4. d.s \in Nat /\ d.base \in Nat
      BY <3>1
    <3>5. d.any \in BOOLEAN /\ ~d.any
      BY <3>1, Zenon
    <3>6. QED
      BY <3>2, <3>3, <3>4, <3>5 DEF Placed
  <2>2. QED
    BY <1>2, <1>3, <2>1 DEF Counts, Keyed
<1>8. CASE call' = [call EXCEPT ![t] = open] /\ order' = order
  BY <1>1, <1>3, <1>6, <1>7, <1>8, Stops DEF Keyed
<1>9. CASE call' = [call EXCEPT ![t] = Started(c)] /\ Cross(t)
  BY <1>1, <1>2, <1>5, <1>6, <1>7, <1>9, Starts DEF Keyed
<1>10. QED
  BY <1>1, <1>8, <1>9

LEMMA SubmitReturnsInv == ASSUME QInv, NEW t \in Thread, Return(t) PROVE QInv'
<1>1. /\ call[t].pc = "done" /\ call' = [call EXCEPT ![t] = NoCall]
      /\ UNCHANGED <<device, fence, mark, order>>
  BY DEF Return, Step
<1>2. ~Counts(NoCall) /\ ~Counts(call[t]) /\ ~Idle(t)
  BY <1>1 DEF Counts, NoCall, Idle
<1>3. QED
  BY <1>1, <1>2, NoCallIs, Stops DEF Keyed

----------------------------------------------------------------------------
(* Devices and fences.                                                     *)

LEMMA CreateDeviceInv == ASSUME QInv, NEW t \in Thread, CreateDevice(t) PROVE QInv'
<1>1. /\ fence' = IF fence = 0 THEN 1 ELSE fence
      /\ UNCHANGED <<call, mark, order>> /\ DOMAIN device' = DOMAIN device
  BY DEF CreateDevice
<1>2. QueueType /\ Begun
  BY DEF QInv
<1>3. fence' \in Nat /\ fence' > 0 /\ fence <= fence' /\ fence \in Nat
      /\ (fence > 0 => fence' = fence)
  BY <1>1, <1>2 DEF QueueType
<1>4. QueueType' /\ Begun'
  BY <1>1, <1>2, <1>3 DEF QueueType, Begun
<1>5. Counting' = Counting
  BY <1>1 DEF Counting
<1>6. ASSUME ~order'.crossed PROVE Ascending'
  <2>1. Ascending /\ mark.sent \in Nat /\ mark.made \in Nat
    BY <1>1, <1>2, <1>6 DEF QInv, QueueType
  <2>2. \A u \in Counting : fence' = fence
    BY <1>2, <1>3 DEF Counting, Begun, Idle
  <2>3. mark'.made <= fence' /\ (mark.sent < fence \/ mark.sent = 0
                                 => mark'.sent < fence' \/ mark'.sent = 0)
    BY <1>1, <1>3, <2>1 DEF Ascending
  <2>4. QED
    BY <1>1, <1>5, <2>1, <2>2, <2>3 DEF Ascending
<1>7. QED
  BY <1>4, <1>6 DEF QInv

LEMMA DestroyDeviceInv == ASSUME QInv, NEW t \in Thread, DestroyDevice(t) PROVE QInv'
<1>1. /\ device[t] # None /\ device' = [device EXCEPT ![t] = None]
      /\ UNCHANGED <<fence, call, mark, order>>
  BY DEF DestroyDevice
<1>2. QueueType' /\ Begun'
  BY <1>1 DEF QInv, QueueType, Begun, Idle
<1>3. Counting' = Counting
  BY <1>1 DEF Counting
<1>4. ~order'.crossed => Ascending'
  BY <1>1, <1>3 DEF QInv, Ascending
<1>5. QED
  BY <1>2, <1>4 DEF QInv

LEMMA CreateFenceInv == ASSUME QInv, NEW t \in Thread, CreateFence(t) PROVE QInv'
<1>1. /\ fence' = fence + 1 /\ UNCHANGED <<device, call>>
      /\ mark' = [mark EXCEPT !.made = fence + 1]
      /\ order' = [fresh |-> order.fresh /\ fence + 1 > mark.made,
                   crossed |-> order.crossed \/ Counting # {}]
  BY DEF CreateFence, handles
<1>2. QueueType /\ fence \in Nat /\ mark \in [sent : Nat, made : Nat]
      /\ order \in [fresh : BOOLEAN, crossed : BOOLEAN]
  BY DEF QInv, QueueType
<1>3. mark' \in [sent : Nat, made : Nat] /\ mark'.sent = mark.sent /\ mark'.made = fence'
      /\ fence' \in Nat /\ fence' > fence /\ fence' > 0
  BY <1>1, <1>2
<1>4. order' \in [fresh : BOOLEAN, crossed : BOOLEAN]
      /\ order'.fresh = (order.fresh /\ fence' > mark.made)
      /\ (~order'.crossed => ~order.crossed /\ Counting = {})
  BY <1>1, <1>2
<1>5. QueueType' /\ Begun'
  BY <1>1, <1>2, <1>3, <1>4 DEF QueueType, Begun
<1>6. Counting' = Counting
  BY <1>1 DEF Counting
<1>7. ASSUME ~order'.crossed PROVE Ascending'
  <2>1. Ascending /\ Counting' = {}
    BY <1>4, <1>6, <1>7 DEF QInv
  <2>2. order.fresh /\ mark.made <= fence /\ (mark.sent < fence \/ mark.sent = 0)
    BY <1>6, <2>1 DEF Ascending
  <2>3. fence' > mark.made /\ (mark'.sent < fence' \/ mark'.sent = 0) /\ mark'.made <= fence'
    BY <1>2, <1>3, <2>2
  <2>4. QED
    BY <1>4, <2>1, <2>2, <2>3 DEF Ascending
<1>8. QED
  BY <1>5, <1>7 DEF QInv

\* Nothing the numbers depend on.
LEMMA QStutter == ASSUME QInv, UNCHANGED <<device, fence, call, mark, order>> PROVE QInv'
<1>1. Counting' = Counting
  BY DEF Counting
<1>2. QueueType' /\ Begun'
  BY DEF QInv, QueueType, Begun, Idle
<1>3. ~order'.crossed => Ascending'
  BY <1>1 DEF QInv, Ascending
<1>4. QED
  BY <1>2, <1>3 DEF QInv

LEMMA QInvNext == ASSUME QInv, [Next]_vars PROVE QInv'
<1>1. CASE Recording
  BY <1>1, QStutter DEF Recording, BeginCommandBuffer, CmdDraw, EndCommandBuffer,
     ResetCommandBuffer, Record, handles
<1>2. ASSUME NEW t \in Thread, QueueCall(t) PROVE QInv'
  BY <1>2, CreateDeviceInv, DestroyDeviceInv, CreateFenceInv, QueueSubmitInv DEF QueueCall
<1>3. ASSUME NEW t \in Thread, Submitting(t) PROVE QInv'
  BY <1>3, LazyOpenInv, NextSubmitInv, GatherInv, SendBatchInv, SendLastInv, SendNopInv,
     CountUpInv, SubmitReturnsInv DEF Submitting
<1>4. CASE UNCHANGED queue
  BY <1>4, QStutter DEF queue
<1>5. CASE UNCHANGED vars
  BY <1>4, <1>5 DEF vars
<1>6. QED
  BY <1>1, <1>2, <1>3, <1>4, <1>5 DEF Next

LEMMA QInvInit == ASSUME Init PROVE QInv
<1>1. /\ fence = 0 /\ device = [t \in Thread |-> None] /\ call = [t \in Thread |-> NoCall]
      /\ mark = [sent |-> 0, made |-> 0] /\ order = [fresh |-> TRUE, crossed |-> FALSE]
  BY DEF Init, QueueInit
<1>2. QueueType
  BY <1>1, NoCallIs DEF QueueType, Keyed
<1>3. Begun /\ Counting = {}
  BY <1>1 DEF Begun, Counting, Idle, NoCall
<1>4. Ascending
  BY <1>1, <1>3 DEF Ascending
<1>5. QED
  BY <1>2, <1>3, <1>4 DEF QInv

\* Among any number of threads that submit any work and create fences through
\* one counter, a number handed to the kernel driver or to the application is
\* higher than the last, as long as no two of them use the counter at once:
\* bc250_QueueSubmit counts its submits by their place in the call, skipped and
\* refused ones included, and writes back a count past every number it sent.
THEOREM FencesAscend == Spec => []FencesNew
<1>1. QInv => FencesNew
  BY DEF QInv, Ascending, FencesNew
<1>2. QED
  BY <1>1, QInvInit, QInvNext, PTL DEF Spec

----------------------------------------------------------------------------
(* What the kernel driver is sent.                                         *)

Dword == Nat \X Nat \X (Cb \cup {Nop})
Batch == [s : Nat, dwords : Seq(Dword), fence : Nat]

Valid(c) == {s \in DOMAIN c.subs : c.subs[s] # Other}

\* The dwords of a submit that have been gathered.
Gathered(c) == {d \in Content(c.subs[c.s]) : Before(d, <<c.i, c.at + 1>>)}

\* The batches of the submit a call is at, and behind them the next.
Parts(t) ==
  LET next == Len(taken[t]) + 1
  IN [n \in Batches(t, call[t].s) \cup {next} |->
        IF n = next THEN call[t].batch ELSE taken[t][n].dwords]

\* The batches that were taken and the one that is filled list what has been
\* gathered.  A batch is sent only when more remains.
Gathering(t) ==
  LET c == call[t]
      sub == c.subs[c.s]
  IN c.pc = "gather" =>
       /\ c.s \in Valid(c)
       /\ c.i \in 1..Len(sub) + 1 /\ c.at \in Nat
       /\ IF More(c) THEN c.at <= cb[Buffer(c)].used ELSE c.at = 0
       /\ Len(c.batch) <= Cmds - Eop
       /\ \A n \in Batches(t, c.s) : taken[t][n].fence = 0
       /\ Lists(Parts(t), Gathered(c))
       /\ c.batch = <<>> /\ Batches(t, c.s) # {} => More(c) /\ Rest(c) > 0

Ended(t, s) ==
  /\ EndsWithFence(t, s)
  /\ Fenced(t, s) => InFull(t, s)
  /\ call[t].excuse \/ Fenced(t, s)

\* The submits a call has done are whole; of the others nothing has been sent.
Submitted(t) ==
  LET c == call[t]
  IN /\ c.pc \in {"idle", "open"} => c.s = 0 /\ taken[t] = <<>>
     /\ c.pc \in {"next", "gather"} => Batches(t, 0) = {}
     /\ c.pc # "gather" /\ c.s > 0 => Batches(t, c.s) = {}
     /\ \A n \in DOMAIN taken[t] : taken[t][n].s <= c.s
     /\ \A s \in Valid(c) : s < c.s => Ended(t, s)
     /\ c.any /\ Valid(c) = {} => c.pc \in {"nop", "done"} /\ Fenced(t, 0)
     /\ c.pc \in {"nop", "done"} /\ ~c.excuse => c.s > Len(c.subs) /\ c.any
     /\ c.pc \in {"next", "gather", "nop"} => c.s > 0 /\ c.base > 0

SentType ==
  /\ cb \in [Cb -> [used : Nat, recording : BOOLEAN]]
  /\ taken \in [Thread -> Seq(Batch)]
  /\ \A t \in Thread : /\ call[t].subs \in Submits \cup {<<>>}
                       /\ call[t].batch \in Seq(Dword) /\ call[t].excuse \in BOOLEAN

SentInv == QInv /\ SentType /\ \A t \in Thread : Gathering(t) /\ Submitted(t)

----------------------------------------------------------------------------
(* Lists.                                                                  *)

\* Before is about the first two components.
LEMMA BeforeIs ==
  ASSUME NEW i, NEW j, NEW k, NEW l, NEW a, NEW b
  PROVE  /\ Before(<<i, j, a>>, <<k, l, b>>) <=> i < k \/ (i = k /\ j < l)
         /\ Before(<<i, j, a>>, <<k, l>>) <=> i < k \/ (i = k /\ j < l)
         /\ Before(<<i, j>>, <<k, l>>) <=> i < k \/ (i = k /\ j < l)
BY DEF Before

\* An empty sequence more changes nothing.
Added(f, d, m) ==
  DOMAIN f = DOMAIN d \cup {m} /\ f[m] = <<>> /\ \A n \in DOMAIN d : f[n] = d[n]

LEMMA ListsEmpty ==
  ASSUME NEW d, NEW S, Lists(d, S), NEW m, m \notin DOMAIN d, NEW f, Added(f, d, m)
  PROVE  Lists(f, S)
<1>1. ToSet(f[m]) = {} /\ DOMAIN f[m] = {}
  BY DEF ToSet, Added
<1>2. \A x \in S : \E n \in DOMAIN f : x \in ToSet(f[n])
  BY DEF Lists, Added
<1>3. \A n \in DOMAIN f : ToSet(f[n]) \subseteq S
  BY <1>1 DEF Lists, Added
<1>4. \A p, q \in DOMAIN f : \A j \in DOMAIN f[p], k \in DOMAIN f[q] :
        Before(<<p, j>>, <<q, k>>) => Before(f[p][j], f[q][k])
  BY <1>1 DEF Lists, Added
<1>5. QED
  BY <1>2, <1>3, <1>4 DEF Lists

\* The last sequence is continued with what comes after all there is.
LEMMA ListsMore ==
  ASSUME NEW N \in SUBSET Nat, NEW d, DOMAIN d = N, NEW S, Lists(d, S),
         NEW m \in N, \A n \in N : n <= m, d[m] \in Seq(Dword), \A n \in N : d[n] \in Seq(Dword),
         NEW e \in Seq(Dword), \A j, k \in DOMAIN e : j < k => Before(e[j], e[k]),
         \A x \in S, y \in ToSet(e) : Before(x, y),
         NEW f, DOMAIN f = N, \A n \in N \ {m} : f[n] = d[n], f[m] = d[m] \o e
  PROVE  Lists(f, S \cup ToSet(e))
<1> DEFINE l == Len(d[m])
<1>1. /\ l \in Nat /\ DOMAIN d[m] = 1..l /\ DOMAIN f[m] = 1..l + Len(e) /\ DOMAIN e = 1..Len(e)
      /\ Len(e) \in Nat
      /\ \A j \in 1..l : f[m][j] = d[m][j]
      /\ \A j \in 1..Len(e) : f[m][l + j] = e[j]
  OBVIOUS
<1>2. \A j \in DOMAIN f[m] : \/ j \in DOMAIN d[m] /\ f[m][j] = d[m][j]
                             \/ j - l \in DOMAIN e /\ f[m][j] = e[j - l]
  <2>1. ASSUME NEW j \in 1..l + Len(e), ~(j \in 1..l)
        PROVE  j - l \in 1..Len(e) /\ l + (j - l) = j
    BY <1>1, <2>1
  <2>2. QED
    BY <1>1, <2>1
<1>3. ToSet(f[m]) = ToSet(d[m]) \cup ToSet(e)
  <2>1. ASSUME NEW x \in ToSet(e) PROVE x \in ToSet(f[m])
    <3>1. PICK j \in 1..Len(e) : x = e[j]
      BY <1>1 DEF ToSet
    <3>2. l + j \in DOMAIN f[m] /\ f[m][l + j] = x
      BY <1>1, <3>1
    <3>3. QED
      BY <3>2 DEF ToSet
  <2>2. ASSUME NEW x \in ToSet(d[m]) PROVE x \in ToSet(f[m])
    <3>1. PICK j \in 1..l : x = d[m][j]
      BY <1>1 DEF ToSet
    <3>2. j \in DOMAIN f[m] /\ f[m][j] = x
      BY <1>1, <3>1
    <3>3. QED
      BY <3>2 DEF ToSet
  <2>3. ASSUME NEW x \in ToSet(f[m]) PROVE x \in ToSet(d[m]) \cup ToSet(e)
    BY <1>2, <2>3 DEF ToSet
  <2>4. QED
    BY <2>1, <2>2, <2>3
<1>4. \A x \in S \cup ToSet(e) : \E n \in DOMAIN f : x \in ToSet(f[n])
  <2>1. ASSUME NEW x \in S PROVE \E n \in DOMAIN f : x \in ToSet(f[n])
    <3>1. PICK n \in N : x \in ToSet(d[n])
      BY DEF Lists
    <3>2. QED
      BY <1>3, <3>1
  <2>2. QED
    BY <1>3, <2>1
<1>5. \A n \in DOMAIN f : ToSet(f[n]) \subseteq S \cup ToSet(e)
  BY <1>3 DEF Lists
<1>6. ASSUME NEW p \in N, NEW q \in N, NEW j \in DOMAIN f[p], NEW k \in DOMAIN f[q],
             Before(<<p, j>>, <<q, k>>)
      PROVE  Before(f[p][j], f[q][k])
  <2>1. p < q \/ (p = q /\ j < k)
    BY <1>6, BeforeIs, Zenon
  <2>2. CASE p # m /\ q # m
    BY <1>6, <2>2 DEF Lists
  <2>3. CASE p = m
    <3>1. q = m /\ j < k
      <4>1. q <= m /\ q \in Nat /\ m \in Nat
        OBVIOUS
      <4>2. QED
        BY <2>1, <2>3, <4>1
    <3>2. CASE k \in DOMAIN d[m]
      <4>1. j \in DOMAIN d[m]
        BY <1>1, <2>3, <3>1, <3>2
      <4>2. Before(d[m][j], d[m][k])
        BY <1>6, <2>3, <3>1, <3>2, <4>1 DEF Lists
      <4>3. QED
        BY <1>1, <2>3, <3>1, <3>2, <4>1, <4>2
    <3>3. CASE k \notin DOMAIN d[m] /\ j \in DOMAIN d[m]
      <4>1. d[m][j] \in S
        BY <3>3 DEF Lists, ToSet
      <4>2. k - l \in DOMAIN e /\ f[m][k] = e[k - l] /\ f[m][j] = d[m][j]
        BY <1>1, <1>2, <3>1, <3>3
      <4>3. e[k - l] \in ToSet(e)
        BY <4>2 DEF ToSet
      <4>4. QED
        BY <2>3, <3>1, <4>1, <4>2, <4>3
    <3>4. CASE k \notin DOMAIN d[m] /\ j \notin DOMAIN d[m]
      <4>1. /\ k - l \in DOMAIN e /\ f[m][k] = e[k - l]
            /\ j - l \in DOMAIN e /\ f[m][j] = e[j - l]
        BY <1>2, <2>3, <3>1, <3>4
      <4>2. j - l < k - l
        BY <1>1, <2>3, <3>1
      <4>3. QED
        BY <2>3, <3>1, <4>1, <4>2
    <3>5. QED
      BY <3>2, <3>3, <3>4
  <2>4. CASE p # m /\ q = m
    <3>1. d[p][j] \in S /\ f[p][j] = d[p][j] /\ j \in DOMAIN d[p]
      BY <2>4 DEF Lists, ToSet
    <3>2. CASE k \in DOMAIN d[m]
      BY <1>1, <1>6, <2>4, <3>1, <3>2 DEF Lists
    <3>3. CASE k \notin DOMAIN d[m]
      <4>1. k - l \in DOMAIN e /\ f[m][k] = e[k - l]
        BY <1>2, <2>4, <3>3
      <4>2. e[k - l] \in ToSet(e)
        BY <4>1 DEF ToSet
      <4>3. QED
        BY <2>4, <3>1, <4>1, <4>2
    <3>4. QED
      BY <3>2, <3>3
  <2>5. QED
    BY <2>2, <2>3, <2>4
<1>7. QED
  BY <1>4, <1>5, <1>6 DEF Lists

----------------------------------------------------------------------------
(* The steps of a call.                                                    *)

\* All that is in a call.
Is(c, pc, subs, s, base, i, at, handle, batch, any, excuse) ==
  c = [pc |-> pc, subs |-> subs, s |-> s, base |-> base, i |-> i, at |-> at,
       handle |-> handle, batch |-> batch, any |-> any, excuse |-> excuse]

\* ... after an assignment to some of it.
LEMMA Assigned ==
  ASSUME NEW c, NEW pc, NEW subs, NEW s, NEW base, NEW i, NEW at, NEW handle, NEW batch,
         NEW any, NEW excuse, Is(c, pc, subs, s, base, i, at, handle, batch, any, excuse),
         NEW v
  PROVE  /\ Is([c EXCEPT !.pc = v], v, subs, s, base, i, at, handle, batch, any, excuse)
         /\ Is([c EXCEPT !.subs = v], pc, v, s, base, i, at, handle, batch, any, excuse)
         /\ Is([c EXCEPT !.s = v], pc, subs, v, base, i, at, handle, batch, any, excuse)
         /\ Is([c EXCEPT !.base = v], pc, subs, s, v, i, at, handle, batch, any, excuse)
         /\ Is([c EXCEPT !.i = v], pc, subs, s, base, v, at, handle, batch, any, excuse)
         /\ Is([c EXCEPT !.at = v], pc, subs, s, base, i, v, handle, batch, any, excuse)
         /\ Is([c EXCEPT !.handle = v], pc, subs, s, base, i, at, v, batch, any, excuse)
         /\ Is([c EXCEPT !.batch = v], pc, subs, s, base, i, at, handle, v, any, excuse)
         /\ Is([c EXCEPT !.any = v], pc, subs, s, base, i, at, handle, batch, v, excuse)
         /\ Is([c EXCEPT !.excuse = v], pc, subs, s, base, i, at, handle, batch, any, v)
<1>1. Is([c EXCEPT !.pc = v], v, subs, s, base, i, at, handle, batch, any, excuse)
  BY DEF Is
<1>2. Is([c EXCEPT !.subs = v], pc, v, s, base, i, at, handle, batch, any, excuse)
  BY DEF Is
<1>3. Is([c EXCEPT !.s = v], pc, subs, v, base, i, at, handle, batch, any, excuse)
  BY DEF Is
<1>4. Is([c EXCEPT !.base = v], pc, subs, s, v, i, at, handle, batch, any, excuse)
  BY DEF Is
<1>5. Is([c EXCEPT !.i = v], pc, subs, s, base, v, at, handle, batch, any, excuse)
  BY DEF Is
<1>6. Is([c EXCEPT !.at = v], pc, subs, s, base, i, v, handle, batch, any, excuse)
  BY DEF Is
<1>7. Is([c EXCEPT !.handle = v], pc, subs, s, base, i, at, v, batch, any, excuse)
  BY DEF Is
<1>8. Is([c EXCEPT !.batch = v], pc, subs, s, base, i, at, handle, v, any, excuse)
  BY DEF Is
<1>9. Is([c EXCEPT !.any = v], pc, subs, s, base, i, at, handle, batch, v, excuse)
  BY DEF Is
<1>10. Is([c EXCEPT !.excuse = v], pc, subs, s, base, i, at, handle, batch, any, v)
  BY DEF Is
<1>11. QED
  BY <1>1, <1>2, <1>3, <1>4, <1>5, <1>6, <1>7, <1>8, <1>9, <1>10

LEMMA AssignedMore ==
  ASSUME NEW c, NEW pc, NEW subs, NEW s, NEW base, NEW i, NEW at, NEW handle, NEW batch,
         NEW any, NEW excuse, Is(c, pc, subs, s, base, i, at, handle, batch, any, excuse),
         NEW v, NEW w, NEW x
  PROVE  /\ Is([c EXCEPT !.pc = v, !.s = w], v, subs, w, base, i, at, handle, batch, any, excuse)
         /\ Is([c EXCEPT !.pc = v, !.excuse = w], v, subs, s, base, i, at, handle, batch, any, w)
         /\ Is([c EXCEPT !.pc = v, !.any = w], v, subs, s, base, i, at, handle, batch, w, excuse)
         /\ Is([c EXCEPT !.i = v, !.at = w], pc, subs, s, base, v, w, handle, batch, any, excuse)
         /\ Is([c EXCEPT !.batch = v, !.at = w], pc, subs, s, base, i, w, handle, v, any, excuse)
         /\ Is([c EXCEPT !.pc = v, !.s = w, !.excuse = x],
               v, subs, w, base, i, at, handle, batch, any, x)
         /\ Is([c EXCEPT !.pc = v, !.base = w, !.s = x],
               v, subs, x, w, i, at, handle, batch, any, excuse)
<1>1. Is([c EXCEPT !.pc = v, !.s = w], v, subs, w, base, i, at, handle, batch, any, excuse)
  <2> DEFINE c1 == [c EXCEPT !.pc = v]
  <2>1. Is(c1, v, subs, s, base, i, at, handle, batch, any, excuse)
    BY Assigned, Zenon
  <2>2. Is([c1 EXCEPT !.s = w], v, subs, w, base, i, at, handle, batch, any, excuse)
    BY <2>1, Assigned, Zenon
  <2>3. [c EXCEPT !.pc = v, !.s = w] = [c1 EXCEPT !.s = w]
    BY Zenon
  <2>4. QED
    BY <2>2, <2>3, Zenon
<1>2. Is([c EXCEPT !.pc = v, !.excuse = w], v, subs, s, base, i, at, handle, batch, any, w)
  <2> DEFINE c1 == [c EXCEPT !.pc = v]
  <2>1. Is(c1, v, subs, s, base, i, at, handle, batch, any, excuse)
    BY Assigned, Zenon
  <2>2. Is([c1 EXCEPT !.excuse = w], v, subs, s, base, i, at, handle, batch, any, w)
    BY <2>1, Assigned, Zenon
  <2>3. [c EXCEPT !.pc = v, !.excuse = w] = [c1 EXCEPT !.excuse = w]
    BY Zenon
  <2>4. QED
    BY <2>2, <2>3, Zenon
<1>3. Is([c EXCEPT !.pc = v, !.any = w], v, subs, s, base, i, at, handle, batch, w, excuse)
  <2> DEFINE c1 == [c EXCEPT !.pc = v]
  <2>1. Is(c1, v, subs, s, base, i, at, handle, batch, any, excuse)
    BY Assigned, Zenon
  <2>2. Is([c1 EXCEPT !.any = w], v, subs, s, base, i, at, handle, batch, w, excuse)
    BY <2>1, Assigned, Zenon
  <2>3. [c EXCEPT !.pc = v, !.any = w] = [c1 EXCEPT !.any = w]
    BY Zenon
  <2>4. QED
    BY <2>2, <2>3, Zenon
<1>4. Is([c EXCEPT !.i = v, !.at = w], pc, subs, s, base, v, w, handle, batch, any, excuse)
  <2> DEFINE c1 == [c EXCEPT !.i = v]
  <2>1. Is(c1, pc, subs, s, base, v, at, handle, batch, any, excuse)
    BY Assigned, Zenon
  <2>2. Is([c1 EXCEPT !.at = w], pc, subs, s, base, v, w, handle, batch, any, excuse)
    BY <2>1, Assigned, Zenon
  <2>3. [c EXCEPT !.i = v, !.at = w] = [c1 EXCEPT !.at = w]
    BY Zenon
  <2>4. QED
    BY <2>2, <2>3, Zenon
<1>5. Is([c EXCEPT !.batch = v, !.at = w], pc, subs, s, base, i, w, handle, v, any, excuse)
  <2> DEFINE c1 == [c EXCEPT !.batch = v]
  <2>1. Is(c1, pc, subs, s, base, i, at, handle, v, any, excuse)
    BY Assigned, Zenon
  <2>2. Is([c1 EXCEPT !.at = w], pc, subs, s, base, i, w, handle, v, any, excuse)
    BY <2>1, Assigned, Zenon
  <2>3. [c EXCEPT !.batch = v, !.at = w] = [c1 EXCEPT !.at = w]
    BY Zenon
  <2>4. QED
    BY <2>2, <2>3, Zenon
<1>6. Is([c EXCEPT !.pc = v, !.s = w, !.excuse = x], v, subs, w, base, i, at, handle, batch, any, x)
  <2> DEFINE c1 == [c EXCEPT !.pc = v]
             c2 == [c1 EXCEPT !.s = w]
  <2>1. Is(c1, v, subs, s, base, i, at, handle, batch, any, excuse)
    BY Assigned, Zenon
  <2>2. Is(c2, v, subs, w, base, i, at, handle, batch, any, excuse)
    BY <2>1, Assigned, Zenon
  <2>3. Is([c2 EXCEPT !.excuse = x], v, subs, w, base, i, at, handle, batch, any, x)
    BY <2>2, Assigned, Zenon
  <2>4. [c EXCEPT !.pc = v, !.s = w, !.excuse = x] = [c2 EXCEPT !.excuse = x]
    BY Zenon
  <2>5. QED
    BY <2>3, <2>4, Zenon
<1>7. Is([c EXCEPT !.pc = v, !.base = w, !.s = x], v, subs, x, w, i, at, handle, batch, any, excuse)
  <2> DEFINE c1 == [c EXCEPT !.pc = v]
             c2 == [c1 EXCEPT !.base = w]
  <2>1. Is(c1, v, subs, s, base, i, at, handle, batch, any, excuse)
    BY Assigned, Zenon
  <2>2. Is(c2, v, subs, s, w, i, at, handle, batch, any, excuse)
    BY <2>1, Assigned, Zenon
  <2>3. Is([c2 EXCEPT !.s = x], v, subs, x, w, i, at, handle, batch, any, excuse)
    BY <2>2, Assigned, Zenon
  <2>4. [c EXCEPT !.pc = v, !.base = w, !.s = x] = [c2 EXCEPT !.s = x]
    BY Zenon
  <2>5. QED
    BY <2>3, <2>4, Zenon
<1>8. QED
  BY <1>1, <1>2, <1>3, <1>4, <1>5, <1>6, <1>7

LEMMA AssignedMost ==
  ASSUME NEW c, NEW pc, NEW subs, NEW s, NEW base, NEW i, NEW at, NEW handle, NEW batch,
         NEW any, NEW excuse, Is(c, pc, subs, s, base, i, at, handle, batch, any, excuse),
         NEW v, NEW w, NEW x, NEW y, NEW z
  PROVE  Is([c EXCEPT !.pc = v, !.i = w, !.at = x, !.handle = y, !.batch = z],
            v, subs, s, base, w, x, y, z, any, excuse)
<1>1. Is([c EXCEPT !.pc = v, !.i = w, !.at = x, !.handle = y, !.batch = z],
         v, subs, s, base, w, x, y, z, any, excuse)
  <2> DEFINE c1 == [c EXCEPT !.pc = v]
             c2 == [c1 EXCEPT !.i = w]
             c3 == [c2 EXCEPT !.at = x]
             c4 == [c3 EXCEPT !.handle = y]
  <2>1. Is(c1, v, subs, s, base, i, at, handle, batch, any, excuse)
    BY Assigned, Zenon
  <2>2. Is(c2, v, subs, s, base, w, at, handle, batch, any, excuse)
    BY <2>1, Assigned, Zenon
  <2>3. Is(c3, v, subs, s, base, w, x, handle, batch, any, excuse)
    BY <2>2, Assigned, Zenon
  <2>4. Is(c4, v, subs, s, base, w, x, y, batch, any, excuse)
    BY <2>3, Assigned, Zenon
  <2>5. Is([c4 EXCEPT !.batch = z], v, subs, s, base, w, x, y, z, any, excuse)
    BY <2>4, Assigned, Zenon
  <2>6. [c EXCEPT !.pc = v, !.i = w, !.at = x, !.handle = y, !.batch = z] = [c4 EXCEPT !.batch = z]
    BY Zenon
  <2>7. QED
    BY <2>5, <2>6, Zenon
<1>2. QED
  BY <1>1

LEMMA StartedHas ==
  ASSUME NEW c, NEW pc, NEW subs, NEW s, NEW base, NEW i, NEW at, NEW handle, NEW batch,
         NEW any, NEW excuse, Is(c, pc, subs, s, base, i, at, handle, batch, any, excuse)
  PROVE  Is(Started(c), "next", subs, 1, fence, i, at, handle, batch, any, excuse)
BY AssignedMore, Zenon DEF Started

LEMMA Fields ==
  ASSUME NEW c, NEW pc, NEW subs, NEW s, NEW base, NEW i, NEW at, NEW handle, NEW batch,
         NEW any, NEW excuse, Is(c, pc, subs, s, base, i, at, handle, batch, any, excuse)
  PROVE  /\ c.pc = pc /\ c.subs = subs /\ c.s = s /\ c.base = base /\ c.i = i
         /\ c.at = at /\ c.handle = handle /\ c.batch = batch /\ c.any = any /\ c.excuse = excuse
BY DEF Is

LEMMA ValidIs ==
  ASSUME NEW c, c.subs \in Submits \cup {<<>>}
  PROVE  /\ c.subs \in Seq(Seq(Cb) \cup {Other}) /\ Len(c.subs) \in Nat
         /\ \A s \in Valid(c) : s \in 1..Len(c.subs) /\ c.subs[s] \in Seq(Cb)
<1>1. c.subs \in Seq(Seq(Cb) \cup {Other})
  <2> DEFINE T == Seq(Cb) \cup {Other}
  <2>1. Submits \subseteq Seq(T)
    BY SubmitsAssumption
  <2> HIDE DEF T
  <2>2. <<>> \in Seq(T)
    OBVIOUS
  <2>3. QED
    BY <2>1, <2>2 DEF T
<1>2. QED
  BY <1>1 DEF Valid

\* A call that is what it was has sent what it had, whatever is recorded in
\* command buffers that it has not submitted.
LEMMA SameContent ==
  ASSUME NEW sub, \A i \in DOMAIN sub : cb'[sub[i]] = cb[sub[i]]
  PROVE  Content(sub)' = Content(sub) /\ Commands(sub)' = Commands(sub)
<1>1. Content(sub)' = Content(sub)
  BY DEF Content
<1>2. QED
  BY <1>1 DEF Commands

LEMMA SameBatches ==
  ASSUME NEW u, taken'[u] = taken[u], NEW s
  PROVE  Batches(u, s)' = Batches(u, s) /\ Fenced(u, s)' = Fenced(u, s)
BY DEF Batches, Fenced

LEMMA EndedKeeps ==
  ASSUME NEW u, NEW s, Batches(u, s)' = Batches(u, s),
         \A n \in Batches(u, s) : taken'[u][n] = taken[u][n],
         call'[u].subs = call[u].subs, call'[u].base = call[u].base,
         call[u].excuse => call'[u].excuse,
         \A i \in DOMAIN call[u].subs[s] : cb'[call[u].subs[s][i]] = cb[call[u].subs[s][i]],
         Ended(u, s)
  PROVE  Ended(u, s)'
<1>1. EndsWithFence(u, s)' /\ Fenced(u, s)' = Fenced(u, s)
  BY DEF Ended, EndsWithFence, Fenced
<1>2. Commands(call[u].subs[s])' = Commands(call[u].subs[s])
  <2> DEFINE sub == call[u].subs[s]
  <2>1. sub' = sub
    OBVIOUS
  <2>2. \A i \in DOMAIN sub : cb'[sub[i]] = cb[sub[i]]
    OBVIOUS
  <2>3. Content(sub)' = Content(sub)
    BY <2>1, <2>2 DEF Content
  <2>4. QED
    BY <2>3 DEF Commands
<1>3. InFull(u, s)' = InFull(u, s)
  <2>1. [n \in Batches(u, s) |-> taken[u][n].dwords]' = [n \in Batches(u, s) |-> taken[u][n].dwords]
    OBVIOUS
  <2>2. QED
    BY <1>2, <2>1 DEF InFull, Lists
<1>4. QED
  BY <1>1, <1>3 DEF Ended

LEMMA SameSent ==
  ASSUME NEW u \in Thread, call'[u] = call[u], taken'[u] = taken[u], Gathering(u), Submitted(u),
         call[u].subs \in Submits \cup {<<>>},
         \A s \in Valid(call[u]) : \A i \in DOMAIN call[u].subs[s] :
           cb'[call[u].subs[s][i]] = cb[call[u].subs[s][i]]
  PROVE  Gathering(u)' /\ Submitted(u)'
<1> DEFINE c == call[u]
           sub == c.subs[c.s]
<1>1. \A s : Batches(u, s)' = Batches(u, s) /\ Fenced(u, s)' = Fenced(u, s)
  BY SameBatches
<1>2. \A s \in Valid(c) : Ended(u, s) => Ended(u, s)'
  BY <1>1, EndedKeeps
<1>3. Submitted(u)'
  BY <1>1, <1>2 DEF Submitted, Valid
<1>4. Gathering(u)'
  <2> SUFFICES ASSUME c.pc = "gather" PROVE Gathering(u)'
    BY DEF Gathering
  <2>1. c.s \in Valid(c) /\ \A i \in DOMAIN sub : cb'[sub[i]] = cb[sub[i]]
    BY DEF Gathering
  <2>2. Gathered(c)' = Gathered(c)
    <3>1. Content(sub)' = Content(sub)
      BY <2>1 DEF Content
    <3>2. QED
      BY <3>1 DEF Gathered
  <2>3. Parts(u)' = Parts(u)
    BY <1>1 DEF Parts
  <2>4. Lists(Parts(u), Gathered(c))' = Lists(Parts(u), Gathered(c))
    BY <2>2, <2>3 DEF Lists
  <2>5. More(c)' = More(c) /\ (More(c) => Rest(c)' = Rest(c) /\ cb'[Buffer(c)] = cb[Buffer(c)])
    <3>1. sub \in Seq(Cb) /\ c.i \in 1..Len(sub) + 1
      BY <2>1, ValidIs DEF Gathering
    <3>2. More(c) => c.i \in DOMAIN sub
      BY <3>1 DEF More
    <3>3. More(c) => cb'[Buffer(c)] = cb[Buffer(c)]
      BY <2>1, <3>2 DEF Buffer
    <3>4. QED
      BY <3>3 DEF More, Rest, Buffer
  <2>6. QED
    BY <1>1, <2>4, <2>5 DEF Gathering, Valid, Buffer, More
<1>5. QED
  BY <1>3, <1>4

\* One thread's call moves; the others have sent what they had.
LEMMA SentMoves ==
  ASSUME SentInv, QInv', NEW t \in Thread, NEW c, NEW b, call' = [call EXCEPT ![t] = c], cb' = cb,
         taken' = [taken EXCEPT ![t] = b], b \in Seq(Batch), c.subs \in Submits \cup {<<>>},
         c.batch \in Seq(Dword), c.excuse \in BOOLEAN,
         call'[t] = c /\ taken'[t] = b => Gathering(t)' /\ Submitted(t)'
  PROVE  SentInv'
<1>1. /\ call'[t] = c /\ taken'[t] = b
      /\ \A u \in Thread \ {t} : call'[u] = call[u] /\ taken'[u] = taken[u]
  BY DEF SentInv, SentType, QInv, QueueType
<1>2. \A u \in Thread : Gathering(u)' /\ Submitted(u)'
  BY <1>1, SameSent DEF SentInv, SentType
<1>3. SentType'
  <2>1. \A u \in Thread : /\ call'[u].subs \in Submits \cup {<<>>}
                          /\ call'[u].batch \in Seq(Dword) /\ call'[u].excuse \in BOOLEAN
    BY <1>1, Zenon DEF SentInv, SentType
  <2>2. cb' \in [Cb -> [used : Nat, recording : BOOLEAN]] /\ taken' \in [Thread -> Seq(Batch)]
    BY DEF SentInv, SentType
  <2>3. QED
    BY <2>1, <2>2 DEF SentType
<1>4. QED
  BY <1>2, <1>3 DEF SentInv

\* What is taken goes behind what has been.
Took(t, r) == taken'[t] = Append(taken[t], r)

Grown(t, s, r) ==
  LET next == Len(taken[t]) + 1
  IN /\ next \in Nat /\ Len(taken'[t]) = next /\ taken'[t][next] = r
     /\ Batches(t, s)' = Batches(t, s) \cup {next}
     /\ \A n \in Batches(t, s) : n \in Nat /\ n < next /\ taken'[t][n] = taken[t][n]

LEMMA Appended ==
  ASSUME NEW t, taken[t] \in Seq(Batch), NEW r \in Batch, Took(t, r), NEW s, r.s = s
  PROVE  Grown(t, s, r)
<1> DEFINE next == Len(taken[t]) + 1
<1>1. /\ next \in Nat /\ Len(taken'[t]) = next /\ DOMAIN taken'[t] = 1..next
      /\ DOMAIN taken[t] = 1..next - 1
      /\ \A n \in DOMAIN taken[t] : taken'[t][n] = taken[t][n]
      /\ taken'[t][next] = r
  BY DEF Took
<1>2. DOMAIN taken'[t] = DOMAIN taken[t] \cup {next} /\ next \notin DOMAIN taken[t]
  BY <1>1
<1>3. Batches(t, s)' = Batches(t, s) \cup {next}
  BY <1>1, <1>2 DEF Batches
<1>4. \A n \in Batches(t, s) : n \in Nat /\ n < next /\ taken'[t][n] = taken[t][n]
  BY <1>1 DEF Batches
<1>5. QED
  BY <1>1, <1>3, <1>4 DEF Grown

\* The dwords of a submit.
LEMMA ContentIs ==
  ASSUME SentType, NEW sub \in Seq(Cb)
  PROVE  /\ Len(sub) \in Nat
         /\ \A i \in 1..Len(sub) : sub[i] \in Cb /\ cb[sub[i]].used \in Nat
         /\ \A d \in Content(sub) :
              \E i \in 1..Len(sub) : \E k \in 1..cb[sub[i]].used : d = <<i, k, sub[i]>>
         /\ \A i \in 1..Len(sub) : \A k \in 1..cb[sub[i]].used : <<i, k, sub[i]>> \in Content(sub)
         /\ Content(sub) \subseteq Dword
<1>1. Len(sub) \in Nat /\ DOMAIN sub = 1..Len(sub)
  OBVIOUS
<1>2. \A i \in 1..Len(sub) : sub[i] \in Cb /\ cb[sub[i]].used \in Nat
  BY DEF SentType
<1>3. \A d \in Content(sub) :
        \E i \in 1..Len(sub) : \E k \in 1..cb[sub[i]].used : d = <<i, k, sub[i]>>
  BY <1>1 DEF Content
<1>4. \A i \in 1..Len(sub) : \A k \in 1..cb[sub[i]].used : <<i, k, sub[i]>> \in Content(sub)
  BY <1>1 DEF Content
<1>5. ASSUME NEW d \in Content(sub) PROVE d \in Dword
  <2>1. PICK i \in 1..Len(sub) : \E k \in 1..cb[sub[i]].used : d = <<i, k, sub[i]>>
    BY <1>3
  <2>2. PICK k \in 1..cb[sub[i]].used : d = <<i, k, sub[i]>>
    BY <2>1
  <2>3. i \in Nat /\ k \in Nat /\ sub[i] \in Cb
    BY <1>1, <1>2
  <2>4. QED
    BY <2>2, <2>3 DEF Dword
<1>6. QED
  BY <1>1, <1>2, <1>3, <1>4, <1>5

LEMMA CallHas ==
  ASSUME SentInv, NEW t \in Thread
  PROVE  LET c == call[t]
         IN /\ Is(c, c.pc, c.subs, c.s, c.base, c.i, c.at, c.handle, c.batch, c.any, c.excuse)
            /\ Placed(c) /\ Gathering(t) /\ Submitted(t)
            /\ c.subs \in Submits \cup {<<>>} /\ c.batch \in Seq(Dword) /\ c.excuse \in BOOLEAN
            /\ taken[t] \in Seq(Batch)
<1>1. Whole(call[t]) /\ Placed(call[t])
  BY DEF SentInv, QInv, QueueType
<1>2. QED
  BY <1>1 DEF SentInv, SentType, Whole, Is

\* A call that has sent nothing.
LEMMA Fresh ==
  ASSUME NEW t, NEW c, call'[t] = c, taken'[t] = <<>>, c.subs \in Submits \cup {<<>>},
         c.pc \in {"idle", "open", "next", "done"}, c.s \in {0, 1}, ~c.any,
         c.pc \in {"idle", "open"} => c.s = 0,
         c.pc = "next" => c.s > 0 /\ c.base > 0, c.pc = "done" => c.excuse
  PROVE  Gathering(t)' /\ Submitted(t)'
<1>1. \A s : Batches(t, s)' = {}
  BY DEF Batches
<1>2. \A s \in Valid(c) : ~(s < c.s)
  BY ValidIs
<1>3. QED
  BY <1>1, <1>2 DEF Gathering, Submitted

\* One thread's call moves and has still sent nothing.
LEMMA FreshMoves ==
  ASSUME SentInv, QInv', NEW t \in Thread, NEW c, NEW pc \in {"open", "next", "done"}, NEW subs,
         NEW s \in {0, 1}, NEW base, NEW i, NEW at, NEW handle, NEW batch, NEW excuse,
         Is(c, pc, subs, s, base, i, at, handle, batch, FALSE, excuse),
         subs \in Submits \cup {<<>>}, batch \in Seq(Dword), excuse \in BOOLEAN,
         taken[t] = <<>>, call' = [call EXCEPT ![t] = c], UNCHANGED <<cb, taken>>,
         pc = "open" => s = 0, pc = "next" => s > 0 /\ base > 0, pc = "done" => excuse
  PROVE  SentInv'
<1>1. /\ c.pc = pc /\ c.subs = subs /\ c.s = s /\ c.base = base /\ c.batch = batch
      /\ c.excuse = excuse
  BY DEF Is
<1>2. ~c.any
  BY Fields, Zenon
<1>3. taken' = [taken EXCEPT ![t] = <<>>] /\ <<>> \in Seq(Batch)
  <2>1. taken \in [Thread -> Seq(Batch)] /\ taken' = taken
    BY DEF SentInv, SentType
  <2> HIDE DEF Batch
  <2>2. [taken EXCEPT ![t] = <<>>] = taken
    BY <2>1
  <2>3. QED
    BY <2>1, <2>2
<1>4. taken'[t] = <<>> /\ call'[t] = c => Gathering(t)' /\ Submitted(t)'
  <2>1. SUFFICES ASSUME taken'[t] = <<>>, call'[t] = c PROVE Gathering(t)' /\ Submitted(t)'
    OBVIOUS
  <2>2. c.pc \in {"idle", "open", "next", "done"} /\ c.subs \in Submits \cup {<<>>} /\ c.s \in {0, 1}
    BY <1>1
  <2>3. /\ c.pc \in {"idle", "open"} => c.s = 0
        /\ c.pc = "next" => c.s > 0 /\ c.base > 0
        /\ c.pc = "done" => c.excuse
    BY <1>1
  <2>4. QED
    BY <1>2, <2>1, <2>2, <2>3, Fresh, Zenon
<1>5. c.subs \in Submits \cup {<<>>} /\ c.batch \in Seq(Dword) /\ c.excuse \in BOOLEAN
  BY <1>1, Zenon
<1>6. cb' = cb
  OBVIOUS
<1>7. QED
  BY <1>3, <1>4, <1>5, <1>6, SentMoves, Zenon

LEMMA SubmitSent ==
  ASSUME SentInv, QInv', NEW t \in Thread, NEW subs \in Submits, QueueSubmit(t, subs)
  PROVE  SentInv'
<1> DEFINE c == [NoCall EXCEPT !.subs = subs]
           open == [c EXCEPT !.pc = "open"]
           start == Started(c)
<1>1. /\ Idle(t) /\ device[t] # None /\ UNCHANGED <<cb, taken>>
      /\ call' = [call EXCEPT ![t] = open] \/ call' = [call EXCEPT ![t] = start]
  BY DEF QueueSubmit
<1>2. Is(NoCall, "idle", <<>>, 0, 0, 0, 0, 0, <<>>, FALSE, FALSE)
  BY DEF NoCall, Is
<1>3. Is(c, "idle", subs, 0, 0, 0, 0, 0, <<>>, FALSE, FALSE)
  BY <1>2, Assigned, Zenon
<1>4. Is(open, "open", subs, 0, 0, 0, 0, 0, <<>>, FALSE, FALSE)
  BY <1>3, Assigned, Zenon
<1>5. Is(start, "next", subs, 1, fence, 0, 0, 0, <<>>, FALSE, FALSE)
  BY <1>3, StartedHas, Zenon
<1>6. taken[t] = <<>> /\ fence > 0
  BY <1>1, CallHas DEF Submitted, SentInv, QInv, Begun, Idle
<1> HIDE DEF c, open, start
<1>7. <<>> \in Seq(Dword) /\ FALSE \in BOOLEAN /\ 0 \in {0, 1} /\ 1 \in {0, 1} /\ 1 > 0
      /\ subs \in Submits \cup {<<>>} /\ "open" \in {"open", "next", "done"}
      /\ "next" \in {"open", "next", "done"} /\ "open" # "next" /\ "open" # "done" /\ "next" # "done"
  OBVIOUS
<1>8. CASE call' = [call EXCEPT ![t] = open]
  BY <1>1, <1>4, <1>6, <1>7, <1>8, FreshMoves, Zenon
<1>9. CASE call' = [call EXCEPT ![t] = start]
  BY <1>1, <1>5, <1>6, <1>7, <1>9, FreshMoves, Zenon
<1>10. QED
  BY <1>1, <1>8, <1>9

LEMMA LazyOpenSent ==
  ASSUME SentInv, QInv', NEW t \in Thread, LazyOpen(t)
  PROVE  SentInv'
<1> DEFINE e == call[t]
           off == [e EXCEPT !.pc = "done", !.excuse = TRUE]
           start == Started(e)
<1>1. /\ e.pc = "open" /\ UNCHANGED <<cb, taken>>
      /\ call' = [call EXCEPT ![t] = off] \/ call' = [call EXCEPT ![t] = start]
  BY DEF LazyOpen, Step
<1>2. /\ Is(e, e.pc, e.subs, e.s, e.base, e.i, e.at, e.handle, e.batch, e.any, e.excuse)
      /\ Placed(e) /\ Submitted(t) /\ e.subs \in Submits \cup {<<>>} /\ e.batch \in Seq(Dword)
      /\ e.excuse \in BOOLEAN
  BY CallHas
<1>3. taken[t] = <<>> /\ e.s = 0 /\ fence > 0
  BY <1>1, <1>2 DEF Submitted, SentInv, QInv, Begun, Idle
<1>4. e.any = FALSE
  BY <1>1, <1>2 DEF Placed
<1>5. Is(e, e.pc, e.subs, 0, e.base, e.i, e.at, e.handle, e.batch, FALSE, e.excuse)
  BY <1>2, <1>3, <1>4, Zenon
<1> HIDE DEF e
<1>6. Is(off, "done", e.subs, 0, e.base, e.i, e.at, e.handle, e.batch, FALSE, TRUE)
  BY <1>5, AssignedMore, Zenon
<1>7. Is(start, "next", e.subs, 1, fence, e.i, e.at, e.handle, e.batch, FALSE, e.excuse)
  BY <1>5, StartedHas, Zenon
<1> HIDE DEF off, start
<1>8. TRUE \in BOOLEAN /\ 0 \in {0, 1} /\ 1 \in {0, 1} /\ 1 > 0 /\ "done" \in {"open", "next", "done"}
      /\ "next" \in {"open", "next", "done"} /\ "done" # "next" /\ "open" # "done" /\ "open" # "next"
  OBVIOUS
<1>9. CASE call' = [call EXCEPT ![t] = off]
  BY <1>1, <1>2, <1>3, <1>6, <1>8, <1>9, FreshMoves, Zenon
<1>10. CASE call' = [call EXCEPT ![t] = start]
  BY <1>1, <1>2, <1>3, <1>7, <1>8, <1>10, FreshMoves, Zenon
<1>11. QED
  BY <1>1, <1>9, <1>10

LEMMA ReturnSent ==
  ASSUME SentInv, QInv', NEW t \in Thread, Return(t)
  PROVE  SentInv'
<1>1. /\ call' = [call EXCEPT ![t] = NoCall] /\ taken' = [taken EXCEPT ![t] = <<>>] /\ cb' = cb
  BY DEF Return, Step
<1>2. /\ NoCall.subs = <<>> /\ NoCall.batch = <<>> /\ NoCall.excuse = FALSE /\ NoCall.pc = "idle"
      /\ NoCall.s = 0 /\ NoCall.any = FALSE
  BY DEF NoCall
<1>3. taken'[t] = <<>> /\ call'[t] = NoCall => Gathering(t)' /\ Submitted(t)'
  BY <1>2, Fresh
<1>4. <<>> \in Seq(Batch) /\ <<>> \in Seq(Dword)
  OBVIOUS
<1>5. QED
  BY <1>1, <1>2, <1>3, <1>4, SentMoves


\* What was taken of submit s of thread t stays.
Kept(t, s) == Batches(t, s)' = Batches(t, s) /\ \A n \in Batches(t, s) : taken'[t][n] = taken[t][n]

LEMMA AllKept == ASSUME NEW t, taken' = taken PROVE \A s : Kept(t, s)
BY SameBatches DEF Kept

\* The submits that are done stay whole.
LEMMA EndedStay ==
  ASSUME SentInv, NEW t \in Thread, cb' = cb,
         call'[t].subs = call[t].subs, call'[t].base = call[t].base,
         call[t].excuse => call'[t].excuse,
         \A s \in Valid(call[t]) : s < call[t].s => Kept(t, s)
  PROVE  /\ Valid(call'[t]) = Valid(call[t])
         /\ \A s \in Valid(call'[t]) : s < call[t].s => Ended(t, s)'
<1>1. Valid(call'[t]) = Valid(call[t])
  BY DEF Valid
<1>2. ASSUME NEW s \in Valid(call[t]), s < call[t].s PROVE Ended(t, s)'
  <2>1. Ended(t, s) /\ Kept(t, s)
    BY <1>2 DEF SentInv, Submitted
  <2>2. QED
    BY <2>1, EndedKeeps DEF Kept
<1>3. QED
  BY <1>1, <1>2

\* A submit is done with: the call goes to the next.
LEMMA Passed ==
  ASSUME SentInv, NEW t \in Thread, call[t].pc \in {"next", "gather"}, NEW c,
         c.pc = "next", c.subs = call[t].subs, c.s = call[t].s + 1, c.base = call[t].base,
         call'[t] = c, cb' = cb, \A s : s # call[t].s => Kept(t, s),
         \A n \in DOMAIN taken'[t] : taken'[t][n].s \in 0..call[t].s,
         call[t].excuse => c.excuse, c.any => call[t].any \/ call[t].s \in Valid(call[t]),
         NEW r, r = call[t].s, r \in Valid(call[t]) => Ended(t, r)'
  PROVE  Gathering(t)' /\ Submitted(t)'
<1> DEFINE e == call[t]
<1>1. /\ Placed(e) /\ Submitted(t) /\ e.subs \in Submits \cup {<<>>}
  BY CallHas
<1>2. /\ c.pc = "next" /\ c.subs = e.subs /\ c.s = e.s + 1 /\ c.base = e.base
  OBVIOUS
<1>3. e.s \in Nat /\ e.s > 0 /\ e.base > 0
  BY <1>1 DEF Placed, Submitted
<1>4. Batches(t, 0)' = {}
  BY <1>1, <1>3 DEF Kept, Submitted
<1>5. Batches(t, c.s)' = {}
  <2>1. \A n \in DOMAIN taken'[t] : taken'[t][n].s # c.s
    BY <1>2, <1>3
  <2>2. QED
    BY <2>1 DEF Batches
<1>6. /\ Valid(c) = Valid(e)
      /\ \A s \in Valid(c) : s < e.s => Ended(t, s)'
  <2>1. \A s \in Valid(e) : s < e.s => Kept(t, s)
    BY <1>3
  <2>2. QED
    BY <1>2, <2>1, EndedStay
<1>7. \A s \in Valid(c) : s < c.s => Ended(t, s)'
  <2>1. \A s \in Valid(e) : s \in Nat
    BY <1>1, ValidIs
  <2>2. \A s \in Valid(c) : s < c.s => s < e.s \/ s = r
    BY <1>2, <1>3, <1>6, <2>1
  <2>3. QED
    BY <1>6, <2>2
<1>8. \A n \in DOMAIN taken'[t] : taken'[t][n].s <= c.s
  BY <1>2, <1>3
<1>9. c.any /\ Valid(c) = {} => c.pc \in {"nop", "done"} /\ Fenced(t, 0)'
  BY <1>1, <1>2, <1>6 DEF Submitted
<1>10. QED
  BY <1>2, <1>3, <1>4, <1>5, <1>7, <1>8, <1>9 DEF Gathering, Submitted

\* A call gathers.
LEMMA Stays ==
  ASSUME SentInv, NEW t \in Thread, call[t].pc \in {"next", "gather"}, NEW c,
         NEW i, NEW at, NEW handle, NEW batch,
         Is(c, "gather", call[t].subs, call[t].s, call[t].base, i, at, handle, batch, call[t].any,
            call[t].excuse),
         call'[t] = c, cb' = cb, \A s : s # call[t].s => Kept(t, s),
         \A n \in DOMAIN taken'[t] : taken'[t][n].s \in 0..call[t].s,
         call[t].s \in Valid(call[t])
  PROVE  Submitted(t)'
<1> DEFINE e == call[t]
<1>1. /\ Placed(e) /\ Submitted(t)
  BY CallHas
<1>2. /\ c.pc = "gather" /\ c.subs = e.subs /\ c.s = e.s /\ c.base = e.base /\ c.any = e.any
      /\ c.excuse = e.excuse
  BY DEF Is
<1>3. e.s \in Nat /\ e.s > 0 /\ e.base > 0
  BY <1>1 DEF Placed, Submitted
<1>4. Batches(t, 0)' = {}
  BY <1>1, <1>3 DEF Kept, Submitted
<1>5. /\ Valid(c) = Valid(e)
      /\ \A s \in Valid(c) : s < e.s => Ended(t, s)'
  <2>1. \A s \in Valid(e) : s < e.s => Kept(t, s)
    BY <1>3
  <2>2. QED
    BY <1>2, <2>1, EndedStay
<1>6. QED
  BY <1>2, <1>3, <1>4, <1>5 DEF Submitted

\* What a call has to show for its submits when it becomes c: a fence of its
\* own if it sent a batch and had no submit, and no end before the last submit.
Over(t, c) ==
  /\ c.any /\ Valid(call[t]) = {} => Fenced(t, 0)'
  /\ call[t].excuse => c.excuse
  /\ ~c.excuse => call[t].s > Len(call[t].subs) /\ c.any

\* A call has done all its submits.
LEMMA Ends ==
  ASSUME SentInv, NEW t \in Thread, call[t].pc \in {"next", "nop"}, NEW c, c.pc \in {"nop", "done"},
         c.subs = call[t].subs, c.s = call[t].s, c.base = call[t].base,
         call'[t] = c, cb' = cb, \A s : s # 0 => Kept(t, s), call[t].s > 0,
         \A n \in DOMAIN taken'[t] : taken'[t][n].s \in 0..call[t].s, Over(t, c)
  PROVE  Gathering(t)' /\ Submitted(t)'
<1> DEFINE e == call[t]
<1>1. /\ Placed(e) /\ Submitted(t) /\ e.subs \in Submits \cup {<<>>}
  BY CallHas
<1>2. c.subs = e.subs /\ c.s = e.s /\ c.base = e.base
  OBVIOUS
<1>3. e.s \in Nat /\ e.base > 0
  BY <1>1 DEF Placed, Submitted
<1>4. Batches(t, c.s)' = {}
  BY <1>1, <1>2, <1>3 DEF Kept, Submitted
<1>5. /\ Valid(c) = Valid(e)
      /\ \A s \in Valid(c) : s < e.s => Ended(t, s)'
  <2>1. \A s \in Valid(e) : s < e.s => Kept(t, s)
    BY <1>1, ValidIs
  <2>2. e.excuse => call'[t].excuse
    BY Zenon DEF Over
  <2>3. QED
    BY <1>2, <2>1, <2>2, EndedStay
<1>6. QED
  BY <1>2, <1>3, <1>4, <1>5 DEF Gathering, Submitted, Over

\* A step in which the kernel driver takes nothing.
LEMMA NothingTaken ==
  ASSUME SentInv, NEW t \in Thread, taken' = taken
  PROVE  /\ \A s : Kept(t, s)
         /\ \A n \in DOMAIN taken'[t] : taken'[t][n].s \in 0..call[t].s
         /\ taken[t] \in Seq(Batch) /\ taken' = [taken EXCEPT ![t] = taken[t]]
<1>1. taken \in [Thread -> Seq(Batch)] /\ taken[t] \in Seq(Batch)
  BY DEF SentInv, SentType
<1>2. \A n \in DOMAIN taken[t] : taken[t][n] \in Batch
  BY <1>1
<1>3. \A n \in DOMAIN taken[t] : taken[t][n].s \in Nat /\ taken[t][n].s <= call[t].s
  BY <1>2, CallHas DEF Submitted, Batch
<1>4. call[t].s \in Nat
  BY CallHas DEF Placed
<1>5. \A n \in DOMAIN taken'[t] : taken'[t][n].s \in 0..call[t].s
  BY <1>3, <1>4
<1>6. taken' = [taken EXCEPT ![t] = taken[t]]
  <2> HIDE DEF Batch
  <2>1. QED
    BY <1>1
<1>7. QED
  BY <1>1, <1>5, <1>6, AllKept

\* A step in which it takes a batch that has room for its fence.
LEMMA BatchTaken ==
  ASSUME SentInv, NEW t \in Thread, NEW s \in 0..call[t].s, NEW dwords \in Seq(Dword),
         NEW number \in Nat, Len(dwords) <= Cmds - Eop, Accept(t, s, dwords, number)
  PROVE  LET r == [s |-> s, dwords |-> dwords, fence |-> number]
         IN /\ r \in Batch /\ Append(taken[t], r) \in Seq(Batch)
            /\ taken' = [taken EXCEPT ![t] = Append(taken[t], r)]
            /\ taken'[t] = Append(taken[t], r)
            /\ \A x : x # s => Kept(t, x)
            /\ \A n \in DOMAIN taken'[t] : taken'[t][n].s \in 0..call[t].s
<1> DEFINE r == [s |-> s, dwords |-> dwords, fence |-> number]
           next == Len(taken[t]) + 1
<1>1. taken \in [Thread -> Seq(Batch)] /\ taken[t] \in Seq(Batch)
  BY DEF SentInv, SentType
<1>2. call[t].s \in Nat
  BY CallHas DEF Placed
<1>3. r \in Batch
  BY <1>2 DEF Batch
<1>4. taken' = [taken EXCEPT ![t] = Append(taken[t], r)]
  <2>1. Cmds \in Nat /\ Eop \in Nat /\ Len(dwords) \in Nat
    BY BatchAssumption
  <2>2. ~(number > 0 /\ Len(dwords) > Cmds - Eop)
    BY <2>1
  <2>3. QED
    BY <2>2 DEF Accept
<1>5. r.s = s /\ r \in Batch
  BY <1>3
<1> HIDE DEF r
<1>6. taken'[t] = Append(taken[t], r)
  BY <1>1, <1>4
<1>7. Append(taken[t], r) \in Seq(Batch)
  BY <1>1, <1>3
<1>8. /\ DOMAIN taken'[t] = 1..next /\ DOMAIN taken[t] = 1..next - 1 /\ next \in Nat
      /\ \A n \in DOMAIN taken[t] : taken'[t][n] = taken[t][n]
      /\ taken'[t][next] = r
  BY <1>1, <1>3, <1>6
<1>9. \A x : x # s => Kept(t, x)
  <2>1. DOMAIN taken'[t] = DOMAIN taken[t] \cup {next}
    BY <1>8
  <2>2. taken'[t][next].s = s
    BY <1>5, <1>8
  <2>3. ASSUME NEW x, x # s PROVE Batches(t, x)' = Batches(t, x)
    BY <1>8, <2>1, <2>2, <2>3 DEF Batches
  <2>4. ASSUME NEW x, NEW n \in Batches(t, x) PROVE taken'[t][n] = taken[t][n]
    BY <1>8, <2>4 DEF Batches
  <2>5. QED
    BY <2>3, <2>4 DEF Kept
<1>10. \A n \in DOMAIN taken[t] : taken[t][n].s \in 0..call[t].s
  <2>1. \A n \in DOMAIN taken[t] : taken[t][n] \in Batch
    BY <1>1
  <2>2. \A n \in DOMAIN taken[t] : taken[t][n].s \in Nat /\ taken[t][n].s <= call[t].s
    BY <2>1, CallHas DEF Submitted, Batch
  <2>3. QED
    BY <1>2, <2>2
<1>11. \A n \in DOMAIN taken'[t] : taken'[t][n].s \in 0..call[t].s
  <2>1. \A n \in DOMAIN taken'[t] : n \in DOMAIN taken[t] \/ n = next
    BY <1>8
  <2>2. taken'[t][next].s \in 0..call[t].s
    BY <1>5, <1>8
  <2>3. QED
    BY <1>8, <1>10, <2>1, <2>2, Zenon
<1>12. QED
  BY <1>3, <1>4, <1>6, <1>7, <1>9, <1>11 DEF r

\* One thread's call moves, and what it took is as it should be.
LEMMA CallSent ==
  ASSUME SentInv, QInv', NEW t \in Thread, NEW c, NEW pc, NEW s, NEW base, NEW i, NEW at, NEW handle,
         NEW batch, NEW any, NEW excuse, NEW b,
         Is(c, pc, call[t].subs, s, base, i, at, handle, batch, any, excuse),
         batch \in Seq(Dword), excuse \in BOOLEAN, call' = [call EXCEPT ![t] = c], cb' = cb,
         b \in Seq(Batch), taken' = [taken EXCEPT ![t] = b],
         call'[t] = c => Gathering(t)' /\ Submitted(t)'
  PROVE  SentInv'
<1>1. c.subs = call[t].subs /\ c.batch = batch /\ c.excuse = excuse
  BY DEF Is
<1>2. c.subs \in Submits \cup {<<>>} /\ c.batch \in Seq(Dword) /\ c.excuse \in BOOLEAN
  BY <1>1, CallHas, Zenon
<1>3. QED
  BY <1>2, SentMoves, Zenon

\* A call begins with the command buffers of a submit.
LEMMA Begins ==
  ASSUME SentInv, NEW t \in Thread, call[t].pc = "next", call[t].s \in Valid(call[t]), NEW c,
         NEW handle, NEW sub, sub = call[t].subs[call[t].s],
         Is(c, "gather", call[t].subs, call[t].s, call[t].base, 1, 0, handle, <<>>, call[t].any,
            call[t].excuse),
         call'[t] = c, UNCHANGED <<cb, taken>>
  PROVE  Gathering(t)'
<1> DEFINE next == Len(taken[t]) + 1
<1>1. /\ c.subs = call[t].subs /\ c.s = call[t].s /\ c.i = 1 /\ c.at = 0 /\ c.batch = <<>>
  BY DEF Is
<1>2. Placed(call[t]) /\ Submitted(t) /\ call[t].subs \in Submits \cup {<<>>}
  BY CallHas
<1>3. sub \in Seq(Cb) /\ Len(sub) \in Nat /\ c.subs[c.s] = sub
  BY <1>1, <1>2, ValidIs
<1>4. SentType
  BY DEF SentInv
<1>5. Batches(t, c.s)' = {}
  BY <1>1, <1>2, AllKept DEF Kept, Submitted, Placed
<1>6. Gathered(c)' = {}
  <2>1. Content(sub)' = Content(sub)
    BY DEF Content
  <2>2. ASSUME NEW x \in Content(sub) PROVE ~Before(x, <<1, 1>>)
    <3>1. PICK i \in 1..Len(sub) : \E k \in 1..cb[sub[i]].used : x = <<i, k, sub[i]>>
      BY <1>3, <1>4, ContentIs
    <3>2. PICK k \in 1..cb[sub[i]].used : x = <<i, k, sub[i]>>
      BY <3>1
    <3>3. cb[sub[i]].used \in Nat
      BY <1>3, <1>4, ContentIs
    <3>4. ~(i < 1 \/ (i = 1 /\ k < 1))
      BY <1>3, <3>3
    <3>5. QED
      BY <3>2, <3>4, BeforeIs, Zenon
  <2>3. Gathered(c)' = {x \in Content(sub) : Before(x, <<1, 1>>)}
    BY <1>1, <1>3, <2>1 DEF Gathered
  <2>4. QED
    BY <2>2, <2>3
<1>7. Parts(t)' = [n \in {next} |-> <<>>]
  <2>1. Len(taken'[t]) + 1 = next /\ call'[t].batch = <<>> /\ Batches(t, call[t].s)' = {}
    BY <1>1, <1>5
  <2>2. QED
    BY <2>1 DEF Parts
<1>8. Lists(Parts(t), Gathered(c))'
  BY <1>6, <1>7 DEF Lists, ToSet
<1>9. /\ c.s \in Valid(c) /\ c.i \in 1..Len(sub) + 1 /\ c.at \in Nat
      /\ Len(c.batch) <= Cmds - Eop
  BY <1>1, <1>3, BatchAssumption DEF Valid
<1>10. IF More(c) THEN c.at <= cb'[Buffer(c)].used ELSE c.at = 0
  <2>1. CASE More(c)
    <3>1. 1 \in 1..Len(sub) /\ Buffer(c) = sub[1]
      BY <1>1, <1>3, <2>1 DEF More, Buffer
    <3>2. cb[sub[1]].used \in Nat
      BY <1>3, <1>4, <3>1, ContentIs
    <3>3. QED
      BY <1>1, <2>1, <3>1, <3>2
  <2>2. QED
    BY <1>1, <2>1
<1>11. QED
  BY <1>1, <1>3, <1>5, <1>8, <1>9, <1>10 DEF Gathering, More, Buffer, Valid

\* The next submit: its first command buffer, or none of a submit of another
\* sType.
LEMMA NextSubmitSent ==
  ASSUME SentInv, QInv', NEW t \in Thread, NextSubmit(t)
  PROVE  SentInv'
<1> DEFINE e == call[t]
           skip == [e EXCEPT !.s = e.s + 1]
           go == [e EXCEPT !.pc = "gather", !.i = 1, !.at = 0, !.handle = kmd, !.batch = <<>>]
<1>1. /\ e.pc = "next" /\ e.s <= Len(e.subs) /\ UNCHANGED <<cb, taken>>
      /\ call' = [call EXCEPT ![t] = IF e.subs[e.s] = Other THEN skip ELSE go]
  BY DEF NextSubmit, Step
<1>2. /\ Is(e, e.pc, e.subs, e.s, e.base, e.i, e.at, e.handle, e.batch, e.any, e.excuse)
      /\ Placed(e) /\ Submitted(t) /\ e.subs \in Submits \cup {<<>>} /\ e.batch \in Seq(Dword)
      /\ e.excuse \in BOOLEAN
  BY CallHas
<1>r. PICK r : r = e.s
  OBVIOUS
<1> HIDE DEF e
<1>3. Is(skip, e.pc, e.subs, e.s + 1, e.base, e.i, e.at, e.handle, e.batch, e.any, e.excuse)
  BY <1>2, Assigned, Zenon
<1>4. Is(go, "gather", e.subs, e.s, e.base, 1, 0, kmd, <<>>, e.any, e.excuse)
  BY <1>2, AssignedMost, Zenon
<1> USE DEF e
<1>5. /\ \A s : Kept(t, s)
      /\ \A n \in DOMAIN taken'[t] : taken'[t][n].s \in 0..e.s
      /\ taken[t] \in Seq(Batch) /\ taken' = [taken EXCEPT ![t] = taken[t]]
  BY <1>1, NothingTaken
<1>6. e.s \in DOMAIN e.subs
  BY <1>1, <1>2, ValidIs DEF Placed
<1> HIDE DEF skip, go
<1>7. CASE e.subs[e.s] = Other
  <2>1. Is(skip, "next", e.subs, e.s + 1, e.base, e.i, e.at, e.handle, e.batch, e.any, e.excuse)
    BY <1>1, <1>3, Zenon
  <2>2. e.s \notin Valid(e)
    BY <1>7 DEF Valid
  <2>3. call' = [call EXCEPT ![t] = skip]
    BY <1>1, <1>7
  <2>4. ASSUME call'[t] = skip PROVE Gathering(t)' /\ Submitted(t)'
    <3>1. e.pc \in {"next", "gather"} /\ \A s : s # e.s => Kept(t, s)
      BY <1>1, <1>5
    <3>2. r \notin Valid(e) /\ cb' = cb
      BY <1>1, <1>r, <2>2
    <3>3. /\ skip.pc = "next" /\ skip.subs = e.subs /\ skip.s = e.s + 1 /\ skip.base = e.base
          /\ skip.any = e.any /\ skip.excuse = e.excuse
      BY <2>1 DEF Is
    <3>4. QED
      BY <1>r, <1>5, <2>4, <3>1, <3>2, <3>3, Passed
  <2>5. QED
    BY <1>1, <1>2, <1>5, <2>1, <2>3, <2>4, CallSent, Zenon
<1>8. CASE e.subs[e.s] # Other
  <2>1. e.s \in Valid(e)
    BY <1>6, <1>8 DEF Valid
  <2>2. call' = [call EXCEPT ![t] = go]
    BY <1>1, <1>8
  <2>3. ASSUME call'[t] = go PROVE Submitted(t)'
    BY <1>1, <1>4, <1>5, <2>1, <2>3, Stays
  <2>4. ASSUME call'[t] = go PROVE Gathering(t)'
    BY <1>1, <1>4, <2>1, <2>4, Begins
  <2>5. call'[t] = go => Gathering(t)' /\ Submitted(t)'
    BY <2>3, <2>4
  <2>6. <<>> \in Seq(Dword)
    OBVIOUS
  <2>7. QED
    BY <1>1, <1>2, <1>4, <1>5, <2>2, <2>5, <2>6, CallSent, Zenon
<1>9. QED
  BY <1>7, <1>8

\* A call goes on to the next command buffer, or takes more of this one.
LEMMA NextBuffer ==
  ASSUME SentInv, NEW t \in Thread, call[t].pc = "gather", More(call[t]), Rest(call[t]) = 0, NEW c,
         c.subs = call[t].subs, c.s = call[t].s, c.i = call[t].i + 1, c.at = 0,
         c.batch = call[t].batch, call'[t] = c, UNCHANGED <<cb, taken>>
  PROVE  Gathering(t)'
<1> DEFINE e == call[t]
<1>1. Gathering(t) /\ e.subs \in Submits \cup {<<>>}
  BY CallHas
<1>2. PICK sub : sub = e.subs[e.s]
  OBVIOUS
<1>3. sub \in Seq(Cb) /\ Len(sub) \in Nat /\ e.s \in Valid(e)
  BY <1>1, <1>2, ValidIs DEF Gathering
<1>4. SentType
  BY DEF SentInv
<1>5. e.i \in 1..Len(sub) /\ Buffer(e) = sub[e.i]
  BY <1>1, <1>2, <1>3 DEF Gathering, More, Buffer
<1>6. e.at = cb[sub[e.i]].used /\ e.at \in Nat
  BY <1>1, <1>3, <1>4, <1>5, ContentIs DEF Gathering, Rest
<1>7. PICK i : i = e.i
  OBVIOUS
<1>8. Gathered(c)' = Gathered(e)
  <2>1. Content(c.subs[c.s])' = Content(sub)
    BY <1>2 DEF Content
  <2>2. ASSUME NEW x \in Content(sub)
        PROVE  Before(x, <<c.i, c.at + 1>>) <=> Before(x, <<e.i, e.at + 1>>)
    <3>1. PICK j \in 1..Len(sub) : \E k \in 1..cb[sub[j]].used : x = <<j, k, sub[j]>>
      BY <1>3, <1>4, ContentIs
    <3>2. PICK k \in 1..cb[sub[j]].used : x = <<j, k, sub[j]>>
      BY <3>1
    <3>3. cb[sub[j]].used \in Nat
      BY <1>3, <1>4, ContentIs
    <3>4. j < i + 1 \/ (j = i + 1 /\ k < 0 + 1) <=> j < i \/ (j = i /\ k < e.at + 1)
      BY <1>3, <1>5, <1>6, <1>7, <3>3
    <3>5. Before(x, <<i + 1, 0 + 1>>) <=> j < i + 1 \/ (j = i + 1 /\ k < 0 + 1)
      BY <3>2, BeforeIs, Zenon
    <3>6. Before(x, <<i, e.at + 1>>) <=> j < i \/ (j = i /\ k < e.at + 1)
      BY <3>2, BeforeIs, Zenon
    <3>7. QED
      BY <1>7, <3>4, <3>5, <3>6
  <2>3. Gathered(c)' = {x \in Content(sub) : Before(x, <<c.i, c.at + 1>>)}
    BY <2>1 DEF Gathered
  <2>4. Gathered(e) = {x \in Content(sub) : Before(x, <<e.i, e.at + 1>>)}
    BY <1>2 DEF Gathered
  <2>5. QED
    BY <2>2, <2>3, <2>4
<1>9. Batches(t, c.s)' = Batches(t, e.s)
  BY DEF Batches
<1>10. Parts(t)' = Parts(t)
  <2>1. Batches(t, call[t].s)' = Batches(t, call[t].s)
    BY DEF Batches
  <2>2. QED
    BY <2>1 DEF Parts
<1>11. Lists(Parts(t), Gathered(c))'
  <2>1. Lists(Parts(t), Gathered(e))
    BY <1>1 DEF Gathering
  <2>2. QED
    BY <1>8, <1>10, <2>1 DEF Lists
<1>12. /\ c.s \in Valid(c) /\ c.i \in 1..Len(sub) + 1 /\ c.at \in Nat /\ c.subs[c.s] = sub
       /\ Len(c.batch) <= Cmds - Eop
       /\ \A n \in Batches(t, e.s) : taken'[t][n].fence = 0
       /\ ~(c.batch = <<>> /\ Batches(t, e.s) # {})
  BY <1>1, <1>2, <1>3, <1>5 DEF Valid, Gathering
<1>13. IF More(c) THEN c.at <= cb'[Buffer(c)].used ELSE c.at = 0
  <2>1. CASE More(c)
    <3>1. c.i \in 1..Len(sub) /\ Buffer(c) = sub[c.i]
      BY <1>3, <1>12, <2>1 DEF More, Buffer
    <3>2. cb[sub[c.i]].used \in Nat
      BY <1>3, <1>4, <3>1, ContentIs
    <3>3. QED
      BY <2>1, <3>1, <3>2
  <2>2. QED
    BY <2>1
<1>14. QED
  BY <1>9, <1>11, <1>12, <1>13 DEF Gathering, More, Buffer

\* The dwords that are taken at once.
News(i, at, b, n) == [k \in 1..n |-> <<i, at + k, b>>]

LEMMA NewsAre ==
  ASSUME NEW i \in Nat, NEW at \in Nat, NEW b \in Cb, NEW n \in Nat, NEW e, e = News(i, at, b, n)
  PROVE  /\ e \in Seq(Dword) /\ Len(e) = n /\ DOMAIN e = 1..n
         /\ \A k \in 1..n : e[k] = <<i, at + k, b>>
         /\ \A j, k \in DOMAIN e : j < k => Before(e[j], e[k])
         /\ \A k \in 1..n : <<i, at + k, b>> \in ToSet(e)
         /\ \A y \in ToSet(e) : \E k \in 1..n : y = <<i, at + k, b>>
<1>1. DOMAIN e = 1..n /\ \A k \in 1..n : e[k] = <<i, at + k, b>>
  BY DEF News
<1>2. \A k \in 1..n : e[k] \in Dword
  <2>1. \A k \in 1..n : <<i, at + k, b>> \in Dword
    BY DEF Dword
  <2>2. QED
    BY <1>1, <2>1
<1>3. e \in [1..n -> Dword]
  BY <1>1, <1>2 DEF News
<1>4. e \in Seq(Dword) /\ Len(e) = n
  <2>1. QED
    BY <1>3
<1>5. ASSUME NEW j \in 1..n, NEW k \in 1..n, j < k PROVE Before(e[j], e[k])
  <2>1. at + j < at + k
    BY <1>5
  <2>2. QED
    BY <1>1, <2>1, BeforeIs, Zenon
<1>6. /\ \A k \in 1..n : <<i, at + k, b>> \in ToSet(e)
      /\ \A y \in ToSet(e) : \E k \in 1..n : y = <<i, at + k, b>>
  BY <1>1 DEF ToSet
<1>7. QED
  BY <1>1, <1>4, <1>5, <1>6

LEMMA Joined ==
  ASSUME NEW x \in Seq(Dword), NEW y \in Seq(Dword)
  PROVE  x \o y \in Seq(Dword) /\ Len(x \o y) = Len(x) + Len(y)
OBVIOUS

LEMMA Room ==
  ASSUME NEW C \in Nat, NEW E \in Nat, NEW l \in Nat, NEW u \in Nat, NEW a \in Nat, a <= u,
         u - a # 0, ~(u - a > 0 /\ C - l <= E), NEW n,
         n = IF u - a > C - l - E THEN C - l - E ELSE u - a
  PROVE  n \in Nat /\ n > 0 /\ n <= u - a /\ n + l <= C - E
<1>1. C - l - E \in Nat /\ C - l - E > 0
  OBVIOUS
<1>2. CASE u - a > C - l - E
  BY <1>1, <1>2
<1>3. CASE ~(u - a > C - l - E)
  BY <1>3
<1>4. QED
  BY <1>2, <1>3

LEMMA MoreTaken ==
  ASSUME SentInv, NEW t \in Thread, call[t].pc = "gather", More(call[t]), ~Full(call[t]),
         Rest(call[t]) # 0, NEW c, c.subs = call[t].subs, c.s = call[t].s, c.i = call[t].i,
         c.at = call[t].at + Take(call[t]),
         c.batch = call[t].batch \o News(call[t].i, call[t].at, Buffer(call[t]), Take(call[t])),
         call'[t] = c, UNCHANGED <<cb, taken>>
  PROVE  Gathering(t)' /\ c.batch \in Seq(Dword)
<1> DEFINE e == call[t]
           next == Len(taken[t]) + 1
           N == Batches(t, e.s) \cup {next}
<1>0. PICK i, at, b, n : i = e.i /\ at = e.at /\ b = Buffer(e) /\ n = Take(e)
  OBVIOUS
<1>a. PICK new : new = News(i, at, b, n)
  OBVIOUS
<1> DEFINE used == cb[b].used
<1>1. Gathering(t) /\ e.subs \in Submits \cup {<<>>} /\ e.batch \in Seq(Dword) /\ taken[t] \in Seq(Batch)
  BY CallHas
<1>2. PICK sub : sub = e.subs[e.s]
  OBVIOUS
<1>3. sub \in Seq(Cb) /\ Len(sub) \in Nat /\ e.s \in Valid(e)
  BY <1>1, <1>2, ValidIs DEF Gathering
<1>4. SentType
  BY DEF SentInv
<1>5. i \in 1..Len(sub) /\ b = sub[i] /\ i \in Nat
  <2>1. e.i \in 1..Len(sub) + 1
    BY <1>1, <1>2 DEF Gathering
  <2>2. e.i <= Len(sub) /\ Buffer(e) = sub[e.i]
    BY <1>2 DEF More, Buffer
  <2>3. QED
    BY <1>0, <1>3, <2>1, <2>2
<1>6. at <= used /\ at \in Nat /\ b \in Cb /\ used \in Nat /\ Len(e.batch) \in Nat
      /\ Len(e.batch) <= Cmds - Eop
  BY <1>0, <1>1, <1>3, <1>4, <1>5, ContentIs DEF Gathering
<1>7. Rest(e) = used - at
  BY <1>0 DEF Rest
<1>8. n \in Nat /\ n > 0 /\ n <= used - at /\ n + Len(e.batch) <= Cmds - Eop
  <2>1. Cmds \in Nat /\ Eop \in Nat
    BY BatchAssumption
  <2>2. used - at # 0 /\ ~(used - at > 0 /\ Cmds - Len(e.batch) <= Eop)
    BY <1>7 DEF Full
  <2>3. n = IF used - at > Cmds - Len(e.batch) - Eop THEN Cmds - Len(e.batch) - Eop ELSE used - at
    BY <1>0, <1>7 DEF Take
  <2> HIDE DEF used, e
  <2>4. QED
    BY <1>6, <2>1, <2>2, <2>3, Room
<1>9. /\ new \in Seq(Dword) /\ Len(new) = n /\ DOMAIN new = 1..n
      /\ \A j, k \in DOMAIN new : j < k => Before(new[j], new[k])
      /\ \A k \in 1..n : <<i, at + k, b>> \in ToSet(new)
      /\ \A y \in ToSet(new) : \E k \in 1..n : y = <<i, at + k, b>>
  <2>1. i \in Nat /\ at \in Nat /\ b \in Cb /\ n \in Nat
    BY <1>5, <1>6, <1>8, Zenon
  <2>2. new \in Seq(Dword)
    BY <1>a, <2>1, NewsAre, Zenon
  <2>3. Len(new) = n /\ DOMAIN new = 1..n
    <3>1. DOMAIN new = 1..n
      BY <1>a, Zenon DEF News
    <3>2. DOMAIN new = 1..Len(new) /\ Len(new) \in Nat
      BY <2>2
    <3>3. QED
      BY <2>1, <3>1, <3>2
  <2>4. \A j, k \in DOMAIN new : j < k => Before(new[j], new[k])
    BY <1>a, <2>1, NewsAre, Zenon
  <2>5. \A k \in 1..n : <<i, at + k, b>> \in ToSet(new)
    BY <1>a, <2>1, NewsAre, Zenon
  <2>6. \A y \in ToSet(new) : \E k \in 1..n : y = <<i, at + k, b>>
    <3>1. \A k \in 1..n : new[k] = <<i, at + k, b>>
      BY <1>a, Zenon DEF News
    <3>2. QED
      BY <2>3, <3>1 DEF ToSet
  <2>7. QED
    BY <2>2, <2>3, <2>4, <2>5, <2>6, Zenon
<1>10. c.batch = e.batch \o new /\ c.at = at + n /\ c.i = i
  BY <1>0, <1>a
<1>11. c.batch \in Seq(Dword) /\ Len(c.batch) = Len(e.batch) + n
  <2>1. e.batch \in Seq(Dword)
    BY <1>1
  <2>2. new \in Seq(Dword) /\ Len(new) = n
    BY <1>9
  <2>3. c.batch = e.batch \o new
    BY <1>10
  <2>4. QED
    BY <2>1, <2>2, <2>3, Joined, Zenon
<1>12. /\ \A x \in Gathered(e) : Before(x, <<i, at + 1>>)
       /\ Gathered(c)' = Gathered(e) \cup ToSet(new)
  <2>1. Content(c.subs[c.s])' = Content(sub)
    BY <1>2 DEF Content
  <2>2. Gathered(c)' = {x \in Content(sub) : Before(x, <<i, at + n + 1>>)}
    BY <1>10, <2>1 DEF Gathered
  <2>3. Gathered(e) = {x \in Content(sub) : Before(x, <<i, at + 1>>)}
    BY <1>0, <1>2 DEF Gathered
  <2>4. ASSUME NEW x \in Content(sub)
        PROVE  Before(x, <<i, at + n + 1>>) <=> Before(x, <<i, at + 1>>) \/ x \in ToSet(new)
    <3>1. PICK j \in 1..Len(sub) : \E k \in 1..cb[sub[j]].used : x = <<j, k, sub[j]>>
      BY <1>3, <1>4, ContentIs
    <3>2. PICK k \in 1..cb[sub[j]].used : x = <<j, k, sub[j]>>
      BY <3>1
    <3>3. cb[sub[j]].used \in Nat
      BY <1>3, <1>4, ContentIs
    <3>4. Before(x, <<i, at + n + 1>>) <=> j < i \/ (j = i /\ k < at + n + 1)
      BY <3>2, BeforeIs, Zenon
    <3>5. Before(x, <<i, at + 1>>) <=> j < i \/ (j = i /\ k < at + 1)
      BY <3>2, BeforeIs, Zenon
    <3>6. x \in ToSet(new) => j = i /\ k < at + n + 1
      BY <1>6, <1>8, <1>9, <3>2
    <3>7. ASSUME j = i, k < at + n + 1, ~(k < at + 1) PROVE x \in ToSet(new)
      <4>1. k - at \in 1..n /\ at + (k - at) = k
        BY <1>6, <1>8, <3>3, <3>7
      <4>2. x = <<i, at + (k - at), b>>
        BY <1>5, <3>2, <3>7, <4>1
      <4>3. QED
        BY <1>9, <4>1, <4>2
    <3>8. k < at + 1 => k < at + n + 1
      BY <1>6, <1>8, <3>3
    <3>9. QED
      BY <3>4, <3>5, <3>6, <3>7, <3>8
  <2>5. ToSet(new) \subseteq Content(sub)
    <3>1. \A k \in 1..n : at + k \in 1..used
      BY <1>6, <1>8
    <3>2. \A k \in 1..n : <<i, at + k, b>> \in Content(sub)
      BY <1>3, <1>4, <1>5, <3>1, ContentIs
    <3>3. QED
      BY <1>9, <3>2
  <2>6. QED
    BY <2>2, <2>3, <2>4, <2>5
<1>13. \A x \in Gathered(e), y \in ToSet(new) : Before(x, y)
  <2>1. ASSUME NEW x \in Content(sub), Before(x, <<i, at + 1>>), NEW k \in 1..n
        PROVE  Before(x, <<i, at + k, b>>)
    <3>1. PICK j \in 1..Len(sub) : \E l \in 1..cb[sub[j]].used : x = <<j, l, sub[j]>>
      BY <1>3, <1>4, ContentIs
    <3>2. PICK l \in 1..cb[sub[j]].used : x = <<j, l, sub[j]>>
      BY <3>1
    <3>3. cb[sub[j]].used \in Nat
      BY <1>3, <1>4, ContentIs
    <3>4. j < i \/ (j = i /\ l < at + 1)
      BY <2>1, <3>2, BeforeIs, Zenon
    <3>5. j < i \/ (j = i /\ l < at + k)
      BY <1>6, <1>8, <3>3, <3>4
    <3>6. QED
      BY <3>2, <3>5, BeforeIs, Zenon
  <2>2. \A x \in Gathered(e) : x \in Content(sub)
    BY <1>2 DEF Gathered
  <2>3. QED
    BY <1>9, <1>12, <2>1, <2>2
<1>14. Lists(Parts(t)', Gathered(e) \cup ToSet(new))
  <2>1. Lists(Parts(t), Gathered(e))
    BY <1>1 DEF Gathering
  <2>2. N \in SUBSET Nat /\ next \in N /\ \A m \in N : m <= next /\ m \in Nat
    BY <1>1 DEF Batches
  <2>3. DOMAIN Parts(t) = N /\ Parts(t)[next] = e.batch
        /\ \A m \in N \ {next} : Parts(t)[m] = taken[t][m].dwords
    BY DEF Parts
  <2>4. Batches(t, call[t].s)' = Batches(t, e.s) /\ Len(taken'[t]) + 1 = next
    BY DEF Batches
  <2>5. DOMAIN Parts(t)' = N /\ Parts(t)'[next] = e.batch \o new
        /\ \A m \in N \ {next} : Parts(t)'[m] = taken[t][m].dwords
    BY <1>10, <2>4 DEF Parts
  <2>6. \A m \in N : Parts(t)[m] \in Seq(Dword)
    <3>1. \A m \in Batches(t, e.s) : taken[t][m] \in Batch
      BY <1>1 DEF Batches
    <3>2. \A m \in Batches(t, e.s) : taken[t][m].dwords \in Seq(Dword)
      BY <3>1 DEF Batch
    <3>3. QED
      BY <1>1, <2>3, <3>2
  <2> DEFINE p == Parts(t)
             q == Parts(t)'
  <2> HIDE DEF p, q, N, next
  <2>7. Lists(p, Gathered(e)) /\ DOMAIN p = N /\ DOMAIN q = N
        /\ (\A m \in N : p[m] \in Seq(Dword)) /\ (\A m \in N \ {next} : q[m] = p[m])
        /\ q[next] = p[next] \o new /\ p[next] \in Seq(Dword)
    BY <1>1, <2>1, <2>2, <2>3, <2>5, <2>6 DEF p, q
  <2>8. \A m \in N : m <= next
    BY <2>2
  <2>9. new \in Seq(Dword) /\ \A j, k \in DOMAIN new : j < k => Before(new[j], new[k])
    BY <1>9, Zenon
  <2>10. Lists(q, Gathered(e) \cup ToSet(new))
    <3> DEFINE S == Gathered(e)
    <3>1. Lists(p, S) /\ \A x \in S, y \in ToSet(new) : Before(x, y)
      BY <1>13, <2>7
    <3> HIDE DEF S, e
    <3>2. Lists(q, S \cup ToSet(new))
      BY <2>2, <2>7, <2>8, <2>9, <3>1, ListsMore, ZenonT(60)
    <3>3. QED
      BY <3>2 DEF S
  <2>11. QED
    BY <2>10 DEF q
<1>15. Lists(Parts(t), Gathered(c))'
  BY <1>12, <1>14 DEF Lists
<1>16. More(c) /\ Buffer(c) = b /\ c.at <= cb'[b].used /\ c.at \in Nat
  <2>1. More(c) /\ Buffer(c) = b
    BY <1>0, <1>10 DEF More, Buffer
  <2>2. QED
    BY <1>6, <1>8, <1>10, <2>1
<1>17. /\ c.s \in Valid(c) /\ c.i \in 1..Len(sub) + 1 /\ c.subs[c.s] = sub
       /\ Len(c.batch) <= Cmds - Eop /\ c.batch # <<>>
       /\ \A m \in Batches(t, e.s) : taken'[t][m].fence = 0
  <2>1. Len(c.batch) <= Cmds - Eop /\ Len(c.batch) > 0
    <3>1. n > 0 /\ n \in Nat /\ n + Len(e.batch) <= Cmds - Eop
      BY <1>8
    <3>2. Len(c.batch) = Len(e.batch) + n /\ Len(e.batch) \in Nat
      BY <1>6, <1>11
    <3> HIDE DEF e
    <3>3. QED
      BY <3>1, <3>2, BatchAssumption
  <2>2. QED
    BY <1>1, <1>2, <1>3, <1>5, <1>10, <2>1 DEF Valid, Gathering
<1>18. Batches(t, c.s)' = Batches(t, e.s)
  BY DEF Batches
<1>19. QED
  BY <1>11, <1>15, <1>16, <1>17, <1>18 DEF Gathering, More, Buffer

LEMMA GatherSent ==
  ASSUME SentInv, QInv', NEW t \in Thread, Gather(t)
  PROVE  SentInv'
<1> DEFINE e == call[t]
           over == [e EXCEPT !.i = e.i + 1, !.at = 0]
<1>1. PICK i, at, b, n : i = e.i /\ at = e.at /\ b = Buffer(e) /\ n = Take(e)
  OBVIOUS
<1> DEFINE batch == e.batch \o News(i, at, b, n)
           more == [e EXCEPT !.batch = batch, !.at = at + n]
<1>2. /\ e.pc = "gather" /\ More(e) /\ ~Full(e) /\ UNCHANGED <<cb, taken>>
      /\ call' = [call EXCEPT ![t] = IF Rest(e) = 0 THEN over ELSE more]
  BY <1>1 DEF Gather, Step, News
<1>3. /\ Is(e, e.pc, e.subs, e.s, e.base, e.i, e.at, e.handle, e.batch, e.any, e.excuse)
      /\ Placed(e) /\ Gathering(t) /\ e.subs \in Submits \cup {<<>>} /\ e.batch \in Seq(Dword)
      /\ e.excuse \in BOOLEAN
  BY CallHas
<1>4. Is(e, "gather", e.subs, e.s, e.base, e.i, e.at, e.handle, e.batch, e.any, e.excuse)
  BY <1>2, <1>3, Zenon
<1> HIDE DEF e, batch
<1>5. Is(over, "gather", e.subs, e.s, e.base, e.i + 1, 0, e.handle, e.batch, e.any, e.excuse)
  BY <1>4, AssignedMore, Zenon
<1>6. Is(more, "gather", e.subs, e.s, e.base, e.i, at + n, e.handle, batch, e.any, e.excuse)
  BY <1>4, AssignedMore, Zenon
<1> USE DEF e
<1>7. /\ \A s : Kept(t, s)
      /\ \A m \in DOMAIN taken'[t] : taken'[t][m].s \in 0..e.s
      /\ taken[t] \in Seq(Batch) /\ taken' = [taken EXCEPT ![t] = taken[t]]
  BY <1>2, NothingTaken
<1>8. e.s \in Valid(e)
  BY <1>2, <1>3 DEF Gathering
<1> HIDE DEF over, more
<1>9. CASE Rest(e) = 0
  <2>1. call' = [call EXCEPT ![t] = over]
    BY <1>2, <1>9
  <2>2. ASSUME call'[t] = over PROVE Submitted(t)'
    BY <1>2, <1>5, <1>7, <1>8, <2>2, Stays
  <2>3. ASSUME call'[t] = over PROVE Gathering(t)'
    <3>1. over.subs = e.subs /\ over.s = e.s /\ over.i = e.i + 1 /\ over.at = 0 /\ over.batch = e.batch
      BY <1>5 DEF Is
    <3>2. QED
      BY <1>2, <1>9, <2>3, <3>1, NextBuffer
  <2>4. call'[t] = over => Gathering(t)' /\ Submitted(t)'
    BY <2>2, <2>3
  <2>5. cb' = cb
    BY <1>2
  <2>6. QED
    BY <1>3, <1>5, <1>7, <2>1, <2>4, <2>5, CallSent, Zenon
<1>10. CASE Rest(e) # 0
  <2>1. call' = [call EXCEPT ![t] = more]
    BY <1>2, <1>10
  <2>2. ASSUME call'[t] = more PROVE Submitted(t)'
    BY <1>2, <1>6, <1>7, <1>8, <2>2, Stays
  <2>3. call'[t] = more
    BY <2>1 DEF SentInv, QInv, QueueType
  <2>4. Gathering(t)' /\ batch \in Seq(Dword)
    <3>1. /\ more.subs = e.subs /\ more.s = e.s /\ more.i = e.i /\ more.at = e.at + Take(e)
          /\ more.batch = e.batch \o News(e.i, e.at, Buffer(e), Take(e)) /\ more.batch = batch
      BY <1>1, <1>6 DEF Is, batch
    <3>2. QED
      BY <1>2, <1>10, <2>3, <3>1, MoreTaken
  <2>5. call'[t] = more => Gathering(t)' /\ Submitted(t)'
    BY <2>2, <2>4
  <2>6. cb' = cb
    BY <1>2
  <2>7. QED
    BY <1>3, <1>6, <1>7, <2>1, <2>4, <2>5, <2>6, CallSent, Zenon
<1>11. QED
  BY <1>9, <1>10

\* A full batch is taken: it lists what it listed before, and an empty one
\* follows.
LEMMA FullTaken ==
  ASSUME SentInv, NEW t \in Thread, call[t].pc = "gather", More(call[t]), Rest(call[t]) > 0,
         NEW r \in Batch, r.s = call[t].s, r.dwords = call[t].batch, r.fence = 0,
         Took(t, r), cb' = cb,
         NEW c, c.subs = call[t].subs, c.s = call[t].s, c.i = call[t].i, c.at = call[t].at,
         c.batch = <<>>, call'[t] = c
  PROVE  Gathering(t)'
<1>0. PICK next : next = Len(taken[t]) + 1
  OBVIOUS
<1> DEFINE e == call[t]
           N == Batches(t, e.s) \cup {next}
<1>1. Gathering(t) /\ taken[t] \in Seq(Batch)
  BY CallHas
<1>2. PICK s : s = e.s
  OBVIOUS
<1>3. /\ next \in Nat /\ Len(taken'[t]) = next /\ taken'[t][next] = r
      /\ Batches(t, s)' = Batches(t, s) \cup {next}
      /\ \A n \in Batches(t, s) : n \in Nat /\ n < next /\ taken'[t][n] = taken[t][n]
  <2>1. taken[t] \in Seq(Batch) /\ r.s = s
    BY <1>1, <1>2
  <2> HIDE DEF e
  <2>2. Grown(t, s, r)
    BY <2>1, Appended, Zenon
  <2>3. QED
    BY <1>0, <2>2 DEF Grown
<1>4. /\ DOMAIN Parts(t) = N /\ Parts(t)[next] = e.batch
      /\ \A n \in Batches(t, e.s) : Parts(t)[n] = taken[t][n].dwords
  BY <1>0, <1>2, <1>3 DEF Parts
<1>5. Batches(t, call[t].s)' = N /\ Len(taken'[t]) + 1 = next + 1 /\ call'[t].batch = <<>>
  BY <1>2, <1>3
<1>6. /\ DOMAIN Parts(t)' = N \cup {next + 1} /\ Parts(t)'[next + 1] = <<>>
      /\ \A n \in N : Parts(t)'[n] = taken'[t][n].dwords
  <2>1. next + 1 \notin N
    BY <1>2, <1>3
  <2>2. QED
    BY <1>5, <2>1 DEF Parts
<1>7. \A n \in N : Parts(t)'[n] = Parts(t)[n]
  BY <1>2, <1>3, <1>4, <1>6
<1>8. Gathered(c)' = Gathered(e)
  <2>1. Content(c.subs[c.s])' = Content(e.subs[e.s])
    BY DEF Content
  <2>2. QED
    BY <2>1 DEF Gathered
<1>9. Lists(Parts(t)', Gathered(e))
  <2> DEFINE p == Parts(t)
             q == Parts(t)'
             S == Gathered(e)
             m == next + 1
  <2>1. Lists(p, S)
    BY <1>1 DEF Gathering
  <2>2. m \notin DOMAIN p
    BY <1>2, <1>3, <1>4
  <2>3. Added(q, p, m)
    BY <1>4, <1>6, <1>7 DEF Added
  <2> HIDE DEF p, q, S, m, e
  <2>4. Lists(q, S)
    BY <2>1, <2>2, <2>3, ListsEmpty
  <2>5. QED
    BY <2>4 DEF q, S
<1>10. Lists(Parts(t), Gathered(c))'
  BY <1>8, <1>9 DEF Lists
<1>11. \A n \in Batches(t, c.s)' : taken'[t][n].fence = 0
  BY <1>1, <1>2, <1>3 DEF Gathering
<1>12. /\ c.s \in Valid(c) /\ c.i \in 1..Len(c.subs[c.s]) + 1 /\ c.at \in Nat
       /\ More(c) /\ Buffer(c) = Buffer(e) /\ c.at <= cb'[Buffer(c)].used
       /\ Len(c.batch) <= Cmds - Eop
       /\ cb'[Buffer(c)].used - c.at > 0
  BY <1>1, BatchAssumption DEF Gathering, Valid, More, Buffer, Rest
<1>13. QED
  BY <1>10, <1>11, <1>12 DEF Gathering, More, Buffer, Rest

\* What is refused is excused: no fence of the submit is left behind.
LEMMA Refused ==
  ASSUME SentInv, NEW t \in Thread, call[t].pc = "gather", UNCHANGED taken, NEW c, c.excuse,
         call'[t] = c, NEW s, s = call[t].s
  PROVE  Ended(t, s)'
<1>1. Batches(t, s)' = Batches(t, s) /\ \A n \in Batches(t, s) : taken'[t][n].fence = 0
  BY CallHas DEF Gathering, Batches
<1>2. QED
  BY <1>1 DEF Ended, EndsWithFence, Fenced

LEMMA SendBatchSent ==
  ASSUME SentInv, QInv', NEW t \in Thread, SendBatch(t)
  PROVE  SentInv'
<1> DEFINE e == call[t]
           sent == [e EXCEPT !.batch = <<>>]
           off == [e EXCEPT !.pc = "next", !.s = e.s + 1, !.excuse = TRUE]
<1>1. /\ e.pc = "gather" /\ More(e) /\ Rest(e) > 0 /\ cb' = cb
      /\ \/ Accept(t, e.s, e.batch, 0) /\ call' = [call EXCEPT ![t] = sent]
         \/ taken' = taken /\ call' = [call EXCEPT ![t] = off]
  BY DEF SendBatch, Step, Refuse, Full
<1>2. /\ Is(e, e.pc, e.subs, e.s, e.base, e.i, e.at, e.handle, e.batch, e.any, e.excuse)
      /\ Placed(e) /\ Gathering(t) /\ e.subs \in Submits \cup {<<>>} /\ e.batch \in Seq(Dword)
      /\ e.excuse \in BOOLEAN
  BY CallHas
<1>3. Is(e, "gather", e.subs, e.s, e.base, e.i, e.at, e.handle, e.batch, e.any, e.excuse)
  BY <1>1, <1>2, Zenon
<1>4. e.s \in Valid(e) /\ e.s \in 0..e.s /\ Len(e.batch) <= Cmds - Eop
  BY <1>1, <1>2 DEF Gathering, Placed
<1>r. PICK r : r = e.s
  OBVIOUS
<1> HIDE DEF e
<1>5. Is(sent, "gather", e.subs, e.s, e.base, e.i, e.at, e.handle, <<>>, e.any, e.excuse)
  BY <1>3, Assigned, Zenon
<1>6. Is(off, "next", e.subs, e.s + 1, e.base, e.i, e.at, e.handle, e.batch, e.any, TRUE)
  BY <1>3, AssignedMore, Zenon
<1> USE DEF e
<1> HIDE DEF sent, off
<1>7. CASE Accept(t, e.s, e.batch, 0) /\ call' = [call EXCEPT ![t] = sent]
  <2> DEFINE b == [s |-> e.s, dwords |-> e.batch, fence |-> 0]
             q == Append(taken[t], b)
  <2>1. /\ b \in Batch /\ q \in Seq(Batch) /\ taken' = [taken EXCEPT ![t] = q] /\ taken'[t] = q
        /\ \A x : x # e.s => Kept(t, x)
        /\ \A n \in DOMAIN taken'[t] : taken'[t][n].s \in 0..e.s
    BY <1>2, <1>4, <1>7, BatchTaken
  <2>t. Took(t, b)
    BY <2>1 DEF Took
  <2>2. ASSUME call'[t] = sent PROVE Submitted(t)'
    BY <1>1, <1>4, <1>5, <2>1, <2>2, Stays
  <2>3. ASSUME call'[t] = sent PROVE Gathering(t)'
    <3>1. /\ sent.subs = e.subs /\ sent.s = e.s /\ sent.i = e.i /\ sent.at = e.at
          /\ sent.batch = <<>>
      BY <1>5 DEF Is
    <3>2. b.s = e.s /\ b.dwords = e.batch /\ b.fence = 0
      OBVIOUS
    <3> HIDE DEF b
    <3>3. QED
      BY <1>1, <2>1, <2>t, <2>3, <3>1, <3>2, FullTaken
  <2>4. call'[t] = sent => Gathering(t)' /\ Submitted(t)'
    BY <2>2, <2>3
  <2>5. <<>> \in Seq(Dword) /\ call' = [call EXCEPT ![t] = sent]
    BY <1>7
  <2> HIDE DEF q
  <2>6. QED
    BY <1>1, <1>2, <1>5, <2>1, <2>4, <2>5, CallSent, Zenon
<1>8. CASE taken' = taken /\ call' = [call EXCEPT ![t] = off]
  <2>1. /\ \A s : Kept(t, s)
        /\ \A n \in DOMAIN taken'[t] : taken'[t][n].s \in 0..e.s
        /\ taken[t] \in Seq(Batch) /\ taken' = [taken EXCEPT ![t] = taken[t]]
    BY <1>8, NothingTaken
  <2>2. /\ off.pc = "next" /\ off.subs = e.subs /\ off.s = e.s + 1 /\ off.base = e.base
        /\ off.any = e.any /\ off.excuse = TRUE
    BY <1>6 DEF Is
  <2>3. ASSUME call'[t] = off PROVE Gathering(t)' /\ Submitted(t)'
    <3>1. Ended(t, r)'
      BY <1>1, <1>8, <1>r, <2>2, <2>3, Refused
    <3>2. e.pc \in {"next", "gather"} /\ \A s : s # e.s => Kept(t, s)
      BY <1>1, <2>1
    <3>3. QED
      BY <1>1, <1>r, <2>1, <2>2, <2>3, <3>1, <3>2, Passed
  <2>4. call' = [call EXCEPT ![t] = off] /\ TRUE \in BOOLEAN
    BY <1>8
  <2>5. QED
    BY <1>1, <1>2, <1>6, <2>1, <2>3, <2>4, CallSent, Zenon
<1>9. QED
  BY <1>1, <1>7, <1>8

\* The batch with the fence is the last of its submit, and with it all of the
\* submit has been taken.
LEMMA LastTaken ==
  ASSUME SentInv, NEW t \in Thread, call[t].pc = "gather", ~More(call[t]), NEW s, s = call[t].s,
         NEW r \in Batch, r.s = s, r.fence = call[t].base + s - 1, Took(t, r), cb' = cb,
         r.dwords = IF call[t].batch = <<>> THEN <<NopDword>> ELSE call[t].batch,
         call'[t].subs = call[t].subs, call'[t].base = call[t].base
  PROVE  Ended(t, s)'
<1>0. PICK next : next = Len(taken[t]) + 1
  OBVIOUS
<1> DEFINE e == call[t]
           sub == e.subs[e.s]
           N == Batches(t, e.s) \cup {next}
<1>1. /\ Gathering(t) /\ Submitted(t) /\ Placed(e) /\ taken[t] \in Seq(Batch)
      /\ e.subs \in Submits \cup {<<>>} /\ e.batch \in Seq(Dword)
  BY CallHas
<1>2. /\ next \in Nat /\ taken'[t][next] = r
      /\ Batches(t, s)' = Batches(t, s) \cup {next}
      /\ \A n \in Batches(t, s) : n \in Nat /\ n < next /\ taken'[t][n] = taken[t][n]
  <2>1. taken[t] \in Seq(Batch)
    BY <1>1
  <2> HIDE DEF e
  <2>2. Grown(t, s, r)
    BY <2>1, Appended, Zenon
  <2>3. QED
    BY <1>0, <2>2 DEF Grown
<1>3. /\ e.base \in Nat /\ e.base > 0 /\ e.s \in Nat /\ e.s > 0 /\ r.fence > 0 /\ e.s = s
      /\ \A n \in Batches(t, s) : taken[t][n].fence = 0
  BY <1>1 DEF Placed, Submitted, Gathering
<1>4. EndsWithFence(t, s)' /\ Fenced(t, s)'
  <2>1. \A n \in Batches(t, s)' : taken'[t][n].fence # 0 => n = next
    BY <1>2, <1>3
  <2>2. \A n \in Batches(t, s)' : n <= next
    BY <1>2
  <2>3. EndsWithFence(t, s)'
    BY <1>2, <2>1, <2>2 DEF EndsWithFence
  <2>4. Fenced(t, s)'
    BY <1>2, <1>3 DEF Fenced
  <2>5. QED
    BY <2>3, <2>4
<1>5. PICK S : S = Content(sub)
  OBVIOUS
<1>6. Commands(call[t].subs[s])' = IF S = {} THEN {NopDword} ELSE S
  <2>1. Content(call[t].subs[s])' = S
    BY <1>3, <1>5 DEF Content
  <2>2. QED
    BY <2>1 DEF Commands
<1>7. Gathered(e) = S
  <2>1. sub \in Seq(Cb) /\ Len(sub) \in Nat /\ e.i \in 1..Len(sub) + 1 /\ e.at = 0
    BY <1>1, ValidIs DEF Gathering
  <2>2. e.i = Len(sub) + 1
    <3>1. ~(e.i <= Len(sub))
      BY DEF More
    <3> HIDE DEF e, sub
    <3>2. QED
      BY <2>1, <3>1
  <2>3. SentType
    BY DEF SentInv
  <2>4. ASSUME NEW x \in Content(sub) PROVE Before(x, <<e.i, e.at + 1>>)
    <3>1. PICK j \in 1..Len(sub) : \E k \in 1..cb[sub[j]].used : x = <<j, k, sub[j]>>
      BY <2>1, <2>3, ContentIs
    <3>2. PICK k \in 1..cb[sub[j]].used : x = <<j, k, sub[j]>>
      BY <3>1
    <3>3. j < e.i
      BY <2>1, <2>2
    <3>4. QED
      BY <3>2, <3>3, BeforeIs, Zenon
  <2>5. QED
    BY <1>5, <2>4 DEF Gathered
<1>8. Lists(Parts(t), S)
  BY <1>1, <1>7 DEF Gathering
<1>9. /\ DOMAIN Parts(t) = N /\ Parts(t)[next] = e.batch
      /\ \A n \in N \ {next} : Parts(t)[n] = taken[t][n].dwords
  BY <1>0 DEF Parts
<1>10. [n \in Batches(t, s) |-> taken[t][n].dwords]'
       = [n \in N |-> IF n = next THEN r.dwords ELSE taken[t][n].dwords]
  BY <1>2, <1>3
<1>11. CASE e.batch # <<>>
  <2>1. [n \in Batches(t, s) |-> taken[t][n].dwords]' = Parts(t)
    BY <1>0, <1>10, <1>11 DEF Parts
  <2>2. S # {}
    <3>1. 1 \in DOMAIN e.batch
      BY <1>1, <1>11
    <3>2. e.batch[1] \in ToSet(Parts(t)[next])
      BY <1>9, <3>1 DEF ToSet
    <3>3. QED
      BY <1>8, <1>9, <3>2 DEF Lists
  <2>3. InFull(t, s)'
    BY <1>6, <1>8, <2>1, <2>2 DEF InFull, Lists
  <2>4. QED
    BY <1>4, <2>3 DEF Ended
<1>12. CASE e.batch = <<>>
  <2>1. Batches(t, e.s) = {}
    BY <1>1, <1>12 DEF Gathering
  <2>2. S = {}
    <3>1. ToSet(<<>>) = {}
      BY DEF ToSet
    <3>2. \A x \in S : \E n \in {next} : x \in ToSet(Parts(t)[n])
      BY <1>8, <1>9, <2>1 DEF Lists
    <3>3. QED
      BY <1>9, <1>12, <3>1, <3>2
  <2>3. [n \in Batches(t, s) |-> taken[t][n].dwords]' = [n \in {next} |-> <<NopDword>>]
    BY <1>10, <1>12, <2>1
  <2>4. Lists([n \in {next} |-> <<NopDword>>], {NopDword})
    <3> DEFINE d == [n \in {next} |-> <<NopDword>>]
    <3>1. DOMAIN d = {next} /\ d[next] = <<NopDword>>
      OBVIOUS
    <3> HIDE DEF d
    <3>2. DOMAIN <<NopDword>> = {1} /\ <<NopDword>>[1] = NopDword
      OBVIOUS
    <3>3. ToSet(d[next]) = {NopDword}
      BY <3>1, <3>2 DEF ToSet
    <3>4. ~Before(<<next, 1>>, <<next, 1>>)
      <4>1. ~(next < next)
        BY <1>2
      <4>2. ~(1 < 1)
        OBVIOUS
      <4>3. QED
        BY <4>1, <4>2, BeforeIs, Zenon
    <3>5. \A m, n \in DOMAIN d : \A j \in DOMAIN d[m], k \in DOMAIN d[n] :
            Before(<<m, j>>, <<n, k>>) => Before(d[m][j], d[n][k])
      BY <3>1, <3>2, <3>4
    <3>6. QED
      BY <3>1, <3>3, <3>5 DEF Lists, d
  <2>5. InFull(t, s)'
    BY <1>6, <2>2, <2>3, <2>4 DEF InFull, Lists
  <2>6. QED
    BY <1>4, <2>5 DEF Ended
<1>13. QED
  BY <1>11, <1>12

LEMMA SendLastSent ==
  ASSUME SentInv, QInv', NEW t \in Thread, SendLast(t)
  PROVE  SentInv'
<1> DEFINE e == call[t]
           after == [e EXCEPT !.pc = "next", !.s = e.s + 1]
           done == [after EXCEPT !.any = TRUE]
           off == [after EXCEPT !.excuse = TRUE]
           dwords == IF e.batch = <<>> THEN <<NopDword>> ELSE e.batch
           number == e.base + e.s - 1
<1>1. /\ e.pc = "gather" /\ ~More(e) /\ cb' = cb
      /\ \/ Accept(t, e.s, dwords, number) /\ call' = [call EXCEPT ![t] = done]
         \/ taken' = taken /\ call' = [call EXCEPT ![t] = off]
  BY DEF SendLast, Step, Refuse
<1>2. /\ Is(e, e.pc, e.subs, e.s, e.base, e.i, e.at, e.handle, e.batch, e.any, e.excuse)
      /\ Placed(e) /\ Gathering(t) /\ Submitted(t) /\ e.subs \in Submits \cup {<<>>}
      /\ e.batch \in Seq(Dword) /\ e.excuse \in BOOLEAN
  BY CallHas
<1>3. e.s \in Valid(e) /\ e.s \in 0..e.s /\ Len(e.batch) <= Cmds - Eop
      /\ e.base \in Nat /\ e.base > 0 /\ e.s \in Nat /\ e.s > 0
  BY <1>1, <1>2 DEF Gathering, Placed, Submitted
<1>4. dwords \in Seq(Dword) /\ Len(dwords) <= Cmds - Eop /\ number \in Nat
  <2>1. NopDword \in Dword
    BY DEF NopDword, Dword
  <2>2. <<NopDword>> \in Seq(Dword) /\ Len(<<NopDword>>) = 1
    BY <2>1
  <2>3. 1 <= Cmds - Eop
    BY BatchAssumption
  <2>4. QED
    BY <1>2, <1>3, <2>2, <2>3
<1>r. PICK r : r = e.s
  OBVIOUS
<1> HIDE DEF e
<1>5. Is(after, "next", e.subs, e.s + 1, e.base, e.i, e.at, e.handle, e.batch, e.any, e.excuse)
  BY <1>2, AssignedMore, Zenon
<1> HIDE DEF after
<1>6. /\ Is(done, "next", e.subs, e.s + 1, e.base, e.i, e.at, e.handle, e.batch, TRUE, e.excuse)
      /\ Is(off, "next", e.subs, e.s + 1, e.base, e.i, e.at, e.handle, e.batch, e.any, TRUE)
  BY <1>5, Assigned, Zenon
<1> HIDE DEF done, off, dwords, number
<1>7. /\ done.pc = "next" /\ done.subs = e.subs /\ done.s = e.s + 1 /\ done.base = e.base
      /\ done.excuse = e.excuse
      /\ off.pc = "next" /\ off.subs = e.subs /\ off.s = e.s + 1 /\ off.base = e.base
      /\ off.any = e.any /\ off.excuse = TRUE
  BY <1>6 DEF Is
<1>8. CASE Accept(t, e.s, dwords, number) /\ call' = [call EXCEPT ![t] = done]
  <2> DEFINE b == [s |-> e.s, dwords |-> dwords, fence |-> number]
             q == Append(taken[t], b)
  <2>1. /\ b \in Batch /\ q \in Seq(Batch) /\ taken' = [taken EXCEPT ![t] = q] /\ taken'[t] = q
        /\ \A x : x # e.s => Kept(t, x)
        /\ \A n \in DOMAIN taken'[t] : taken'[t][n].s \in 0..e.s
    BY <1>3, <1>4, <1>8, BatchTaken DEF e
  <2>2. b.s = e.s /\ b.dwords = dwords /\ b.fence = number /\ Took(t, b)
    BY <2>1 DEF Took
  <2> HIDE DEF b, q
  <2>3. ASSUME call'[t] = done PROVE Gathering(t)' /\ Submitted(t)'
    <3>1. Ended(t, r)'
      BY <1>1, <1>r, <1>7, <2>1, <2>2, <2>3, LastTaken DEF e, dwords, number
    <3>2. call[t].pc \in {"next", "gather"}
      BY <1>1 DEF e
    <3>3. QED
      BY <1>1, <1>r, <1>3, <1>7, <2>1, <2>3, <3>1, <3>2, Passed DEF e
  <2>4. call' = [call EXCEPT ![t] = done]
    BY <1>8
  <2>5. QED
    BY <1>1, <1>2, <1>6, <2>1, <2>3, <2>4, CallSent, Zenon DEF e
<1>9. CASE taken' = taken /\ call' = [call EXCEPT ![t] = off]
  <2>1. /\ \A s : Kept(t, s)
        /\ \A n \in DOMAIN taken'[t] : taken'[t][n].s \in 0..call[t].s
        /\ taken[t] \in Seq(Batch) /\ taken' = [taken EXCEPT ![t] = taken[t]]
    BY <1>9, NothingTaken
  <2>3. ASSUME call'[t] = off PROVE Gathering(t)' /\ Submitted(t)'
    <3>1. Ended(t, r)'
      BY <1>1, <1>9, <1>r, <1>7, <2>3, Refused DEF e
    <3>2. call[t].pc \in {"next", "gather"} /\ \A s : s # e.s => Kept(t, s)
      BY <1>1, <2>1 DEF e
    <3>3. QED
      BY <1>1, <1>r, <1>7, <2>1, <2>3, <3>1, <3>2, Passed DEF e
  <2>4. call' = [call EXCEPT ![t] = off] /\ TRUE \in BOOLEAN
    BY <1>9
  <2>5. QED
    BY <1>1, <1>2, <1>6, <2>1, <2>3, <2>4, CallSent, Zenon DEF e
<1>10. QED
  BY <1>1, <1>8, <1>9

LEMMA SendNopSent ==
  ASSUME SentInv, QInv', NEW t \in Thread, SendNop(t)
  PROVE  SentInv'
<1> DEFINE e == call[t]
           sent == [e EXCEPT !.pc = "nop", !.any = TRUE]
           off == [e EXCEPT !.pc = "done", !.excuse = TRUE]
           d == <<NopDword>>
<1>1. /\ e.pc = "next" /\ e.s > Len(e.subs) /\ ~e.any /\ cb' = cb
      /\ \/ Accept(t, 0, d, e.base) /\ call' = [call EXCEPT ![t] = sent]
         \/ taken' = taken /\ call' = [call EXCEPT ![t] = off]
  BY DEF SendNop, Step, Refuse
<1>2. /\ Is(e, e.pc, e.subs, e.s, e.base, e.i, e.at, e.handle, e.batch, e.any, e.excuse)
      /\ Placed(e) /\ Submitted(t) /\ e.subs \in Submits \cup {<<>>}
      /\ e.batch \in Seq(Dword) /\ e.excuse \in BOOLEAN /\ taken[t] \in Seq(Batch)
  BY CallHas
<1>3. e.base \in Nat /\ e.base > 0 /\ e.s \in Nat /\ e.s > 0 /\ 0 \in 0..e.s
  BY <1>1, <1>2 DEF Placed, Submitted
<1>4. d \in Seq(Dword) /\ Len(d) <= Cmds - Eop
  <2>1. NopDword \in Dword
    BY DEF NopDword, Dword
  <2>2. d \in Seq(Dword) /\ Len(d) = 1
    BY <2>1
  <2> HIDE DEF d
  <2>3. QED
    BY <2>2, BatchAssumption
<1> HIDE DEF e, d
<1>5. Is(sent, "nop", e.subs, e.s, e.base, e.i, e.at, e.handle, e.batch, TRUE, e.excuse)
  BY <1>2, AssignedMore, Zenon
<1>6. Is(off, "done", e.subs, e.s, e.base, e.i, e.at, e.handle, e.batch, e.any, TRUE)
  BY <1>2, AssignedMore, Zenon
<1> HIDE DEF sent, off
<1>7. CASE Accept(t, 0, d, e.base) /\ call' = [call EXCEPT ![t] = sent]
  <2> DEFINE b == [s |-> 0, dwords |-> d, fence |-> e.base]
             q == Append(taken[t], b)
  <2>1. /\ b \in Batch /\ q \in Seq(Batch) /\ taken' = [taken EXCEPT ![t] = q] /\ taken'[t] = q
        /\ \A x : x # 0 => Kept(t, x)
        /\ \A n \in DOMAIN taken'[t] : taken'[t][n].s \in 0..e.s
    BY <1>3, <1>4, <1>7, BatchTaken DEF e
  <2>2. b.s = 0 /\ b.fence = e.base /\ Took(t, b)
    BY <2>1 DEF Took
  <2> HIDE DEF b, q
  <2>3. Fenced(t, 0)'
    <3>1. taken[t] \in Seq(Batch)
      BY <1>2
    <3>2. Grown(t, 0, b)
      BY <2>1, <2>2, <3>1, Appended, Zenon
    <3>3. QED
      BY <1>3, <2>2, <3>2 DEF Grown, Fenced
  <2>4. ASSUME call'[t] = sent PROVE Gathering(t)' /\ Submitted(t)'
    <3>1. /\ sent.pc = "nop" /\ sent.subs = e.subs /\ sent.s = e.s /\ sent.base = e.base
          /\ sent.any = TRUE /\ sent.excuse = e.excuse
      BY <1>5 DEF Is
    <3>2. Over(t, sent)
      BY <1>1, <2>3, <3>1 DEF Over, e
    <3>3. QED
      BY <1>1, <1>3, <2>1, <2>4, <3>1, <3>2, Ends DEF e
  <2>5. call' = [call EXCEPT ![t] = sent]
    BY <1>7
  <2>6. QED
    BY <1>1, <1>2, <1>5, <2>1, <2>4, <2>5, CallSent, Zenon DEF e
<1>8. CASE taken' = taken /\ call' = [call EXCEPT ![t] = off]
  <2>1. /\ \A s : Kept(t, s)
        /\ \A n \in DOMAIN taken'[t] : taken'[t][n].s \in 0..e.s
        /\ taken[t] \in Seq(Batch) /\ taken' = [taken EXCEPT ![t] = taken[t]]
    BY <1>8, NothingTaken DEF e
  <2>2. ASSUME call'[t] = off PROVE Gathering(t)' /\ Submitted(t)'
    <3>1. /\ off.pc = "done" /\ off.subs = e.subs /\ off.s = e.s /\ off.base = e.base
          /\ off.any = e.any /\ off.excuse = TRUE
      BY <1>6 DEF Is
    <3>2. Over(t, off)
      BY <1>1, <3>1 DEF Over, e
    <3>3. QED
      BY <1>1, <1>3, <2>1, <2>2, <3>1, <3>2, Ends DEF e
  <2>3. call' = [call EXCEPT ![t] = off] /\ TRUE \in BOOLEAN
    BY <1>8
  <2>4. QED
    BY <1>1, <1>2, <1>6, <2>1, <2>2, <2>3, CallSent, Zenon DEF e
<1>9. QED
  BY <1>1, <1>7, <1>8

LEMMA CountUpSent ==
  ASSUME SentInv, QInv', NEW t \in Thread, CountUp(t)
  PROVE  SentInv'
<1> DEFINE e == call[t]
           done == [e EXCEPT !.pc = "done"]
<1>1. /\ e.any /\ (e.pc = "nop" \/ (e.pc = "next" /\ e.s > Len(e.subs)))
      /\ call' = [call EXCEPT ![t] = done] /\ cb' = cb /\ taken' = taken
  BY DEF CountUp, Step
<1>2. /\ Is(e, e.pc, e.subs, e.s, e.base, e.i, e.at, e.handle, e.batch, e.any, e.excuse)
      /\ Placed(e) /\ Submitted(t) /\ e.subs \in Submits \cup {<<>>}
      /\ e.batch \in Seq(Dword) /\ e.excuse \in BOOLEAN
  BY CallHas
<1>3. /\ \A s : Kept(t, s)
      /\ \A n \in DOMAIN taken'[t] : taken'[t][n].s \in 0..e.s
      /\ taken[t] \in Seq(Batch) /\ taken' = [taken EXCEPT ![t] = taken[t]]
  BY <1>1, NothingTaken
<1>4. e.s \in Nat /\ Len(e.subs) \in Nat
  BY <1>2 DEF Placed
<1>5. ~e.excuse => e.s > Len(e.subs) /\ e.any
  BY <1>1, <1>2 DEF Submitted
<1>6. Valid(e) = {} => Fenced(t, 0)
  BY <1>1, <1>2 DEF Submitted
<1>7. Fenced(t, 0)' = Fenced(t, 0)
  BY <1>1 DEF Fenced, Batches
<1>8. e.s > 0
  BY <1>1, <1>2, <1>4 DEF Placed, Submitted
<1> HIDE DEF e
<1>9. Is(done, "done", e.subs, e.s, e.base, e.i, e.at, e.handle, e.batch, e.any, e.excuse)
  BY <1>2, Assigned, Zenon
<1> HIDE DEF done
<1>10. ASSUME call'[t] = done PROVE Gathering(t)' /\ Submitted(t)'
  <2>1. /\ done.pc = "done" /\ done.subs = e.subs /\ done.s = e.s /\ done.base = e.base
        /\ done.any = e.any /\ done.excuse = e.excuse
    BY <1>9 DEF Is
  <2>2. call[t].pc \in {"next", "nop"} /\ done.pc \in {"nop", "done"} /\ cb' = cb
    BY <1>1, <2>1 DEF e
  <2>3. Over(t, done)
    <3>1. done.any /\ Valid(e) = {} => Fenced(t, 0)'
      BY <1>6, <1>7, Zenon
    <3>2. ~done.excuse => e.s > Len(e.subs) /\ done.any
      BY <1>1, <1>5, <2>1, Zenon
    <3>3. e.excuse => done.excuse
      BY <2>1, Zenon
    <3>4. QED
      BY <3>1, <3>2, <3>3, Zenon DEF Over, e
  <2>4. \A s : s # 0 => Kept(t, s)
    BY <1>3
  <2>5. \A n \in DOMAIN taken'[t] : taken'[t][n].s \in 0..e.s
    BY <1>3
  <2>6. QED
    <3>1. PICK d : d = done
      OBVIOUS
    <3>2. /\ d.pc \in {"nop", "done"} /\ d.subs = e.subs /\ d.s = e.s /\ d.base = e.base
          /\ call'[t] = d /\ Over(t, d)
      BY <1>10, <2>1, <2>2, <2>3, <3>1, Zenon
    <3> HIDE <3>1
    <3>3. QED
      BY <1>8, <2>2, <2>4, <2>5, <3>2, Ends DEF e
<1>11. QED
  BY <1>1, <1>2, <1>3, <1>9, <1>10, CallSent, Zenon DEF e

\* Steps that leave the calls alone.
LEMMA SameCalls ==
  ASSUME SentInv, QInv', UNCHANGED <<cb, call, taken>>
  PROVE  SentInv'
<1>1. \A u \in Thread : Gathering(u)' /\ Submitted(u)'
  BY SameSent DEF SentInv, SentType
<1>2. SentType'
  BY DEF SentInv, SentType
<1>3. QED
  BY <1>1, <1>2 DEF SentInv

\* A command buffer that is not submitted is recorded.
LEMMA RecordSent ==
  ASSUME SentInv, QInv', NEW b \in Cb, NEW used \in Nat, NEW recording \in BOOLEAN,
         Record(b, used, recording)
  PROVE  SentInv'
<1>1. /\ b \notin Pending /\ cb' = [cb EXCEPT ![b] = [used |-> used, recording |-> recording]]
      /\ UNCHANGED <<call, taken>>
  BY DEF Record
<1>2. SentType
  BY DEF SentInv
<1>3. ASSUME NEW u \in Thread, NEW s \in Valid(call[u]), NEW i \in DOMAIN call[u].subs[s]
      PROVE  cb'[call[u].subs[s][i]] = cb[call[u].subs[s][i]]
  <2>1. call[u].subs[s][i] # b
    <3>1. call[u].subs[s][i] \in ToSet(call[u].subs[s])
      BY DEF ToSet
    <3>2. QED
      BY <1>1, <3>1 DEF Pending, Valid
  <2>2. call[u].subs[s][i] \in Cb
    <3>1. call[u].subs[s] \in Seq(Cb)
      BY <1>2, ValidIs DEF SentType
    <3>2. QED
      BY <3>1
  <2>3. QED
    BY <1>1, <1>2, <2>1, <2>2 DEF SentType
<1>4. \A u \in Thread : Gathering(u)' /\ Submitted(u)'
  BY <1>1, <1>2, <1>3, SameSent DEF SentInv, SentType
<1>5. SentType'
  BY <1>1, <1>2 DEF SentType
<1>6. QED
  BY <1>4, <1>5 DEF SentInv

LEMMA SentNext == ASSUME SentInv, [Next]_vars PROVE SentInv'
<1>1. QInv'
  BY QInvNext DEF SentInv
<1>2. CASE Recording
  <2>1. PICK b \in Cb : \/ BeginCommandBuffer(b) \/ CmdDraw(b)
                        \/ EndCommandBuffer(b) \/ ResetCommandBuffer(b)
    BY <1>2 DEF Recording
  <2>2. cb[b].used \in Nat /\ Packet \in Nat /\ cb[b].used + Packet \in Nat
    BY BatchAssumption DEF SentInv, SentType
  <2>3. \E used \in Nat, recording \in BOOLEAN : Record(b, used, recording)
    BY <2>1, <2>2 DEF BeginCommandBuffer, CmdDraw, EndCommandBuffer, ResetCommandBuffer
  <2>4. QED
    BY <1>1, <2>3, RecordSent
<1>3. ASSUME NEW t \in Thread, QueueCall(t) PROVE SentInv'
  <2>1. CASE CreateDevice(t) \/ DestroyDevice(t) \/ CreateFence(t)
    BY <1>1, <2>1, SameCalls DEF CreateDevice, DestroyDevice, CreateFence
  <2>2. CASE \E subs \in Submits : QueueSubmit(t, subs)
    BY <1>1, <2>2, SubmitSent
  <2>3. QED
    BY <1>3, <2>1, <2>2 DEF QueueCall
<1>4. ASSUME NEW t \in Thread, Submitting(t) PROVE SentInv'
  BY <1>1, <1>4, LazyOpenSent, NextSubmitSent, GatherSent, SendBatchSent, SendLastSent, SendNopSent,
     CountUpSent, ReturnSent DEF Submitting
<1>5. CASE UNCHANGED queue
  BY <1>1, <1>5, SameCalls DEF queue
<1>6. CASE UNCHANGED vars
  BY <1>5, <1>6 DEF vars
<1>7. QED
  BY <1>2, <1>3, <1>4, <1>5, <1>6 DEF Next

\* For any number of threads, any submits of any command buffers and any size
\* of batch: a fence number that reaches the kernel driver is the last thing it
\* takes of its submit, and all the dwords of the submit's command buffers have
\* been taken before it, in order and none of them twice; a call that was
\* refused nothing has sent one for every submit, or for itself.
\* bc250_QueueSubmit leaves room for the fence in every batch, so the kernel
\* driver cuts nothing off.
THEOREM SubmitsWhole == Spec => []SubmitWhole
<1>1. Init => SentInv
  <2>1. SUFFICES ASSUME Init PROVE SentInv
    OBVIOUS
  <2>2. QInv
    BY <2>1, QInvInit
  <2>3. /\ call = [t \in Thread |-> NoCall] /\ taken = [t \in Thread |-> <<>>]
        /\ cb = [b \in Cb |-> [used |-> 0, recording |-> FALSE]]
    BY <2>1 DEF Init, QueueInit
  <2>4. /\ NoCall.subs = <<>> /\ NoCall.batch = <<>> /\ NoCall.excuse = FALSE /\ NoCall.pc = "idle"
        /\ NoCall.s = 0 /\ NoCall.any = FALSE
    BY DEF NoCall
  <2>5. SentType
    <3>1. cb \in [Cb -> [used : Nat, recording : BOOLEAN]]
      BY <2>3
    <3>2. taken \in [Thread -> Seq(Batch)]
      BY <2>3
    <3>3. \A t \in Thread : call[t] = NoCall
      BY <2>3
    <3>4. NoCall.subs \in Submits \cup {<<>>} /\ NoCall.batch \in Seq(Dword) /\ NoCall.excuse \in BOOLEAN
      <4>1. <<>> \in Submits \cup {<<>>} /\ <<>> \in Seq(Dword) /\ FALSE \in BOOLEAN
        OBVIOUS
      <4>2. QED
        BY <2>4, <4>1, Zenon
    <3>5. QED
      BY <3>1, <3>2, <3>3, <3>4 DEF SentType
  <2>6. ASSUME NEW t \in Thread PROVE Gathering(t) /\ Submitted(t)
    <3>1. call[t] = NoCall /\ taken[t] = <<>>
      BY <2>3
    <3>2. Valid(NoCall) = {} /\ \A s : Batches(t, s) = {}
      BY <2>4, <3>1 DEF Valid, Batches
    <3>3. QED
      BY <2>4, <3>1, <3>2 DEF Gathering, Submitted
  <2>7. QED
    BY <2>2, <2>5, <2>6 DEF SentInv
<1>2. SentInv => SubmitWhole
  <2>1. SUFFICES ASSUME SentInv, NEW t \in Thread, call[t].pc = "done"
                 PROVE  LET c == call[t]
                        IN /\ \A s \in Valid(c) : /\ EndsWithFence(t, s)
                                                  /\ Fenced(t, s) => InFull(t, s)
                                                  /\ c.excuse \/ Fenced(t, s)
                           /\ Valid(c) = {} /\ ~c.excuse => Fenced(t, 0)
    BY DEF SubmitWhole, Valid
  <2> DEFINE c == call[t]
  <2>2. Submitted(t) /\ Placed(c) /\ c.subs \in Submits \cup {<<>>} /\ c.excuse \in BOOLEAN
    BY <2>1, CallHas
  <2>3. \A s \in Valid(c) : s \in 1..Len(c.subs) /\ Len(c.subs) \in Nat /\ c.s \in Nat
    BY <2>2, ValidIs DEF Placed
  <2>4. ASSUME NEW s \in Valid(c), ~(s < c.s) PROVE Batches(t, s) = {}
    <3>1. \A n \in DOMAIN taken[t] : taken[t][n].s <= c.s
      BY <2>2 DEF Submitted
    <3>2. CASE s = c.s
      BY <2>1, <2>2, <2>3, <3>2 DEF Submitted
    <3>3. CASE s > c.s
      BY <2>3, <3>1, <3>3 DEF Batches
    <3>4. QED
      BY <2>3, <2>4, <3>2, <3>3
  <2>5. ASSUME NEW s \in Valid(c) PROVE Ended(t, s)
    <3>1. CASE s < c.s
      BY <2>2, <3>1 DEF Submitted
    <3>2. CASE ~(s < c.s)
      <4>1. Batches(t, s) = {}
        BY <2>4, <3>2
      <4>2. c.excuse
        BY <2>1, <2>2, <2>3, <3>2 DEF Submitted
      <4>3. QED
        BY <4>1, <4>2 DEF Ended, EndsWithFence, Fenced
    <3>3. QED
      BY <3>1, <3>2
  <2>6. Valid(c) = {} /\ ~c.excuse => Fenced(t, 0)
    BY <2>1, <2>2 DEF Submitted
  <2>7. QED
    BY <2>5, <2>6 DEF Ended
<1>3. QED
  BY <1>1, <1>2, SentNext, PTL DEF Spec
=============================================================================
