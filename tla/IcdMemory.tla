------------------------------ MODULE IcdMemory ------------------------------
(***************************************************************************)
(* Memory objects of the Vulkan driver (bc250_vulkan_icd.c).  Memory comes *)
(* from VirtualAlloc and is noted in g_Allocations, a table that only      *)
(* grows; the handle of an object is the count of entries when the call    *)
(* returns.  The counter is not locked, and when the table is full memory  *)
(* is given out under the handle of the last entry.                        *)
(***************************************************************************)
EXTENDS Naturals

CONSTANTS
  Thread,
  Va,     \* addresses of memory VirtualAlloc may choose
  Slots,  \* MAX_ALLOCATIONS
  None    \* NULL

VARIABLES
  table,  \* g_Allocations: cpuVa of each entry
  num,    \* g_NumAllocations
  live,   \* memory that is allocated
  objs,   \* memory objects of the application: [handle, va, late]; late is a
          \* history: the table was full
  alloc,  \* the vkAllocateMemory each thread is in: [va, idx, stored]: its
          \* memory, the counter it has read, and whether it is done with both
  past    \* history: [raced, freed]: two threads have allocated at once; the
          \* memory of an object that came late has been freed

MemoryInit ==
  /\ table = [i \in 1..Slots |-> None] /\ num = 0
  /\ live = {} /\ objs = {}
  /\ alloc = [t \in Thread |-> None]
  /\ past = [raced |-> FALSE, freed |-> FALSE]

Allocating == {t \in Thread : alloc[t] # None}

\* VirtualAlloc, and the counter is read for the test and for the index.
AllocateMemory(t) ==
  /\ t \notin Allocating
  /\ \E va \in Va \ live :
       /\ live' = live \cup {va}
       /\ alloc' = [alloc EXCEPT ![t] = [va |-> va, idx |-> num, stored |-> num = Slots]]
  /\ past' = [past EXCEPT !.raced = @ \/ Allocating # {}]
  /\ UNCHANGED <<table, num, objs>>

\* Variant: the entry is the one after the one counted.
StoreCounted(t) ==
  LET a == alloc[t] IN
  /\ t \in Allocating /\ ~a.stored
  /\ num' = a.idx + 1
  /\ table' = [table EXCEPT ![IF a.idx = 0 THEN 1 ELSE a.idx] = a.va]
  /\ alloc' = [alloc EXCEPT ![t].stored = TRUE]
  /\ UNCHANGED <<live, objs, past>>

\* The counter is written back and the entry filled.
Store(t) ==
  LET a == alloc[t] IN
  /\ t \in Allocating /\ ~a.stored
  /\ num' = a.idx + 1
  /\ table' = [table EXCEPT ![a.idx + 1] = a.va]
  /\ alloc' = [alloc EXCEPT ![t].stored = TRUE]
  /\ UNCHANGED <<live, objs, past>>

\* The handle is the counter: what the call has counted, or read once more.
AllocateReturns(t) ==
  LET a == alloc[t]
      late == a.idx = Slots
  IN /\ t \in Allocating /\ a.stored
     /\ \E handle \in {num, IF late THEN a.idx ELSE a.idx + 1} :
          objs' = objs \cup {[handle |-> handle, va |-> a.va, late |-> late]}
     /\ alloc' = [alloc EXCEPT ![t] = None]
     /\ UNCHANGED <<table, num, live, past>>

\* vkFreeMemory frees what the entry holds, once.
FreeMemory(o) ==
  /\ o \in objs /\ objs' = objs \ {o}
  /\ table' = [table EXCEPT ![o.handle] = None]
  /\ live' = live \ {table[o.handle]}
  /\ past' = [past EXCEPT !.freed = @ \/ o.late]
  /\ UNCHANGED <<num, alloc>>

MemoryCall(t) == AllocateMemory(t) \/ \E o \in objs : FreeMemory(o)
MemoryStep(t) == Store(t) \/ AllocateReturns(t)

----------------------------------------------------------------------------
(* Properties.                                                             *)

\* An object's handle names its own memory, which vkMapMemory returns and
\* nobody else frees, and no memory has two entries.  What the limit of the
\* table costs is one object: the one in the last entry, and only when an
\* object that came late is freed.
HandleNamesOwn ==
  ~past.raced =>
    /\ \A o \in objs : ~o.late =>
         \/ table[o.handle] = o.va /\ o.va \in live
         \/ o.handle = Slots /\ past.freed
    /\ \A i, j \in 1..Slots : table[i] # None /\ table[i] = table[j] => i = j
    /\ \A o \in objs : o.late => o.handle = Slots /\ num = Slots
=============================================================================
