------------------------------ MODULE VulkanIcd ------------------------------
(***************************************************************************)
(* The Vulkan driver: threads that submit and threads that allocate, one   *)
(* call of a thread at a time.                                             *)
(***************************************************************************)
EXTENDS IcdQueue

CONSTANTS
  Va, Slots,  \* see IcdMemory
  MaxCalls    \* bound: calls other than recording

ASSUME SlotsAssumption == Slots \in Nat \ {0}

ASSUME NoneAssumption == None \notin Va \cup [va : Va, idx : Nat, stored : BOOLEAN]

VARIABLES
  table, num, live, objs, alloc, past,  \* see IcdMemory
  calls                                 \* calls made

memory == <<table, num, live, objs, alloc, past>>

Memory == INSTANCE IcdMemory

vars == <<queue, memory, calls>>

Init == QueueInit /\ Memory!MemoryInit /\ calls = 0

Call == calls < MaxCalls /\ calls' = calls + 1

Next ==
  \/ Recording /\ UNCHANGED <<memory, calls>>
  \/ \E t \in Thread :
       \/ t \notin Memory!Allocating /\ Call /\ QueueCall(t) /\ UNCHANGED memory
       \/ Idle(t) /\ device[t] # None /\ Call /\ Memory!MemoryCall(t) /\ UNCHANGED queue
       \/ Submitting(t) /\ UNCHANGED <<memory, calls>>
       \/ Memory!MemoryStep(t) /\ UNCHANGED <<queue, calls>>

Spec == Init /\ [][Next]_vars

\* See IcdMemory.
HandleNamesOwn == Memory!HandleNamesOwn
=============================================================================
