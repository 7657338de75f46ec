----------------------------- MODULE SmuService -----------------------------
(***************************************************************************)
(* What the SMU mailbox promises the IOCTLs that use it: a message posted  *)
(* to the SMU is executed at most once, with its own argument, and a       *)
(* caller that is told a message succeeded is told so about a message the  *)
(* SMU has executed, and gets the answer to that message.  A caller may    *)
(* give up; its message may still be executed afterwards.                  *)
(***************************************************************************)
EXTENDS Naturals

CONSTANTS Thread, MaxSent

VARIABLES posted,  \* messages the SMU has been given and not executed
          served,  \* messages the SMU has executed
          result   \* per caller: the message whose answer it was given, or 0

vars == <<posted, served, result>>

Init == posted = {} /\ served = {} /\ result = [t \in Thread |-> 0]

Post == /\ \E n \in (1..MaxSent) \ (posted \cup served) : posted' = posted \cup {n}
        /\ UNCHANGED <<served, result>>

Execute == /\ \E n \in posted : posted' = posted \ {n} /\ served' = served \cup {n}
           /\ UNCHANGED result

Answer(t) == /\ \E n \in served : result' = [result EXCEPT ![t] = n]
             /\ UNCHANGED <<posted, served>>

\* A caller starts its next message, or gives up on one.
Reset(t) == result' = [result EXCEPT ![t] = 0] /\ UNCHANGED <<posted, served>>

Next == Post \/ Execute \/ \E t \in Thread : Answer(t) \/ Reset(t)

Spec == Init /\ [][Next]_vars
=============================================================================
