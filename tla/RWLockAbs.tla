------------------------------ MODULE RWLockAbs ------------------------------
(***************************************************************************)
(* What the spin lock of ServerCore promises its callers, with nothing of  *)
(* how it does it: a reentrant readers-writer lock.  Each thread has a     *)
(* number of write guards and of read guards alive.  The first write guard *)
(* of a thread needs every other guard, its own read guards included, to   *)
(* be gone; further ones nest.  A read guard needs only that no other      *)
(* thread writes.                                                          *)
(***************************************************************************)
EXTENDS Naturals

CONSTANT Threads

VARIABLES writes,   \* thread -> number of write guards it has alive
          reads     \* thread -> number of read guards it has alive

absVars == <<writes, reads>>

Init == /\ writes = [t \in Threads |-> 0]
        /\ reads  = [t \in Threads |-> 0]

AcquireWrite(t) ==
    /\ \A u \in Threads \ {t} : writes[u] = 0 /\ reads[u] = 0
    /\ writes[t] > 0 \/ reads[t] = 0
    /\ writes' = [writes EXCEPT ![t] = @ + 1]
    /\ UNCHANGED reads

ReleaseWrite(t) ==
    /\ writes[t] > 0
    /\ writes' = [writes EXCEPT ![t] = @ - 1]
    /\ UNCHANGED reads

AcquireRead(t) ==
    /\ \A u \in Threads \ {t} : writes[u] = 0
    /\ reads' = [reads EXCEPT ![t] = @ + 1]
    /\ UNCHANGED writes

ReleaseRead(t) ==
    /\ reads[t] > 0
    /\ reads' = [reads EXCEPT ![t] = @ - 1]
    /\ UNCHANGED writes

Next == \E t \in Threads : \/ AcquireWrite(t) \/ ReleaseWrite(t)
                           \/ AcquireRead(t)  \/ ReleaseRead(t)

Spec == Init /\ [][Next]_absVars
=============================================================================
