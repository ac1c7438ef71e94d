----------------------------- MODULE LockOrder -----------------------------
(***************************************************************************)
(* What the deadlock profiler of the debug build promises.  Threads take   *)
(* locks inside one another; each acquisition gives the lock a name, the   *)
(* class whose method takes it or the handler that takes it for a room, so *)
(* several locks have one name and one lock may have several.  The order   *)
(* in which names have ever been nested is kept, and the thread that makes *)
(* it cyclic stops the process before it waits.                            *)
(*                                                                         *)
(* Locks are write locks (see RWLock for the lock itself).  The ten second *)
(* limit of a wait is left out: it is what a deadlock that is not reported *)
(* ends with.  A program says which acquisition may be nested directly in  *)
(* which.                                                                  *)
(***************************************************************************)
EXTENDS Integers, Sequences

CONSTANTS Threads, Locks, Names,
          Nests,    \* program -> pairs of an acquisition and one nested in it
          MaxNest   \* program -> bound on the depth

Acquisitions == [lock : Locks, name : Names]

ASSUME NestsAssumption == \A p \in DOMAIN Nests : Nests[p] \subseteq Acquisitions \X Acquisitions
ASSUME MaxNestAssumption == MaxNest \in [DOMAIN Nests -> Nat]

VARIABLES program,   \* the one that runs
          nest,      \* thread -> its acquisitions: LLockStack has their names
          waiting,   \* thread -> whether the last of them waits for its lock
          history,   \* _lockHistory: name -> the names taken directly inside it
          reported   \* whether the process was stopped

vars == <<program, nest, waiting, history, reported>>

TypeOK ==
    /\ program \in DOMAIN Nests
    /\ nest \in [Threads -> Seq(Acquisitions)]
    /\ waiting \in [Threads -> BOOLEAN]
    /\ history \in [Names -> SUBSET Names]
    /\ reported \in BOOLEAN

Init ==
    /\ program \in DOMAIN Nests
    /\ nest = [t \in Threads |-> <<>>]
    /\ waiting = [t \in Threads |-> FALSE]
    /\ history = [n \in Names |-> {}]
    /\ reported = FALSE

-----------------------------------------------------------------------------
Innermost(t) == nest[t][Len(nest[t])]

(* What a program takes at all, and first or last as well. *)
Taken == [p \in DOMAIN Nests |-> {n[1] : n \in Nests[p]} \cup {n[2] : n \in Nests[p]}]

Nested(t, a) ==
    /\ Len(nest[t]) < MaxNest[program]
    /\ nest[t] # <<>> => <<Innermost(t), a>> \in Nests[program]

(* A name inside another one of the thread's: only the innermost counts,   *)
(* and a name inside itself does not.                                      *)
Edges(t, a) ==
    IF nest[t] # <<>> /\ Innermost(t).name # a.name
    THEN [history EXCEPT ![Innermost(t).name] = @ \cup {a.name}]
    ELSE history

(* Names of which each has another of them inside it. *)
Cyclic(h) == \E s \in (SUBSET Names) \ {{}} : \A n \in s : h[n] \cap s # {}

(* WriteLock: PushLock, and then to the lock. *)
Lock(t, a) ==
    /\ ~reported /\ ~waiting[t] /\ Nested(t, a)
    /\ nest' = [nest EXCEPT ![t] = Append(@, a)]
    /\ waiting' = [waiting EXCEPT ![t] = TRUE]
    /\ history' = Edges(t, a)
    /\ ~Cyclic(history')
    /\ UNCHANGED <<program, reported>>

(* PushLock stops the process. *)
Report(t, a) ==
    /\ ~reported /\ ~waiting[t] /\ Nested(t, a)
    /\ reported' = TRUE
    /\ history' = Edges(t, a)
    /\ Cyclic(history')
    /\ UNCHANGED <<program, nest, waiting>>

Granted(t) == 1..(Len(nest[t]) - IF waiting[t] THEN 1 ELSE 0)

Holds(t, l) == \E i \in Granted(t) : nest[t][i].lock = l

(* The lock is free, or the thread's own. *)
Acquire(t) ==
    /\ ~reported /\ waiting[t]
    /\ \A u \in Threads \ {t} : ~Holds(u, Innermost(t).lock)
    /\ waiting' = [waiting EXCEPT ![t] = FALSE]
    /\ UNCHANGED <<program, nest, history, reported>>

(* WriteUnlock: guards go in the reverse order, so PopLock finds its name. *)
Unlock(t) ==
    /\ ~reported /\ ~waiting[t] /\ nest[t] # <<>>
    /\ nest' = [nest EXCEPT ![t] = SubSeq(@, 1, Len(@) - 1)]
    /\ UNCHANGED <<program, waiting, history, reported>>

Next == \E t \in Threads :
           \/ \E a \in Taken[program] : Lock(t, a) \/ Report(t, a)
           \/ Acquire(t)
           \/ Unlock(t)

Spec == Init /\ [][Next]_vars

-----------------------------------------------------------------------------
(* Properties. *)

(* Threads none of which gets on before another of them has. *)
Stuck(T) == \A t \in T : /\ waiting[t]
                         /\ \E u \in T \ {t} : Holds(u, Innermost(t).lock)

Deadlock(T) == /\ T # {} /\ Stuck(T)
               /\ \A U \in (SUBSET T) \ {{}, T} : ~Stuck(U)

(* Each waits for its lock under a name under which the lock is held. *)
SeenAlike(T) == \A t \in T : \E u \in T \ {t} : \E i \in Granted(u) :
                                nest[u][i] = Innermost(t)

OneName(T) == \E n \in Names : \A t \in T : Innermost(t).name = n

(* The profiler stops the process before threads can wait for each other:  *)
(* a deadlock that comes about is between locks of one name, or about a    *)
(* lock that goes by two.                                                  *)
NoSilentDeadlock == \A T \in SUBSET Threads : Deadlock(T) /\ SeenAlike(T) => OneName(T)

(* Nothing that a thread has nested is missing from the order: the names a *)
(* thread waits or works under come after all it holds.                    *)
OrderKnown ==
    \A t \in Threads : \A i \in 1..(Len(nest[t]) - 1) :
        LET outer == nest[t][i].name
            inner == nest[t][i + 1].name
        IN  outer # inner => inner \in history[outer]
=============================================================================
