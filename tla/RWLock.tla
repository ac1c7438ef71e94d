------------------------------- MODULE RWLock -------------------------------
(***************************************************************************)
(* The readers-writer spin lock of ServerCore (Lock.h, Lock.cpp), one      *)
(* action per atomic operation.  The word _lockFlag packs the id of the    *)
(* writing thread (upper 16 bits, 0: nobody) and the number of read guards *)
(* (lower 16 bits); _writeCount, the nesting depth of the writer, is a     *)
(* plain uint16 that nothing but the lock itself protects.                 *)
(*                                                                         *)
(* Callers hold the lock through ReadLockGuard and WriteLockGuard objects  *)
(* in a scope, so a thread releases its guards in the reverse order of     *)
(* taking them: held[t] is that stack.  Any nesting of up to MaxDepth      *)
(* guards is allowed; a thread that asks for a write guard while it has    *)
(* only read guards (which spins until LOCK_TIMEOUT) does so only when     *)
(* AllowUpgrade.                                                           *)
(*                                                                         *)
(* The two halves of the word are kept apart: 2^16 guards or threads do    *)
(* not occur.  Thread ids start at 1 (ThreadManager::InitTLS), so no       *)
(* thread has the id that means "nobody".                                  *)
(***************************************************************************)
EXTENDS Naturals, Sequences, FiniteSets

CONSTANTS Threads,        \* the threads that use the lock
          NoThread,       \* the thread id 0 of an unowned word
          MaxDepth,       \* bound on the guards one thread nests
          AllowUpgrade    \* may a thread with only read guards ask to write?

ASSUME ThreadsAssumption == NoThread \notin Threads
ASSUME DepthAssumption == MaxDepth \in Nat
ASSUME UpgradeAssumption == AllowUpgrade \in BOOLEAN

VARIABLES flag,        \* _lockFlag: writing thread and read count
          writeCount,  \* _writeCount
          held,        \* thread -> the guards it has alive, innermost last
          pc,          \* thread -> where it is in the code of the lock
          seen,        \* thread -> "expected" of the CAS in ReadLock
          crash        \* the cause CRASH stopped the process with, or "none"

vars == <<flag, writeCount, held, pc, seen, crash>>

-----------------------------------------------------------------------------
EmptyFlag == [writer |-> NoThread, readers |-> 0]

(* desired of WriteLock: the id of t in the upper half, no readers. *)
OwnedBy(t) == [writer |-> t, readers |-> 0]

Init == /\ flag = EmptyFlag
        /\ writeCount = 0
        /\ held = [t \in Threads |-> <<>>]
        /\ pc = [t \in Threads |-> "idle"]
        /\ seen = [t \in Threads |-> 0]
        /\ crash = "none"

Kinds == {"W", "R"}

(* The places of the guards of kind k in a stack of guards. *)
Places(s, k) == {i \in DOMAIN s : s[i] = k}

Holds(t, k) == Places(held[t], k) # {}

Top(t) == held[t][Len(held[t])]

Push(t, k) == held' = [held EXCEPT ![t] = Append(@, k)]
Pop(t)     == held' = [held EXCEPT ![t] = SubSeq(@, 1, Len(@) - 1)]
Goto(t, l) == pc' = [pc EXCEPT ![t] = l]

Running == crash = "none"

MayNest(t) == Running /\ pc[t] = "idle" /\ Len(held[t]) < MaxDepth

-----------------------------------------------------------------------------
(* WriteLock: the load that tells a nested call from a first one. *)
WriteLock(t) ==
    /\ MayNest(t)
    /\ AllowUpgrade \/ Holds(t, "W") \/ ~Holds(t, "R")
    /\ Goto(t, IF flag.writer = t THEN "winc" ELSE "wspin")
    /\ UNCHANGED <<flag, writeCount, held, seen, crash>>

(* Fault: a compare-exchange that looks at the writer half only. *)
WriteCasIgnoringReaders(t) ==
    /\ Running /\ pc[t] = "wspin"
    /\ flag.writer = NoThread
    /\ flag' = OwnedBy(t)
    /\ Goto(t, "winc")
    /\ UNCHANGED <<writeCount, held, seen, crash>>

(* WriteLock: the compare-exchange from EMPTY_FLAG that succeeds. *)
WriteCas(t) ==
    /\ Running /\ pc[t] = "wspin"
    /\ flag = EmptyFlag
    /\ flag' = OwnedBy(t)
    /\ Goto(t, "winc")
    /\ UNCHANGED <<writeCount, held, seen, crash>>

(* WriteLock: _writeCount++ of both branches. *)
WriteInc(t) ==
    /\ Running /\ pc[t] = "winc"
    /\ writeCount' = writeCount + 1
    /\ Push(t, "W")
    /\ Goto(t, "idle")
    /\ UNCHANGED <<flag, seen, crash>>

(* WriteUnlock: every read guard must be gone, or the process crashes. *)
WriteUnlock(t) ==
    /\ Running /\ pc[t] = "idle"
    /\ held[t] # <<>> /\ Top(t) = "W"
    /\ \/ /\ flag.readers # 0
          /\ crash' = "INVALID_UNLOCK_ORDER"
          /\ UNCHANGED pc
       \/ /\ flag.readers = 0
          /\ Goto(t, "wdec")
          /\ UNCHANGED crash
    /\ UNCHANGED <<flag, writeCount, held, seen>>

(* Fault: every WriteUnlock empties the word, not the outermost only. *)
WriteDecAlwaysStores(t) ==
    /\ Running /\ pc[t] = "wdec"
    /\ writeCount' = writeCount - 1
    /\ Goto(t, "wstore")
    /\ UNCHANGED <<flag, held, seen, crash>>

(* Fault: the depth is compared with 0 before it is decremented. *)
WriteDecTestsBefore(t) ==
    /\ Running /\ pc[t] = "wdec"
    /\ writeCount' = writeCount - 1
    /\ Pop(t)
    /\ Goto(t, IF writeCount = 0 THEN "wstore" ELSE "idle")
    /\ UNCHANGED <<flag, seen, crash>>

(* WriteUnlock: --_writeCount; the outermost call goes on to the store. *)
WriteDec(t) ==
    /\ Running /\ pc[t] = "wdec"
    /\ writeCount' = writeCount - 1
    /\ \/ /\ writeCount = 1
          /\ Goto(t, "wstore")
          /\ UNCHANGED held
       \/ /\ writeCount # 1
          /\ Goto(t, "idle")
          /\ Pop(t)
    /\ UNCHANGED <<flag, seen, crash>>

(* WriteUnlock: _lockFlag.store(EMPTY_FLAG). *)
WriteStore(t) ==
    /\ Running /\ pc[t] = "wstore"
    /\ flag' = EmptyFlag
    /\ Pop(t)
    /\ Goto(t, "idle")
    /\ UNCHANGED <<writeCount, seen, crash>>

(* ReadLock: the load that tells the writer itself from other threads. *)
ReadLock(t) ==
    /\ MayNest(t)
    /\ Goto(t, IF flag.writer = t THEN "rinc" ELSE "rload")
    /\ UNCHANGED <<flag, writeCount, held, seen, crash>>

(* ReadLock: fetch_add(1) of the thread that already writes. *)
ReadInc(t) ==
    /\ Running /\ pc[t] = "rinc"
    /\ flag' = [flag EXCEPT !.readers = @ + 1]
    /\ Push(t, "R")
    /\ Goto(t, "idle")
    /\ UNCHANGED <<writeCount, seen, crash>>

(* ReadLock: expected is the read count alone, whoever writes. *)
ReadLoad(t) ==
    /\ Running /\ pc[t] = "rload"
    /\ seen' = [seen EXCEPT ![t] = flag.readers]
    /\ Goto(t, "rcas")
    /\ UNCHANGED <<flag, writeCount, held, crash>>

(* Fault: expected is the loaded word, without READ_COUNT_MASK. *)
ExpectedWithWriter(t) == [writer |-> flag.writer, readers |-> seen[t]]

(* The whole word the compare-exchange of ReadLock compares with. *)
Expected(t) == [writer |-> NoThread, readers |-> seen[t]]

(* ReadLock: the compare-exchange, which fails while anybody writes. *)
ReadCas(t) ==
    /\ Running /\ pc[t] = "rcas"
    /\ \/ /\ flag = Expected(t)
          /\ flag' = [flag EXCEPT !.readers = @ + 1]
          /\ Push(t, "R")
          /\ Goto(t, "idle")
       \/ /\ flag # Expected(t)
          /\ Goto(t, "rload")
          /\ UNCHANGED <<flag, held>>
    /\ UNCHANGED <<writeCount, seen, crash>>

(* ReadUnlock: fetch_sub(1), and a crash when there was nothing to take. *)
ReadUnlock(t) ==
    /\ Running /\ pc[t] = "idle"
    /\ held[t] # <<>> /\ Top(t) = "R"
    /\ \/ /\ flag.readers = 0
          /\ crash' = "MULTIPLE_UNLOCK"
          /\ UNCHANGED <<flag, held>>
       \/ /\ flag.readers # 0
          /\ flag' = [flag EXCEPT !.readers = @ - 1]
          /\ Pop(t)
          /\ UNCHANGED crash
    /\ UNCHANGED <<writeCount, pc, seen>>

(* A compare-exchange of either loop that fails ACQUIRE_TIMEOUT_TICK after *)
(* the first one.                                                          *)
LockTimeout(t) ==
    /\ Running
    /\ \/ pc[t] = "wspin" /\ flag # EmptyFlag
       \/ pc[t] = "rcas" /\ flag # Expected(t)
    /\ crash' = "LOCK_TIMEOUT"
    /\ UNCHANGED <<flag, writeCount, held, pc, seen>>

(* The process a CRASH has stopped stays stopped. *)
Stopped == ~Running /\ UNCHANGED vars

Step(t) == \/ WriteLock(t) \/ WriteCas(t) \/ WriteInc(t)
           \/ WriteUnlock(t) \/ WriteDec(t) \/ WriteStore(t)
           \/ ReadLock(t) \/ ReadInc(t) \/ ReadLoad(t) \/ ReadCas(t)
           \/ ReadUnlock(t) \/ LockTimeout(t)

Next == (\E t \in Threads : Step(t)) \/ Stopped

Spec == Init /\ [][Next]_vars

Unlock(t) == WriteUnlock(t) \/ ReadUnlock(t)

(* A thread inside the code of the lock keeps running, and no scope lasts  *)
(* forever: a thread again and again at the end of the scope of its d-th   *)
(* guard leaves it.  Nobody is promised to win a race for the word.        *)
Fairness ==
    \A t \in Threads :
        /\ WF_vars(WriteInc(t)) /\ WF_vars(WriteDec(t)) /\ WF_vars(WriteStore(t))
        /\ WF_vars(ReadInc(t))
        /\ \A d \in 1 .. MaxDepth : SF_vars(Len(held[t]) = d /\ Unlock(t))

FairSpec == Spec /\ Fairness

-----------------------------------------------------------------------------
PcValues == {"idle", "wspin", "winc", "wdec", "wstore", "rinc", "rload", "rcas"}

Causes == {"none", "LOCK_TIMEOUT", "INVALID_UNLOCK_ORDER", "MULTIPLE_UNLOCK"}

(* The type of every variable. *)
TypeOK == /\ flag \in [writer : Threads \cup {NoThread}, readers : Nat]
          /\ writeCount \in Nat
          /\ held \in [Threads -> Seq(Kinds)]
          /\ pc \in [Threads -> PcValues]
          /\ seen \in [Threads -> Nat]
          /\ crash \in Causes

(* While a thread has a write guard no other thread has a guard of either  *)
(* kind: the one thing WRITE_LOCK and READ_LOCK are used for.              *)
MutualExclusion ==
    \A t, u \in Threads :
        t # u /\ Holds(t, "W") => ~Holds(u, "W") /\ ~Holds(u, "R")

(* _writeCount is not atomic: no two threads are ever about to change it,  *)
(* or to publish the word that depends on it, at once (Lock.h, _writeCount).*)
WriteCountRaceFree ==
    \A t, u \in Threads :
        t # u /\ pc[t] \in {"winc", "wdec", "wstore"}
            => pc[u] \notin {"winc", "wdec", "wstore", "rinc"}

(* Scoped guards never run into MULTIPLE_UNLOCK, and run into              *)
(* INVALID_UNLOCK_ORDER only when the crashing thread itself took a read   *)
(* guard between two write guards; a reader of another thread never does.  *)
CrashIsNesting ==
    /\ crash # "MULTIPLE_UNLOCK"
    /\ crash = "INVALID_UNLOCK_ORDER" =>
           \E t \in Threads : \E i, j, k \in DOMAIN held[t] :
               /\ i < j /\ j < k
               /\ held[t][i] = "W" /\ held[t][j] = "R" /\ held[t][k] = "W"

(* The read half of the word counts the read guards alive, so a word that  *)
(* looks free is free (WriteLock trusts EMPTY_FLAG alone).                 *)
ReadGuards == UNION {{t} \X Places(held[t], "R") : t \in Threads}

WordCountsReaders == flag.readers = Cardinality(ReadGuards)

(* A writer lets go: the store that empties the word is always reached, so *)
(* a waiting thread gets its chance, unless the process has crashed.       *)
WriterLetsGo ==
    \A t \in Threads : flag.writer = t ~> flag.writer # t \/ ~Running

-----------------------------------------------------------------------------
(* The guards each thread has, as RWLockAbs counts them: a write guard     *)
(* exists from the compare-exchange that wins the word (from the load, in  *)
(* a nested call) and until the store that empties it.                     *)
GuardCount(t, k) == Cardinality(Places(held[t], k))

AbsWrites == [t \in Threads |-> GuardCount(t, "W") + (IF pc[t] = "winc" THEN 1 ELSE 0)]

AbsReads == [t \in Threads |-> GuardCount(t, "R")]

Abs == INSTANCE RWLockAbs WITH writes <- AbsWrites, reads <- AbsReads

(* The lock implements the abstract reentrant readers-writer lock. *)
ImplementsRWLock == Abs!Spec
=============================================================================
