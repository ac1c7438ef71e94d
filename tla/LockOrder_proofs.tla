-------------------------- MODULE LockOrder_proofs --------------------------
(***************************************************************************)
(* Proofs about LockOrder and DeadLockProfiler, for every set of threads,  *)
(* locks and names and every nesting: a deadlock never comes about         *)
(* silently, and a program whose nesting only ever goes down some ranking  *)
(* of its locks neither deadlocks nor is reported.  The profiler's search, *)
(* step by step, implements LockOrder: it stops the process at a nesting   *)
(* that closes a circle, and at no other.  The server's nesting closes     *)
(* none.                                                                   *)
(***************************************************************************)
EXTENDS ServerLocks, SequenceTheorems, WellFoundedInduction, TLAPS

(* A thread that waits has something to wait for. *)
WaitsForOne == \A t \in Threads : waiting[t] => nest[t] # <<>>

(* A process that goes on has an order without a cycle. *)
Acyclic == ~reported => ~Cyclic(history)

(* An order that has all that is nested. *)
Known(h) ==
    \A t \in Threads : \A i \in 1..(Len(nest[t]) - 1) :
        nest[t][i].name # nest[t][i + 1].name => nest[t][i + 1].name \in h[nest[t][i].name]

IInv == TypeOK /\ WaitsForOne /\ OrderKnown /\ Acyclic /\ NoSilentDeadlock

(* Every set of naturals has a least one. *)
LEMMA Smallest == ASSUME NEW S \in SUBSET Nat, S # {}
                  PROVE  \E x \in S : \A y \in S : x <= y
<1> DEFINE R == {p \in Nat \X Nat : p[1] < p[2]}
<1>1. IsWellFoundedOn(R, Nat)
  BY NatLessThanWellFounded DEF OpToRel
<1>2. PICK x \in S : \A y \in S : <<y, x>> \notin R
  BY <1>1, WFMin
<1>3. ASSUME NEW y \in S PROVE x <= y
  <2>1. x \in Nat /\ y \in Nat
    OBVIOUS
  <2>2. <<y, x>> \in Nat \X Nat
    BY <2>1
  <2>3. ~(y < x)
    BY <1>2, <2>2
  <2> QED
    BY <2>1, <2>3
<1> QED
  BY <1>3

(* What taking and giving back a lock make of a nest. *)
LEMMA NestChange ==
    ASSUME NEW s \in Seq(Acquisitions), NEW a \in Acquisitions
    PROVE  /\ Append(s, a) \in Seq(Acquisitions) /\ Append(s, a) # <<>>
           /\ Len(s) \in Nat /\ Len(Append(s, a)) = Len(s) + 1
           /\ Append(s, a)[Len(s) + 1] = a
           /\ \A i \in 1..Len(s) : Append(s, a)[i] = s[i] /\ s[i] \in Acquisitions
           /\ s # <<>> => /\ Len(s) >= 1
                          /\ SubSeq(s, 1, Len(s) - 1) \in Seq(Acquisitions)
                          /\ Len(SubSeq(s, 1, Len(s) - 1)) = Len(s) - 1
                          /\ \A i \in 1..(Len(s) - 1) : SubSeq(s, 1, Len(s) - 1)[i] = s[i]
<1>1. /\ Append(s, a) \in Seq(Acquisitions) /\ Append(s, a) # <<>>
      /\ Len(s) \in Nat /\ Len(Append(s, a)) = Len(s) + 1
      /\ Append(s, a)[Len(s) + 1] = a
      /\ \A i \in 1..Len(s) : Append(s, a)[i] = s[i] /\ s[i] \in Acquisitions
  BY AppendProperties
<1>2. ASSUME s # <<>>
      PROVE  /\ Len(s) >= 1
             /\ SubSeq(s, 1, Len(s) - 1) \in Seq(Acquisitions)
             /\ Len(SubSeq(s, 1, Len(s) - 1)) = Len(s) - 1
             /\ \A i \in 1..(Len(s) - 1) : SubSeq(s, 1, Len(s) - 1)[i] = s[i]
  <2>1. Len(s) \in Nat /\ Len(s) >= 1
    BY <1>2, EmptySeq
  <2>2. \A i \in 1..(Len(s) - 1) : s[i] \in Acquisitions
    BY <2>1
  <2> DEFINE n == Len(s) - 1
  <2>3. n \in Nat
    BY <2>1
  <2> HIDE DEF n
  <2>4. \A i \in 1..n : s[i] \in Acquisitions
    BY <2>2 DEF n
  <2>5. /\ SubSeq(s, 1, n) \in Seq(Acquisitions)
        /\ Len(SubSeq(s, 1, n)) = IF 1 <= n THEN n - 1 + 1 ELSE 0
        /\ \A i \in 1..(n - 1 + 1) : SubSeq(s, 1, n)[i] = s[1 + i - 1]
    BY <2>3, <2>4, SubSeqProperties
  <2>6. /\ Len(SubSeq(s, 1, n)) = n
        /\ \A i \in 1..n : SubSeq(s, 1, n)[i] = s[i]
    BY <2>3, <2>5
  <2> QED
    BY <2>1, <2>5, <2>6 DEF n
<1> QED
  BY <1>1, <1>2

(* What a program takes are locks under their names. *)
LEMMA TakenAcquisitions ==
    ASSUME NEW p \in DOMAIN Nests, NEW a \in Taken[p] PROVE a \in Acquisitions
<1>1. Nests[p] \subseteq Acquisitions \X Acquisitions
  BY NestsAssumption
<1> QED
  BY <1>1 DEF Taken

(* A nesting adds one edge to the order, or none, and takes none away. *)
LEMMA EdgesType ==
    ASSUME TypeOK, NEW t \in Threads, NEW a \in Acquisitions
    PROVE  /\ Edges(t, a) \in [Names -> SUBSET Names]
           /\ \A n \in Names : history[n] \subseteq Edges(t, a)[n]
           /\ nest[t] # <<>> /\ Innermost(t).name # a.name
                 => a.name \in Edges(t, a)[Innermost(t).name]
           /\ \A m \in Names, n \in Names : n \in Edges(t, a)[m] =>
                 \/ n \in history[m]
                 \/ nest[t] # <<>> /\ m = Innermost(t).name /\ n = a.name /\ m # n
<1>1. nest[t] # <<>> => Innermost(t) \in Acquisitions
  BY DEF TypeOK, Innermost
<1>2. a.name \in Names /\ (nest[t] # <<>> => Innermost(t).name \in Names)
  BY <1>1 DEF Acquisitions
<1>3. history \in [Names -> SUBSET Names]
  BY DEF TypeOK
<1> QED
  BY <1>2, <1>3 DEF Edges

(* At the start nothing is nested, and the order is empty. *)
LEMMA InitIInv == Init => IInv
<1> SUFFICES ASSUME Init PROVE IInv
  OBVIOUS
<1> USE DEF Init
<1>1. TypeOK
  BY EmptySeq DEF TypeOK
<1>2. WaitsForOne /\ OrderKnown
  BY EmptySeq DEF WaitsForOne, OrderKnown
<1>3. Acyclic
  <2> SUFFICES ASSUME NEW s \in (SUBSET Names) \ {{}}, \A n \in s : history[n] \cap s # {}
               PROVE  FALSE
    BY DEF Acyclic, Cyclic
  <2>1. PICK n : n \in s
    OBVIOUS
  <2>2. n \in Names /\ history[n] = {}
    BY <2>1
  <2> QED
    BY <2>1, <2>2
<1>4. NoSilentDeadlock
  BY DEF NoSilentDeadlock, Deadlock, Stuck
<1> QED
  BY <1>1, <1>2, <1>3, <1>4 DEF IInv

(* Types, and that a thread that waits has a nest. *)
LEMMA StepTypeOK ==
    ASSUME TypeOK, WaitsForOne, [Next]_vars PROVE TypeOK' /\ WaitsForOne'
<1> USE DEF TypeOK, WaitsForOne
<1>1. ASSUME NEW t \in Threads, NEW a \in Taken[program], Lock(t, a)
      PROVE  TypeOK' /\ WaitsForOne'
  <2>1. a \in Acquisitions
    BY TakenAcquisitions
  <2>2. Edges(t, a) \in [Names -> SUBSET Names]
    BY <2>1, EdgesType
  <2>3. Append(nest[t], a) \in Seq(Acquisitions) /\ Append(nest[t], a) # <<>>
    BY <2>1, NestChange
  <2> QED
    BY <1>1, <2>2, <2>3 DEF Lock
<1>2. ASSUME NEW t \in Threads, NEW a \in Taken[program], Report(t, a)
      PROVE  TypeOK' /\ WaitsForOne'
  BY <1>2, TakenAcquisitions, EdgesType DEF Report
<1>3. ASSUME NEW t \in Threads, Acquire(t) PROVE TypeOK' /\ WaitsForOne'
  BY <1>3 DEF Acquire
<1>4. ASSUME NEW t \in Threads, Unlock(t) PROVE TypeOK' /\ WaitsForOne'
  <2>1. SubSeq(nest[t], 1, Len(nest[t]) - 1) \in Seq(Acquisitions)
    BY <1>4, NestChange, EmptySeq DEF Unlock
  <2> QED
    BY <1>4, <2>1 DEF Unlock
<1>5. CASE UNCHANGED vars
  BY <1>5 DEF vars
<1> QED
  BY <1>1, <1>2, <1>3, <1>4, <1>5 DEF Next

(* The order keeps all that is nested: it only grows. *)
LEMMA StepOrderKnown ==
    ASSUME TypeOK, OrderKnown, [Next]_vars PROVE OrderKnown'
<1> USE DEF TypeOK
<1>1. ASSUME NEW t \in Threads, NEW a \in Taken[program], Lock(t, a)
      PROVE  OrderKnown'
  <2>1. a \in Acquisitions
    BY TakenAcquisitions
  <2>2. nest' = [nest EXCEPT ![t] = Append(@, a)] /\ history' = Edges(t, a)
    BY <1>1 DEF Lock
  <2> SUFFICES ASSUME NEW u \in Threads, NEW i \in 1..(Len(nest'[u]) - 1),
                      nest'[u][i].name # nest'[u][i + 1].name
               PROVE  nest'[u][i + 1].name \in history'[nest'[u][i].name]
    BY DEF OrderKnown
  <2>3. CASE i \in 1..(Len(nest[u]) - 1) /\ nest'[u][i] = nest[u][i]
                                      /\ nest'[u][i + 1] = nest[u][i + 1]
    <3>1. nest[u][i + 1].name \in history[nest[u][i].name]
      BY <2>3 DEF OrderKnown
    <3>2. nest[u][i] \in Acquisitions
      BY <2>3, ElementOfSeq
    <3>3. nest[u][i].name \in Names
      BY <3>2 DEF Acquisitions
    <3> QED
      BY <2>1, <2>2, <2>3, <3>1, <3>3, EdgesType
  <2>4. CASE u # t
    BY <2>2, <2>3, <2>4
  <2>5. CASE u = t
    <3>1. nest'[t] = Append(nest[t], a) /\ Len(nest'[t]) = Len(nest[t]) + 1
      BY <2>1, <2>2, NestChange
    <3>2. Len(nest[t]) \in Nat /\ i \in 1..Len(nest[t])
      BY <2>5, <3>1, NestChange, <2>1
    <3>3. CASE i = Len(nest[t])
      <4>1. nest[t] # <<>> /\ nest'[t][i] = Innermost(t) /\ nest'[t][i + 1] = a
        BY <2>1, <3>1, <3>2, <3>3, NestChange, EmptySeq DEF Innermost
      <4>2. Innermost(t).name # a.name
        BY <2>5, <4>1
      <4>3. a.name \in history'[Innermost(t).name]
        BY <2>1, <2>2, <4>1, <4>2, EdgesType
      <4> QED
        BY <2>5, <4>1, <4>3
    <3>4. CASE i # Len(nest[t])
      <4>1. i \in 1..(Len(nest[t]) - 1) /\ i + 1 \in 1..Len(nest[t])
        BY <3>2, <3>4
      <4>2. nest'[t][i] = nest[t][i] /\ nest'[t][i + 1] = nest[t][i + 1]
        BY <2>1, <3>1, <3>2, <4>1, NestChange
      <4> QED
        BY <2>3, <2>5, <4>1, <4>2
    <3> QED
      BY <3>3, <3>4
  <2> QED
    BY <2>4, <2>5
<1>2. ASSUME NEW t \in Threads, NEW a \in Taken[program], Report(t, a)
      PROVE  OrderKnown'
  <2>1. a \in Acquisitions
    BY TakenAcquisitions
  <2>2. nest' = nest /\ history' = Edges(t, a)
    BY <1>2 DEF Report
  <2> SUFFICES ASSUME NEW u \in Threads, NEW i \in 1..(Len(nest[u]) - 1),
                      nest[u][i].name # nest[u][i + 1].name
               PROVE  nest[u][i + 1].name \in history'[nest[u][i].name]
    BY <2>2 DEF OrderKnown
  <2>3. nest[u][i + 1].name \in history[nest[u][i].name]
    BY DEF OrderKnown
  <2>4. Len(nest[u]) \in Nat /\ i \in 1..Len(nest[u])
    BY <2>1, NestChange
  <2>5. nest[u] \in Seq(Acquisitions)
    OBVIOUS
  <2>6. nest[u][i] \in Acquisitions
    BY <2>4, <2>5, ElementOfSeq
  <2>7. nest[u][i].name \in Names
    BY <2>6 DEF Acquisitions
  <2> QED
    BY <2>1, <2>2, <2>3, <2>7, EdgesType
<1>3. ASSUME NEW t \in Threads, Acquire(t) PROVE OrderKnown'
  BY <1>3 DEF Acquire, OrderKnown
<1>4. ASSUME NEW t \in Threads, Unlock(t) PROVE OrderKnown'
  <2>1. nest' = [nest EXCEPT ![t] = SubSeq(@, 1, Len(@) - 1)] /\ history' = history
        /\ nest[t] # <<>>
    BY <1>4 DEF Unlock
  <2> SUFFICES ASSUME NEW u \in Threads, NEW i \in 1..(Len(nest'[u]) - 1)
               PROVE  /\ i \in 1..(Len(nest[u]) - 1)
                      /\ nest'[u][i] = nest[u][i] /\ nest'[u][i + 1] = nest[u][i + 1]
    BY <2>1 DEF OrderKnown
  <2>2. CASE u # t
    BY <2>1, <2>2
  <2>3. CASE u = t
    <3> DEFINE s == SubSeq(nest[t], 1, Len(nest[t]) - 1)
    <3>1. nest'[t] = s
      BY <2>1
    <3>2. \A a \in Acquisitions :
             /\ Len(nest[t]) \in Nat /\ Len(s) = Len(nest[t]) - 1
             /\ \A j \in 1..(Len(nest[t]) - 1) : s[j] = nest[t][j]
      BY <2>1, NestChange
    <3>3. nest[t][1] \in Acquisitions
      BY <2>1, EmptySeq, ElementOfSeq
    <3> QED
      BY <2>3, <3>1, <3>2, <3>3
  <2> QED
    BY <2>2, <2>3
<1>5. CASE UNCHANGED vars
  BY <1>5 DEF vars, OrderKnown
<1> QED
  BY <1>1, <1>2, <1>3, <1>4, <1>5 DEF Next

(* A nest that ends with another name than one it holds takes a name       *)
(* inside that one.                                                        *)
LEMMA NameLeft ==
    ASSUME NEW s \in Seq(Acquisitions), NEW j \in 1..Len(s),
           s[j].name # s[Len(s)].name
    PROVE  \E i \in 1..(Len(s) - 1) : s[i].name = s[j].name /\ s[i + 1].name # s[j].name
<1> DEFINE S == {k \in Nat : k \in j..Len(s) /\ s[k].name # s[j].name}
<1>1. Len(s) \in Nat /\ Len(s) \in S
  BY LenProperties
<1>2. PICK k \in S : \A l \in S : k <= l
  BY <1>1, Smallest
<1>3. k \in Nat /\ k > j /\ k <= Len(s)
  BY <1>1
<1>4. k - 1 \in 1..(Len(s) - 1) /\ k - 1 \in j..Len(s) /\ (k - 1) + 1 = k
  BY <1>1, <1>3
<1>5. k - 1 \notin S
  BY <1>1, <1>2, <1>3
<1>6. s[k - 1].name = s[j].name
  BY <1>4, <1>5
<1> QED
  BY <1>4, <1>6

(* An order without a cycle keeps threads out of deadlocks that it can see: *)
(* the names that the threads of one have taken would close on themselves, *)
(* but for a name under which all wait.                                    *)
LEMMA AcyclicSafe ==
    TypeOK /\ WaitsForOne
    => \A h \in [Names -> SUBSET Names] : Known(h) /\ ~Cyclic(h) => NoSilentDeadlock
<1> USE DEF TypeOK
<1> SUFFICES ASSUME TypeOK, WaitsForOne, NEW h \in [Names -> SUBSET Names], Known(h), ~Cyclic(h),
                    NEW T \in SUBSET Threads, Deadlock(T), SeenAlike(T)
             PROVE  OneName(T)
  BY DEF NoSilentDeadlock
<1> DEFINE S == {n \in Names : \E t \in T : \E j \in 1..Len(nest[t]) : nest[t][j].name = n}
<1>1. \A t \in T : /\ waiting[t] /\ nest[t] # <<>> /\ Len(nest[t]) \in Nat /\ Len(nest[t]) >= 1
                   /\ nest[t] \in Seq(Acquisitions)
                   /\ \A j \in 1..Len(nest[t]) : nest[t][j].name \in S
  <2> SUFFICES ASSUME NEW t \in T
               PROVE  /\ waiting[t] /\ nest[t] # <<>> /\ Len(nest[t]) \in Nat /\ Len(nest[t]) >= 1
                      /\ nest[t] \in Seq(Acquisitions)
                      /\ \A j \in 1..Len(nest[t]) : nest[t][j].name \in S
    OBVIOUS
  <2>1. waiting[t] /\ nest[t] # <<>>
    BY DEF Deadlock, Stuck, WaitsForOne
  <2>2. nest[t] \in Seq(Acquisitions)
    OBVIOUS
  <2>3. Len(nest[t]) \in Nat /\ Len(nest[t]) >= 1
    BY <2>1, <2>2, EmptySeq
  <2>4. ASSUME NEW j \in 1..Len(nest[t]) PROVE nest[t][j].name \in S
    <3>1. nest[t][j] \in Acquisitions
      BY <2>2, ElementOfSeq
    <3> QED
      BY <3>1 DEF Acquisitions
  <2> QED
    BY <2>1, <2>2, <2>3, <2>4
<1>2. S # {}
  <2>1. T # {}
    BY DEF Deadlock
  <2> QED
    BY <1>1, <2>1
<1>3. PICK m \in S : h[m] \cap S = {}
  BY <1>2 DEF Cyclic
(* A thread that holds or awaits a lock as m awaits its lock as m. *)
<1>4. ASSUME NEW t \in T, NEW j \in 1..Len(nest[t]), nest[t][j].name = m
      PROVE  Innermost(t).name = m
  <2> SUFFICES ASSUME nest[t][Len(nest[t])].name # m PROVE FALSE
    BY DEF Innermost
  <2>1. PICK i \in 1..(Len(nest[t]) - 1) : nest[t][i].name = m /\ nest[t][i + 1].name # m
    <3> DEFINE s == nest[t]
    <3>1. s \in Seq(Acquisitions) /\ j \in 1..Len(s) /\ s[j].name = m /\ s[Len(s)].name # m
      BY <1>1, <1>4
    <3> HIDE DEF s
    <3>2. \E i \in 1..(Len(s) - 1) : s[i].name = s[j].name /\ s[i + 1].name # s[j].name
      BY <3>1, NameLeft
    <3> QED
      BY <3>1, <3>2 DEF s
  <2>2. nest[t][i + 1].name \in h[m]
    BY <2>1 DEF Known
  <2>3. i + 1 \in 1..Len(nest[t])
    BY <1>1, <2>1
  <2>4. nest[t][i + 1].name \in S
    BY <1>1, <2>3
  <2> QED
    BY <1>3, <2>2, <2>4
<1> DEFINE U == {t \in T : Innermost(t).name = m}
<1>5. U # {}
  BY <1>4
<1>6. Stuck(U)
  <2> SUFFICES ASSUME NEW t \in U
               PROVE  \E u \in U \ {t} : Holds(u, Innermost(t).lock)
    BY <1>1 DEF Stuck
  <2>1. PICK u \in T \ {t} : \E i \in Granted(u) : nest[u][i] = Innermost(t)
    BY DEF SeenAlike
  <2>2. PICK i \in Granted(u) : nest[u][i] = Innermost(t)
    BY <2>1
  <2>3. i \in 1..Len(nest[u])
    BY <1>1, <2>2 DEF Granted
  <2>4. u \in U
    BY <1>4, <2>2, <2>3
  <2> QED
    BY <2>1, <2>2, <2>4 DEF Holds
<1>7. U = T
  <2>1. \A V \in (SUBSET T) \ {{}, T} : ~Stuck(V)
    BY DEF Deadlock
  <2>2. U \in SUBSET T
    OBVIOUS
  <2>3. U \in {{}, T}
    BY <1>6, <2>1, <2>2
  <2> QED
    BY <1>5, <2>3
<1> QED
  BY <1>3, <1>7 DEF OneName

(* The same of the state after a step. *)
LEMMA AcyclicSafeNext ==
    (TypeOK /\ WaitsForOne
     => \A h \in [Names -> SUBSET Names] : Known(h) /\ ~Cyclic(h) => NoSilentDeadlock)'
BY AcyclicSafe, PTL

(* As long as the locks stand as they do, no deadlock comes about. *)
LEMMA SafeStands == ASSUME NoSilentDeadlock, UNCHANGED <<nest, waiting>> PROVE NoSilentDeadlock'
<1>1. \A t \in Threads : Innermost(t)' = Innermost(t) /\ Granted(t)' = Granted(t)
  BY DEF Innermost, Granted
<1>2. \A t \in Threads : \A l : Holds(t, l)' <=> Holds(t, l)
  BY <1>1 DEF Holds
<1>3. \A T \in SUBSET Threads : Stuck(T)' <=> Stuck(T)
  BY <1>1, <1>2 DEF Stuck
<1>4. \A T \in SUBSET Threads : Deadlock(T)' <=> Deadlock(T)
  BY <1>3 DEF Deadlock
<1>5. \A T \in SUBSET Threads : SeenAlike(T)' <=> SeenAlike(T)
  BY <1>1 DEF SeenAlike
<1>6. \A T \in SUBSET Threads : OneName(T)' <=> OneName(T)
  BY <1>1 DEF OneName
<1> QED
  BY <1>4, <1>5, <1>6 DEF NoSilentDeadlock

(* What the process has been stopped in does not change any more. *)
LEMMA StepSafe == ASSUME IInv, [Next]_vars PROVE Acyclic' /\ NoSilentDeadlock'
<1> USE DEF IInv
<1>1. TypeOK' /\ WaitsForOne' /\ OrderKnown'
  BY StepTypeOK, StepOrderKnown
<1>2. \/ ~reported' /\ ~Cyclic(history')
      \/ UNCHANGED <<nest, waiting>> /\ Acyclic'
  <2>1. CASE UNCHANGED vars
    BY <2>1 DEF vars, Acyclic, Cyclic
  <2>2. ASSUME NEW t \in Threads, NEW a \in Taken[program], Lock(t, a)
        PROVE  ~reported' /\ ~Cyclic(history')
    BY <2>2 DEF Lock, Cyclic
  <2>3. ASSUME NEW t \in Threads, NEW a \in Taken[program], Report(t, a)
        PROVE  UNCHANGED <<nest, waiting>> /\ Acyclic'
    BY <2>3 DEF Report, Acyclic
  <2>4. ASSUME NEW t \in Threads, Acquire(t) \/ Unlock(t)
        PROVE  ~reported' /\ ~Cyclic(history')
    BY <2>4 DEF Acquire, Unlock, Acyclic, Cyclic
  <2> QED
    BY <2>1, <2>2, <2>3, <2>4 DEF Next
<1>3. CASE ~reported' /\ ~Cyclic(history')
  <2>1. NoSilentDeadlock'
    BY <1>1, <1>3, AcyclicSafeNext DEF Cyclic, Known, OrderKnown, TypeOK
  <2> QED
    BY <1>3, <2>1 DEF Acyclic, Cyclic
<1>4. CASE UNCHANGED <<nest, waiting>> /\ Acyclic'
  BY <1>4, SafeStands
<1> QED
  BY <1>2, <1>3, <1>4

(* The invariant that the theorems about LockOrder follow from. *)
THEOREM Inductive == Spec => []IInv
<1>1. IInv /\ [Next]_vars => IInv'
  BY StepTypeOK, StepOrderKnown, StepSafe DEF IInv
<1> QED
  BY InitIInv, <1>1, PTL DEF Spec

(* The variables have their types (LLockStack, _lockHistory). *)
THEOREM TypeCorrect == Spec => []TypeOK
<1>1. IInv => TypeOK
  BY DEF IInv
<1> QED
  BY Inductive, <1>1, PTL

(* _lockHistory has every nesting that exists, of every thread. *)
THEOREM OrderKept == Spec => []OrderKnown
<1>1. IInv => OrderKnown
  BY DEF IInv
<1> QED
  BY Inductive, <1>1, PTL

(* DeadLockProfiler::PushLock stops the process before threads that use a  *)
(* lock under one name and several names altogether wait for each other.   *)
THEOREM NeverSilent == Spec => []NoSilentDeadlock
<1>1. IInv => NoSilentDeadlock
  BY DEF IInv
<1> QED
  BY Inductive, <1>1, PTL

-----------------------------------------------------------------------------
(* A write lock has one owner. *)
Exclusive == \A t, u \in Threads : \A l : Holds(t, l) /\ Holds(u, l) => t = u

(* What Holds makes of a step. *)
LEMMA HoldsChange ==
    ASSUME TypeOK, WaitsForOne, [Next]_vars, NEW u \in Threads, NEW l, Holds(u, l)'
    PROVE  \/ Holds(u, l)
           \/ Acquire(u) /\ Innermost(u).lock = l
<1> USE DEF TypeOK
<1>1. PICK i \in Granted(u)' : nest'[u][i].lock = l
  BY DEF Holds
<1>2. ASSUME NEW t \in Threads, NEW a \in Taken[program], Lock(t, a) PROVE Holds(u, l)
  <2>1. /\ nest' = [nest EXCEPT ![t] = Append(@, a)] /\ ~waiting[t]
        /\ waiting' = [waiting EXCEPT ![t] = TRUE]
    BY <1>2 DEF Lock
  <2>2. CASE u # t
    BY <1>1, <2>1, <2>2 DEF Holds, Granted
  <2>3. CASE u = t
    <3>1. a \in Acquisitions
      BY TakenAcquisitions
    <3>2. /\ nest'[t] = Append(nest[t], a) /\ Len(nest'[t]) = Len(nest[t]) + 1
          /\ Len(nest[t]) \in Nat
      BY <2>1, <3>1, NestChange
    <3>3. i \in 1..Len(nest[t])
      BY <1>1, <2>1, <2>3, <3>2 DEF Granted
    <3>4. nest[t][i].lock = l
      BY <1>1, <2>3, <3>1, <3>2, <3>3, NestChange
    <3> QED
      BY <2>1, <2>3, <3>2, <3>3, <3>4 DEF Holds, Granted
  <2> QED
    BY <2>2, <2>3
<1>3. ASSUME NEW t \in Threads, NEW a \in Taken[program], Report(t, a) PROVE Holds(u, l)
  BY <1>1, <1>3 DEF Report, Holds, Granted
<1>4. ASSUME NEW t \in Threads, Acquire(t)
      PROVE  Holds(u, l) \/ (Acquire(u) /\ Innermost(u).lock = l)
  <2>1. nest' = nest /\ waiting[t] /\ waiting' = [waiting EXCEPT ![t] = FALSE]
    BY <1>4 DEF Acquire
  <2>2. nest[u][i].lock = l
    BY <1>1, <2>1
  <2>3. CASE u # t
    <3>1. waiting'[u] = waiting[u] /\ nest'[u] = nest[u]
      BY <2>1, <2>3
    <3>2. i \in Granted(u)
      BY <1>1, <3>1 DEF Granted
    <3> QED
      BY <2>2, <3>2 DEF Holds
  <2>4. CASE u = t
    <3>1. Len(nest[t]) \in Nat
      BY LenProperties
    <3>2. waiting[u] /\ ~waiting'[u] /\ nest'[u] = nest[u]
      BY <2>1, <2>4
    <3>3. i \in 1..Len(nest[u])
      BY <1>1, <3>1, <3>2 DEF Granted
    <3>4. CASE i = Len(nest[u])
      BY <1>4, <2>2, <2>4, <3>4 DEF Innermost
    <3>5. CASE i # Len(nest[u])
      <4>1. i \in Granted(u)
        BY <2>4, <3>1, <3>2, <3>3, <3>5 DEF Granted
      <4> QED
        BY <2>2, <4>1 DEF Holds
    <3> QED
      BY <3>4, <3>5
  <2> QED
    BY <2>3, <2>4
<1>5. ASSUME NEW t \in Threads, Unlock(t) PROVE Holds(u, l)
  <2>1. /\ nest' = [nest EXCEPT ![t] = SubSeq(@, 1, Len(@) - 1)]
        /\ waiting' = waiting /\ ~waiting[t] /\ nest[t] # <<>>
    BY <1>5 DEF Unlock
  <2>2. CASE u # t
    BY <1>1, <2>1, <2>2 DEF Holds, Granted
  <2>3. CASE u = t
    <3> DEFINE s == SubSeq(nest[t], 1, Len(nest[t]) - 1)
    <3>1. nest'[t] = s
      BY <2>1
    <3>2. nest[t][1] \in Acquisitions
      BY <2>1, EmptySeq, ElementOfSeq
    <3>3. /\ Len(nest[t]) \in Nat /\ Len(s) = Len(nest[t]) - 1
          /\ \A j \in 1..(Len(nest[t]) - 1) : s[j] = nest[t][j]
      BY <2>1, <3>2, NestChange
    <3>4. i \in 1..(Len(nest[t]) - 1)
      BY <1>1, <2>1, <2>3, <3>1, <3>3 DEF Granted
    <3> QED
      BY <1>1, <2>1, <2>3, <3>1, <3>3, <3>4 DEF Holds, Granted
  <2> QED
    BY <2>2, <2>3
<1>6. CASE UNCHANGED vars
  BY <1>1, <1>6 DEF vars, Holds, Granted
<1> QED
  BY <1>2, <1>3, <1>4, <1>5, <1>6 DEF Next

(* No step gives a lock to a second owner. *)
LEMMA StepExclusive ==
    ASSUME TypeOK, WaitsForOne, Exclusive, [Next]_vars PROVE Exclusive'
<1> SUFFICES ASSUME NEW t \in Threads, NEW u \in Threads, NEW l,
                    Holds(t, l)', Holds(u, l)', t # u
             PROVE  FALSE
  BY DEF Exclusive
<1>1. Holds(t, l) \/ (Acquire(t) /\ Innermost(t).lock = l)
  BY HoldsChange
<1>2. Holds(u, l) \/ (Acquire(u) /\ Innermost(u).lock = l)
  BY HoldsChange
<1>3. CASE Holds(t, l) /\ Holds(u, l)
  BY <1>3 DEF Exclusive
<1>4. CASE Acquire(t) /\ Innermost(t).lock = l
  <2>1. ~Holds(u, l)
    BY <1>4 DEF Acquire
  <2>2. Acquire(u)
    BY <1>2, <2>1
  <2> QED
    BY <1>4, <2>2 DEF Acquire, TypeOK
<1>5. CASE Acquire(u) /\ Innermost(u).lock = l
  <2>1. ~Holds(t, l)
    BY <1>5 DEF Acquire
  <2>2. Acquire(t)
    BY <1>1, <2>1
  <2> QED
    BY <1>5, <2>2 DEF Acquire, TypeOK
<1> QED
  BY <1>1, <1>2, <1>3, <1>4, <1>5

(* Threads that wait for a lock do so outside it: one has it at a time.    *)
THEOREM OneOwner == Spec => []Exclusive
<1>1. Init => Exclusive
  BY DEF Init, Exclusive, Holds, Granted
<1>2. IInv /\ Exclusive /\ [Next]_vars => Exclusive'
  BY StepExclusive DEF IInv
<1> QED
  BY Inductive, <1>1, <1>2, PTL DEF Spec

-----------------------------------------------------------------------------
(* Programs whose nesting goes down a ranking of the names, in which a     *)
(* lock that goes by several names has one rank.                           *)
Descends(rank, p) ==
    /\ rank \in [Names -> Nat]
    /\ \A n \in Nests[p] : n[1] = n[2] \/ rank[n[2].name] < rank[n[1].name]
    /\ \A a, b \in Taken[p] : a.lock = b.lock => rank[a.name] = rank[b.name]

(* What then holds of the nests and of the order. *)
Below(rank, a, b) == a = b \/ rank[b.name] < rank[a.name]

RankedNests(rank, p) ==
    \A t \in Threads :
       /\ \A i \in 1..Len(nest[t]) : nest[t][i] \in Taken[p]
       /\ \A i, j \in 1..Len(nest[t]) : i < j => Below(rank, nest[t][i], nest[t][j])

RankedOrder(rank) == \A m \in Names : \A n \in history[m] : rank[n] < rank[m]

Ranked(rank, p) == /\ program = p /\ ~reported
                   /\ RankedNests(rank, p) /\ RankedOrder(rank)

(* An order that goes down a ranking has no circle: its lowest name leads to*)
(* none of the others.                                                     *)
LEMMA RankedAcyclic ==
    ASSUME NEW rank \in [Names -> Nat], NEW h \in [Names -> SUBSET Names],
           \A m \in Names : \A n \in h[m] : rank[n] < rank[m]
    PROVE  ~Cyclic(h)
<1> SUFFICES ASSUME NEW s \in (SUBSET Names) \ {{}}, \A n \in s : h[n] \cap s # {}
             PROVE  FALSE
  BY DEF Cyclic
<1> DEFINE R == {rank[n] : n \in s}
<1>1. R # {} /\ R \in SUBSET Nat
  OBVIOUS
<1> HIDE DEF R
<1>2. PICK x \in R : \A y \in R : x <= y
  BY <1>1, Smallest
<1>3. PICK n \in s : rank[n] = x
  BY DEF R
<1>4. PICK m : m \in h[n] \cap s
  OBVIOUS
<1>5. rank[m] < x /\ rank[m] \in R /\ rank[m] \in Nat /\ x \in Nat
  BY <1>3, <1>4 DEF R
<1> QED
  BY <1>2, <1>5

(* A nesting of such a program keeps the order going down. *)
LEMMA RankedEdges ==
    ASSUME TypeOK, NEW p \in DOMAIN Nests, NEW rank, Descends(rank, p), Ranked(rank, p),
           NEW t \in Threads, NEW a \in Taken[p], Nested(t, a)
    PROVE  /\ \A m \in Names : \A n \in Edges(t, a)[m] : rank[n] < rank[m]
           /\ ~Cyclic(Edges(t, a))
           /\ nest[t] # <<>> => Below(rank, Innermost(t), a)
<1>1. a \in Acquisitions /\ rank \in [Names -> Nat]
  BY TakenAcquisitions DEF Descends
<1>2. Edges(t, a) \in [Names -> SUBSET Names]
  BY <1>1, EdgesType
<1>3. nest[t] # <<>> => Below(rank, Innermost(t), a)
  <2> SUFFICES ASSUME nest[t] # <<>> PROVE Below(rank, Innermost(t), a)
    OBVIOUS
  <2>1. <<Innermost(t), a>> \in Nests[p]
    BY DEF Nested, Ranked
  <2> QED
    BY <2>1 DEF Descends, Below
<1>4. ASSUME NEW m \in Names, NEW n \in Edges(t, a)[m] PROVE rank[n] < rank[m]
  <2>1. n \in Names
    BY <1>2
  <2>2. CASE n \in history[m]
    BY <2>2 DEF Ranked, RankedOrder
  <2>3. CASE nest[t] # <<>> /\ m = Innermost(t).name /\ n = a.name /\ m # n
    BY <1>3, <2>3 DEF Below
  <2> QED
    BY <1>1, <2>1, <2>2, <2>3, EdgesType
<1>5. ~Cyclic(Edges(t, a))
  BY <1>1, <1>2, <1>4, RankedAcyclic
<1> QED
  BY <1>3, <1>4, <1>5

(* And so does every step. *)
LEMMA StepRanked ==
    ASSUME TypeOK, NEW p \in DOMAIN Nests, NEW rank, Descends(rank, p), Ranked(rank, p),
           [Next]_vars
    PROVE  Ranked(rank, p)'
<1> USE DEF TypeOK
<1>1. ASSUME NEW t \in Threads, NEW a \in Taken[p], Lock(t, a) PROVE Ranked(rank, p)'
  <2>1. /\ nest' = [nest EXCEPT ![t] = Append(@, a)] /\ history' = Edges(t, a)
        /\ program' = program /\ reported' = reported /\ Nested(t, a)
    BY <1>1 DEF Lock
  <2>2. a \in Acquisitions
    BY TakenAcquisitions
  <2>3. RankedOrder(rank)'
    BY <2>1, RankedEdges DEF RankedOrder
  <2>4. ASSUME NEW u \in Threads
        PROVE  /\ \A i \in 1..Len(nest'[u]) : nest'[u][i] \in Taken[p]
               /\ \A i, j \in 1..Len(nest'[u]) : i < j => Below(rank, nest'[u][i], nest'[u][j])
    <3>1. CASE u # t
      <4>1. nest'[u] = nest[u]
        BY <2>1, <3>1
      <4> QED
        BY <4>1 DEF Ranked, RankedNests
    <3>2. CASE u = t
      <4> DEFINE s == nest[t]
                 n == Len(nest[t])
      <4>1. /\ nest'[u] = Append(s, a) /\ n \in Nat /\ Len(nest'[u]) = n + 1
            /\ nest'[u][n + 1] = a /\ \A i \in 1..n : nest'[u][i] = s[i]
        BY <2>1, <2>2, <3>2, NestChange
      <4>2. \A i \in 1..Len(nest'[u]) : nest'[u][i] \in Taken[p]
        BY <4>1 DEF Ranked, RankedNests
      <4>3. ASSUME NEW i \in 1..Len(nest'[u]), NEW j \in 1..Len(nest'[u]), i < j
            PROVE  Below(rank, nest'[u][i], nest'[u][j])
        <5>1. CASE j # n + 1
          <6>1. i \in 1..n /\ j \in 1..n
            BY <4>1, <4>3, <5>1
          <6> QED
            BY <4>1, <4>3, <6>1 DEF Ranked, RankedNests
        <5>2. CASE j = n + 1
          <6>1. i \in 1..n /\ n \in 1..n /\ nest[t] # <<>>
            BY <4>1, <4>3, <5>2, EmptySeq
          <6>2. Below(rank, s[n], a)
            BY <2>1, <6>1, RankedEdges DEF Innermost
          <6>3. s[i] = s[n] \/ Below(rank, s[i], s[n])
            BY <6>1, <4>1 DEF Ranked, RankedNests
          <6>4. nest'[u][i] = s[i] /\ nest'[u][j] = a
            BY <4>1, <5>2, <6>1
          <6>5. s[i] \in Acquisitions /\ s[n] \in Acquisitions
            BY <6>1, ElementOfSeq
          <6>6. s[i].name \in Names /\ s[n].name \in Names /\ a.name \in Names
            BY <2>2, <6>5 DEF Acquisitions
          <6>7. rank \in [Names -> Nat]
            BY DEF Descends
          <6>8. rank[s[i].name] \in Nat /\ rank[s[n].name] \in Nat /\ rank[a.name] \in Nat
            BY <6>6, <6>7
          <6> HIDE DEF s, n
          <6> QED
            BY <6>2, <6>3, <6>4, <6>8 DEF Below
        <5> QED
          BY <5>1, <5>2
      <4> QED
        BY <4>2, <4>3
    <3> QED
      BY <3>1, <3>2
  <2>5. RankedNests(rank, p)'
    BY <2>4 DEF RankedNests, Below
  <2> QED
    BY <2>1, <2>3, <2>5 DEF Ranked
<1>2. ASSUME NEW t \in Threads, NEW a \in Taken[p], Report(t, a) PROVE Ranked(rank, p)'
  <2>1. Cyclic(Edges(t, a)) /\ Nested(t, a)
    BY <1>2 DEF Report, Cyclic
  <2> QED
    BY <2>1, RankedEdges
<1>3. ASSUME NEW t \in Threads, Acquire(t) PROVE Ranked(rank, p)'
  BY <1>3 DEF Acquire, Ranked, RankedNests, RankedOrder, Below
<1>4. ASSUME NEW t \in Threads, Unlock(t) PROVE Ranked(rank, p)'
  <2>1. /\ nest' = [nest EXCEPT ![t] = SubSeq(@, 1, Len(@) - 1)] /\ history' = history
        /\ program' = program /\ reported' = reported /\ nest[t] # <<>>
    BY <1>4 DEF Unlock
  <2>2. ASSUME NEW u \in Threads
        PROVE  /\ Len(nest'[u]) \in Nat /\ Len(nest[u]) \in Nat /\ Len(nest'[u]) <= Len(nest[u])
               /\ \A i \in 1..Len(nest'[u]) : nest'[u][i] = nest[u][i]
    <3>1. nest[t] \in Seq(Acquisitions) /\ nest[u] \in Seq(Acquisitions) /\ Len(nest[u]) \in Nat
      BY LenProperties
    <3>2. CASE u # t
      BY <2>1, <3>1, <3>2
    <3>3. CASE u = t
      <4>1. nest[t][1] \in Acquisitions
        BY <2>1, EmptySeq, ElementOfSeq
      <4> DEFINE s == SubSeq(nest[t], 1, Len(nest[t]) - 1)
      <4>2. nest'[u] = s
        BY <2>1, <3>3
      <4>3. /\ Len(nest[t]) \in Nat /\ Len(nest[t]) >= 1 /\ Len(s) = Len(nest[t]) - 1
            /\ \A i \in 1..(Len(nest[t]) - 1) : s[i] = nest[t][i]
        BY <2>1, <4>1, NestChange
      <4> QED
        BY <3>3, <4>2, <4>3
    <3> QED
      BY <3>2, <3>3
  <2>3. RankedNests(rank, p)'
    <3> SUFFICES ASSUME NEW u \in Threads
        PROVE  /\ \A i \in 1..Len(nest'[u]) : nest'[u][i] \in Taken[p]
               /\ \A i, j \in 1..Len(nest'[u]) : i < j => Below(rank, nest'[u][i], nest'[u][j])
      BY DEF RankedNests, Below
    <3> QED
      BY <2>2 DEF Ranked, RankedNests
  <2> QED
    BY <2>1, <2>3 DEF Ranked, RankedOrder
<1>5. CASE UNCHANGED vars
  BY <1>5 DEF vars, Ranked, RankedNests, RankedOrder, Below
<1>6. program = p
  BY DEF Ranked
<1> QED
  BY <1>1, <1>2, <1>3, <1>4, <1>5, <1>6 DEF Next

(* The thread whose lock has the least rank waits for one that waits for   *)
(* the same lock, which it therefore has.                                  *)
LEMMA RankedFree ==
    ASSUME TypeOK, WaitsForOne, Exclusive,
           NEW p \in DOMAIN Nests, NEW rank, Descends(rank, p), Ranked(rank, p),
           NEW T \in SUBSET Threads
    PROVE  ~Deadlock(T)
<1> USE DEF TypeOK
<1> SUFFICES ASSUME T # {}, Stuck(T) PROVE FALSE
  BY DEF Deadlock
<1>1. rank \in [Names -> Nat] /\ program = p
  BY DEF Descends, Ranked
<1>2. \A t \in T : /\ waiting[t] /\ Len(nest[t]) \in Nat /\ Len(nest[t]) >= 1
                   /\ Innermost(t) \in Taken[p] /\ rank[Innermost(t).name] \in Nat
  <2> SUFFICES ASSUME NEW t \in T
               PROVE  /\ waiting[t] /\ Len(nest[t]) \in Nat /\ Len(nest[t]) >= 1
                      /\ Innermost(t) \in Taken[p] /\ rank[Innermost(t).name] \in Nat
    OBVIOUS
  <2>1. waiting[t] /\ nest[t] # <<>> /\ nest[t] \in Seq(Acquisitions)
    BY DEF Stuck, WaitsForOne
  <2>2. Len(nest[t]) \in Nat /\ Len(nest[t]) >= 1
    BY <2>1, EmptySeq
  <2>3. Innermost(t) \in Taken[p]
    BY <2>2 DEF Innermost, Ranked, RankedNests
  <2>4. Innermost(t).name \in Names
    BY <2>3, TakenAcquisitions DEF Acquisitions
  <2> QED
    BY <1>1, <2>1, <2>2, <2>3, <2>4
<1> DEFINE R == {rank[Innermost(t).name] : t \in T}
<1>3. R # {} /\ R \in SUBSET Nat
  BY <1>2
<1> HIDE DEF R
<1>4. PICK x \in R : \A y \in R : x <= y
  BY <1>3, Smallest
<1>5. PICK t \in T : rank[Innermost(t).name] = x
  BY DEF R
<1>6. PICK u \in T \ {t} : Holds(u, Innermost(t).lock)
  BY DEF Stuck
<1>7. PICK i \in Granted(u) : nest[u][i].lock = Innermost(t).lock
  BY <1>6 DEF Holds
<1>8. i \in 1..(Len(nest[u]) - 1) /\ i \in 1..Len(nest[u]) /\ Len(nest[u]) \in Nat
  BY <1>2, <1>7 DEF Granted
<1>9. nest[u][i] \in Taken[p] /\ Below(rank, nest[u][i], Innermost(u))
  BY <1>8 DEF Ranked, RankedNests, Innermost
<1>10. rank[nest[u][i].name] = x
  BY <1>2, <1>5, <1>7, <1>9 DEF Descends
<1>11. x <= rank[Innermost(u).name] /\ x \in Nat
  BY <1>3, <1>4 DEF R
<1>12. nest[u][i] = Innermost(u)
  BY <1>2, <1>9, <1>10, <1>11 DEF Below
<1>13. PICK v \in T \ {u} : Holds(v, Innermost(u).lock)
  BY DEF Stuck
<1>14. Holds(u, Innermost(u).lock)
  BY <1>7, <1>12 DEF Holds
<1> QED
  BY <1>13, <1>14 DEF Exclusive

FollowsRank(rank, p) == program = p => Ranked(rank, p)

(* The three facts that proofs about such a program need. *)
LEMMA RankInductive ==
    ASSUME NEW p \in DOMAIN Nests, NEW rank, Descends(rank, p)
    PROVE  /\ Init => FollowsRank(rank, p)
           /\ TypeOK /\ FollowsRank(rank, p) /\ [Next]_vars => FollowsRank(rank, p)'
           /\ TypeOK /\ WaitsForOne /\ Exclusive /\ FollowsRank(rank, p)
              => (program = p => ~reported /\ \A T \in SUBSET Threads : ~Deadlock(T))
<1>1. Init => FollowsRank(rank, p)
  <2> SUFFICES ASSUME Init, program = p PROVE Ranked(rank, p)
    BY DEF FollowsRank
  <2> QED
    BY EmptySeq DEF Init, Ranked, RankedNests, RankedOrder
<1>2. TypeOK /\ FollowsRank(rank, p) /\ [Next]_vars => FollowsRank(rank, p)'
  <2>1. [Next]_vars => program' = program
    BY DEF Next, vars, Lock, Report, Acquire, Unlock
  <2> QED
    BY <2>1, StepRanked DEF FollowsRank
<1>3. /\ TypeOK /\ WaitsForOne /\ Exclusive /\ FollowsRank(rank, p)
      => (program = p => ~reported /\ \A T \in SUBSET Threads : ~Deadlock(T))
  BY RankedFree DEF Ranked, FollowsRank
<1> QED
  BY <1>1, <1>2, <1>3

(* A program whose nesting goes down a ranking is never stopped by the     *)
(* profiler, and its threads never wait for each other: not even in a      *)
(* circle between locks of one name, which the profiler does not see.      *)
THEOREM GetsOn ==
    ASSUME NEW p \in DOMAIN Nests, NEW rank, Descends(rank, p)
    PROVE  Spec => [](program = p => ~reported /\ \A T \in SUBSET Threads : ~Deadlock(T))
<1>1. IInv => TypeOK /\ WaitsForOne
  BY DEF IInv
<1> QED
  BY Inductive, OneOwner, RankInductive, <1>1, PTL DEF Spec

(* The ranks of the server's names: the table of sessions at the top, then *)
(* the rooms, a session, and the chunks of send buffers at the bottom.     *)
ServerRank == [n \in ServerLockNames |->
                  CASE n = GameSessionManager -> 3
                    [] n \in {Handler, Room, RoomManager} -> 2
                    [] n = Session -> 1
                    [] n = SendBufferManager -> 0]

RankOfLock(l) == IF l \in Rooms \cup {"rooms"} THEN 2
                 ELSE IF l \in Sessions THEN 1
                 ELSE IF l = "chunks" THEN 0 ELSE 3

(* The server's nesting goes down that ranking. *)
LEMMA ServerDescends ==
    ASSUME Names = ServerLockNames, Nests = NestsOf
    PROVE  "server" \in DOMAIN Nests /\ Descends(ServerRank, "server")
<1>1. "server" \in DOMAIN Nests /\ Nests["server"] = ServerNests
  BY DEF NestsOf
<1>2. ServerRank \in [Names -> Nat]
  BY DEF ServerRank, ServerLockNames, Handler, Room, Session, SendBufferManager,
         GameSessionManager, RoomManager
<1>3. ASSUME NEW a \in Of(Names) PROVE a.name \in Names /\ a.lock \in LocksNamed(a.name)
  BY <1>3 DEF Of
<1>4. ASSUME NEW a \in Of(Names) PROVE ServerRank[a.name] = RankOfLock(a.lock)
  <2>1. a.name \in ServerLockNames /\ a.lock \in LocksNamed(a.name)
    BY <1>3
  <2>2. a.name \in {0, 1, 2, 3, 4, 5}
    BY <2>1 DEF ServerLockNames
  <2> QED
    BY <2>1, <2>2, LocksAssumption DEF ServerRank, RankOfLock, LocksNamed, ServerLockNames, Handler, Room,
         Session, SendBufferManager, GameSessionManager, RoomManager
<1>5. ASSUME NEW n \in Nests["server"]
      PROVE  /\ n[1] \in Of(Names) /\ n[2] \in Of(Names)
             /\ n[1] = n[2] \/ ServerRank[n[2].name] < ServerRank[n[1].name]
  <2>1. /\ n[1] \in Of(Names) /\ n[2] \in Of(Names)
        /\ n[1] = n[2] \/ <<n[1].name, n[2].name>> \in Inside
    BY <1>1, <1>5 DEF ServerNests
  <2>2. ASSUME <<n[1].name, n[2].name>> \in Inside
        PROVE  ServerRank[n[2].name] < ServerRank[n[1].name]
    BY <2>2 DEF Inside, ServerRank, ServerLockNames, Handler, Room, Session,
         SendBufferManager, GameSessionManager, RoomManager
  <2> QED
    BY <2>1, <2>2
<1>6. \A a \in Taken["server"] : a \in Of(Names)
  BY <1>1, <1>5 DEF Taken
<1> QED
  BY <1>1, <1>2, <1>4, <1>5, <1>6 DEF Descends

-----------------------------------------------------------------------------
(* The search of the profiler.  At any of its steps the calls of Dfs are a *)
(* path of names in the order of their discovery; what is finished leads   *)
(* only to what is finished, and has no circle in it; and all else that    *)
(* has been discovered is on the path.                                     *)
SearchTyped ==
    /\ pushing \in {<<>>} \cup (Threads \X Acquisitions)
    /\ calls \in Seq(Call)
    /\ discoveredOrder \in [Names -> Int] /\ discoveredCount \in Nat
    /\ finished \in SUBSET Names

(* A thread that searches has recorded its nesting, and does nothing else. *)
Recording ==
    pushing # <<>> =>
        LET t == pushing[1]
            a == pushing[2]
        IN  /\ ~reported /\ ~waiting[t] /\ Nested(t, a) /\ a \in Taken[program]
            /\ nest[t] # <<>> /\ Top(t) # a.name /\ a.name \in history[Top(t)]

(* Between two searches nothing has been found. *)
Blank == calls = <<>> /\ finished = {} /\ discoveredCount = 0 /\ \A n \in Names : ~Discovered(n)

Idle == pushing = <<>> /\ ~reported => Blank

Numbered == \A n \in Names : -1 <= discoveredOrder[n] /\ discoveredOrder[n] < discoveredCount

(* The calls are a path in the history, in the order of discovery, and of  *)
(* what a call has followed all is finished but the next call.             *)
Nesting ==
    \A i \in 1..Len(calls) :
        LET c == calls[i]
        IN  /\ Discovered(c.here) /\ c.here \notin finished
            /\ c.nextSet \subseteq history[c.here]
            /\ \A n \in history[c.here] \ c.nextSet :
                  n \in finished \/ (i < Len(calls) /\ n = calls[i + 1].here)
            /\ i < Len(calls) => calls[i + 1].here \in history[c.here]

Rising == \A i, j \in 1..Len(calls) :
             i < j => discoveredOrder[calls[i].here] < discoveredOrder[calls[j].here]

(* What has been discovered is finished, or being searched. *)
Open == \A n \in Names : Discovered(n) =>
           n \in finished \/ \E i \in 1..Len(calls) : calls[i].here = n

(* No way leads out of what is finished, and no circle is in it. *)
Closed == \A n \in finished : Discovered(n) /\ history[n] \subseteq finished
NoCircle == \A s \in SUBSET finished : s # {} => \E n \in s : history[n] \cap s = {}

Found == Numbered /\ Nesting /\ Rising /\ Open /\ Closed /\ NoCircle

SearchInv == SearchTyped /\ Recording /\ Idle /\ (~reported => Found)

(* Until the process is stopped, the order without the nesting that is     *)
(* searched for is acyclic; and it has all that is nested.                 *)
AcyclicSoFar == ~reported => ~Cyclic(Recorded)
KnownSoFar == Known(Recorded)

ProfilerInv == TypeOK /\ WaitsForOne /\ SearchInv /\ AcyclicSoFar /\ KnownSoFar /\ NoSilentDeadlock


-----------------------------------------------------------------------------
(* What is finished stays free of circles when n, from which all ways lead *)
(* to finished names, is finished as well.                                 *)
LEMMA Finishing ==
    ASSUME TypeOK, finished \in SUBSET Names, Closed, NoCircle, NEW n \in Names, n \notin finished,
           history[n] \subseteq finished
    PROVE  \A s \in SUBSET (finished \cup {n}) : s # {} => \E m \in s : history[m] \cap s = {}
<1> SUFFICES ASSUME NEW s \in SUBSET (finished \cup {n}), s # {}
             PROVE  \E m \in s : history[m] \cap s = {}
  OBVIOUS
<1> DEFINE r == s \ {n}
<1>1. r \in SUBSET finished
  OBVIOUS
<1>2. CASE r # {}
  <2>1. PICK m \in r : history[m] \cap r = {}
    BY <1>1, <1>2 DEF NoCircle
  <2>2. m \in s /\ history[m] \subseteq finished
    BY <1>1 DEF Closed
  <2> QED
    BY <2>1, <2>2
<1>3. CASE r = {}
  <2>1. s = {n}
    BY <1>3
  <2> QED
    BY <2>1
<1> QED
  BY <1>2, <1>3

(* What Follow looks at. *)
LEMMA ThereIs ==
    ASSUME SearchTyped, calls # <<>>
    PROVE  /\ Len(calls) \in Nat /\ Len(calls) \in 1..Len(calls)
           /\ \A i \in 1..Len(calls) : /\ calls[i].here \in Names
                                       /\ calls[i].nextSet \in SUBSET Names
                                       /\ calls[i] \in Call
           /\ This.here \in Names /\ This.nextSet \in SUBSET Names
           /\ This.nextSet # {} => There \in This.nextSet
<1>1. calls \in Seq(Call)
  BY DEF SearchTyped
<1>2. Len(calls) \in Nat /\ Len(calls) \in 1..Len(calls)
  BY <1>1, EmptySeq
<1>3. \A i \in 1..Len(calls) : calls[i] \in Call
  BY <1>1
<1>4. \A c \in Call : c.here \in Names /\ c.nextSet \in SUBSET Names
  BY DEF Call
<1>5. This \in Call
  BY <1>2, <1>3 DEF This
<1>6. ASSUME This.nextSet # {} PROVE There \in This.nextSet
  <2>1. This.nextSet \in SUBSET Nat
    BY <1>4, <1>5, NamesAssumption
  <2> DEFINE S == This.nextSet
  <2>2. \E x \in S : \A y \in S : x <= y
    BY <1>6, <2>1, Smallest
  <2> QED
    BY <2>2 DEF There, Min
<1> QED
  BY <1>2, <1>3, <1>4, <1>5, <1>6

(* One name less to follow. *)
LEMMA FollowedIs ==
    ASSUME SearchTyped, calls # <<>>
    PROVE  /\ Followed \in Seq(Call) /\ Len(Followed) = Len(calls)
           /\ \A i \in 1..Len(calls) :
                 /\ Followed[i].here = calls[i].here
                 /\ Followed[i].nextSet = IF i = Len(calls) THEN This.nextSet \ {There}
                                                            ELSE calls[i].nextSet
<1> DEFINE n == Len(calls)
           c == [calls[n] EXCEPT !.nextSet = @ \ {There}]
<1>1. /\ n \in Nat /\ n \in 1..n /\ calls \in Seq(Call)
      /\ \A i \in 1..n : calls[i] \in Call
  BY ThereIs DEF SearchTyped
<1>2. calls[n] \in Call
  BY <1>1
<1>3. c \in Call /\ c.here = calls[n].here /\ c.nextSet = This.nextSet \ {There}
  BY <1>2 DEF Call, This
<1>4. Followed = [calls EXCEPT ![n] = c]
  BY DEF Followed
<1> DEFINE S == Call
<1> HIDE DEF c, n
<1>5. /\ [calls EXCEPT ![n] = c] \in Seq(Call) /\ Len([calls EXCEPT ![n] = c]) = Len(calls)
      /\ \A i \in 1..Len(calls) : [calls EXCEPT ![n] = c][i] = IF i = n THEN c ELSE calls[i]
  <2>1. calls \in Seq(S) /\ n \in 1..Len(calls) /\ c \in S
    BY <1>1, <1>3 DEF n
  <2> HIDE DEF S
  <2>2. /\ [calls EXCEPT ![n] = c] \in Seq(S) /\ Len([calls EXCEPT ![n] = c]) = Len(calls)
        /\ \A i \in 1..Len(calls) : [calls EXCEPT ![n] = c][i] = IF i = n THEN c ELSE calls[i]
    BY ONLY <2>1, ExceptSeq
  <2> QED
    BY <2>2 DEF S
<1>6. ASSUME NEW i \in 1..Len(calls)
      PROVE  /\ Followed[i].here = calls[i].here
             /\ Followed[i].nextSet = IF i = Len(calls) THEN This.nextSet \ {There}
                                                        ELSE calls[i].nextSet
  <2>1. Followed[i] = IF i = n THEN c ELSE calls[i]
    BY <1>4, <1>5
  <2>2. CASE i = n
    BY <1>3, <2>1, <2>2 DEF n
  <2>3. CASE i # n
    BY <2>1, <2>3 DEF n
  <2> QED
    BY <2>2, <2>3
<1> QED
  BY <1>4, <1>5, <1>6

(* The search as it stands when n is about to be searched: what the calls  *)
(* have followed is finished, or searched by the next call, or n.          *)
NestingBut(outer, n) ==
    /\ outer \in Seq(Call) /\ Len(outer) = Len(calls)
    /\ \A i \in 1..Len(calls) :
          /\ outer[i].here = calls[i].here
          /\ Discovered(calls[i].here) /\ calls[i].here \notin finished
          /\ outer[i].nextSet \subseteq history[calls[i].here]
          /\ \A m \in history[calls[i].here] \ outer[i].nextSet :
                \/ m \in finished
                \/ i < Len(calls) /\ m = calls[i + 1].here
                \/ i = Len(calls) /\ m = n
          /\ i < Len(calls) => calls[i + 1].here \in history[calls[i].here]
          /\ i = Len(calls) => n \in history[calls[i].here]

(* A call of Dfs, from wherever. *)
LEMMA DfsKeeps ==
    ASSUME TypeOK, SearchTyped, Numbered, Rising, Open, Closed, NoCircle,
           NEW n \in Names, ~Discovered(n), NEW outer, NestingBut(outer, n),
           Dfs(n, outer), history' = history
    PROVE  /\ calls' \in Seq(Call) /\ discoveredOrder' \in [Names -> Int]
           /\ discoveredCount' \in Nat /\ finished' \in SUBSET Names
           /\ Found'
<1>1. /\ history \in [Names -> SUBSET Names] /\ history[n] \in SUBSET Names
      /\ calls \in Seq(Call) /\ Len(calls) \in Nat
      /\ outer \in Seq(Call) /\ Len(outer) = Len(calls)
      /\ discoveredOrder \in [Names -> Int] /\ discoveredCount \in Nat /\ finished \in SUBSET Names
  BY DEF TypeOK, SearchTyped, NestingBut
<1>2. /\ discoveredOrder' = [discoveredOrder EXCEPT ![n] = discoveredCount]
      /\ discoveredCount' = discoveredCount + 1
  BY DEF Dfs
<1>3. /\ discoveredOrder' \in [Names -> Int] /\ discoveredCount' \in Nat
      /\ discoveredOrder'[n] = discoveredCount
      /\ \A m \in Names : m # n => discoveredOrder'[m] = discoveredOrder[m]
  BY <1>1, <1>2
<1>4. Numbered'
  BY <1>1, <1>2, <1>3 DEF Numbered
<1>5. \A m \in Names : Discovered(m)' <=> Discovered(m) \/ m = n
  BY <1>1, <1>3 DEF Discovered
<1>6. \A i \in 1..Len(calls) :
         /\ calls[i].here \in Names /\ calls[i].here # n /\ outer[i].here = calls[i].here
         /\ Discovered(calls[i].here) /\ calls[i].here \notin finished
  <2>1. \A i \in 1..Len(calls) : calls[i] \in Call
    BY <1>1
  <2>2. \A i \in 1..Len(calls) : calls[i].here \in Names
    BY <2>1 DEF Call
  <2> QED
    BY <2>2 DEF NestingBut
<1>7. n \notin finished
  BY DEF Closed
<1>8. \A i, j \in 1..Len(calls) :
         i < j => discoveredOrder'[outer[i].here] < discoveredOrder'[outer[j].here]
  BY <1>3, <1>6 DEF Rising
<1>9. \A i \in 1..Len(calls) : discoveredOrder'[outer[i].here] < discoveredCount
  BY <1>3, <1>6 DEF Numbered
<1>10. CASE history[n] = {}
  <2>1. calls' = outer /\ finished' = finished \cup {n}
    BY <1>10 DEF Dfs
  <2>2. Nesting'
    <3> SUFFICES ASSUME NEW i \in 1..Len(calls)
                 PROVE  /\ Discovered(outer[i].here)' /\ outer[i].here \notin finished \cup {n}
                        /\ outer[i].nextSet \subseteq history[outer[i].here]
                        /\ \A m \in history[outer[i].here] \ outer[i].nextSet :
                              m \in finished \cup {n} \/ (i < Len(calls) /\ m = outer[i + 1].here)
                        /\ i < Len(calls) => outer[i + 1].here \in history[outer[i].here]
      BY <1>1, <2>1 DEF Nesting
    <3>1. i < Len(calls) => i + 1 \in 1..Len(calls)
      BY <1>1
    <3>2. i < Len(calls) => outer[i + 1].here = calls[i + 1].here
      BY <1>6, <3>1
    <3> QED
      BY <1>5, <1>6, <3>2 DEF NestingBut
  <2>3. Rising'
    BY <1>1, <1>8, <2>1 DEF Rising
  <2>4. Open'
    <3> SUFFICES ASSUME NEW m \in Names, Discovered(m)'
                 PROVE  m \in finished \cup {n} \/ \E i \in 1..Len(calls) : outer[i].here = m
      BY <1>1, <2>1 DEF Open
    <3> QED
      BY <1>5, <1>6 DEF Open
  <2>5. Closed'
    BY <1>1, <1>5, <1>10, <2>1 DEF Closed
  <2>6. NoCircle'
    <3>1. \A s \in SUBSET (finished \cup {n}) : s # {} => \E m \in s : history[m] \cap s = {}
      BY <1>1, <1>7, <1>10, Finishing
    <3> QED
      BY <2>1, <3>1 DEF NoCircle
  <2> QED
    BY <1>1, <1>3, <1>4, <2>1, <2>2, <2>3, <2>4, <2>5, <2>6 DEF Found
<1>11. CASE history[n] # {}
  <2> DEFINE c == [here |-> n, nextSet |-> history[n]]
             k == Len(calls)
  <2>1. calls' = Append(outer, c) /\ finished' = finished
    BY <1>11 DEF Dfs
  <2>2. c \in Call /\ c.here = n /\ c.nextSet = history[n]
    BY <1>1 DEF Call
  <2> HIDE DEF c
  <2>3. /\ calls' \in Seq(Call) /\ Len(calls') = k + 1
        /\ \A i \in 1..k : calls'[i] = outer[i]
        /\ calls'[k + 1] = c
    BY <1>1, <2>1, <2>2, AppendProperties
  <2>4. \A i \in 1..(k + 1) : i \in 1..k \/ i = k + 1
    BY <1>1
  <2>5. \A i \in 1..k : calls'[i].here = calls[i].here /\ discoveredOrder'[calls'[i].here] # -1
    BY <1>5, <1>6, <2>3 DEF Discovered
  <2>6. ASSUME NEW i \in 1..(k + 1)
        PROVE  /\ discoveredOrder'[calls'[i].here] # -1 /\ calls'[i].here \notin finished
               /\ calls'[i].nextSet \subseteq history[calls'[i].here]
               /\ \A m \in history[calls'[i].here] \ calls'[i].nextSet :
                     m \in finished \/ (i < k + 1 /\ m = calls'[i + 1].here)
               /\ i < k + 1 => calls'[i + 1].here \in history[calls'[i].here]
    <3>1. CASE i = k + 1
      <4>1. /\ calls'[i].here = n /\ calls'[i].nextSet = history[n] /\ ~(i < k + 1)
        BY <1>1, <2>2, <2>3, <3>1
      <4>2. discoveredOrder'[n] # -1
        BY <1>1, <1>3
      <4> QED
        BY <1>7, <4>1, <4>2
    <3>2. CASE i \in 1..k /\ i < k
      <4>1. i + 1 \in 1..k /\ i < k + 1 /\ i # k
        BY <1>1, <3>2
      <4>2. calls'[i].here = calls[i].here /\ calls'[i + 1].here = calls[i + 1].here
        BY <2>5, <3>2, <4>1
      <4>3. calls'[i].nextSet = outer[i].nextSet
        BY <2>3, <3>2
      <4> QED
        BY <1>6, <2>5, <3>2, <4>1, <4>2, <4>3 DEF NestingBut
    <3>3. CASE i \in 1..k /\ i = k
      <4>1. i < k + 1 /\ calls'[i + 1].here = n /\ ~(i < k)
        BY <1>1, <2>2, <2>3, <3>3
      <4>2. calls'[i].here = calls[i].here
        BY <2>5, <3>3
      <4>3. calls'[i].nextSet = outer[i].nextSet
        BY <2>3, <3>3
      <4> QED
        BY <1>6, <2>5, <3>3, <4>1, <4>2, <4>3 DEF NestingBut
    <3> QED
      BY <1>1, <2>4, <3>1, <3>2, <3>3
  <2>7. Nesting'
    <3>1. Len(calls') = k + 1 /\ history' = history /\ finished' = finished
      BY <2>1, <2>3
    <3> QED
      BY <2>6, <3>1 DEF Nesting, Discovered
  <2>8. Rising'
    <3> SUFFICES ASSUME NEW i \in 1..(k + 1), NEW j \in 1..(k + 1), i < j
                 PROVE  discoveredOrder'[calls'[i].here] < discoveredOrder'[calls'[j].here]
      BY <2>3 DEF Rising
    <3>1. i \in 1..k
      BY <1>1
    <3>2. CASE j \in 1..k
      BY <1>8, <2>3, <3>1, <3>2
    <3>3. CASE j = k + 1
      BY <1>3, <1>9, <2>2, <2>3, <3>1, <3>3
    <3> QED
      BY <2>4, <3>2, <3>3
  <2>9. Open'
    <3> SUFFICES ASSUME NEW m \in Names, Discovered(m)', m \notin finished
                 PROVE  \E i \in 1..(k + 1) : calls'[i].here = m
      BY <2>1, <2>3 DEF Open
    <3>1. CASE m = n
      <4>1. k + 1 \in 1..(k + 1) /\ calls'[k + 1].here = m
        BY <1>1, <2>2, <2>3, <3>1
      <4> QED
        BY <4>1
    <3>2. CASE m # n
      <4>1. PICK i \in 1..k : calls[i].here = m
        BY <1>5, <3>2 DEF Open
      <4>2. i \in 1..(k + 1) /\ calls'[i].here = m
        BY <1>1, <2>5, <4>1
      <4> QED
        BY <4>2
    <3> QED
      BY <3>1, <3>2
  <2>10. Closed' /\ NoCircle'
    BY <1>1, <1>5, <2>1 DEF Closed, NoCircle
  <2> QED
    BY <1>1, <1>3, <1>4, <2>1, <2>3, <2>7, <2>8, <2>9, <2>10 DEF Found
<1> QED
  BY <1>10, <1>11

(* What no step of the search changes. *)
Standing == /\ UNCHANGED <<program, nest, waiting, history, reported, pushing>>

(* The loop of CheckCycle goes on to a name that has not been found. *)
LEMMA CheckCycleKeeps ==
    ASSUME TypeOK, SearchTyped, ~reported, Found, CheckCycle
    PROVE  SearchTyped' /\ Found' /\ Standing
<1> DEFINE S == {n \in Names : ~Discovered(n)}
           n == Min(S)
<1>1. n \in S
  <2>1. S \in SUBSET Nat /\ S # {}
    BY NamesAssumption DEF CheckCycle
  <2>2. \E x \in S : \A y \in S : x <= y
    BY <2>1, Smallest
  <2> HIDE DEF S
  <2> QED
    BY <2>2 DEF Min
<1>2. n \in Names /\ ~Discovered(n)
  BY <1>1
<1>3. Dfs(n, calls) /\ calls = <<>> /\ Standing
  BY DEF CheckCycle, Standing, vars
<1> HIDE DEF n
<1>4. NestingBut(calls, n)
  BY <1>3 DEF NestingBut, SearchTyped
<1>5. history' = history /\ pushing' = pushing
  BY <1>3 DEF Standing
<1> QED
  BY <1>2, <1>3, <1>4, <1>5, DfsKeeps DEF Found, SearchTyped

(* What the calls have followed, and There, which is not followed yet. *)
LEMMA FollowedBut ==
    ASSUME TypeOK, SearchTyped, Found, calls # <<>>, This.nextSet # {}
    PROVE  NestingBut(Followed, There)
<1>1. /\ Len(calls) \in Nat /\ Len(calls) \in 1..Len(calls) /\ There \in This.nextSet
      /\ Followed \in Seq(Call) /\ Len(Followed) = Len(calls)
      /\ \A i \in 1..Len(calls) :
            /\ Followed[i].here = calls[i].here
            /\ Followed[i].nextSet = IF i = Len(calls) THEN This.nextSet \ {There}
                                                       ELSE calls[i].nextSet
  BY ThereIs, FollowedIs
<1>2. ASSUME NEW i \in 1..Len(calls)
      PROVE  /\ Followed[i].here = calls[i].here
             /\ Discovered(calls[i].here) /\ calls[i].here \notin finished
             /\ Followed[i].nextSet \subseteq history[calls[i].here]
             /\ \A m \in history[calls[i].here] \ Followed[i].nextSet :
                   \/ m \in finished
                   \/ i < Len(calls) /\ m = calls[i + 1].here
                   \/ i = Len(calls) /\ m = There
             /\ i < Len(calls) => calls[i + 1].here \in history[calls[i].here]
             /\ i = Len(calls) => There \in history[calls[i].here]
  <2>1. /\ Discovered(calls[i].here) /\ calls[i].here \notin finished
        /\ calls[i].nextSet \subseteq history[calls[i].here]
        /\ \A m \in history[calls[i].here] \ calls[i].nextSet :
              m \in finished \/ (i < Len(calls) /\ m = calls[i + 1].here)
        /\ i < Len(calls) => calls[i + 1].here \in history[calls[i].here]
    BY DEF Found, Nesting
  <2>2. CASE i = Len(calls)
    <3>1. /\ Followed[i].nextSet = calls[i].nextSet \ {There} /\ There \in calls[i].nextSet
          /\ ~(i < Len(calls))
      BY <1>1, <2>2 DEF This
    <3> QED
      BY <1>1, <2>1, <2>2, <3>1
  <2>3. CASE i # Len(calls)
    <3>1. Followed[i].nextSet = calls[i].nextSet
      BY <1>1, <2>3
    <3> QED
      BY <1>1, <2>1, <2>3, <3>1
  <2> QED
    BY <2>2, <2>3
<1> QED
  BY <1>1, <1>2 DEF NestingBut

(* An edge that is not one back leads to a new name, or to a finished one. *)
LEMMA FollowKeeps ==
    ASSUME TypeOK, SearchTyped, ~reported, Found, Follow
    PROVE  SearchTyped' /\ Found' /\ Standing
<1>1. /\ calls # <<>> /\ This.nextSet # {} /\ Standing
      /\ \/ ~Discovered(There) /\ Dfs(There, Followed)
         \/ /\ Discovered(There) /\ ~EdgeBack(This.here, There)
            /\ calls' = Followed
            /\ UNCHANGED <<discoveredOrder, discoveredCount, finished>>
  BY DEF Follow, Standing, vars
<1>2. /\ Len(calls) \in Nat /\ Len(calls) \in 1..Len(calls)
      /\ There \in This.nextSet /\ This.nextSet \in SUBSET Names /\ There \in Names
      /\ This.here \in Names
  BY <1>1, ThereIs
<1>3. NestingBut(Followed, There)
  BY <1>1, FollowedBut
<1>4. history' = history /\ pushing' = pushing
  BY <1>1 DEF Standing
<1>5. CASE ~Discovered(There) /\ Dfs(There, Followed)
  <2> DEFINE n == There
             outer == Followed
  <2>1. n \in Names /\ ~Discovered(n) /\ NestingBut(outer, n) /\ Dfs(n, outer)
    BY <1>2, <1>3, <1>5
  <2> HIDE DEF n, outer
  <2> QED
    BY <1>1, <1>4, <2>1, DfsKeeps DEF Found, SearchTyped
<1>6. CASE /\ Discovered(There) /\ ~EdgeBack(This.here, There) /\ calls' = Followed
           /\ UNCHANGED <<discoveredOrder, discoveredCount, finished>>
  <2>1. There \in finished
    <3> SUFFICES ASSUME There \notin finished PROVE FALSE
      OBVIOUS
    <3>1. PICK j \in 1..Len(calls) : calls[j].here = There
      BY <1>2, <1>6 DEF Found, Open
    <3>2. discoveredOrder[This.here] < discoveredOrder[There]
      <4>1. discoveredOrder[This.here] \in Int /\ discoveredOrder[There] \in Int
        BY <1>2 DEF SearchTyped
      <4> QED
        BY <1>6, <4>1 DEF EdgeBack
    <3>3. j = Len(calls) \/ j < Len(calls)
      BY <1>2
    <3>4. discoveredOrder[There] \in Int /\ discoveredOrder[This.here] \in Int
      BY <1>2 DEF SearchTyped
    <3>5. discoveredOrder[There] <= discoveredOrder[This.here]
      BY <1>2, <3>1, <3>3, <3>4 DEF Found, Rising, This
    <3> QED
      BY <3>2, <3>4, <3>5
  <2>2. /\ calls' \in Seq(Call) /\ Len(calls') = Len(calls)
        /\ \A i \in 1..Len(calls) : calls'[i].here = calls[i].here
    BY <1>6, <1>3 DEF NestingBut
  <2>3. SearchTyped'
    BY <1>4, <1>6, <2>2 DEF SearchTyped
  <2>4. Nesting'
    <3> SUFFICES ASSUME NEW i \in 1..Len(calls)
                 PROVE  /\ Discovered(calls'[i].here) /\ calls'[i].here \notin finished
                        /\ calls'[i].nextSet \subseteq history[calls'[i].here]
                        /\ \A m \in history[calls'[i].here] \ calls'[i].nextSet :
                              m \in finished \/ (i < Len(calls) /\ m = calls'[i + 1].here)
                        /\ i < Len(calls) => calls'[i + 1].here \in history[calls'[i].here]
      BY <1>4, <1>6, <2>2 DEF Nesting, Discovered
    <3>1. i < Len(calls) => calls'[i + 1].here = calls[i + 1].here
      BY <1>2, <2>2
    <3> QED
      BY <1>3, <1>6, <2>1, <2>2, <3>1 DEF NestingBut
  <2>5. Rising'
    BY <1>6, <2>2 DEF Found, Rising
  <2>6. Open'
    BY <1>6, <2>2 DEF Found, Open, Discovered
  <2>7. Numbered' /\ Closed' /\ NoCircle'
    BY <1>4, <1>6 DEF Found, Numbered, Closed, NoCircle, Discovered
  <2> QED
    BY <1>1, <2>3, <2>4, <2>5, <2>6, <2>7 DEF Found
<1> QED
  BY <1>1, <1>5, <1>6

(* Dfs returns: all that follows its name is finished, and now the name is. *)
LEMMA ReturnKeeps ==
    ASSUME TypeOK, SearchTyped, ~reported, Found, Return
    PROVE  SearchTyped' /\ Found' /\ Standing
<1> DEFINE k == Len(calls)
           n == This.here
<1>1. /\ calls # <<>> /\ This.nextSet = {} /\ Standing
      /\ finished' = finished \cup {n} /\ calls' = SubSeq(calls, 1, k - 1)
      /\ UNCHANGED <<pushing, history, discoveredOrder, discoveredCount>>
  BY DEF Return, Standing, vars
<1>2. /\ k \in Nat /\ k \in 1..k /\ n \in Names /\ n = calls[k].here
      /\ \A i \in 1..k : calls[i].here \in Names /\ calls[i] \in Call
  BY <1>1, ThereIs DEF This
<1>3. calls' \in Seq(Call) /\ Len(calls') = k - 1 /\ \A i \in 1..(k - 1) : calls'[i] = calls[i]
  <2>1. \A i \in 1..(k - 1) : i \in 1..k
    BY <1>2
  <2> DEFINE m == k - 1
             S == Call
  <2>2. m \in Nat /\ calls \in Seq(S) /\ \A i \in 1..m : calls[i] \in S
    BY <1>2, <2>1 DEF SearchTyped
  <2> HIDE DEF m, S
  <2>3. /\ SubSeq(calls, 1, m) \in Seq(S)
        /\ Len(SubSeq(calls, 1, m)) = IF 1 <= m THEN m - 1 + 1 ELSE 0
        /\ \A i \in 1..(m - 1 + 1) : SubSeq(calls, 1, m)[i] = calls[1 + i - 1]
    BY <2>2, SubSeqProperties
  <2>4. /\ Len(SubSeq(calls, 1, m)) = m
        /\ \A i \in 1..m : SubSeq(calls, 1, m)[i] = calls[i]
    BY <2>2, <2>3
  <2> QED
    BY <1>1, <2>3, <2>4 DEF m, S
<1> HIDE DEF k
<1>4. n \notin finished /\ Discovered(n) /\ history[n] \subseteq finished
  <2>1. ~(k < k)
    BY <1>2
  <2> QED
    BY <1>1, <1>2, <2>1 DEF Found, Nesting, This, k
<1>5. ASSUME NEW i \in 1..(k - 1) PROVE calls[i].here # n /\ i \in 1..k /\ i < k
  <2>1. i \in 1..k /\ i < k
    BY <1>2
  <2>2. discoveredOrder[calls[i].here] < discoveredOrder[n]
    BY <1>2, <2>1 DEF Found, Rising, k
  <2>3. discoveredOrder[n] \in Int
    BY <1>2 DEF SearchTyped
  <2> QED
    BY <2>1, <2>2, <2>3
<1>6. SearchTyped'
  BY <1>1, <1>2, <1>3 DEF SearchTyped
<1>7. Nesting'
  <2> SUFFICES ASSUME NEW i \in 1..(k - 1)
               PROVE  /\ Discovered(calls[i].here) /\ calls[i].here \notin finished \cup {n}
                      /\ calls[i].nextSet \subseteq history[calls[i].here]
                      /\ \A m \in history[calls[i].here] \ calls[i].nextSet :
                            m \in finished \cup {n} \/ (i < k - 1 /\ m = calls[i + 1].here)
                      /\ i < k - 1 => calls[i + 1].here \in history[calls[i].here]
    <3>1. \A i \in 1..(k - 1) : i < k - 1 => i + 1 \in 1..(k - 1)
      BY <1>2
    <3> QED
      BY <1>1, <1>3, <3>1 DEF Nesting, Discovered
  <2>1. i \in 1..k /\ i < k /\ calls[i].here # n
    BY <1>5
  <2>2. i < k - 1 \/ i + 1 = k
    BY <1>2
  <2>3. /\ Discovered(calls[i].here) /\ calls[i].here \notin finished
        /\ calls[i].nextSet \subseteq history[calls[i].here]
        /\ \A m \in history[calls[i].here] \ calls[i].nextSet :
              m \in finished \/ m = calls[i + 1].here
        /\ calls[i + 1].here \in history[calls[i].here]
    BY <2>1 DEF Found, Nesting, k
  <2> QED
    BY <1>2, <2>1, <2>2, <2>3
<1>8. Rising'
  BY <1>1, <1>3, <1>5 DEF Found, Rising, k
<1>9. Open'
  <2> SUFFICES ASSUME NEW m \in Names, Discovered(m), m \notin finished \cup {n}
               PROVE  \E i \in 1..(k - 1) : calls'[i].here = m
    BY <1>1, <1>3 DEF Open, Discovered
  <2>1. PICK i \in 1..k : calls[i].here = m
    BY DEF Found, Open, k
  <2>2. i # k
    BY <1>2, <2>1
  <2>3. i \in 1..(k - 1)
    BY <1>2, <2>2
  <2> QED
    BY <1>3, <2>1, <2>3
<1>10. Closed'
  BY <1>1, <1>4 DEF Found, Closed, Discovered
<1>11. NoCircle'
  <2>1. \A s \in SUBSET (finished \cup {n}) : s # {} => \E m \in s : history[m] \cap s = {}
    <3> HIDE DEF n
    <3> QED
      BY <1>2, <1>4, Finishing DEF Found, SearchTyped
  <2> QED
    BY <1>1, <2>1 DEF NoCircle
<1>12. Numbered'
  BY <1>1 DEF Found, Numbered
<1> QED
  BY <1>1, <1>6, <1>7, <1>8, <1>9, <1>10, <1>11, <1>12 DEF Found

(* An edge back closes a circle: of the calls from the one it leads to. *)
LEMMA BackIsCyclic ==
    ASSUME TypeOK, SearchTyped, Found, calls # <<>>, This.nextSet # {}, Discovered(There),
           EdgeBack(This.here, There)
    PROVE  Cyclic(history)
<1> DEFINE k == Len(calls)
<1>1. /\ k \in Nat /\ k \in 1..k /\ There \in This.nextSet /\ There \in Names
      /\ \A i \in 1..k : calls[i].here \in Names
  BY ThereIs
<1>2. PICK j \in 1..k : calls[j].here = There
  BY <1>1 DEF EdgeBack, Found, Open
<1> DEFINE s == {calls[i].here : i \in j..k}
<1>3. \A i \in j..k : i \in 1..k
  BY <1>1
<1>4. s \in SUBSET Names /\ There \in s
  <2>1. j \in j..k
    BY <1>1
  <2> QED
    BY <1>1, <1>2, <1>3, <2>1
<1>5. ASSUME NEW i \in j..k PROVE history[calls[i].here] \cap s # {}
  <2>1. CASE i = k
    <3>1. There \in history[calls[i].here]
      BY <1>1, <2>1 DEF Found, Nesting, This
    <3> QED
      BY <1>4, <3>1
  <2>2. CASE i # k
    <3>1. i < k /\ i + 1 \in j..k
      BY <1>1, <2>2
    <3>2. calls[i + 1].here \in history[calls[i].here]
      BY <1>3, <3>1 DEF Found, Nesting
    <3> QED
      BY <3>1, <3>2
  <2> QED
    BY <2>1, <2>2
<1>6. \A n \in s : history[n] \cap s # {}
  <2> HIDE DEF s
  <2> SUFFICES ASSUME NEW n \in s PROVE history[n] \cap s # {}
    OBVIOUS
  <2>1. PICK i \in j..k : n = calls[i].here
    BY DEF s
  <2> QED
    BY <1>5, <2>1
<1> HIDE DEF s
<1> QED
  BY <1>4, <1>6 DEF Cyclic

(* A search that comes to its end has finished all names. *)
LEMMA EndIsAcyclic ==
    ASSUME TypeOK, SearchTyped, Found, calls = <<>>, \A n \in Names : Discovered(n)
    PROVE  ~Cyclic(history)
<1>1. \A n \in Names : n \in finished
  BY DEF Found, Open
<1>2. finished = Names
  BY <1>1 DEF SearchTyped
<1> QED
  BY <1>2 DEF Found, NoCircle, Cyclic

-----------------------------------------------------------------------------
(* The history that the profiler has shown to be acyclic. *)
LEMMA RecordedType ==
    ASSUME TypeOK, SearchTyped, Recording
    PROVE  /\ Recorded \in [Names -> SUBSET Names]
           /\ pushing = <<>> => Recorded = history
           /\ pushing # <<>> => /\ pushing[1] \in Threads /\ pushing[2] \in Acquisitions
                                /\ pushing[2].name \in Names /\ Top(pushing[1]) \in Names
                                /\ Recorded = [history EXCEPT ![Top(pushing[1])] = @ \ {pushing[2].name}]
                                /\ Edges(pushing[1], pushing[2]) = history
                                /\ Order!Edges(pushing[1], pushing[2]) = history
<1>1. history \in [Names -> SUBSET Names]
  BY DEF TypeOK
<1>2. CASE pushing = <<>>
  BY <1>1, <1>2 DEF Recorded
<1>3. CASE pushing # <<>>
  <2> DEFINE t == pushing[1]
             a == pushing[2]
  <2>1. t \in Threads /\ a \in Acquisitions
    BY <1>3 DEF SearchTyped
  <2>2. nest[t] # <<>> /\ Top(t) # a.name /\ a.name \in history[Top(t)]
    BY <1>3 DEF Recording
  <2>3. a.name \in Names
    BY <2>1 DEF Acquisitions
  <2> HIDE DEF t, a
  <2>4. Innermost(t) \in Acquisitions
    BY <2>1, <2>2 DEF TypeOK, Innermost
  <2>5. Top(t) \in Names
    BY <2>4 DEF Top, Acquisitions
  <2>6. Recorded = [history EXCEPT ![Top(t)] = @ \ {a.name}]
    BY <1>3 DEF Recorded, t, a
  <2> DEFINE x == Top(t)
             y == a.name
  <2>7. x = Innermost(t).name /\ x = Order!Innermost(t).name
    BY DEF Top, Innermost, Order!Innermost
  <2>8. /\ Edges(t, a) = [history EXCEPT ![x] = @ \cup {y}]
        /\ Order!Edges(t, a) = [Recorded EXCEPT ![x] = @ \cup {y}]
    BY <2>2, <2>7 DEF Edges, Order!Edges
  <2>9. x \in Names /\ y \in history[x]
    BY <2>2, <2>5
  <2> HIDE DEF x, y
  <2>10. [history EXCEPT ![x] = @ \cup {y}] = history
    <3>1. history[x] \cup {y} = history[x]
      BY <2>9
    <3> QED
      BY <1>1, <2>9, <3>1
  <2>11. Recorded \in [Names -> SUBSET Names] /\ [Recorded EXCEPT ![x] = @ \cup {y}] = history
    <3>1. Recorded = [history EXCEPT ![x] = history[x] \ {y}]
      BY <2>6, <1>1, <2>9 DEF x, y
    <3>2. Recorded \in [Names -> SUBSET Names]
      BY <1>1, <2>9, <3>1
    <3>3. Recorded[x] \cup {y} = history[x]
      BY <1>1, <2>9, <3>1
    <3>4. \A n \in Names : n # x => Recorded[n] = history[n]
      BY <1>1, <2>9, <3>1
    <3>5. [Recorded EXCEPT ![x] = @ \cup {y}] = [n \in Names |-> history[n]]
      BY <3>2, <3>3, <3>4
    <3> QED
      BY <1>1, <3>2, <3>5
  <2> QED
    BY <1>3, <2>1, <2>3, <2>5, <2>6, <2>8, <2>10, <2>11 DEF t, a
<1> QED
  BY <1>2, <1>3

(* The same of the state after a step. *)
LEMMA RecordedTypeNext ==
    (TypeOK /\ SearchTyped /\ Recording
     => /\ Recorded \in [Names -> SUBSET Names]
        /\ pushing = <<>> => Recorded = history)'
<1>1. TypeOK /\ SearchTyped /\ Recording
      => /\ Recorded \in [Names -> SUBSET Names]
         /\ pushing = <<>> => Recorded = history
  BY RecordedType
<1> QED
  BY <1>1, PTL

(* A search begins with nothing found, and that is found rightly. *)
LEMMA BlankFound == Blank /\ SearchTyped => Found
<1> SUFFICES ASSUME Blank, SearchTyped PROVE Found
  OBVIOUS
<1>1. \A n \in Names : discoveredOrder[n] = -1
  BY DEF Blank, Discovered
<1>2. Len(calls) = 0
  BY DEF Blank
<1>3. Numbered /\ Nesting /\ Rising
  BY <1>1, <1>2 DEF Blank, Numbered, Nesting, Rising
<1>4. Open /\ Closed /\ NoCircle
  BY DEF Blank, Open, Closed, NoCircle
<1> QED
  BY <1>3, <1>4 DEF Found

(* The same of the state after a step. *)
LEMMA BlankFoundNext == (Blank /\ SearchTyped => Found)'
BY BlankFound, PTL

(* To the locks the whole of PushLock is one step, at the end of the       *)
(* search.                                                                 *)
LEMMA LocksOf ==
    ASSUME ProfilerInv
    PROVE  /\ \A t \in Threads : \A a \in Taken[program] : PushLock(t, a) => Lock(t, a)
           /\ Crash => Report(pushing[1], pushing[2])
           /\ Pushed => Lock(pushing[1], pushing[2])
           /\ Crash \/ Pushed => /\ pushing # <<>> /\ pushing[1] \in Threads
                                 /\ pushing[2] \in Taken[program]
<1> USE DEF ProfilerInv, SearchInv
<1>0. history \in [Names -> SUBSET Names]
  BY DEF TypeOK
<1>1. ASSUME NEW t \in Threads, NEW a \in Taken[program], PushLock(t, a) PROVE Lock(t, a)
  <2>1. ~reported /\ pushing = <<>> /\ ~IsNew(t, a) /\ history' = history /\ a \in Acquisitions
    BY <1>1, TakenAcquisitions DEF PushLock, Free, TypeOK
  <2>2. Edges(t, a) = history
    <3>1. CASE nest[t] # <<>> /\ Innermost(t).name # a.name
      <4> DEFINE x == Innermost(t).name
      <4>1. a.name \in history[x] /\ Edges(t, a) = [history EXCEPT ![x] = @ \cup {a.name}]
        BY <2>1, <3>1 DEF IsNew, Top, Edges
      <4>2. history[x] \cup {a.name} = history[x]
        BY <4>1
      <4> HIDE DEF x
      <4> QED
        BY <1>0, <4>1, <4>2
    <3>2. CASE ~(nest[t] # <<>> /\ Innermost(t).name # a.name)
      BY <3>2 DEF Edges
    <3> QED
      BY <3>1, <3>2
  <2>3. ~Cyclic(history)
    BY <2>1, RecordedType DEF AcyclicSoFar
  <2> QED
    BY <1>1, <2>1, <2>2, <2>3 DEF PushLock, Free, GoOn, Lock, Cyclic
<1>2. ASSUME Crash PROVE Report(pushing[1], pushing[2])
  <2>1. /\ ~reported /\ pushing # <<>> /\ calls # <<>> /\ This.nextSet # {}
        /\ Discovered(There) /\ EdgeBack(This.here, There)
        /\ reported' = TRUE /\ UNCHANGED <<program, nest, waiting, history>>
    BY <1>2 DEF Crash, Searching
  <2>2. Cyclic(history)
    BY <2>1, BackIsCyclic
  <2>3. Edges(pushing[1], pushing[2]) = history
    BY <2>1, RecordedType
  <2>4. ~waiting[pushing[1]] /\ Nested(pushing[1], pushing[2])
    BY <2>1 DEF Recording
  <2> QED
    BY <2>1, <2>2, <2>3, <2>4 DEF Report, Cyclic
<1>3. ASSUME Pushed PROVE Lock(pushing[1], pushing[2])
  <2>1. /\ ~reported /\ pushing # <<>> /\ calls = <<>> /\ \A n \in Names : Discovered(n)
        /\ GoOn(pushing[1], pushing[2]) /\ UNCHANGED <<program, history, reported>>
    BY <1>3 DEF Pushed, Searching
  <2>2. ~Cyclic(history)
    BY <2>1, EndIsAcyclic
  <2>3. Edges(pushing[1], pushing[2]) = history
    BY <2>1, RecordedType
  <2>4. ~waiting[pushing[1]] /\ Nested(pushing[1], pushing[2])
    BY <2>1 DEF Recording
  <2> QED
    BY <2>1, <2>2, <2>3, <2>4 DEF GoOn, Lock, Cyclic
<1>4. Crash \/ Pushed => pushing # <<>> /\ pushing[1] \in Threads /\ pushing[2] \in Taken[program]
  <2>1. Crash \/ Pushed => pushing # <<>>
    BY DEF Crash, Pushed, Searching
  <2> QED
    BY <2>1, RecordedType DEF Recording
<1> QED
  BY <1>1, <1>2, <1>3, <1>4

Begins == \E t \in Threads : \E a \in Taken[program] : PushNew(t, a)

(* A step of the profiler is one of LockOrder, or begins a search. *)
LEMMA LockStep ==
    ASSUME ProfilerInv, [ProfilerNext]_profilerVars
    PROVE  Begins \/ [Next]_vars
<1>1. CheckCycle \/ Follow \/ Return => UNCHANGED vars
  BY DEF CheckCycle, Follow, Return
<1>2. CASE UNCHANGED profilerVars
  BY <1>2 DEF profilerVars
<1> QED
  BY <1>1, <1>2, LocksOf DEF ProfilerNext, Next, Begins

(* PushNew begins a search. *)
LEMMA BeginsKeeps ==
    ASSUME ProfilerInv, NEW t \in Threads, NEW a \in Taken[program], PushNew(t, a)
    PROVE  /\ TypeOK' /\ SearchInv' /\ AcyclicSoFar' /\ Recorded' = Recorded
           /\ UNCHANGED <<program, nest, waiting, reported>>
<1> USE DEF ProfilerInv, SearchInv
<1>1. /\ ~reported /\ pushing = <<>> /\ ~waiting[t] /\ Nested(t, a) /\ IsNew(t, a)
      /\ history' = [history EXCEPT ![Top(t)] = @ \cup {a.name}]
      /\ pushing' = <<t, a>>
      /\ UNCHANGED <<program, nest, waiting, reported, calls, discoveredOrder, discoveredCount, finished>>
  BY DEF PushNew, Free
<1>2. a \in Acquisitions /\ history \in [Names -> SUBSET Names]
  BY TakenAcquisitions DEF TypeOK
<1>3. nest[t] # <<>> /\ Top(t) # a.name /\ a.name \notin history[Top(t)]
  BY <1>1 DEF IsNew
<1>4. Top(t)' = Top(t)
  BY <1>1 DEF Top, Innermost
<1>5. a.name \in Names /\ Top(t) \in Names
  <2>1. Innermost(t) \in Acquisitions
    BY <1>3 DEF TypeOK, Innermost
  <2> QED
    BY <1>2, <2>1 DEF Top, Acquisitions
<1> DEFINE x == Top(t)
           y == a.name
<1>6. Recorded' = [history' EXCEPT ![x] = @ \ {y}] /\ Recorded = history
  <2>1. pushing' # <<>> /\ pushing'[1] = t /\ pushing'[2] = a
    BY <1>1
  <2> QED
    BY <1>1, <1>4, <2>1 DEF Recorded
<1> HIDE DEF x, y
<1>7. history' \in [Names -> SUBSET Names] /\ [history' EXCEPT ![x] = @ \ {y}] = history /\ y \in history'[x]
  <2>1. x \in Names /\ y \in Names /\ y \notin history[x] /\ history' = [history EXCEPT ![x] = @ \cup {y}]
    BY <1>1, <1>3, <1>5 DEF x, y
  <2>2. history' \in [Names -> SUBSET Names]
    BY <1>2, <2>1
  <2>3. history'[x] \ {y} = history[x] /\ y \in history'[x]
    BY <1>2, <2>1
  <2>4. \A n \in Names : n # x => history'[n] = history[n]
    BY <1>2, <2>1
  <2>5. [history' EXCEPT ![x] = @ \ {y}] = [n \in Names |-> history[n]]
    BY <2>2, <2>3, <2>4
  <2> QED
    BY <1>2, <2>2, <2>3, <2>5
<1>8. Recorded' = Recorded
  BY <1>6, <1>7
<1>9. TypeOK'
  BY <1>1, <1>7 DEF TypeOK
<1>10. SearchTyped'
  BY <1>1, <1>2 DEF SearchTyped
<1>11. Recording'
  <2> SUFFICES /\ ~reported /\ ~waiting[t] /\ Nested(t, a)' /\ a \in Taken[program]
               /\ nest[t] # <<>> /\ x # y /\ y \in history'[x]
    BY <1>1, <1>4 DEF Recording, x, y
  <2>1. Nested(t, a)'
    BY <1>1 DEF Nested, Innermost
  <2> QED
    BY <1>1, <1>3, <1>7, <2>1 DEF x, y
<1>12. Idle'
  BY <1>1 DEF Idle
<1>13. Found'
  <2>1. Blank'
    BY <1>1 DEF Idle, Blank, Discovered
  <2> QED
    BY <1>10, <2>1, BlankFoundNext
<1>14. AcyclicSoFar'
  BY <1>1, <1>8 DEF AcyclicSoFar, Cyclic
<1> QED
  BY <1>1, <1>8, <1>9, <1>10, <1>11, <1>12, <1>13, <1>14

(* What stands through a step of the search. *)
LEMMA StandingKeeps ==
    ASSUME ProfilerInv, ~reported, pushing # <<>>, Standing, SearchTyped', Found'
    PROVE  /\ TypeOK' /\ SearchInv' /\ AcyclicSoFar' /\ Recorded' = Recorded
           /\ UNCHANGED <<program, nest, waiting, reported>>
<1> USE DEF ProfilerInv, SearchInv, Standing
<1>1. Recorded' = Recorded
  BY DEF Recorded, Top, Innermost
<1>2. TypeOK'
  BY DEF TypeOK
<1>3. Recording'
  BY DEF Recording, Nested, Top, Innermost
<1>4. Idle'
  BY DEF Idle
<1>5. AcyclicSoFar'
  BY <1>1 DEF AcyclicSoFar, Cyclic
<1> QED
  BY <1>1, <1>2, <1>3, <1>4, <1>5

(* A step keeps the search, and either shows nothing new to be acyclic, or *)
(* all that is recorded.                                                   *)
LEMMA SearchStep ==
    ASSUME ProfilerInv, [ProfilerNext]_profilerVars
    PROVE  /\ TypeOK' /\ WaitsForOne' /\ SearchInv' /\ AcyclicSoFar'
           /\ \/ Recorded' = Recorded /\ UNCHANGED nest
              \/ [Next]_vars /\ pushing' = <<>> /\ Recorded' = history'
<1> USE DEF ProfilerInv, SearchInv
<1>1. ASSUME [Next]_vars PROVE TypeOK' /\ WaitsForOne'
  BY <1>1, StepTypeOK
<1> DEFINE Kept == /\ SearchInv' /\ AcyclicSoFar'
                   /\ \/ Recorded' = Recorded /\ UNCHANGED nest
                      \/ [Next]_vars /\ pushing' = <<>> /\ Recorded' = history'
<1>2. ASSUME NEW t \in Threads, NEW a \in Taken[program], PushNew(t, a)
      PROVE  TypeOK' /\ WaitsForOne' /\ Kept
  <2>1. /\ TypeOK' /\ SearchInv' /\ AcyclicSoFar' /\ Recorded' = Recorded
        /\ UNCHANGED <<program, nest, waiting, reported>>
    BY <1>2, BeginsKeeps
  <2> QED
    BY <2>1 DEF WaitsForOne
(* A step of the locks between two searches. *)
<1>3. ASSUME [Next]_vars, pushing = <<>>, UNCHANGED searchVars, UNCHANGED history, reported' = reported
      PROVE  Kept
  <2>1. Recorded = history /\ Recorded' = history' /\ pushing' = <<>>
    BY <1>3 DEF Recorded, searchVars
  <2>2. SearchInv'
    BY <1>3 DEF searchVars, SearchTyped, Recording, Idle, Blank, Found, Numbered, Nesting, Rising, Open,
                Closed, NoCircle, Discovered
  <2>3. AcyclicSoFar'
    BY <1>3, <2>1 DEF AcyclicSoFar, Cyclic
  <2> QED
    BY <1>3, <2>1, <2>2, <2>3
<1>4. ASSUME NEW t \in Threads, NEW a \in Taken[program], PushLock(t, a) PROVE Kept
  <2>1. ~Begins \/ Begins
    OBVIOUS
  <2>2. pushing = <<>> /\ UNCHANGED searchVars /\ UNCHANGED history /\ reported' = reported
    BY <1>4 DEF PushLock, Free
  <2>3. [ProfilerNext]_profilerVars /\ pushing' = <<>>
    BY <2>2 DEF searchVars
  <2>4. ~Begins
    BY <2>3 DEF Begins, PushNew
  <2> QED
    BY <1>3, <2>2, <2>4, LockStep
<1>5. ASSUME NEW t \in Threads, Free /\ Unlock(t) /\ UNCHANGED searchVars PROVE Kept
  <2>1. [Next]_vars
    BY <1>5 DEF Next
  <2> QED
    BY <1>3, <1>5, <2>1 DEF Free, Unlock
(* A thread that waits is not the one that searches. *)
<1>6. ASSUME NEW u \in Threads, Acquire(u), UNCHANGED searchVars PROVE Kept
  <2>1. /\ ~reported /\ waiting[u] /\ waiting' = [waiting EXCEPT ![u] = FALSE]
        /\ UNCHANGED <<program, nest, history, reported>>
    BY <1>6 DEF Acquire
  <2>2. Recorded' = Recorded
    BY <1>6, <2>1 DEF Recorded, searchVars, Top, Innermost
  <2>3. SearchTyped' /\ Idle' /\ Found'
    BY <1>6, <2>1 DEF searchVars, SearchTyped, Idle, Blank, Found, Numbered, Nesting, Rising, Open, Closed,
                      NoCircle, Discovered
  <2>4. Recording'
    <3> SUFFICES ASSUME pushing # <<>>
                 PROVE  LET t == pushing[1]
                            a == pushing[2]
                        IN  /\ ~reported /\ ~waiting'[t] /\ Nested(t, a)' /\ a \in Taken[program]
                            /\ nest[t] # <<>> /\ Top(t)' # a.name /\ a.name \in history[Top(t)']
      BY <1>6, <2>1 DEF Recording, searchVars
    <3>1. pushing[1] # u /\ waiting'[pushing[1]] = waiting[pushing[1]]
      BY <2>1, RecordedType DEF Recording, TypeOK
    <3> DEFINE t == pushing[1]
               a == pushing[2]
    <3>2. Top(t)' = Top(t) /\ (Nested(t, a)' <=> Nested(t, a))
      <4> HIDE DEF t, a
      <4>1. t' = t /\ a' = a
        BY <1>6 DEF t, a, searchVars
      <4>2. Innermost(t)' = Innermost(t)
        BY <2>1, <4>1 DEF Innermost
      <4> QED
        BY <2>1, <4>1, <4>2 DEF Nested, Top
    <3> QED
      BY <2>1, <3>1, <3>2 DEF Recording
  <2>5. AcyclicSoFar'
    BY <2>1, <2>2 DEF AcyclicSoFar, Cyclic
  <2> QED
    BY <2>1, <2>2, <2>3, <2>4, <2>5
<1>7. ASSUME CheckCycle \/ Follow \/ Return PROVE Kept
  <2>1. ~reported /\ pushing # <<>>
    BY <1>7 DEF CheckCycle, Follow, Return, Searching
  <2>2. SearchTyped' /\ Found' /\ Standing
    BY <1>7, <2>1, CheckCycleKeeps, FollowKeeps, ReturnKeeps
  <2> QED
    BY <2>1, <2>2, StandingKeeps
<1>8. ASSUME Crash PROVE Kept
  <2>1. /\ reported' = TRUE /\ pushing' = <<>> /\ pushing # <<>>
        /\ UNCHANGED <<nest, calls, discoveredOrder, discoveredCount, finished>>
    BY <1>8 DEF Crash, Searching
  <2>2. ~Begins
    BY <2>1 DEF Begins, PushNew
  <2>3. [Next]_vars
    BY <1>8, <2>2, LockStep
  <2>4. SearchInv' /\ AcyclicSoFar'
    BY <2>1 DEF SearchTyped, Recording, Idle, AcyclicSoFar
  <2> QED
    BY <2>1, <2>3, <2>4 DEF Recorded
<1>9. ASSUME Pushed PROVE Kept
  <2>1. /\ ~reported /\ pushing' = <<>> /\ pushing # <<>> /\ NothingFound /\ UNCHANGED history
        /\ calls = <<>> /\ (\A n \in Names : Discovered(n)) /\ reported' = reported
    BY <1>9 DEF Pushed, Searching
  <2>2. ~Begins
    BY <2>1 DEF Begins, PushNew
  <2>3. [Next]_vars
    BY <1>9, <2>2, LockStep
  <2>4. SearchTyped' /\ Blank'
    BY <2>1, EmptySeq DEF NothingFound, SearchTyped, Blank, Discovered
  <2>5. Found'
    BY <2>4, BlankFoundNext
  <2>6. Recording' /\ Idle'
    BY <2>1, <2>4 DEF Recording, Idle
  <2>7. ~Cyclic(history)
    BY <2>1, EndIsAcyclic
  <2>8. Recorded' = history'
    BY <2>1 DEF Recorded
  <2>9. AcyclicSoFar'
    BY <2>1, <2>7, <2>8 DEF AcyclicSoFar, Cyclic
  <2> QED
    BY <2>3, <2>4, <2>5, <2>6, <2>1, <2>8, <2>9
<1>10. ASSUME UNCHANGED profilerVars PROVE Kept
  <2>1. UNCHANGED <<program, nest, waiting, history, reported, pushing, calls, discoveredOrder,
                    discoveredCount, finished>>
    BY <1>10 DEF profilerVars, vars, searchVars
  <2>2. Recorded' = Recorded
    BY <2>1 DEF Recorded, Top, Innermost
  <2>3. SearchTyped' /\ Idle'
    BY <2>1 DEF SearchTyped, Idle, Blank, Discovered
  <2>6. ~reported => Found'
    BY <2>1 DEF Found, Numbered, Nesting, Rising, Open, Closed, NoCircle, Discovered
  <2>5. Recording'
    BY <2>1 DEF Recording, Nested, Top, Innermost
  <2>4. AcyclicSoFar'
    BY <2>1, <2>2 DEF AcyclicSoFar, Cyclic
  <2> QED
    BY <2>1, <2>2, <2>3, <2>4, <2>5, <2>6
<1>11. TypeOK' /\ WaitsForOne'
  BY <1>1, <1>2, LockStep DEF Begins
<1> QED
  BY <1>2, <1>4, <1>5, <1>6, <1>7, <1>8, <1>9, <1>10, <1>11 DEF ProfilerNext

(* What threads have nested is in the order that has been shown to be acyclic,*)
(* also while the next nesting is searched for and others go on to their locks.*)
LEMMA KnownStep ==
    ASSUME ProfilerInv, [ProfilerNext]_profilerVars
    PROVE  KnownSoFar' /\ NoSilentDeadlock'
<1> USE DEF ProfilerInv, SearchInv
<1>1. /\ TypeOK' /\ WaitsForOne' /\ SearchInv' /\ AcyclicSoFar'
      /\ \/ Recorded' = Recorded /\ UNCHANGED nest
         \/ [Next]_vars /\ pushing' = <<>> /\ Recorded' = history'
  BY SearchStep
<1>2. Recorded \in [Names -> SUBSET Names] /\ Recorded' \in [Names -> SUBSET Names]
  BY <1>1, RecordedType, RecordedTypeNext
(* The history has no less than what has been shown of it. *)
<1>3. OrderKnown
  <2> SUFFICES ASSUME NEW t \in Threads, NEW i \in 1..(Len(nest[t]) - 1),
                      nest[t][i].name # nest[t][i + 1].name
               PROVE  nest[t][i + 1].name \in history[nest[t][i].name]
    BY DEF OrderKnown
  <2> DEFINE x == nest[t][i].name
             y == nest[t][i + 1].name
  <2>1. y \in Recorded[x]
    BY DEF KnownSoFar, Known
  <2>2. x \in Names
    <3>1. nest[t] \in Seq(Acquisitions)
      BY DEF TypeOK
    <3>2. i \in 1..Len(nest[t])
      BY <3>1, LenProperties
    <3>3. nest[t][i] \in Acquisitions
      BY <3>1, <3>2, ElementOfSeq
    <3> QED
      BY <3>3 DEF Acquisitions
  <2> HIDE DEF x, y
  <2>3. Recorded[x] \subseteq history[x]
    <3>1. history \in [Names -> SUBSET Names]
      BY DEF TypeOK
    <3> QED
      BY <2>2, <3>1, RecordedType
  <2> QED
    BY <2>1, <2>3 DEF x, y
<1>4. KnownSoFar'
  <2>1. CASE Recorded' = Recorded /\ UNCHANGED nest
    BY <2>1 DEF KnownSoFar, Known
  <2>2. CASE [Next]_vars /\ Recorded' = history'
    BY <1>3, <2>2, StepOrderKnown DEF KnownSoFar, Known, OrderKnown
  <2> QED
    BY <1>1, <2>1, <2>2
<1>5. CASE ~reported'
  <2>1. ~Cyclic(Recorded')
    BY <1>1, <1>5 DEF AcyclicSoFar, Cyclic
  <2>2. \A t \in Threads : \A i \in 1..(Len(nest'[t]) - 1) :
           nest'[t][i].name # nest'[t][i + 1].name => nest'[t][i + 1].name \in Recorded'[nest'[t][i].name]
    BY <1>4 DEF KnownSoFar, Known
  <2> DEFINE h == Recorded'
  <2>3. /\ h \in [Names -> SUBSET Names] /\ ~Cyclic(h)
        /\ \A t \in Threads : \A i \in 1..(Len(nest'[t]) - 1) :
              nest'[t][i].name # nest'[t][i + 1].name => nest'[t][i + 1].name \in h[nest'[t][i].name]
    BY <1>2, <2>1, <2>2
  <2> HIDE DEF h
  <2>4. NoSilentDeadlock'
    BY <1>1, <2>3, AcyclicSafeNext DEF Cyclic, Known
  <2> QED
    BY <1>4, <2>4
(* The step that stops the process, and what follows, leaves the locks.    *)
<1>6. CASE reported'
  <2>1. UNCHANGED <<nest, waiting>>
    <3>1. Begins => UNCHANGED <<nest, waiting>>
      BY DEF Begins, PushNew
    <3>2. UNCHANGED vars => UNCHANGED <<nest, waiting>>
      BY DEF vars
    <3>3. Next => UNCHANGED <<nest, waiting>>
      BY <1>6 DEF Next, Lock, Report, Acquire, Unlock
    <3> QED
      BY <3>1, <3>2, <3>3, LockStep
  <2>2. NoSilentDeadlock'
    BY <2>1, SafeStands
  <2> QED
    BY <1>4, <2>2
<1> QED
  BY <1>5, <1>6

(* The invariant of the profiler and of the locks that wait on it.         *)
THEOREM ProfilerInvariant == ProfiledSpec => []ProfilerInv
<1>1. ProfilerInit => ProfilerInv
  <2> SUFFICES ASSUME ProfilerInit PROVE ProfilerInv
    OBVIOUS
  <2>1. TypeOK /\ WaitsForOne /\ OrderKnown /\ Acyclic /\ NoSilentDeadlock
    BY InitIInv DEF ProfilerInit, IInv
  <2>2. SearchTyped /\ Blank
    BY EmptySeq DEF ProfilerInit, SearchTyped, Blank, Discovered
  <2>3. Found
    BY <2>2, BlankFound
  <2>4. pushing = <<>> /\ Recorded = history
    BY DEF ProfilerInit, Recorded
  <2>5. Recording /\ Idle
    BY <2>2, <2>4 DEF Recording, Idle
  <2>6. AcyclicSoFar /\ KnownSoFar
    BY <2>1, <2>4 DEF Acyclic, AcyclicSoFar, KnownSoFar, Known, OrderKnown
  <2> QED
    BY <2>1, <2>2, <2>3, <2>5, <2>6 DEF ProfilerInv, SearchInv
<1>2. ProfilerInv /\ [ProfilerNext]_profilerVars => ProfilerInv'
  BY SearchStep, KnownStep DEF ProfilerInv
<1> QED
  BY <1>1, <1>2, PTL DEF ProfiledSpec

(* The search of DeadLockProfiler stops the process at a nesting that      *)
(* closes a circle of names, whenever one does, and at no other.           *)
THEOREM ProfilerSound == ProfiledSpec => ImplementsOrder
<1>1. ProfilerInit => Order!Init
  BY DEF ProfilerInit, Init, Order!Init, Recorded
<1>2. ProfilerInv /\ ProfilerInv' /\ [ProfilerNext]_profilerVars => [Order!Next]_(Order!vars)
  <2> SUFFICES ASSUME ProfilerInv, ProfilerInv', [ProfilerNext]_profilerVars
               PROVE  [Order!Next]_(Order!vars)
    OBVIOUS
  <2> USE DEF ProfilerInv, SearchInv
  <2>1. \A t \in Threads : \A a : /\ Order!Nested(t, a) <=> Nested(t, a)
                                  /\ Order!Innermost(t) = Innermost(t)
                                  /\ \A l : Order!Holds(t, l) <=> Holds(t, l)
    BY DEF Order!Nested, Nested, Order!Innermost, Innermost, Order!Holds, Holds, Order!Granted, Granted
  <2>2. \A h : Order!Cyclic(h) <=> Cyclic(h)
    BY DEF Order!Cyclic, Cyclic
  <2>3. Order!Taken = Taken
    BY DEF Order!Taken, Taken
  <2>4. ~reported' => ~Cyclic(Recorded')
    BY DEF AcyclicSoFar, Cyclic
  <2>5. pushing = <<>> => Recorded = history /\ \A t \in Threads : \A a : Order!Edges(t, a) = Edges(t, a)
    BY <2>1 DEF Recorded, Order!Edges, Edges
  <2>6. \A t \in Threads : \A a \in Taken[program] : PushNew(t, a) => UNCHANGED Order!vars
    BY BeginsKeeps DEF Order!vars
(* What a step records is acyclic, unless it stops the process. *)
  <2>7. ASSUME NEW t \in Threads, NEW a, Lock(t, a), pushing' = <<>>,
               Order!Edges(t, a) = Edges(t, a)
        PROVE  Order!Lock(t, a)
    <3>1. Recorded' = history' /\ history' = Order!Edges(t, a)
      BY <2>7 DEF Recorded, Lock
    <3>2. ~Order!Cyclic(Recorded')
      BY <2>2, <2>4, <2>7 DEF Lock
    <3> QED
      BY <2>1, <2>7, <3>1, <3>2 DEF Lock, Order!Lock
  <2>8. ASSUME NEW t \in Threads, NEW a \in Taken[program], PushLock(t, a) PROVE Order!Lock(t, a)
    <3>1. pushing = <<>> /\ pushing' = <<>>
      BY <2>8 DEF PushLock, Free, searchVars
    <3> QED
      BY <2>5, <2>7, <2>8, <3>1, LocksOf
  <2>9. Pushed => Order!Lock(pushing[1], pushing[2])
    <3> SUFFICES ASSUME Pushed PROVE Order!Lock(pushing[1], pushing[2])
      OBVIOUS
    <3> DEFINE t == pushing[1]
               a == pushing[2]
    <3>1. t \in Threads /\ Lock(t, a) /\ pushing # <<>> /\ pushing' = <<>>
      BY LocksOf DEF Pushed
    <3>2. Order!Edges(t, a) = Edges(t, a)
      BY <3>1, RecordedType
    <3> HIDE DEF t, a
    <3>3. Order!Lock(t, a)
      BY <2>7, <3>1, <3>2
    <3> QED
      BY <3>3 DEF t, a
  <2>10. Crash => Order!Report(pushing[1], pushing[2])
    <3> SUFFICES ASSUME Crash PROVE Order!Report(pushing[1], pushing[2])
      OBVIOUS
    <3>1. /\ pushing[1] \in Threads /\ Report(pushing[1], pushing[2])
          /\ pushing # <<>> /\ pushing' = <<>> /\ history' = history
      BY LocksOf DEF Crash
    <3>2. Order!Edges(pushing[1], pushing[2]) = history /\ Recorded' = history
      BY <3>1, RecordedType DEF Recorded
    <3>3. Order!Cyclic(Recorded')
      BY <2>2, <3>1, <3>2 DEF Report, Cyclic
    <3> QED
      BY <2>1, <3>1, <3>2, <3>3 DEF Report, Order!Report
  <2>11. ASSUME NEW u \in Threads, Acquire(u), UNCHANGED searchVars PROVE Order!Acquire(u)
    <3>1. Recorded' = Recorded
      BY <2>11 DEF Recorded, Acquire, searchVars, Top, Innermost
    <3> QED
      BY <2>1, <2>11, <3>1 DEF Acquire, Order!Acquire
  <2>12. ASSUME NEW t \in Threads, Free, Unlock(t), UNCHANGED searchVars PROVE Order!Unlock(t)
    <3>1. Recorded' = Recorded
      BY <2>12 DEF Free, Recorded, Unlock, searchVars
    <3> QED
      BY <2>12, <3>1 DEF Unlock, Order!Unlock
  <2>13. CheckCycle \/ Follow \/ Return \/ UNCHANGED profilerVars => UNCHANGED Order!vars
    <3>1. CheckCycle \/ Follow \/ Return \/ UNCHANGED profilerVars
          => UNCHANGED <<program, nest, waiting, history, reported, pushing>>
      BY DEF CheckCycle, Follow, Return, profilerVars, vars, searchVars
    <3> QED
      BY <3>1 DEF Order!vars, Recorded, Top, Innermost
  <2> QED
    BY <2>3, <2>6, <2>8, <2>9, <2>10, <2>11, <2>12, <2>13, LocksOf DEF ProfilerNext, Order!Next
<1> QED
  BY ProfilerInvariant, <1>1, <1>2, PTL DEF ProfiledSpec, ImplementsOrder, Order!Spec

(* DeadLockProfiler, searching step by step while other threads go on to   *)
(* their locks, lets no deadlock that it could see come about.             *)
THEOREM ProfilerNeverSilent == ProfiledSpec => []NoSilentDeadlock
<1>1. ProfilerInv => NoSilentDeadlock
  BY DEF ProfilerInv
<1> QED
  BY ProfilerInvariant, <1>1, PTL

(* A program that goes down a ranking never has a search that finds a      *)
(* circle: what PushNew records goes down as well.                         *)
LEMMA ProfiledRank ==
    ASSUME NEW p \in DOMAIN Nests, NEW rank, Descends(rank, p),
           ProfilerInv, FollowsRank(rank, p), [ProfilerNext]_profilerVars
    PROVE  FollowsRank(rank, p)'
<1>1. CASE [Next]_vars
  BY <1>1, RankInductive DEF ProfilerInv
<1>2. CASE Begins
  <2>1. PICK t \in Threads, a \in Taken[program] : PushNew(t, a)
    BY <1>2 DEF Begins
  <2>2. /\ pushing = <<>> /\ Nested(t, a) /\ IsNew(t, a)
        /\ history' = [history EXCEPT ![Top(t)] = @ \cup {a.name}]
        /\ UNCHANGED <<program, nest, reported>>
    BY <2>1 DEF PushNew, Free
  <2>3. history' = Edges(t, a)
    BY <2>2 DEF IsNew, Top, Edges
  <2> SUFFICES ASSUME program = p PROVE Ranked(rank, p)'
    BY <2>2 DEF FollowsRank
  <2>4. Ranked(rank, p)
    BY DEF FollowsRank
  <2>5. \A m \in Names : \A n \in Edges(t, a)[m] : rank[n] < rank[m]
    BY <2>2, <2>4, RankedEdges DEF ProfilerInv
  <2>6. RankedOrder(rank)'
    BY <2>3, <2>5 DEF RankedOrder
  <2>7. RankedNests(rank, p)'
    BY <2>2, <2>4 DEF Ranked, RankedNests, Below
  <2> QED
    BY <2>2, <2>4, <2>6, <2>7 DEF Ranked
<1> QED
  BY <1>1, <1>2, LockStep

(* A lock has one owner, under the profiler as well. *)
LEMMA ProfiledOwner ==
    ASSUME ProfilerInv, Exclusive, [ProfilerNext]_profilerVars PROVE Exclusive'
<1>1. CASE [Next]_vars
  BY <1>1, StepExclusive DEF ProfilerInv
<1>2. CASE Begins
  <2>1. UNCHANGED <<nest, waiting>>
    BY <1>2 DEF Begins, PushNew
  <2> QED
    BY <2>1 DEF Exclusive, Holds, Granted
<1> QED
  BY <1>1, <1>2, LockStep

(* However many threads, rooms and sessions the server has, under the      *)
(* profiler as it searches: none is ever reported, and no threads ever     *)
(* wait in a circle.  GameSessionManager, a room, a session and the send   *)
(* buffers are taken in that order everywhere.                             *)
THEOREM ServerNeverStuck ==
    ASSUME Names = ServerLockNames, Nests = NestsOf
    PROVE  ProfiledSpec => []ServerGetsOn
<1>1. "server" \in DOMAIN Nests /\ Descends(ServerRank, "server")
  BY ServerDescends
<1>2. ProfilerInit => FollowsRank(ServerRank, "server") /\ Exclusive
  <2>1. Init => Exclusive
    BY DEF Init, Exclusive, Holds, Granted
  <2> QED
    BY <1>1, <2>1, RankInductive DEF ProfilerInit
<1>3. ProfilerInv /\ FollowsRank(ServerRank, "server") /\ Exclusive /\ [ProfilerNext]_profilerVars
      => FollowsRank(ServerRank, "server")' /\ Exclusive'
  BY <1>1, ProfiledRank, ProfiledOwner
<1>4. ProfilerInv /\ FollowsRank(ServerRank, "server") /\ Exclusive => ServerGetsOn
  BY <1>1, RankInductive DEF ProfilerInv, ServerGetsOn
<1> QED
  BY ProfilerInvariant, <1>2, <1>3, <1>4, PTL DEF ProfiledSpec
=============================================================================
