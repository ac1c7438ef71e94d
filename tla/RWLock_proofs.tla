---------------------------- MODULE RWLock_proofs ----------------------------
(***************************************************************************)
(* Proofs about RWLock, for every set of threads and every nesting depth:  *)
(* mutual exclusion, the race freedom of _writeCount, and that the lock    *)
(* implements RWLockAbs.                                                   *)
(***************************************************************************)
EXTENDS RWLock, FiniteSetTheorems, TLAPS

(* The word counts the read guards; whoever has a write guard, or is about *)
(* to change what a writer changes, is the thread the word names; the      *)
(* depth is the number of its write guards; only the writer has read       *)
(* guards while there is one.                                              *)
ReadersCounted == IsFiniteSet(ReadGuards) /\ WordCountsReaders

WritersNamed ==
    \A t \in Threads :
        Holds(t, "W") \/ pc[t] \in {"winc", "wdec", "wstore", "rinc"}
            => flag.writer = t

DepthCounted ==
    /\ flag.writer = NoThread => writeCount = 0
    /\ \A t \in Threads : flag.writer = t =>
          writeCount = IF pc[t] = "wstore" THEN 0 ELSE GuardCount(t, "W")

WriterExcludes ==
    \A t, u \in Threads : flag.writer = t /\ u # t => ~Holds(u, "R")

Unlocking ==
    \A t \in Threads :
        /\ pc[t] \in {"wdec", "wstore"} =>
              held[t] # <<>> /\ Top(t) = "W" /\ flag.readers = 0
        /\ pc[t] = "wstore" => GuardCount(t, "W") = 1

WriterActive ==
    \A t \in Threads : flag.writer = t => Holds(t, "W") \/ pc[t] = "winc"

IInv == /\ TypeOK
        /\ ReadersCounted
        /\ WritersNamed
        /\ DepthCounted
        /\ WriterExcludes
        /\ Unlocking
        /\ WriterActive

-----------------------------------------------------------------------------
(* The places of a kind of guard after one more guard is taken. *)
LEMMA PlacesPush ==
    ASSUME NEW s \in Seq(Kinds), NEW x \in Kinds, NEW k
    PROVE  /\ Append(s, x) \in Seq(Kinds)
           /\ Places(Append(s, x), k) =
                 IF x = k THEN Places(s, k) \cup {Len(s) + 1} ELSE Places(s, k)
           /\ Len(s) + 1 \notin Places(s, k)
           /\ IsFiniteSet(Places(s, k))
<1>1. Append(s, x) \in Seq(Kinds)
  OBVIOUS
<1>2. /\ DOMAIN s = 1 .. Len(s)
      /\ DOMAIN Append(s, x) = 1 .. Len(s) + 1
      /\ \A i \in 1 .. Len(s) : Append(s, x)[i] = s[i]
      /\ Append(s, x)[Len(s) + 1] = x
      /\ Len(s) \in Nat
  OBVIOUS
<1>3. IsFiniteSet(Places(s, k))
  <2>1. IsFiniteSet(1 .. Len(s))
    BY <1>2, FS_Interval
  <2>2. Places(s, k) \subseteq 1 .. Len(s)
    BY <1>2 DEF Places
  <2> QED
    BY <2>1, <2>2, FS_Subset
<1> QED
  BY <1>1, <1>2, <1>3 DEF Places

(* The places of a kind of guard after the innermost guard is dropped. *)
LEMMA PlacesPop ==
    ASSUME NEW s \in Seq(Kinds), s # <<>>, NEW k
    PROVE  LET f == SubSeq(s, 1, Len(s) - 1)
           IN  /\ f \in Seq(Kinds)
               /\ Places(f, k) = Places(s, k) \ {Len(s)}
               /\ Len(s) \in Places(s, k) <=> s[Len(s)] = k
<1> DEFINE f == SubSeq(s, 1, Len(s) - 1)
<1>1. Len(s) \in Nat \ {0}
  OBVIOUS
<1>2. /\ f \in Seq(Kinds)
      /\ DOMAIN f = 1 .. Len(s) - 1
      /\ \A i \in 1 .. Len(s) - 1 : f[i] = s[i]
      /\ DOMAIN s = 1 .. Len(s)
  BY <1>1
<1> HIDE DEF f
<1>3. Places(f, k) = Places(s, k) \ {Len(s)}
  BY <1>1, <1>2 DEF Places
<1>4. Len(s) \in Places(s, k) <=> s[Len(s)] = k
  BY <1>1, <1>2 DEF Places
<1> QED
  BY <1>2, <1>3, <1>4 DEF f

(* What taking a guard does to the guards of every thread. *)
LEMMA PushGuard ==
    ASSUME held \in [Threads -> Seq(Kinds)], NEW t \in Threads, NEW x \in Kinds,
           Push(t, x), IsFiniteSet(ReadGuards)
    PROVE  /\ held' \in [Threads -> Seq(Kinds)]
           /\ \A u \in Threads \ {t} : held'[u] = held[u]
           /\ \A k : x # k => Places(held'[t], k) = Places(held[t], k)
           /\ Places(held'[t], x) # {}
           /\ Cardinality(Places(held'[t], x)) = Cardinality(Places(held[t], x)) + 1
           /\ x = "W" => ReadGuards' = ReadGuards
           /\ x = "R" => /\ IsFiniteSet(ReadGuards')
                         /\ Cardinality(ReadGuards') = Cardinality(ReadGuards) + 1
<1> DEFINE n == Len(held[t]) + 1
<1>1. /\ held' \in [Threads -> Seq(Kinds)]
      /\ held'[t] = Append(held[t], x)
      /\ \A u \in Threads \ {t} : held'[u] = held[u]
  BY PlacesPush DEF Push
<1>2. \A k : /\ Places(held'[t], k) =
                   IF x = k THEN Places(held[t], k) \cup {n} ELSE Places(held[t], k)
             /\ n \notin Places(held[t], k)
             /\ IsFiniteSet(Places(held[t], k))
  BY <1>1, PlacesPush
<1>3. Cardinality(Places(held'[t], x)) = Cardinality(Places(held[t], x)) + 1
  BY <1>2, FS_AddElement
<1>4. CASE x = "W"
  <2>1. \A u \in Threads : Places(held'[u], "R") = Places(held[u], "R")
    BY <1>1, <1>2, <1>4
  <2>2. ReadGuards' = ReadGuards
    BY <2>1 DEF ReadGuards
  <2> QED
    BY <1>1, <1>2, <1>3, <1>4, <2>2
<1>5. CASE x = "R"
  <2>1. ReadGuards' = ReadGuards \cup {<<t, n>>}
    <3>1. Places(held'[t], "R") = Places(held[t], "R") \cup {n}
      BY <1>2, <1>5
    <3>2. \A u \in Threads \ {t} : Places(held'[u], "R") = Places(held[u], "R")
      BY <1>1
    <3>3. \A e : e \in ReadGuards <=>
                 \E u \in Threads : \E i \in Places(held[u], "R") : e = <<u, i>>
      BY DEF ReadGuards
    <3>4. \A e : e \in ReadGuards' <=>
                 \E u \in Threads : \E i \in Places(held'[u], "R") : e = <<u, i>>
      BY DEF ReadGuards
    <3> HIDE DEF n
    <3>5. ASSUME NEW e
          PROVE  e \in ReadGuards' <=> e \in ReadGuards \cup {<<t, n>>}
      BY <3>1, <3>2, <3>3, <3>4
    <3> QED
      BY <3>5
  <2>2. <<t, n>> \notin ReadGuards
    BY <1>2, <1>5 DEF ReadGuards
  <2>3. IsFiniteSet(ReadGuards') /\ Cardinality(ReadGuards') = Cardinality(ReadGuards) + 1
    BY <2>1, <2>2, FS_AddElement
  <2> QED
    BY <1>1, <1>2, <1>3, <1>5, <2>3
<1> QED
  BY <1>4, <1>5 DEF Kinds

(* What dropping the innermost guard does to the guards of every thread. *)
LEMMA PopGuard ==
    ASSUME held \in [Threads -> Seq(Kinds)], NEW t \in Threads,
           held[t] # <<>>, Pop(t), IsFiniteSet(ReadGuards)
    PROVE  /\ held' \in [Threads -> Seq(Kinds)]
           /\ \A u \in Threads \ {t} : held'[u] = held[u]
           /\ \A k : Top(t) # k => Places(held'[t], k) = Places(held[t], k)
           /\ Places(held[t], Top(t)) # {}
           /\ Cardinality(Places(held'[t], Top(t))) = Cardinality(Places(held[t], Top(t))) - 1
           /\ Top(t) = "W" => ReadGuards' = ReadGuards
           /\ Top(t) = "R" => /\ IsFiniteSet(ReadGuards')
                              /\ Cardinality(ReadGuards') = Cardinality(ReadGuards) - 1
<1> DEFINE n == Len(held[t])
<1>0. Top(t) \in Kinds
  BY DEF Top
<1>1. /\ held' \in [Threads -> Seq(Kinds)]
      /\ held'[t] = SubSeq(held[t], 1, Len(held[t]) - 1)
      /\ \A u \in Threads \ {t} : held'[u] = held[u]
  BY PlacesPop DEF Pop
<1>2. \A k : /\ Places(held'[t], k) = Places(held[t], k) \ {n}
             /\ n \in Places(held[t], k) <=> Top(t) = k
  BY <1>1, PlacesPop DEF Top
<1>3. IsFiniteSet(Places(held[t], Top(t)))
  BY <1>0, PlacesPush
<1>4. Cardinality(Places(held'[t], Top(t))) = Cardinality(Places(held[t], Top(t))) - 1
  BY <1>2, <1>3, FS_RemoveElement
<1>5. \A k : Top(t) # k => Places(held'[t], k) = Places(held[t], k)
  BY <1>2
<1>6. CASE Top(t) = "W"
  <2>1. \A u \in Threads : Places(held'[u], "R") = Places(held[u], "R")
    BY <1>1, <1>5, <1>6
  <2>2. ReadGuards' = ReadGuards
    BY <2>1 DEF ReadGuards
  <2> QED
    BY <1>1, <1>2, <1>4, <1>5, <1>6, <2>2
<1>7. CASE Top(t) = "R"
  <2>1. ReadGuards' = ReadGuards \ {<<t, n>>}
    <3>1. Places(held'[t], "R") = Places(held[t], "R") \ {n}
      BY <1>2
    <3>2. \A u \in Threads \ {t} : Places(held'[u], "R") = Places(held[u], "R")
      BY <1>1
    <3>3. \A e : e \in ReadGuards <=>
                 \E u \in Threads : \E i \in Places(held[u], "R") : e = <<u, i>>
      BY DEF ReadGuards
    <3>4. \A e : e \in ReadGuards' <=>
                 \E u \in Threads : \E i \in Places(held'[u], "R") : e = <<u, i>>
      BY DEF ReadGuards
    <3> HIDE DEF n
    <3>5. ASSUME NEW e
          PROVE  e \in ReadGuards' <=> e \in ReadGuards \ {<<t, n>>}
      BY <3>1, <3>2, <3>3, <3>4
    <3> QED
      BY <3>5
  <2>2. <<t, n>> \in ReadGuards
    BY <1>2, <1>7 DEF ReadGuards
  <2>3. IsFiniteSet(ReadGuards') /\ Cardinality(ReadGuards') = Cardinality(ReadGuards) - 1
    BY <2>1, <2>2, FS_RemoveElement
  <2> QED
    BY <1>1, <1>2, <1>4, <1>5, <1>7, <2>3
<1> QED
  BY <1>0, <1>6, <1>7 DEF Kinds
-----------------------------------------------------------------------------
LEMMA InitIInv == Init => IInv
<1> SUFFICES ASSUME Init PROVE IInv
  OBVIOUS
<1> USE DEF Init, EmptyFlag
<1>1. TypeOK
  BY DEF TypeOK, PcValues, Causes
<1>2. \A t \in Threads : held[t] = <<>> /\ \A k : Places(held[t], k) = {}
  BY DEF Places
<1>3. \A t \in Threads : \A k : ~Holds(t, k)
  BY <1>2 DEF Holds
<1>4. ReadGuards = {}
  BY <1>2 DEF ReadGuards
<1>5. ReadersCounted
  BY <1>4, FS_EmptySet DEF ReadersCounted, WordCountsReaders
<1>6. WritersNamed /\ WriterExcludes /\ Unlocking /\ WriterActive
  BY <1>3, ThreadsAssumption DEF WritersNamed, WriterExcludes, Unlocking, WriterActive
<1>7. DepthCounted
  BY ThreadsAssumption DEF DepthCounted
<1> QED
  BY <1>1, <1>5, <1>6, <1>7 DEF IInv

(* Actions that leave the guards, the word and the depth alone. *)
LEMMA QuietStep ==
    ASSUME IInv, UNCHANGED <<flag, writeCount, held>>, TypeOK',
           \A t \in Threads :
              /\ pc'[t] \in {"winc", "rinc"} => flag.writer = t
              /\ pc'[t] = "wdec" => /\ flag.writer = t /\ flag.readers = 0
                                    /\ held[t] # <<>> /\ Top(t) = "W"
              /\ pc'[t] = "wstore" <=> pc[t] = "wstore"
              /\ pc[t] = "winc" => pc'[t] = "winc"
    PROVE  IInv'
<1> USE DEF IInv
<1>1. \A t \in Threads, k \in Kinds :
        Holds(t, k)' = Holds(t, k) /\ GuardCount(t, k)' = GuardCount(t, k) /\ Top(t)' = Top(t)
  BY DEF Holds, GuardCount, Top
<1>2. ReadGuards' = ReadGuards
  BY DEF ReadGuards
<1>3. ReadersCounted'
  BY <1>2 DEF ReadersCounted, WordCountsReaders
<1>4. WritersNamed' /\ WriterExcludes' /\ Unlocking' /\ WriterActive'
  BY <1>1 DEF WritersNamed, WriterExcludes, Unlocking, WriterActive, Kinds
<1>5. DepthCounted'
  BY <1>1 DEF DepthCounted, Kinds
<1> QED
  BY <1>3, <1>4, <1>5

(* A word nobody has: no thread has a guard that the word does not count. *)
LEMMA FreeWord ==
    ASSUME IInv, NEW t \in Threads, flag.writer = NoThread
    PROVE  /\ ~Holds(t, "W")
           /\ flag.readers = 0 => ~Holds(t, "R")
           /\ pc[t] \notin {"winc", "wdec", "wstore", "rinc"}
<1>1. ~Holds(t, "W") /\ pc[t] \notin {"winc", "wdec", "wstore", "rinc"}
  BY ThreadsAssumption DEF IInv, WritersNamed
<1>2. flag.readers = 0 => ReadGuards = {}
  BY FS_EmptySet DEF IInv, ReadersCounted, WordCountsReaders
<1>3. ReadGuards = {} => Places(held[t], "R") = {}
  <2>1. \A i \in Places(held[t], "R") : <<t, i>> \in ReadGuards
    BY DEF ReadGuards
  <2> QED
    BY <2>1
<1> QED
  BY <1>1, <1>2, <1>3 DEF Holds

LEMMA StepIInv == ASSUME IInv, NEW t \in Threads, Step(t) PROVE IInv'
<1> USE ThreadsAssumption DEF IInv
<1>0. /\ flag.writer \in Threads \cup {NoThread} /\ flag.readers \in Nat
      /\ writeCount \in Nat
      /\ held \in [Threads -> Seq(Kinds)]
      /\ pc \in [Threads -> PcValues]
      /\ IsFiniteSet(ReadGuards)
  BY DEF TypeOK, ReadersCounted
<1>1. CASE WriteLock(t)
  <2>1. TypeOK'
    BY <1>1 DEF WriteLock, Goto, TypeOK, PcValues
  <2> QED
    BY <1>0, <1>1, <2>1, QuietStep DEF WriteLock, Goto, WritersNamed, Unlocking, MayNest, PcValues
<1>2. CASE WriteCas(t)
  <2>1. TypeOK'
    BY <1>2 DEF WriteCas, Goto, TypeOK, PcValues, EmptyFlag, OwnedBy
  <2>2. \A u \in Threads : /\ ~Holds(u, "W") /\ ~Holds(u, "R")
                            /\ pc[u] \notin {"winc", "wdec", "wstore", "rinc"}
    BY <1>2, FreeWord DEF WriteCas, EmptyFlag
  <2>3. \A u \in Threads, k \in Kinds :
           Holds(u, k)' = Holds(u, k) /\ GuardCount(u, k)' = GuardCount(u, k)
    BY <1>2 DEF WriteCas, Holds, GuardCount
  <2>4. /\ flag'.writer = t /\ flag'.readers = 0
        /\ writeCount' = writeCount
        /\ pc' = [pc EXCEPT ![t] = "winc"]
    BY <1>2 DEF WriteCas, OwnedBy, Goto
  <2>5. ReadersCounted'
    BY <1>2, <2>4 DEF WriteCas, ReadersCounted, WordCountsReaders, ReadGuards, EmptyFlag
  <2>6. WritersNamed' /\ WriterExcludes' /\ Unlocking' /\ WriterActive'
    BY <1>0, <2>2, <2>3, <2>4 DEF WritersNamed, WriterExcludes, Unlocking, WriterActive, Kinds
  <2>7. DepthCounted'
    <3>1. writeCount = 0
      BY <1>2 DEF WriteCas, EmptyFlag, DepthCounted
    <3>2. GuardCount(t, "W") = 0
      BY <2>2, FS_EmptySet DEF Holds, GuardCount
    <3> QED
      BY <1>0, <2>3, <2>4, <3>1, <3>2 DEF DepthCounted, Kinds
  <2> QED
    BY <2>1, <2>5, <2>6, <2>7
<1>3. CASE WriteInc(t)
  <2>1. Push(t, "W") /\ flag' = flag /\ writeCount' = writeCount + 1
        /\ pc' = [pc EXCEPT ![t] = "idle"] /\ pc[t] = "winc"
    BY <1>3 DEF WriteInc, Goto
  <2>2. /\ held' \in [Threads -> Seq(Kinds)]
        /\ \A u \in Threads \ {t} : held'[u] = held[u]
        /\ Places(held'[t], "R") = Places(held[t], "R")
        /\ Places(held'[t], "W") # {}
        /\ Cardinality(Places(held'[t], "W")) = Cardinality(Places(held[t], "W")) + 1
        /\ ReadGuards' = ReadGuards
    BY <1>0, <2>1, PushGuard DEF Kinds
  <2>3. TypeOK'
    <3>1. UNCHANGED <<seen, crash>>
      BY <1>3 DEF WriteInc
    <3>2. pc' \in [Threads -> PcValues]
      BY <1>0, <2>1 DEF PcValues
    <3> QED
      BY <2>1, <2>2, <3>1, <3>2 DEF TypeOK
  <2>4. flag.writer = t
    BY <2>1 DEF WritersNamed
  <2>5. \A u \in Threads \ {t}, k \in Kinds :
           /\ Holds(u, k)' = Holds(u, k)
           /\ GuardCount(u, k)' = GuardCount(u, k)
           /\ Top(u)' = Top(u)
    BY <2>2 DEF Holds, GuardCount, Top
  <2>6. ReadersCounted'
    BY <2>1, <2>2 DEF ReadersCounted, WordCountsReaders
  <2>7. WritersNamed' /\ WriterExcludes' /\ WriterActive'
    BY <1>0, <2>1, <2>2, <2>4, <2>5 DEF WritersNamed, WriterExcludes, WriterActive, Holds, Kinds
  <2>8. Unlocking'
    BY <1>0, <2>1, <2>2, <2>4, <2>5 DEF Unlocking, Kinds
  <2>9. DepthCounted'
    BY <1>0, <2>1, <2>2, <2>4, <2>5 DEF DepthCounted, GuardCount, Kinds
  <2> QED
    BY <2>3, <2>6, <2>7, <2>8, <2>9
<1>4. CASE WriteUnlock(t)
  <2>1. TypeOK'
    BY <1>4 DEF WriteUnlock, Goto, TypeOK, PcValues, Causes
  <2>2. flag.writer = t
    <3>1. Len(held[t]) \in Places(held[t], "W")
      BY <1>0, <1>4, PlacesPop DEF WriteUnlock, Top
    <3> QED
      BY <3>1 DEF WritersNamed, Holds
  <2> QED
    BY <1>0, <1>4, <2>1, <2>2, QuietStep DEF WriteUnlock, Goto, WritersNamed, Unlocking, PcValues
<1>5. CASE WriteDec(t)
  <2>1. /\ flag.writer = t /\ flag' = flag
        /\ writeCount = GuardCount(t, "W") /\ writeCount' = writeCount - 1
        /\ held[t] # <<>> /\ Top(t) = "W" /\ flag.readers = 0
    BY <1>5 DEF WriteDec, WritersNamed, DepthCounted, Unlocking
  <2>2. Holds(t, "W")
    BY <1>5 DEF WriterActive, WriteDec, WritersNamed
  <2>3. writeCount > 0
    <3>1. IsFiniteSet(Places(held[t], "W"))
      BY <1>0, PlacesPush DEF Kinds
    <3> QED
      BY <1>0, <2>1, <2>2, <3>1, FS_EmptySet DEF Holds, GuardCount
  <2>4. CASE writeCount = 1
    <3>1. held' = held /\ pc' = [pc EXCEPT ![t] = "wstore"] /\ writeCount' = 0
      BY <1>5, <2>4 DEF WriteDec, Goto
    <3>2. TypeOK'
      BY <1>5, <2>1, <3>1 DEF WriteDec, TypeOK, PcValues
    <3>3. \A u \in Threads, k \in Kinds :
             /\ Holds(u, k)' = Holds(u, k)
             /\ GuardCount(u, k)' = GuardCount(u, k)
             /\ Top(u)' = Top(u)
      BY <3>1 DEF Holds, GuardCount, Top
    <3>4. ReadersCounted'
      BY <2>1, <3>1 DEF ReadersCounted, WordCountsReaders, ReadGuards
    <3>5. WritersNamed' /\ WriterExcludes' /\ Unlocking' /\ WriterActive'
      BY <1>0, <2>1, <2>2, <2>4, <3>1, <3>3
         DEF WritersNamed, WriterExcludes, Unlocking, WriterActive, Kinds
    <3>6. DepthCounted'
      BY <1>0, <2>1, <3>1, <3>3 DEF DepthCounted, Kinds
    <3> QED
      BY <3>2, <3>4, <3>5, <3>6
  <2>5. CASE writeCount # 1
    <3>1. Pop(t) /\ pc' = [pc EXCEPT ![t] = "idle"]
      BY <1>5, <2>5 DEF WriteDec, Goto
    <3>2. /\ held' \in [Threads -> Seq(Kinds)]
          /\ \A u \in Threads \ {t} : held'[u] = held[u]
          /\ Places(held'[t], "R") = Places(held[t], "R")
          /\ Cardinality(Places(held'[t], "W")) = Cardinality(Places(held[t], "W")) - 1
          /\ ReadGuards' = ReadGuards
      BY <1>0, <2>1, <3>1, PopGuard
    <3>3. TypeOK'
      <4>1. UNCHANGED <<seen, crash>>
        BY <1>5 DEF WriteDec
      <4>2. pc' \in [Threads -> PcValues]
        BY <1>0, <3>1 DEF PcValues
      <4>3. writeCount' \in Nat
        BY <1>0, <2>1, <2>3
      <4> QED
        BY <2>1, <3>2, <4>1, <4>2, <4>3 DEF TypeOK
    <3>4. \A u \in Threads \ {t}, k \in Kinds :
             /\ Holds(u, k)' = Holds(u, k)
             /\ GuardCount(u, k)' = GuardCount(u, k)
             /\ Top(u)' = Top(u)
      BY <3>2 DEF Holds, GuardCount, Top
    <3>5. ReadersCounted'
      BY <2>1, <3>2 DEF ReadersCounted, WordCountsReaders
    <3>6. Holds(t, "W")'
      <4>1. Cardinality(Places(held'[t], "W")) # 0
        BY <1>0, <2>1, <2>3, <2>5, <3>2 DEF GuardCount
      <4> QED
        BY <4>1, FS_EmptySet DEF Holds
    <3>7. WritersNamed' /\ WriterExcludes' /\ WriterActive'
      BY <1>0, <2>1, <3>1, <3>2, <3>4, <3>6
         DEF WritersNamed, WriterExcludes, WriterActive, Holds, Kinds
    <3>8. Unlocking'
      BY <1>0, <2>1, <3>1, <3>2, <3>4 DEF Unlocking, Kinds
    <3>9. DepthCounted'
      BY <1>0, <2>1, <3>1, <3>2, <3>4 DEF DepthCounted, GuardCount, Kinds
    <3> QED
      BY <3>3, <3>5, <3>7, <3>8, <3>9
  <2> QED
    BY <2>4, <2>5
<1>6. CASE WriteStore(t)
  <2>1. /\ flag.writer = t /\ flag' = EmptyFlag /\ flag.readers = 0
        /\ writeCount' = writeCount /\ writeCount = 0
        /\ held[t] # <<>> /\ Top(t) = "W" /\ GuardCount(t, "W") = 1
        /\ Pop(t) /\ pc' = [pc EXCEPT ![t] = "idle"]
    BY <1>6 DEF WriteStore, WritersNamed, DepthCounted, Unlocking, Goto
  <2>2. /\ held' \in [Threads -> Seq(Kinds)]
        /\ \A u \in Threads \ {t} : held'[u] = held[u]
        /\ Places(held'[t], "R") = Places(held[t], "R")
        /\ Cardinality(Places(held'[t], "W")) = Cardinality(Places(held[t], "W")) - 1
        /\ ReadGuards' = ReadGuards
    BY <1>0, <2>1, PopGuard
  <2>3. TypeOK'
    <3>1. UNCHANGED <<seen, crash>>
      BY <1>6 DEF WriteStore
    <3>2. pc' \in [Threads -> PcValues]
      BY <1>0, <2>1 DEF PcValues
    <3> QED
      BY <2>1, <2>2, <3>1, <3>2 DEF TypeOK, EmptyFlag
  <2>4. \A u \in Threads \ {t}, k \in Kinds :
           /\ Holds(u, k)' = Holds(u, k)
           /\ GuardCount(u, k)' = GuardCount(u, k)
           /\ Top(u)' = Top(u)
    BY <2>2 DEF Holds, GuardCount, Top
  <2>5. ReadersCounted'
    BY <2>1, <2>2 DEF ReadersCounted, WordCountsReaders, EmptyFlag
  <2>6. ~Holds(t, "W")'
    <3>1. IsFiniteSet(Places(held'[t], "W"))
      BY <2>2, PlacesPush DEF Kinds
    <3>2. Cardinality(Places(held'[t], "W")) = 0
      BY <2>1, <2>2 DEF GuardCount
    <3> QED
      BY <3>1, <3>2, FS_EmptySet DEF Holds
  <2>7. WritersNamed'
    BY <1>0, <2>1, <2>4, <2>6 DEF WritersNamed, Kinds
  <2>8. WriterExcludes' /\ Unlocking' /\ WriterActive' /\ DepthCounted'
    <3>1. \A u \in Threads : pc'[u] \notin {"wdec", "wstore"}
      BY <1>0, <2>1 DEF WritersNamed
    <3>2. flag'.writer = NoThread
      BY <2>1 DEF EmptyFlag
    <3> QED
      BY <2>1, <3>1, <3>2 DEF WriterExcludes, Unlocking, WriterActive, DepthCounted
  <2> QED
    BY <2>3, <2>5, <2>7, <2>8
<1>7. CASE ReadLock(t)
  <2>1. TypeOK'
    BY <1>7 DEF ReadLock, Goto, TypeOK, PcValues
  <2> QED
    BY <1>0, <1>7, <2>1, QuietStep DEF ReadLock, Goto, WritersNamed, Unlocking, MayNest, PcValues
<1>8. ASSUME pc[t] \in {"rinc", "rcas"}, flag.writer \in {t, NoThread},
             flag' = [flag EXCEPT !.readers = @ + 1], Push(t, "R"), Goto(t, "idle"),
             UNCHANGED <<writeCount, seen, crash>>
      PROVE  IInv'
  <2>1. /\ held' \in [Threads -> Seq(Kinds)]
        /\ \A u \in Threads \ {t} : held'[u] = held[u]
        /\ Places(held'[t], "W") = Places(held[t], "W")
        /\ IsFiniteSet(ReadGuards')
        /\ Cardinality(ReadGuards') = Cardinality(ReadGuards) + 1
    BY <1>0, <1>8, PushGuard DEF Kinds
  <2>2. /\ flag'.writer = flag.writer /\ flag'.readers = flag.readers + 1
        /\ pc' = [pc EXCEPT ![t] = "idle"] /\ writeCount' = writeCount
    BY <1>0, <1>8 DEF Goto, TypeOK
  <2>3. TypeOK'
    BY <1>0, <1>8, <2>1, <2>2 DEF TypeOK, PcValues
  <2>4. ReadersCounted'
    BY <2>1, <2>2 DEF ReadersCounted, WordCountsReaders
  <2>5. \A u \in Threads \ {t}, k \in Kinds :
           /\ Holds(u, k)' = Holds(u, k)
           /\ GuardCount(u, k)' = GuardCount(u, k)
           /\ Top(u)' = Top(u)
    BY <2>1 DEF Holds, GuardCount, Top
  <2>6. Holds(t, "W")' = Holds(t, "W") /\ GuardCount(t, "W")' = GuardCount(t, "W")
    BY <2>1 DEF Holds, GuardCount
  <2>7. WritersNamed' /\ WriterExcludes' /\ WriterActive'
    BY <1>0, <1>8, <2>2, <2>5, <2>6 DEF WritersNamed, WriterExcludes, WriterActive, Kinds
  <2>8. Unlocking'
    <3>1. \A u \in Threads : pc'[u] \notin {"wdec", "wstore"}
      BY <1>0, <1>8, <2>2 DEF WritersNamed
    <3> QED
      BY <3>1 DEF Unlocking
  <2>9. DepthCounted'
    BY <1>0, <1>8, <2>2, <2>5, <2>6 DEF DepthCounted, Kinds
  <2> QED
    BY <2>3, <2>4, <2>7, <2>8, <2>9
<1>9. CASE ReadInc(t)
  BY <1>8, <1>9 DEF ReadInc, WritersNamed
<1>10. CASE ReadLoad(t)
  <2>1. TypeOK'
    BY <1>0, <1>10 DEF ReadLoad, Goto, TypeOK, PcValues
  <2> QED
    BY <1>0, <1>10, <2>1, QuietStep DEF ReadLoad, Goto, WritersNamed, Unlocking, PcValues
<1>11. CASE ReadCas(t)
  <2>1. CASE flag = Expected(t)
    BY <1>8, <1>11, <2>1 DEF ReadCas, Expected
  <2>2. CASE flag # Expected(t)
    <3>1. TypeOK'
      BY <1>0, <1>11, <2>2 DEF ReadCas, Goto, TypeOK, PcValues
    <3> QED
      BY <1>0, <1>11, <2>2, <3>1, QuietStep DEF ReadCas, Goto, WritersNamed, Unlocking, PcValues
  <2> QED
    BY <2>1, <2>2
<1>12. CASE ReadUnlock(t)
  <2>1. CASE flag.readers = 0
    <3>1. TypeOK' /\ UNCHANGED <<flag, writeCount, held, pc>>
      BY <1>0, <1>12, <2>1 DEF ReadUnlock, TypeOK, Causes
    <3> QED
      BY <1>0, <3>1, QuietStep DEF WritersNamed, Unlocking
  <2>2. CASE flag.readers # 0
    <3>1. /\ Pop(t) /\ held[t] # <<>> /\ Top(t) = "R" /\ pc[t] = "idle"
          /\ flag' = [flag EXCEPT !.readers = @ - 1]
          /\ UNCHANGED <<writeCount, pc, seen, crash>>
      BY <1>12, <2>2 DEF ReadUnlock
    <3>2. flag'.writer = flag.writer /\ flag'.readers = flag.readers - 1
      BY <1>0, <3>1 DEF TypeOK
    <3>3. /\ held' \in [Threads -> Seq(Kinds)]
          /\ \A u \in Threads \ {t} : held'[u] = held[u]
          /\ Places(held'[t], "W") = Places(held[t], "W")
          /\ Places(held[t], "R") # {}
          /\ IsFiniteSet(ReadGuards')
          /\ Cardinality(ReadGuards') = Cardinality(ReadGuards) - 1
      BY <1>0, <3>1, PopGuard
    <3>4. TypeOK'
      <4>1. flag'.readers \in Nat
        BY <1>0, <2>2, <3>2
      <4>2. flag' \in [writer : Threads \cup {NoThread}, readers : Nat]
        BY <3>1, <3>2, <4>1 DEF TypeOK
      <4> QED
        BY <3>1, <3>3, <4>2 DEF TypeOK
    <3>5. ReadersCounted'
      BY <3>2, <3>3 DEF ReadersCounted, WordCountsReaders
    <3>6. \A u \in Threads \ {t}, k \in Kinds :
             /\ Holds(u, k)' = Holds(u, k)
             /\ GuardCount(u, k)' = GuardCount(u, k)
             /\ Top(u)' = Top(u)
      BY <3>3 DEF Holds, GuardCount, Top
    <3>7. Holds(t, "W")' = Holds(t, "W") /\ GuardCount(t, "W")' = GuardCount(t, "W")
      BY <3>3 DEF Holds, GuardCount
    <3>8. WritersNamed' /\ WriterExcludes' /\ WriterActive'
      BY <1>0, <3>1, <3>2, <3>3, <3>6, <3>7
         DEF WritersNamed, WriterExcludes, WriterActive, Holds, Kinds
    <3>9. Unlocking'
      BY <1>0, <2>2, <3>1, <3>2, <3>6 DEF Unlocking, Kinds
    <3>10. DepthCounted'
      BY <1>0, <3>1, <3>2, <3>6, <3>7 DEF DepthCounted, Kinds
    <3> QED
      BY <3>4, <3>5, <3>8, <3>9, <3>10
  <2> QED
    BY <2>1, <2>2
<1>13. CASE LockTimeout(t)
  <2>1. TypeOK' /\ UNCHANGED <<flag, writeCount, held, pc>>
    BY <1>0, <1>13 DEF LockTimeout, TypeOK, Causes
  <2> QED
    BY <1>0, <2>1, QuietStep DEF WritersNamed, Unlocking
<1> QED
  BY <1>1, <1>2, <1>3, <1>4, <1>5, <1>6, <1>7, <1>9, <1>10, <1>11, <1>12, <1>13 DEF Step

LEMMA StutterIInv == IInv /\ UNCHANGED vars => IInv'
<1> SUFFICES ASSUME IInv, UNCHANGED vars PROVE IInv'
  OBVIOUS
<1>1. TypeOK'
  BY DEF IInv, TypeOK, vars
<1> QED
  BY <1>1, QuietStep DEF vars, IInv, WritersNamed, Unlocking

(* The strengthening of the invariants holds in every reachable state. *)
THEOREM Inductive == Spec => []IInv
<1>1. IInv /\ [Next]_vars => IInv'
  BY StepIInv, StutterIInv DEF Next, Stopped
<1> QED
  BY InitIInv, <1>1, PTL DEF Spec
(* The type invariant holds for every set of threads and nesting bound. *)
THEOREM TypeCorrect == Spec => []TypeOK
<1>1. IInv => TypeOK
  BY DEF IInv
<1> QED
  BY <1>1, Inductive, PTL

(* A write guard excludes every guard of another thread: WRITE_LOCK and    *)
(* READ_LOCK of Lock.cpp keep their promise.                               *)
THEOREM Exclusion == Spec => []MutualExclusion
<1>1. IInv => MutualExclusion
  BY DEF IInv, MutualExclusion, WritersNamed, WriterExcludes
<1> QED
  BY <1>1, Inductive, PTL

(* The plain uint16 _writeCount is only touched by the thread the word     *)
(* names.                                                                  *)
THEOREM RaceFreedom == Spec => []WriteCountRaceFree
<1>1. IInv => WriteCountRaceFree
  BY DEF IInv, WriteCountRaceFree, WritersNamed
<1> QED
  BY <1>1, Inductive, PTL

(* The lower half of _lockFlag is the number of read guards alive. *)
THEOREM ReadCountExact == Spec => []WordCountsReaders
<1>1. IInv => WordCountsReaders
  BY DEF IInv, ReadersCounted
<1> QED
  BY <1>1, Inductive, PTL

-----------------------------------------------------------------------------
(* A thread with a write guard took one before any other guard: a thread   *)
(* with read guards alone never wins the word.                             *)
FirstIsWrite ==
    \A t \in Threads :
        /\ Holds(t, "W") => held[t][1] = "W"
        /\ pc[t] = "winc" => Holds(t, "W") \/ held[t] = <<>>

CInv == FirstIsWrite /\ CrashIsNesting

LEMMA InitCInv == Init => CInv
  BY DEF Init, CInv, FirstIsWrite, CrashIsNesting, Holds, Places

LEMMA QuietFirst ==
    ASSUME FirstIsWrite, UNCHANGED held,
           \A t \in Threads : pc'[t] = "winc" =>
              pc[t] = "winc" \/ Holds(t, "W") \/ held[t] = <<>>
    PROVE  FirstIsWrite'
<1>1. \A t \in Threads : Holds(t, "W")' = Holds(t, "W") /\ held'[t] = held[t]
  BY DEF Holds
<1> QED
  BY <1>1 DEF FirstIsWrite

LEMMA StackPush ==
    ASSUME IInv, FirstIsWrite, NEW t \in Threads, NEW x \in Kinds, Push(t, x),
           pc' = [pc EXCEPT ![t] = "idle"],
           x = "W" => Holds(t, "W") \/ held[t] = <<>>
    PROVE  FirstIsWrite'
<1>1. held \in [Threads -> Seq(Kinds)] /\ pc \in [Threads -> PcValues]
  BY DEF IInv, TypeOK
<1>2. \A u \in Threads \ {t} : held'[u] = held[u] /\ Holds(u, "W")' = Holds(u, "W")
  BY <1>1 DEF Push, Holds
<1>3. held'[t] = Append(held[t], x)
  BY <1>1 DEF Push
<1>4. CASE held[t] = <<>>
  <2>1. held'[t] = <<x>>
    BY <1>3, <1>4
  <2>2. Holds(t, "W")' => held'[t][1] = "W"
    BY <2>1 DEF Holds, Places
  <2> QED
    BY <1>1, <1>2, <2>2 DEF FirstIsWrite
<1>5. CASE held[t] # <<>>
  <2>1. held[t] \in Seq(Kinds) /\ Len(held[t]) \in Nat \ {0}
    BY <1>1, <1>5
  <2>2. held'[t][1] = held[t][1]
    BY <1>3, <2>1
  <2>3. Holds(t, "W")' => Holds(t, "W")
    <3>1. x # "W" => Places(held'[t], "W") = Places(held[t], "W")
      BY <1>1, <1>3, PlacesPush
    <3> QED
      BY <1>5, <3>1 DEF Holds
  <2> QED
    BY <1>1, <1>2, <2>2, <2>3 DEF FirstIsWrite
<1> QED
  BY <1>4, <1>5

LEMMA StackPop ==
    ASSUME IInv, FirstIsWrite, NEW t \in Threads, held[t] # <<>>, Pop(t),
           pc' = pc \/ pc' = [pc EXCEPT ![t] = "idle"], pc[t] # "winc"
    PROVE  FirstIsWrite'
<1>1. held \in [Threads -> Seq(Kinds)] /\ pc \in [Threads -> PcValues]
  BY DEF IInv, TypeOK
<1>2. \A u \in Threads \ {t} : held'[u] = held[u] /\ Holds(u, "W")' = Holds(u, "W")
  BY <1>1 DEF Pop, Holds
<1>3. held'[t] = SubSeq(held[t], 1, Len(held[t]) - 1)
  BY <1>1 DEF Pop
<1>4. Places(held'[t], "W") = Places(held[t], "W") \ {Len(held[t])}
  BY <1>1, <1>3, PlacesPop
<1>5. Holds(t, "W")' => held'[t][1] = "W"
  <2> SUFFICES ASSUME Holds(t, "W")' PROVE held'[t][1] = "W"
    OBVIOUS
  <2>1. PICK i \in Places(held[t], "W") : i # Len(held[t])
    BY <1>4 DEF Holds
  <2>2. Holds(t, "W")
    BY <2>1 DEF Holds
  <2>3. i \in 1 .. Len(held[t]) /\ Len(held[t]) \in Nat
    BY <1>1, <2>1 DEF Places
  <2>4. 1 \in 1 .. Len(held[t]) - 1
    BY <2>1, <2>3
  <2>5. held'[t][1] = held[t][1]
    BY <1>1, <1>3, <2>4
  <2> QED
    BY <2>2, <2>5 DEF FirstIsWrite
<1> QED
  BY <1>1, <1>2, <1>5 DEF FirstIsWrite

(* At the crash of WriteUnlock the thread has a write guard on top, a read *)
(* guard, and a write guard below it.                                      *)
LEMMA BadNesting ==
    ASSUME IInv, FirstIsWrite, NEW t \in Threads,
           held[t] # <<>>, Top(t) = "W", flag.readers # 0
    PROVE  \E i, j, k \in DOMAIN held[t] :
               /\ i < j /\ j < k
               /\ held[t][i] = "W" /\ held[t][j] = "R" /\ held[t][k] = "W"
<1>1. held \in [Threads -> Seq(Kinds)]
  BY DEF IInv, TypeOK
<1> DEFINE n == Len(held[t])
<1>2. n \in Nat \ {0} /\ n \in Places(held[t], "W") /\ DOMAIN held[t] = 1 .. n
  BY <1>1, PlacesPop DEF Top
<1>3. Holds(t, "W") /\ flag.writer = t
  BY <1>2 DEF Holds, IInv, WritersNamed
<1>4. ReadGuards # {}
  BY FS_EmptySet DEF IInv, ReadersCounted, WordCountsReaders
<1>5. PICK u \in Threads : Places(held[u], "R") # {}
  BY <1>4 DEF ReadGuards
<1>6. u = t
  BY <1>3, <1>5 DEF IInv, WriterExcludes, Holds
<1>7. PICK j \in DOMAIN held[t] : held[t][j] = "R"
  BY <1>5, <1>6 DEF Places
<1>8. held[t][1] = "W" /\ held[t][n] = "W"
  BY <1>2, <1>3 DEF FirstIsWrite, Places
<1>9. 1 < j /\ j < n /\ 1 \in DOMAIN held[t] /\ n \in DOMAIN held[t]
  BY <1>2, <1>7, <1>8
<1> QED
  BY <1>7, <1>8, <1>9

LEMMA StepCInv == ASSUME IInv, CInv, NEW t \in Threads, Step(t) PROVE CInv'
<1> USE DEF CInv
<1>0. /\ held \in [Threads -> Seq(Kinds)] /\ pc \in [Threads -> PcValues]
      /\ flag.readers \in Nat
  BY DEF IInv, TypeOK
<1>1. ASSUME crash' = crash, crash = "none" PROVE CrashIsNesting'
  BY <1>1 DEF CrashIsNesting
<1>2. CASE WriteLock(t)
  <2>1. flag.writer = t => Holds(t, "W")
    BY <1>2 DEF IInv, WriterActive, WriteLock, MayNest
  <2>2. \A u \in Threads : pc'[u] = "winc" => pc[u] = "winc" \/ Holds(u, "W")
    BY <1>0, <1>2, <2>1 DEF WriteLock, Goto
  <2> QED
    BY <1>1, <1>2, <2>2, QuietFirst DEF WriteLock, MayNest, Running
<1>3. CASE WriteCas(t)
  <2>1. ~Holds(t, "W") /\ ~Holds(t, "R")
    BY <1>3, FreeWord DEF WriteCas, EmptyFlag
  <2>2. held[t] = <<>>
    <3>1. SUFFICES ASSUME held[t] # <<>> PROVE FALSE
      OBVIOUS
    <3>2. Top(t) \in Kinds /\ Len(held[t]) \in Places(held[t], Top(t))
      BY <1>0, <3>1, PlacesPop DEF Top
    <3> QED
      BY <2>1, <3>2 DEF Holds, Kinds
  <2>3. \A u \in Threads : pc'[u] = "winc" => pc[u] = "winc" \/ held[u] = <<>>
    BY <1>0, <1>3, <2>2 DEF WriteCas, Goto
  <2> QED
    BY <1>1, <1>3, <2>3, QuietFirst DEF WriteCas, Running
<1>4. CASE WriteInc(t)
  <2>1. Holds(t, "W") \/ held[t] = <<>>
    BY <1>4 DEF WriteInc, FirstIsWrite
  <2> QED
    BY <1>1, <1>4, <2>1, StackPush DEF WriteInc, Goto, Running, Kinds
<1>5. CASE WriteUnlock(t)
  <2>1. FirstIsWrite'
    <3>1. \A u \in Threads : pc'[u] = "winc" => pc[u] = "winc"
      BY <1>0, <1>5 DEF WriteUnlock, Goto
    <3> QED
      BY <1>5, <3>1, QuietFirst DEF WriteUnlock
  <2>2. CASE flag.readers = 0
    BY <1>1, <1>5, <2>1, <2>2 DEF WriteUnlock, Running
  <2>3. CASE flag.readers # 0
    <3>1. crash' = "INVALID_UNLOCK_ORDER" /\ held' = held /\ held[t] # <<>> /\ Top(t) = "W"
      BY <1>5, <2>3 DEF WriteUnlock
    <3>2. \E i, j, k \in DOMAIN held[t] :
               /\ i < j /\ j < k
               /\ held[t][i] = "W" /\ held[t][j] = "R" /\ held[t][k] = "W"
      BY <2>3, <3>1, BadNesting
    <3>3. CrashIsNesting'
      BY <3>1, <3>2 DEF CrashIsNesting
    <3> QED
      BY <2>1, <3>3
  <2> QED
    BY <2>2, <2>3
<1>6. CASE WriteDec(t)
  <2>1. held[t] # <<>> /\ pc[t] = "wdec"
    BY <1>6 DEF IInv, Unlocking, WriteDec
  <2>2. CASE writeCount = 1
    <3>1. \A u \in Threads : pc'[u] = "winc" => pc[u] = "winc"
      BY <1>0, <1>6, <2>2 DEF WriteDec, Goto
    <3> QED
      BY <1>1, <1>6, <2>2, <3>1, QuietFirst DEF WriteDec, Running
  <2>3. CASE writeCount # 1
    BY <1>1, <1>6, <2>1, <2>3, StackPop DEF WriteDec, Goto, Running
  <2> QED
    BY <2>2, <2>3
<1>7. CASE WriteStore(t)
  <2>1. held[t] # <<>> /\ pc[t] = "wstore"
    BY <1>7 DEF IInv, Unlocking, WriteStore
  <2> QED
    BY <1>1, <1>7, <2>1, StackPop DEF WriteStore, Goto, Running
<1>8. CASE ReadLock(t) \/ ReadLoad(t)
  <2>1. \A u \in Threads : pc'[u] = "winc" => pc[u] = "winc"
    BY <1>0, <1>8 DEF ReadLock, ReadLoad, Goto
  <2> QED
    BY <1>1, <1>8, <2>1, QuietFirst DEF ReadLock, ReadLoad, MayNest, Running
<1>9. CASE ReadInc(t)
  BY <1>1, <1>9, StackPush DEF ReadInc, Goto, Running, Kinds
<1>10. CASE ReadCas(t)
  <2>1. CASE flag = Expected(t)
    BY <1>1, <1>10, <2>1, StackPush DEF ReadCas, Goto, Running, Kinds
  <2>2. CASE flag # Expected(t)
    <3>1. \A u \in Threads : pc'[u] = "winc" => pc[u] = "winc"
      BY <1>0, <1>10, <2>2 DEF ReadCas, Goto
    <3> QED
      BY <1>1, <1>10, <2>2, <3>1, QuietFirst DEF ReadCas, Running
  <2> QED
    BY <2>1, <2>2
<1>11. CASE ReadUnlock(t)
  <2>1. flag.readers # 0
    <3>1. Len(held[t]) \in Places(held[t], "R")
      BY <1>0, <1>11, PlacesPop DEF ReadUnlock, Top
    <3>2. <<t, Len(held[t])>> \in ReadGuards
      BY <3>1 DEF ReadGuards
    <3> QED
      BY <3>2, FS_EmptySet DEF IInv, ReadersCounted, WordCountsReaders
  <2> QED
    BY <1>1, <1>11, <2>1, StackPop DEF ReadUnlock, Running
<1>12. CASE LockTimeout(t)
  <2>1. FirstIsWrite'
    BY <1>12, QuietFirst DEF LockTimeout
  <2>2. CrashIsNesting'
    BY <1>12 DEF LockTimeout, CrashIsNesting
  <2> QED
    BY <2>1, <2>2
<1> QED
  BY <1>2, <1>3, <1>4, <1>5, <1>6, <1>7, <1>8, <1>9, <1>10, <1>11, <1>12 DEF Step

(* Scoped guards crash the process only with the nesting W .. R .. W of    *)
(* one thread, and never with MULTIPLE_UNLOCK.                             *)
THEOREM CrashCause == Spec => []CrashIsNesting
<1>1. CInv /\ UNCHANGED vars => CInv'
  BY DEF vars, CInv, FirstIsWrite, CrashIsNesting, Holds
<1>2. IInv /\ CInv /\ [Next]_vars => CInv'
  BY <1>1, StepCInv DEF Next, Stopped
<1>3. CInv => CrashIsNesting
  BY DEF CInv
<1> QED
  BY InitCInv, Inductive, <1>2, <1>3, PTL DEF Spec
-----------------------------------------------------------------------------
LEMMA CountZero ==
    ASSUME IInv, NEW t \in Threads, NEW k \in Kinds
    PROVE  GuardCount(t, k) \in Nat /\ (GuardCount(t, k) = 0 <=> ~Holds(t, k))
<1>1. IsFiniteSet(Places(held[t], k))
  BY PlacesPush DEF IInv, TypeOK
<1> QED
  BY <1>1, FS_CardinalityType, FS_EmptySet DEF GuardCount, Holds

LEMMA AbsTypes ==
    ASSUME IInv
    PROVE  /\ AbsWrites \in [Threads -> Nat]
           /\ AbsReads \in [Threads -> Nat]
           /\ \A t \in Threads :
                 /\ AbsWrites[t] = 0 <=> ~Holds(t, "W") /\ pc[t] # "winc"
                 /\ AbsReads[t] = 0 <=> ~Holds(t, "R")
  BY CountZero DEF AbsWrites, AbsReads, Kinds

(* The guards of nobody change, or those of one thread by one. *)
LEMMA AbsFrame ==
    ASSUME IInv, NEW t \in Threads,
           pc' \in [Threads -> PcValues], held' \in [Threads -> Seq(Kinds)],
           \A u \in Threads \ {t} : held'[u] = held[u] /\ pc'[u] = pc[u]
    PROVE  /\ AbsWrites' = [AbsWrites EXCEPT ![t] = AbsWrites'[t]]
           /\ AbsReads' = [AbsReads EXCEPT ![t] = AbsReads'[t]]
  BY DEF AbsWrites, AbsReads, GuardCount

LEMMA OthersEmpty ==
    ASSUME IInv, NEW t \in Threads, flag.writer = t
    PROVE  \A u \in Threads \ {t} : AbsWrites[u] = 0 /\ AbsReads[u] = 0
  BY AbsTypes DEF IInv, WritersNamed, WriterExcludes

LEMMA AbsStep ==
    ASSUME IInv, NEW t \in Threads, Step(t)
    PROVE  Abs!Next \/ UNCHANGED <<AbsWrites, AbsReads>>
<1>0. /\ held \in [Threads -> Seq(Kinds)] /\ pc \in [Threads -> PcValues]
      /\ IsFiniteSet(ReadGuards) /\ flag.writer \in Threads \cup {NoThread}
      /\ writeCount \in Nat
  BY DEF IInv, TypeOK, ReadersCounted
<1>1. IInv'
  BY StepIInv
<1>2. /\ held' \in [Threads -> Seq(Kinds)] /\ pc' \in [Threads -> PcValues]
  BY <1>1 DEF IInv, TypeOK
<1>3. /\ AbsWrites \in [Threads -> Nat] /\ AbsReads \in [Threads -> Nat]
      /\ AbsWrites' \in [Threads -> Nat] /\ AbsReads' \in [Threads -> Nat]
  <2>1. \A u \in Threads, k \in Kinds : GuardCount(u, k)' \in Nat
    BY <1>2, PlacesPush, FS_CardinalityType DEF GuardCount
  <2> QED
    BY <2>1, AbsTypes DEF AbsWrites, AbsReads, Kinds
<1>4. /\ AbsWrites[t] = GuardCount(t, "W") + (IF pc[t] = "winc" THEN 1 ELSE 0)
      /\ AbsWrites'[t] = GuardCount(t, "W")' + (IF pc'[t] = "winc" THEN 1 ELSE 0)
      /\ AbsReads[t] = GuardCount(t, "R") /\ AbsReads'[t] = GuardCount(t, "R")'
      /\ GuardCount(t, "W") \in Nat
  BY CountZero DEF AbsWrites, AbsReads, Kinds
<1>5. (\A u \in Threads \ {t} : held'[u] = held[u] /\ pc'[u] = pc[u])
        => /\ AbsWrites' = [AbsWrites EXCEPT ![t] = AbsWrites'[t]]
           /\ AbsReads' = [AbsReads EXCEPT ![t] = AbsReads'[t]]
  BY <1>2, AbsFrame
<1>6. ASSUME held' = held, \A u \in Threads \ {t} : pc'[u] = pc[u],
             pc[t] = "winc" <=> pc'[t] = "winc"
      PROVE  UNCHANGED <<AbsWrites, AbsReads>>
  <2>1. AbsWrites'[t] = AbsWrites[t] /\ AbsReads'[t] = AbsReads[t]
    BY <1>4, <1>6 DEF GuardCount
  <2> QED
    BY <1>3, <1>5, <1>6, <2>1
<1>7. ASSUME held' = held, pc[t] # "winc", pc' = [pc EXCEPT ![t] = "winc"],
             \A u \in Threads \ {t} : AbsWrites[u] = 0 /\ AbsReads[u] = 0,
             Holds(t, "W") \/ ~Holds(t, "R")
      PROVE  Abs!AcquireWrite(t)
  <2>1. AbsWrites'[t] = AbsWrites[t] + 1 /\ AbsReads'[t] = AbsReads[t]
    BY <1>0, <1>4, <1>7 DEF GuardCount
  <2>2. AbsWrites' = [AbsWrites EXCEPT ![t] = @ + 1] /\ AbsReads' = AbsReads
    BY <1>0, <1>3, <1>5, <1>7, <2>1
  <2>3. AbsWrites[t] > 0 \/ AbsReads[t] = 0
    BY <1>3, <1>7, AbsTypes
  <2> QED
    BY <1>7, <2>2, <2>3 DEF Abs!AcquireWrite
<1>8. ASSUME Pop(t), held[t] # <<>>, Top(t) = "W", pc[t] # "winc",
             pc' = [pc EXCEPT ![t] = "idle"]
      PROVE  Abs!ReleaseWrite(t)
  <2>1. /\ \A u \in Threads \ {t} : held'[u] = held[u] /\ pc'[u] = pc[u]
        /\ GuardCount(t, "W")' = GuardCount(t, "W") - 1
        /\ GuardCount(t, "R")' = GuardCount(t, "R")
        /\ Holds(t, "W")
    BY <1>0, <1>8, PopGuard DEF GuardCount, Holds
  <2>2. AbsWrites'[t] = AbsWrites[t] - 1 /\ AbsReads'[t] = AbsReads[t]
    BY <1>0, <1>4, <1>8, <2>1
  <2>3. AbsWrites' = [AbsWrites EXCEPT ![t] = @ - 1] /\ AbsReads' = AbsReads
    BY <1>3, <1>5, <2>1, <2>2
  <2>4. AbsWrites[t] > 0
    BY <1>3, <2>1, AbsTypes
  <2> QED
    BY <2>3, <2>4 DEF Abs!ReleaseWrite
<1>9. ASSUME Push(t, "R"), pc[t] # "winc", pc' = [pc EXCEPT ![t] = "idle"],
             flag.writer \in {t, NoThread}
      PROVE  Abs!AcquireRead(t)
  <2>1. /\ \A u \in Threads \ {t} : held'[u] = held[u] /\ pc'[u] = pc[u]
        /\ GuardCount(t, "R")' = GuardCount(t, "R") + 1
        /\ GuardCount(t, "W")' = GuardCount(t, "W")
    BY <1>0, <1>9, PushGuard DEF GuardCount, Kinds
  <2>2. AbsWrites'[t] = AbsWrites[t] /\ AbsReads'[t] = AbsReads[t] + 1
    BY <1>0, <1>4, <1>9, <2>1
  <2>3. AbsReads' = [AbsReads EXCEPT ![t] = @ + 1] /\ AbsWrites' = AbsWrites
    BY <1>3, <1>5, <2>1, <2>2
  <2>4. \A u \in Threads \ {t} : AbsWrites[u] = 0
    BY <1>9, AbsTypes, ThreadsAssumption DEF IInv, WritersNamed
  <2> QED
    BY <2>3, <2>4 DEF Abs!AcquireRead
<1>10. CASE WriteLock(t)
  <2>1. CASE flag.writer = t
    <3>1. Holds(t, "W")
      BY <1>10, <2>1 DEF WriteLock, MayNest, IInv, WriterActive
    <3>2. Abs!AcquireWrite(t)
      BY <1>7, <1>10, <2>1, <3>1, OthersEmpty DEF WriteLock, MayNest, Goto
    <3> QED
      BY <3>2 DEF Abs!Next
  <2>2. CASE flag.writer # t
    BY <1>0, <1>6, <1>10, <2>2 DEF WriteLock, MayNest, Goto
  <2> QED
    BY <2>1, <2>2
<1>11. CASE WriteCas(t)
  <2>1. \A u \in Threads : /\ ~Holds(u, "W") /\ ~Holds(u, "R") /\ pc[u] # "winc"
    BY <1>11, FreeWord DEF WriteCas, EmptyFlag
  <2>2. \A u \in Threads \ {t} : AbsWrites[u] = 0 /\ AbsReads[u] = 0
    BY <2>1, AbsTypes
  <2>3. Abs!AcquireWrite(t)
    BY <1>7, <1>11, <2>1, <2>2 DEF WriteCas, Goto
  <2> QED
    BY <2>3 DEF Abs!Next
<1>12. CASE WriteInc(t)
  <2>1. Push(t, "W") /\ pc[t] = "winc" /\ pc' = [pc EXCEPT ![t] = "idle"]
    BY <1>12 DEF WriteInc, Goto
  <2>2. /\ \A u \in Threads \ {t} : held'[u] = held[u] /\ pc'[u] = pc[u]
        /\ GuardCount(t, "W")' = GuardCount(t, "W") + 1
        /\ GuardCount(t, "R")' = GuardCount(t, "R")
    BY <1>0, <2>1, PushGuard DEF GuardCount, Kinds
  <2>3. AbsWrites'[t] = AbsWrites[t] /\ AbsReads'[t] = AbsReads[t]
    BY <1>0, <1>4, <2>1, <2>2
  <2> QED
    BY <1>3, <1>5, <2>2, <2>3
<1>13. CASE WriteUnlock(t) \/ ReadLock(t) \/ ReadLoad(t) \/ LockTimeout(t)
  BY <1>0, <1>6, <1>13 DEF WriteUnlock, ReadLock, ReadLoad, LockTimeout, MayNest, Goto
<1>14. CASE WriteDec(t)
  <2>1. held[t] # <<>> /\ Top(t) = "W" /\ pc[t] = "wdec"
    BY <1>14 DEF WriteDec, IInv, Unlocking
  <2>2. CASE writeCount = 1
    BY <1>0, <1>6, <1>14, <2>2 DEF WriteDec, Goto
  <2>3. CASE writeCount # 1
    BY <1>8, <1>14, <2>1, <2>3 DEF WriteDec, Goto, Abs!Next
  <2> QED
    BY <2>2, <2>3
<1>15. CASE WriteStore(t)
  <2>1. held[t] # <<>> /\ Top(t) = "W" /\ pc[t] = "wstore"
    BY <1>15 DEF WriteStore, IInv, Unlocking
  <2> QED
    BY <1>8, <1>15, <2>1 DEF WriteStore, Goto, Abs!Next
<1>16. CASE ReadInc(t)
  BY <1>9, <1>16 DEF ReadInc, Goto, IInv, WritersNamed, Abs!Next
<1>17. CASE ReadCas(t)
  <2>1. CASE flag = Expected(t)
    <3>1. flag.writer = NoThread
      BY <2>1 DEF Expected
    <3> QED
      BY <1>9, <1>17, <2>1, <3>1 DEF ReadCas, Goto, Abs!Next
  <2>2. CASE flag # Expected(t)
    BY <1>0, <1>6, <1>17, <2>2 DEF ReadCas, Goto
  <2> QED
    BY <2>1, <2>2
<1>18. CASE ReadUnlock(t)
  <2>1. CASE flag.readers = 0
    BY <1>6, <1>18, <2>1 DEF ReadUnlock
  <2>2. CASE flag.readers # 0
    <3>1. Pop(t) /\ held[t] # <<>> /\ Top(t) = "R" /\ pc' = pc
      BY <1>18, <2>2 DEF ReadUnlock
    <3>2. /\ \A u \in Threads \ {t} : held'[u] = held[u] /\ pc'[u] = pc[u]
          /\ GuardCount(t, "R")' = GuardCount(t, "R") - 1
          /\ GuardCount(t, "W")' = GuardCount(t, "W")
          /\ Holds(t, "R")
      BY <1>0, <3>1, PopGuard DEF GuardCount, Holds
    <3>3. AbsWrites'[t] = AbsWrites[t] /\ AbsReads'[t] = AbsReads[t] - 1
      BY <1>4, <3>1, <3>2
    <3>4. AbsReads' = [AbsReads EXCEPT ![t] = @ - 1] /\ AbsWrites' = AbsWrites
      BY <1>3, <1>5, <3>2, <3>3
    <3>5. AbsReads[t] > 0
      BY <1>3, <3>2, AbsTypes
    <3> QED
      BY <3>4, <3>5 DEF Abs!ReleaseRead, Abs!Next
  <2> QED
    BY <2>1, <2>2
<1> QED
  BY <1>10, <1>11, <1>12, <1>13, <1>14, <1>15, <1>16, <1>17, <1>18 DEF Step

(* The lock implements RWLockAbs: every step of it acquires or releases    *)
(* one abstract guard, under the abstract guard's condition, or is hidden. *)
THEOREM Refinement == Spec => ImplementsRWLock
<1>1. Init => Abs!Init
  <2> SUFFICES ASSUME Init PROVE Abs!Init
    OBVIOUS
  <2>1. \A t \in Threads : \A k : GuardCount(t, k) = 0
    BY FS_EmptySet DEF Init, GuardCount, Places
  <2>2. \A t \in Threads : pc[t] = "idle"
    BY DEF Init
  <2> QED
    BY <2>1, <2>2 DEF Abs!Init, AbsWrites, AbsReads
<1>2. IInv /\ [Next]_vars => [Abs!Next]_(Abs!absVars)
  <2> SUFFICES ASSUME IInv, [Next]_vars PROVE Abs!Next \/ UNCHANGED <<AbsWrites, AbsReads>>
    BY DEF Abs!absVars
  <2>1. UNCHANGED vars => UNCHANGED <<AbsWrites, AbsReads>>
    BY DEF vars, AbsWrites, AbsReads, GuardCount
  <2> QED
    BY <2>1, AbsStep DEF Next, Stopped
<1> QED
  BY Inductive, <1>1, <1>2, PTL DEF Spec, Abs!Spec, ImplementsRWLock
=============================================================================
