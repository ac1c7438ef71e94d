-------------------------- MODULE DeadLockProfiler --------------------------
(***************************************************************************)
(* The profiler as it is written.  A name is the number that PushLock      *)
(* gives it at its first use.  A nesting that is new goes into the history *)
(* and CheckCycle searches all of it, depth first and in the order of the  *)
(* numbers; the search stops the process at the first edge back.  A step   *)
(* is one turn of a loop.  PushLock and PopLock run under the profiler's   *)
(* own mutex, and locks are waited for outside of it.                      *)
(***************************************************************************)
EXTENDS LockOrder, FiniteSetsExt

ASSUME NamesAssumption == IsFiniteSet(Names) /\ Names \subseteq Nat

VARIABLES pushing,    \* who searches, and what for, or <<>>
          calls,      \* Dfs in Dfs: its name, and the names it has still to follow
          discoveredOrder, \* _discoveredOrder: name -> its number, or -1
          discoveredCount, \* _discoveredCount
          finished    \* _finished, as the set of what it marks

searchVars == <<pushing, calls, discoveredOrder, discoveredCount, finished>>
profilerVars == <<vars, searchVars>>

Call == [here : Names, nextSet : SUBSET Names]

NothingFound ==
    /\ calls' = <<>> /\ discoveredOrder' = [n \in Names |-> -1] /\ discoveredCount' = 0 /\ finished' = {}

ProfilerInit ==
    /\ Init
    /\ pushing = <<>> /\ calls = <<>>
    /\ discoveredOrder = [n \in Names |-> -1] /\ discoveredCount = 0 /\ finished = {}

-----------------------------------------------------------------------------
Free == ~reported /\ pushing = <<>>

(* Fault: the outermost lock counts, not the innermost. *)
Outermost(t) == Head(nest[t]).name

(* LLockStack.top() *)
Top(t) == Innermost(t).name

IsNew(t, a) == nest[t] # <<>> /\ Top(t) # a.name /\ a.name \notin history[Top(t)]

(* The name goes on the stack of names, and WriteLock on to the lock. *)
GoOn(t, a) ==
    /\ nest' = [nest EXCEPT ![t] = Append(@, a)]
    /\ waiting' = [waiting EXCEPT ![t] = TRUE]

PushLock(t, a) ==
    /\ Free /\ ~waiting[t] /\ Nested(t, a)
    /\ ~IsNew(t, a)
    /\ GoOn(t, a)
    /\ UNCHANGED <<program, history, reported, searchVars>>

PushNew(t, a) ==
    /\ Free /\ ~waiting[t] /\ Nested(t, a)
    /\ IsNew(t, a)
    /\ history' = [history EXCEPT ![Top(t)] = @ \cup {a.name}]
    /\ pushing' = <<t, a>>
    /\ UNCHANGED <<program, nest, waiting, reported, calls, discoveredOrder, discoveredCount, finished>>

-----------------------------------------------------------------------------
Discovered(n) == discoveredOrder[n] # -1

(* Dfs begins: all that has been taken inside n is to be followed.  With   *)
(* nothing inside it n is finished at once.                                *)
Dfs(n, outer) ==
    /\ discoveredOrder' = [discoveredOrder EXCEPT ![n] = discoveredCount]
    /\ discoveredCount' = discoveredCount + 1
    /\ \/ /\ history[n] = {}
          /\ finished' = finished \cup {n} /\ calls' = outer
       \/ /\ history[n] # {}
          /\ calls' = Append(outer, [here |-> n, nextSet |-> history[n]])
          /\ UNCHANGED finished

Searching == ~reported /\ pushing # <<>>

(* The loop passes over what has been found. *)
CheckCycle ==
    /\ Searching /\ calls = <<>>
    /\ \E n \in Names : ~Discovered(n)
    /\ Dfs(Min({n \in Names : ~Discovered(n)}), calls)
    /\ UNCHANGED <<vars, pushing>>

This == calls[Len(calls)]
There == Min(This.nextSet)
Followed == [calls EXCEPT ![Len(calls)].nextSet = @ \ {There}]

(* Fault: an edge to anything found earlier is an edge back. *)
AnyEarlier(here, there) == discoveredOrder[here] >= discoveredOrder[there]

(* An edge is one back if it leads to what was found earlier and is still  *)
(* being searched.                                                         *)
EdgeBack(here, there) ==
    /\ discoveredOrder[here] >= discoveredOrder[there]
    /\ there \notin finished

Follow ==
    /\ Searching /\ calls # <<>> /\ This.nextSet # {}
    /\ \/ /\ ~Discovered(There)
          /\ Dfs(There, Followed)
       \/ /\ Discovered(There) /\ ~EdgeBack(This.here, There)
          /\ calls' = Followed
          /\ UNCHANGED <<discoveredOrder, discoveredCount, finished>>
    /\ UNCHANGED <<vars, pushing>>

(* CRASH("DEADLOCK_DETECTED") *)
Crash ==
    /\ Searching /\ calls # <<>> /\ This.nextSet # {}
    /\ Discovered(There) /\ EdgeBack(This.here, There)
    /\ reported' = TRUE /\ pushing' = <<>>
    /\ UNCHANGED <<program, nest, waiting, history, calls, discoveredOrder, discoveredCount, finished>>

Return ==
    /\ Searching /\ calls # <<>> /\ This.nextSet = {}
    /\ finished' = finished \cup {This.here}
    /\ calls' = SubSeq(calls, 1, Len(calls) - 1)
    /\ UNCHANGED <<vars, pushing, discoveredOrder, discoveredCount>>

(* The end of CheckCycle and of PushLock. *)
Pushed ==
    /\ Searching /\ calls = <<>> /\ \A n \in Names : Discovered(n)
    /\ GoOn(pushing[1], pushing[2])
    /\ pushing' = <<>> /\ NothingFound
    /\ UNCHANGED <<program, history, reported>>

-----------------------------------------------------------------------------
ProfilerNext ==
    \/ \E t \in Threads :
          \/ \E a \in Taken[program] : PushLock(t, a) \/ PushNew(t, a)
          \/ Acquire(t) /\ UNCHANGED searchVars
          \/ Free /\ Unlock(t) /\ UNCHANGED searchVars
    \/ CheckCycle \/ Follow \/ Crash \/ Return \/ Pushed

ProfiledSpec == ProfilerInit /\ [][ProfilerNext]_profilerVars

-----------------------------------------------------------------------------
(* Properties. *)

(* The history up to the nesting that is searched for. *)
Recorded ==
    IF pushing = <<>> THEN history
    ELSE [history EXCEPT ![Top(pushing[1])] = @ \ {pushing[2].name}]

Order == INSTANCE LockOrder WITH history <- Recorded

(* The search reports exactly the nestings that close a cycle: it comes to *)
(* its end, and the thread goes on to the lock, only where none is closed. *)
ImplementsOrder == Order!Spec
=============================================================================
