------------------------- MODULE SessionSend_proofs -------------------------
(***************************************************************************)
(* Proofs about SessionSend, for every set of threads, every number of     *)
(* sends and every set of errors: one send at a time, its buffers and      *)
(* session kept alive, nothing stranded, and the refinement of SendPipe.   *)
(***************************************************************************)
EXTENDS SessionSend, FiniteSetTheorems, SequenceTheorems, TLAPS

(* Whoever is in the event region, or else the kernel, holds the token     *)
(* that _sendRegistered stands for.                                        *)
Token ==
    /\ \A t, u \in Threads : pc[t] \in EventRegion /\ pc[u] \in EventRegion => t = u
    /\ \A t \in Threads : pc[t] \in EventRegion => posted = <<>> /\ sendRegistered
    /\ posted # <<>> => sendRegistered /\ Tail(posted) = <<>>

(* What the holder of the token finds in the event and in the queue. *)
EventContent ==
    /\ \A t \in Threads :
          /\ pc[t] \in {"register", "drain", "unregister", "relock"} => sendBuffers = <<>>
          /\ pc[t] \in {"register", "drain"} => sendQueue # <<>>
          /\ pc[t] \in {"post", "reset", "clear", "sent", "aborted"} => sendBuffers # <<>>
    /\ posted = <<>> /\ (\A t \in Threads : pc[t] \notin EventRegion) => sendBuffers = <<>>
    /\ posted # <<>> => sendBuffers # <<>>

(* A send that failed while the session stays connected failed with a code *)
(* that is only logged.                                                    *)
FailureLogged ==
    \A t \in Threads :
        pc[t] \in {"clear", "unregister"} /\ connected => "other" \in failures

(* Between taking the reference and releasing it the reference is there. *)
PostOwned == \A t \in Threads : pc[t] \in {"drain", "post"} => owner

IInv == /\ PostOwned /\ TypeOK /\ Token /\ EventContent /\ FailureLogged
        /\ OwnedWhileInFlight /\ NotStranded

LEMMA Empty == /\ \A S : <<>> \in Seq(S)
               /\ \A S : \A s \in Seq(S) :
                     s # <<>> => Head(s) \in S /\ Tail(s) \in Seq(S) /\ s = <<Head(s)>> \o Tail(s)
<1>1. \A S : <<>> \in Seq(S)
  OBVIOUS
<1>2. ASSUME NEW S, NEW s \in Seq(S), s # <<>>
      PROVE  Head(s) \in S /\ Tail(s) \in Seq(S)
  BY <1>2
<1>3. ASSUME NEW S, NEW s \in Seq(S), s # <<>>
      PROVE  s = <<Head(s)>> \o Tail(s)
  BY <1>3
<1> QED
  BY <1>1, <1>2, <1>3

LEMMA Single == \A S : \A s \in Seq(S) :
                    s # <<>> /\ Tail(s) = <<>> => Len(s) = 1 /\ s[1] = Head(s) /\ DOMAIN s = {1}
<1> SUFFICES ASSUME NEW S, NEW s \in Seq(S), s # <<>>, Tail(s) = <<>>
             PROVE  Len(s) = 1 /\ s[1] = Head(s) /\ DOMAIN s = {1}
  OBVIOUS
<1>1. Len(Tail(s)) = Len(s) - 1 /\ Len(s) \in Nat
  OBVIOUS
<1>2. Len(<<>>) = 0
  OBVIOUS
<1>3. Len(s) = 1
  <2>1. Len(Tail(s)) = 0
    BY <1>2, Zenon
  <2> QED
    BY <1>1, <2>1
<1> QED
  BY <1>3

LEMMA InitIInv == Init => IInv
<1> SUFFICES ASSUME Init PROVE IInv
  OBVIOUS
<1> USE DEF Init
<1>1. TypeOK
  BY NoThreadAssumption, Empty DEF TypeOK, Labels
<1>2. Token /\ EventContent /\ FailureLogged
  BY DEF Token, EventContent, FailureLogged, EventRegion
<1>3. OwnedWhileInFlight /\ NotStranded /\ PostOwned
  BY DEF OwnedWhileInFlight, NotStranded, PostOwned
<1> QED
  BY <1>1, <1>2, <1>3 DEF IInv

(* The types of the variables and of their new values, step by step. *)
LEMMA StepTypeOK == ASSUME IInv, NEW t \in Threads, Step(t) PROVE TypeOK'
<1> USE NoThreadAssumption DEF IInv, TypeOK, Goto, Return, event, kernel, Labels, EventRegion
<1>1. CASE Send(t)
  BY <1>1 DEF Send
<1>2. CASE SendPush(t)
  BY <1>2 DEF SendPush
<1>3. CASE RegisterSend(t)
  BY <1>3 DEF RegisterSend
<1>4. CASE Drain(t)
  BY <1>4 DEF Drain
<1>5. CASE Post(t)
  BY <1>5 DEF Post
<1>6. CASE PostFails(t)
  BY <1>6, ErrorsAssumption DEF PostFails
<1>7. CASE HandleReset(t)
  BY <1>7 DEF HandleReset
<1>8. CASE ClearEvent(t)
  BY <1>8, Empty DEF ClearEvent
<1>9. CASE Unregister(t)
  BY <1>9 DEF Unregister
<1>10. CASE Dispatch(t)
  <2>1. posted' \in Seq(Seq(Nat)) /\ wire' \in Seq(Nat)
    <3>1. posted # <<>> /\ posted' = Tail(posted)
      BY <1>10 DEF Dispatch
    <3>2. Tail(posted) \in Seq(Seq(Nat)) /\ Head(posted) \in Seq(Nat)
      BY <3>1, Empty
    <3>3. wire' = wire \/ wire' = wire \o Head(posted)
      BY <1>10 DEF Dispatch
    <3>4. wire \o Head(posted) \in Seq(Nat)
      BY <3>2
    <3> QED
      BY <3>1, <3>2, <3>3, <3>4
  <2>2. failures' \subseteq {"reset", "other", "aborted"}
    BY <1>10 DEF Dispatch
  <2>3. UNCHANGED <<connected, sendQueue, sendRegistered, lock, owner, sendBuffers, pushed>>
    BY <1>10 DEF Dispatch
  <2>4. /\ pc' \in [Threads -> Labels]
        /\ \A u \in Threads : pc[u] # "idle" => pc'[u] = pc[u]
    BY <1>10 DEF Dispatch
  <2> QED
    BY <2>1, <2>2, <2>3, <2>4
<1>11. CASE ProcessSend(t)
  BY <1>11, Empty DEF ProcessSend
<1>12. CASE HangUp(t)
  BY <1>12 DEF HangUp
<1>13. CASE SendNext(t)
  BY <1>13 DEF SendNext
<1> QED
  BY <1>1, <1>2, <1>3, <1>4, <1>5, <1>6, <1>7, <1>8, <1>9, <1>10, <1>11, <1>12, <1>13
     DEF Step, Proceed
(* The token is never doubled: it passes from thread to kernel and back. *)
LEMMA StepToken == ASSUME IInv, NEW t \in Threads, Step(t) PROVE Token'
<1> USE DEF IInv, TypeOK, Token, Goto, Return, event, kernel, EventRegion, Labels
<1>1. CASE Send(t)
  BY <1>1 DEF Send
<1>2. CASE SendPush(t)
  BY <1>2 DEF SendPush
<1>3. CASE RegisterSend(t)
  BY <1>3 DEF RegisterSend
<1>4. CASE Drain(t)
  BY <1>4 DEF Drain
<1>5. CASE Post(t)
  BY <1>5 DEF Post
<1>6. CASE PostFails(t)
  BY <1>6 DEF PostFails
<1>7. CASE HandleReset(t)
  BY <1>7 DEF HandleReset
<1>8. CASE ClearEvent(t)
  BY <1>8 DEF ClearEvent
<1>9. CASE Unregister(t)
  BY <1>9 DEF Unregister
<1>10. CASE Dispatch(t)
  BY <1>10 DEF Dispatch
<1>11. CASE ProcessSend(t)
  BY <1>11 DEF ProcessSend
<1>12. CASE HangUp(t)
  BY <1>12 DEF HangUp
<1>13. CASE SendNext(t)
  BY <1>13 DEF SendNext
<1> QED
  BY <1>1, <1>2, <1>3, <1>4, <1>5, <1>6, <1>7, <1>8, <1>9, <1>10, <1>11, <1>12, <1>13
     DEF Step, Proceed

(* The event is empty but for the batch of the token's holder. *)
LEMMA StepEventContent == ASSUME IInv, NEW t \in Threads, Step(t) PROVE EventContent'
<1> USE Empty DEF IInv, TypeOK, Token, EventContent, Goto, Return, event, kernel, EventRegion, Labels
<1>1. CASE Send(t)
  BY <1>1 DEF Send
<1>2. CASE SendPush(t)
  <2>1. /\ sendQueue' = Append(sendQueue, pushed + 1) /\ sendBuffers' = sendBuffers
        /\ posted' = posted /\ pc[t] = "push"
        /\ pc' = [pc EXCEPT ![t] = IF sendRegistered THEN "idle" ELSE "register"]
    BY <1>2 DEF SendPush
  <2>2. sendQueue' # <<>>
    <3>1. sendQueue \in Seq(Nat) /\ pushed + 1 \in Nat
      OBVIOUS
    <3>2. Len(sendQueue') = Len(sendQueue) + 1 /\ Len(sendQueue) \in Nat
      BY <2>1, <3>1
    <3> QED
      BY <3>2
  <2>3. ~sendRegistered => sendBuffers = <<>>
    OBVIOUS
  <2> QED
    BY <2>1, <2>2, <2>3
<1>3. CASE RegisterSend(t)
  BY <1>3 DEF RegisterSend
<1>4. CASE Drain(t)
  BY <1>4 DEF Drain
<1>5. CASE Post(t)
  BY <1>5 DEF Post
<1>6. CASE PostFails(t)
  BY <1>6 DEF PostFails
<1>7. CASE HandleReset(t)
  BY <1>7 DEF HandleReset
<1>8. CASE ClearEvent(t)
  BY <1>8 DEF ClearEvent
<1>9. CASE Unregister(t)
  BY <1>9 DEF Unregister
<1>10. CASE Dispatch(t)
  BY <1>10 DEF Dispatch
<1>11. CASE ProcessSend(t)
  BY <1>11 DEF ProcessSend
<1>12. CASE HangUp(t)
  BY <1>12 DEF HangUp
<1>13. CASE SendNext(t)
  BY <1>13 DEF SendNext
<1> QED
  BY <1>1, <1>2, <1>3, <1>4, <1>5, <1>6, <1>7, <1>8, <1>9, <1>10, <1>11, <1>12, <1>13
     DEF Step, Proceed

(* A failure that leaves the session connected is a logged one. *)
LEMMA StepFailureLogged == ASSUME IInv, NEW t \in Threads, Step(t) PROVE FailureLogged'
<1> USE DEF IInv, TypeOK, FailureLogged, Goto, Return, event, kernel, EventRegion, Labels
<1>1. CASE Send(t)
  BY <1>1 DEF Send
<1>2. CASE SendPush(t)
  BY <1>2 DEF SendPush
<1>3. CASE RegisterSend(t)
  BY <1>3 DEF RegisterSend
<1>4. CASE Drain(t)
  BY <1>4 DEF Drain
<1>5. CASE Post(t)
  BY <1>5 DEF Post
<1>6. CASE PostFails(t)
  <2>1. PICK e \in {"reset", "other"} :
           /\ e \in Errors \/ ~connected
           /\ failures' = failures \cup {e}
           /\ pc' = [pc EXCEPT ![t] = IF e = "reset" THEN "reset" ELSE "clear"]
    BY <1>6, ErrorsAssumption DEF PostFails
  <2>2. connected' = connected
    BY <1>6 DEF PostFails
  <2> QED
    BY <2>1, <2>2
<1>7. CASE HandleReset(t)
  BY <1>7 DEF HandleReset
<1>8. CASE ClearEvent(t)
  BY <1>8 DEF ClearEvent
<1>9. CASE Unregister(t)
  BY <1>9 DEF Unregister
<1>10. CASE Dispatch(t)
  BY <1>10 DEF Dispatch
<1>11. CASE ProcessSend(t)
  BY <1>11 DEF ProcessSend
<1>12. CASE HangUp(t)
  BY <1>12 DEF HangUp
<1>13. CASE SendNext(t)
  BY <1>13 DEF SendNext
<1> QED
  BY <1>1, <1>2, <1>3, <1>4, <1>5, <1>6, <1>7, <1>8, <1>9, <1>10, <1>11, <1>12, <1>13
     DEF Step, Proceed

(* The event owns the session from before the post until the handler. *)
LEMMA StepOwned == ASSUME IInv, NEW t \in Threads, Step(t) PROVE OwnedWhileInFlight'
<1> USE Empty DEF IInv, TypeOK, OwnedWhileInFlight, Token, Goto, Return, event, kernel, EventRegion, Labels
<1>1. CASE Send(t)
  BY <1>1 DEF Send
<1>2. CASE SendPush(t)
  BY <1>2 DEF SendPush
<1>3. CASE RegisterSend(t)
  BY <1>3 DEF RegisterSend
<1>4. CASE Drain(t)
  BY <1>4 DEF Drain
<1>5. CASE Post(t)
  <2>1. posted = <<>> /\ sendBuffers \in Seq(Nat) /\ UNCHANGED <<owner, sendBuffers>>
        /\ pc[t] = "post" /\ posted' = Append(posted, sendBuffers)
    BY <1>5 DEF Post
  <2>2. posted' = <<sendBuffers>> /\ Head(posted') = sendBuffers
    BY <2>1
  <2>3. owner
    BY <2>1 DEF PostOwned
  <2>4. \A u \in Threads : pc'[u] \in {"sent", "aborted"} => pc[u] \in {"sent", "aborted"}
    BY <1>5 DEF Post
  <2> QED
    BY <2>1, <2>2, <2>3, <2>4
<1>6. CASE PostFails(t)
  BY <1>6 DEF PostFails
<1>7. CASE HandleReset(t)
  BY <1>7 DEF HandleReset
<1>8. CASE ClearEvent(t)
  BY <1>8 DEF ClearEvent
<1>9. CASE Unregister(t)
  BY <1>9 DEF Unregister
<1>10. CASE Dispatch(t)
  BY <1>10 DEF Dispatch
<1>11. CASE ProcessSend(t)
  BY <1>11 DEF ProcessSend
<1>12. CASE HangUp(t)
  BY <1>12 DEF HangUp
<1>13. CASE SendNext(t)
  BY <1>13 DEF SendNext
<1> QED
  BY <1>1, <1>2, <1>3, <1>4, <1>5, <1>6, <1>7, <1>8, <1>9, <1>10, <1>11, <1>12, <1>13
     DEF Step, Proceed

(* The queue of a connected session has a send registered. *)
LEMMA StepNotStranded == ASSUME IInv, NEW t \in Threads, Step(t) PROVE NotStranded'
<1> USE DEF IInv, TypeOK, NotStranded, Token, FailureLogged, Goto, Return, event, kernel, EventRegion, Labels
<1>1. CASE Send(t)
  BY <1>1 DEF Send
<1>2. CASE SendPush(t)
  BY <1>2 DEF SendPush
<1>3. CASE RegisterSend(t)
  BY <1>3 DEF RegisterSend
<1>4. CASE Drain(t)
  BY <1>4 DEF Drain
<1>5. CASE Post(t)
  BY <1>5 DEF Post
<1>6. CASE PostFails(t)
  BY <1>6 DEF PostFails
<1>7. CASE HandleReset(t)
  BY <1>7 DEF HandleReset
<1>8. CASE ClearEvent(t)
  BY <1>8 DEF ClearEvent
<1>9. CASE Unregister(t)
  BY <1>9 DEF Unregister
<1>10. CASE Dispatch(t)
  BY <1>10 DEF Dispatch
<1>11. CASE ProcessSend(t)
  BY <1>11 DEF ProcessSend
<1>12. CASE HangUp(t)
  BY <1>12 DEF HangUp
<1>13. CASE SendNext(t)
  BY <1>13 DEF SendNext
<1> QED
  BY <1>1, <1>2, <1>3, <1>4, <1>5, <1>6, <1>7, <1>8, <1>9, <1>10, <1>11, <1>12, <1>13
     DEF Step, Proceed
(* Only the holder of the token releases the event. *)
LEMMA StepPostOwned == ASSUME IInv, NEW t \in Threads, Step(t) PROVE PostOwned'
<1> USE DEF IInv, TypeOK, PostOwned, Token, Goto, Return, event, kernel, EventRegion, Labels
<1>1. CASE Send(t)
  BY <1>1 DEF Send
<1>2. CASE SendPush(t)
  BY <1>2 DEF SendPush
<1>3. CASE RegisterSend(t)
  BY <1>3 DEF RegisterSend
<1>4. CASE Drain(t)
  BY <1>4 DEF Drain
<1>5. CASE Post(t)
  BY <1>5 DEF Post
<1>6. CASE PostFails(t)
  BY <1>6 DEF PostFails
<1>7. CASE HandleReset(t)
  BY <1>7 DEF HandleReset
<1>8. CASE ClearEvent(t)
  BY <1>8 DEF ClearEvent
<1>9. CASE Unregister(t)
  BY <1>9 DEF Unregister
<1>10. CASE Dispatch(t)
  BY <1>10 DEF Dispatch
<1>11. CASE ProcessSend(t)
  BY <1>11 DEF ProcessSend
<1>12. CASE HangUp(t)
  BY <1>12 DEF HangUp
<1>13. CASE SendNext(t)
  BY <1>13 DEF SendNext
<1> QED
  BY <1>1, <1>2, <1>3, <1>4, <1>5, <1>6, <1>7, <1>8, <1>9, <1>10, <1>11, <1>12, <1>13
     DEF Step, Proceed

LEMMA DisconnectIInv == IInv /\ Disconnect => IInv'
<1> SUFFICES ASSUME IInv, Disconnect PROVE IInv'
  OBVIOUS
<1> USE DEF IInv, Disconnect, event, kernel
<1>1. TypeOK'
  BY DEF TypeOK
<1>2. Token' /\ EventContent' /\ PostOwned'
  BY DEF Token, EventContent, PostOwned
<1>3. FailureLogged' /\ OwnedWhileInFlight' /\ NotStranded'
  BY DEF FailureLogged, OwnedWhileInFlight, NotStranded
<1> QED
  BY <1>1, <1>2, <1>3

LEMMA StutterIInv == IInv /\ UNCHANGED vars => IInv'
<1> SUFFICES ASSUME IInv, UNCHANGED vars PROVE IInv'
  OBVIOUS
<1> USE DEF IInv, vars
<1>1. TypeOK'
  BY DEF TypeOK
<1>2. Token' /\ EventContent' /\ PostOwned'
  BY DEF Token, EventContent, PostOwned
<1>3. FailureLogged' /\ OwnedWhileInFlight' /\ NotStranded'
  BY DEF FailureLogged, OwnedWhileInFlight, NotStranded
<1> QED
  BY <1>1, <1>2, <1>3

(* The strengthening of the invariants holds in every reachable state. *)
THEOREM Inductive == Spec => []IInv
<1>1. ASSUME IInv, NEW t \in Threads, Step(t) PROVE IInv'
  BY <1>1, StepTypeOK, StepToken, StepEventContent, StepFailureLogged, StepOwned,
     StepNotStranded, StepPostOwned DEF IInv
<1>2. IInv /\ [Next]_vars => IInv'
  BY <1>1, DisconnectIInv, StutterIInv DEF Next, Quiet
<1> QED
  BY InitIInv, <1>2, PTL DEF Spec

(* The type invariant, and what the lock is held through. *)
THEOREM TypeCorrect == Spec => []TypeOK
<1>1. IInv => TypeOK
  BY DEF IInv
<1> QED
  BY <1>1, Inductive, PTL

(* WSASend is never called without buffers. *)
LEMMA NeverEmpty == IInv => NoEmptySend
<1> SUFFICES ASSUME IInv, NEW i \in DOMAIN posted PROVE posted[i] # <<>>
  BY DEF NoEmptySend
<1>1. posted # <<>> /\ posted \in Seq(Seq(Nat)) /\ Tail(posted) = <<>>
  BY DEF IInv, TypeOK, Token
<1>2. i = 1 /\ posted[i] = Head(posted)
  BY <1>1, Single
<1> QED
  BY <1>1, <1>2 DEF IInv, OwnedWhileInFlight, EventContent

(* _sendEvent is used by one thread, or by the kernel, at a time, under    *)
(* _sendRegistered alone.                                                  *)
THEOREM OneSend == Spec => []OneSendAtATime
<1>1. IInv => OneSendAtATime
  <2> SUFFICES ASSUME IInv PROVE OneSendAtATime
    OBVIOUS
  <2> DEFINE Using == {t \in Threads : pc[t] \in EventRegion}
  <2>1. Len(posted) \in {0, 1} /\ (posted = <<>> => Len(posted) = 0)
    <3>1. posted \in Seq(Seq(Nat)) /\ (posted # <<>> => Tail(posted) = <<>>)
      BY DEF IInv, Token, TypeOK
    <3>2. posted # <<>> => Len(posted) = 1
      BY <3>1, Single
    <3>3. posted = <<>> => Len(posted) = 0
      OBVIOUS
    <3> QED
      BY <3>2, <3>3
  <2>2. CASE Using = {}
    <3>1. Cardinality(Using) = 0
      BY <2>2, FS_EmptySet
    <3>2. posted # <<>> => sendRegistered
      BY DEF IInv, Token
    <3>3. Len(posted) + Cardinality(Using) <= 1
      <4>1. \A n \in {0, 1} : n + 0 <= 1
        OBVIOUS
      <4> QED
        BY <2>1, <3>1, <4>1, Zenon
    <3> QED
      BY <2>2, <3>2, <3>3, NeverEmpty DEF OneSendAtATime
  <2>3. CASE Using # {}
    <3>1. PICK t \in Threads : Using = {t}
      BY <2>3 DEF IInv, Token
    <3>2. Cardinality(Using) = 1
      BY <3>1, FS_Singleton
    <3>3. posted = <<>> /\ sendRegistered
      BY <3>1 DEF IInv, Token
    <3> QED
      BY <3>2, <3>3, NeverEmpty DEF OneSendAtATime
  <2> QED
    BY <2>2, <2>3
<1> QED
  BY <1>1, Inductive, PTL

(* While the kernel has a send the event keeps the session and the buffers *)
(* alive.                                                                  *)
THEOREM KeptAlive == Spec => []OwnedWhileInFlight
<1>1. IInv => OwnedWhileInFlight
  BY DEF IInv
<1> QED
  BY <1>1, Inductive, PTL

(* Queued buffers wait without a registered send only after an error that  *)
(* HandleError merely logs.                                                *)
THEOREM Unstranded == Spec => []NotStranded
<1>1. IInv => NotStranded
  BY DEF IInv
<1> QED
  BY <1>1, Inductive, PTL
-----------------------------------------------------------------------------
(* Cutting a concatenation where it was joined. *)
LEMMA Cut ==
    ASSUME NEW a \in Seq(Nat), NEW b \in Seq(Nat)
    PROVE  /\ a \o b \in Seq(Nat)
           /\ a # <<>> => Len(a) \in 1 .. Len(a \o b)
           /\ SubSeq(a \o b, 1, Len(a)) = a
           /\ SubSeq(a \o b, Len(a) + 1, Len(a \o b)) = b
           /\ \A n \in Nat : Append(a \o b, n) = a \o Append(b, n)
           /\ <<>> \o b = b
           /\ b \o <<>> = b
<1>1. a \o b \in Seq(Nat) /\ Len(a \o b) = Len(a) + Len(b) /\ Len(a) \in Nat /\ Len(b) \in Nat
  OBVIOUS
<1>2. a # <<>> => Len(a) \in 1 .. Len(a \o b)
  BY <1>1
<1>3. SubSeq(a \o b, 1, Len(a)) = a
  BY <1>1
<1>4. SubSeq(a \o b, Len(a) + 1, Len(a \o b)) = b
  BY <1>1
<1>5. ASSUME NEW n \in Nat PROVE Append(a \o b, n) = a \o Append(b, n)
  <2>1. Append(a \o b, n) = (a \o b) \o <<n>>
    BY <1>1, AppendIsConcat, Zenon
  <2>2. Append(b, n) = b \o <<n>>
    BY AppendIsConcat, Zenon
  <2>3. <<n>> \in Seq(Nat)
    OBVIOUS
  <2>4. (a \o b) \o <<n>> = a \o (b \o <<n>>)
    <3>1. ASSUME NEW u \in Seq(Nat), NEW v \in Seq(Nat), NEW w \in Seq(Nat)
          PROVE  (u \o v) \o w = u \o (v \o w)
      BY ConcatAssociative, Z3
    <3> QED
      BY <2>3, <3>1, Zenon
  <2> QED
    BY <2>1, <2>2, <2>4, Zenon
<1>6. <<>> \o b = b /\ b \o <<>> = b
  OBVIOUS
<1> QED
  BY <1>1, <1>2, <1>3, <1>4, <1>5, <1>6

DropRegion == {"reset", "clear", "sent", "aborted"}

(* The abstract pending buffers in terms of where the token is. *)
LEMMA InFlightCases ==
    ASSUME IInv
    PROVE  /\ \A t \in Threads : pc[t] \in DropRegion => InFlight = <<>>
           /\ \A t \in Threads : pc[t] \in EventRegion \ DropRegion => InFlight = sendBuffers
           /\ posted # <<>> => InFlight = sendBuffers
           /\ (\A t \in Threads : pc[t] \notin DropRegion) => InFlight = sendBuffers
           /\ InFlight \in Seq(Nat)
  BY Empty DEF IInv, Token, TypeOK, InFlight, DropRegion, EventRegion

LEMMA SamePending ==
    ASSUME InFlight' = InFlight, sendQueue' = sendQueue, pushed' = pushed, wire' = wire
    PROVE  UNCHANGED <<pushed, Pending, wire>>
  BY DEF Pending

(* The steps that move the token without moving buffers. *)
LEMMA QuietStep ==
    ASSUME NEW t \in Threads, pc \in [Threads -> Labels],
           NEW l \in Labels, pc' = [pc EXCEPT ![t] = l],
           pc[t] \in DropRegion <=> l \in DropRegion,
           UNCHANGED <<sendBuffers, sendQueue, pushed, wire>>
    PROVE  UNCHANGED <<pushed, Pending, wire>>
<1>1. InFlight' = InFlight
  BY DEF InFlight, DropRegion
<1> QED
  BY <1>1, SamePending

LEMMA PipeStep ==
    ASSUME IInv, NEW t \in Threads, Step(t)
    PROVE  Pipe!Next \/ UNCHANGED <<pushed, Pending, wire>>
<1>0. /\ pc \in [Threads -> Labels] /\ pushed \in Nat
      /\ sendQueue \in Seq(Nat) /\ sendBuffers \in Seq(Nat) /\ posted \in Seq(Seq(Nat))
  BY DEF IInv, TypeOK
<1>1. IInv'
  BY StepTypeOK, StepToken, StepEventContent, StepFailureLogged, StepOwned,
     StepNotStranded, StepPostOwned DEF IInv
<1> USE DEF Goto, Return, kernel, event, DropRegion, EventRegion, Labels
<1>2. CASE Send(t)
  BY <1>0, <1>2, QuietStep DEF Send
<1>3. CASE SendPush(t)
  <2>1. InFlight' = InFlight
    BY <1>0, <1>3 DEF SendPush, InFlight
  <2>2. InFlight \in Seq(Nat)
    BY InFlightCases
  <2>3. Pending' = Append(Pending, pushed + 1)
    <3>1. Append(InFlight \o sendQueue, pushed + 1) = InFlight \o Append(sendQueue, pushed + 1)
      <4>1. pushed + 1 \in Nat
        BY <1>0
      <4> QED
        BY <1>0, <2>2, <4>1, Cut, Zenon
    <3>2. sendQueue' = Append(sendQueue, pushed + 1)
      BY <1>3 DEF SendPush
    <3> QED
      BY <2>1, <3>1, <3>2, Zenon DEF Pending
  <2>4. Pipe!Submit
    BY <1>3, <2>3 DEF SendPush, Pipe!Submit
  <2> QED
    BY <2>4 DEF Pipe!Next
<1>4. CASE RegisterSend(t)
  <2>1. PICK l \in {"idle", "drain"} : pc' = [pc EXCEPT ![t] = l]
    BY <1>4 DEF RegisterSend
  <2> QED
    BY <1>0, <1>4, <2>1, QuietStep DEF RegisterSend
<1>5. CASE Drain(t)
  <2>1. sendBuffers = <<>> /\ InFlight = <<>>
    BY <1>5, InFlightCases DEF Drain, IInv, EventContent
  <2>2. \A u \in Threads : pc'[u] \notin DropRegion
    BY <1>0, <1>5 DEF Drain, IInv, Token
  <2>3. InFlight' = sendBuffers'
    BY <2>2 DEF InFlight
  <2>4. sendBuffers' = sendQueue /\ sendQueue' = <<>>
    BY <1>0, <1>5, <2>1, Cut DEF Drain
  <2>5. Pending' = Pending
    BY <1>0, <2>1, <2>3, <2>4, Cut DEF Pending
  <2> QED
    BY <1>5, <2>5 DEF Drain
<1>6. CASE Post(t)
  BY <1>0, <1>6, QuietStep DEF Post
<1>7. CASE PostFails(t)
  <2>1. InFlight = sendBuffers /\ sendBuffers # <<>>
    BY <1>7, InFlightCases DEF PostFails, IInv, EventContent
  <2>2. pc'[t] \in DropRegion
    BY <1>0, <1>7 DEF PostFails
  <2>3. InFlight' = <<>>
    BY <2>2 DEF InFlight
  <2>4. UNCHANGED <<sendQueue, pushed, wire>>
    BY <1>7 DEF PostFails
  <2>5. Pending = sendBuffers \o sendQueue /\ Pending' = sendQueue
    BY <1>0, <2>1, <2>3, <2>4, Cut DEF Pending
  <2>6. Pipe!Drop
    BY <1>0, <2>1, <2>4, <2>5, Cut DEF Pipe!Drop
  <2> QED
    BY <2>6 DEF Pipe!Next
<1>8. CASE HandleReset(t)
  BY <1>0, <1>8, QuietStep DEF HandleReset
<1>9. CASE ClearEvent(t)
  <2>1. InFlight = <<>>
    BY <1>9, InFlightCases DEF ClearEvent
  <2>2. InFlight' = <<>>
    BY <1>9 DEF ClearEvent, InFlight
  <2> QED
    BY <1>9, <2>1, <2>2, SamePending DEF ClearEvent
<1>10. CASE Unregister(t)
  BY <1>0, <1>10, QuietStep DEF Unregister
<1>11. CASE Dispatch(t)
  <2>1. InFlight = sendBuffers /\ sendBuffers # <<>> /\ Head(posted) = sendBuffers
    BY <1>11, InFlightCases DEF Dispatch, IInv, EventContent, OwnedWhileInFlight
  <2>2. InFlight' = <<>>
    BY <1>0, <1>11 DEF Dispatch, InFlight
  <2>3. UNCHANGED <<sendQueue, pushed>>
    BY <1>11 DEF Dispatch
  <2>4. Pending = sendBuffers \o sendQueue /\ Pending' = sendQueue
    BY <1>0, <2>1, <2>2, <2>3, Cut DEF Pending
  <2>5. CASE wire' = wire \o Head(posted)
    <3>1. Pipe!Transmit
      BY <1>0, <2>1, <2>3, <2>4, <2>5, Cut DEF Pipe!Transmit
    <3> QED
      BY <3>1 DEF Pipe!Next
  <2>6. CASE wire' = wire
    <3>1. Pipe!Drop
      BY <1>0, <2>1, <2>3, <2>4, <2>6, Cut DEF Pipe!Drop
    <3> QED
      BY <3>1 DEF Pipe!Next
  <2> QED
    BY <1>11, <2>5, <2>6 DEF Dispatch
<1>12. CASE ProcessSend(t)
  <2>1. InFlight = <<>>
    BY <1>12, InFlightCases DEF ProcessSend
  <2>2. InFlight' = <<>>
    BY <1>12 DEF ProcessSend, InFlight
  <2> QED
    BY <1>12, <2>1, <2>2, SamePending DEF ProcessSend
<1>13. CASE HangUp(t)
  BY <1>0, <1>13, QuietStep DEF HangUp
<1>14. CASE SendNext(t)
  <2>1. PICK l \in {"idle", "register"} : pc' = [pc EXCEPT ![t] = l]
    BY <1>14 DEF SendNext
  <2> QED
    BY <1>0, <1>14, <2>1, QuietStep DEF SendNext
<1> QED
  BY <1>2, <1>3, <1>4, <1>5, <1>6, <1>7, <1>8, <1>9, <1>10, <1>11, <1>12, <1>13, <1>14
     DEF Step, Proceed

(* The send path of a session implements the pipe: the peer gets the       *)
(* buffers in the order they were queued, none twice, and a buffer is lost *)
(* only with the batch of a failed send.                                   *)
THEOREM Refinement == Spec => ImplementsPipe
<1>1. Init => Pipe!Init
  BY Cut, Empty DEF Init, Pipe!Init, Pending, InFlight
<1>2. IInv /\ [Next]_vars => [Pipe!Next]_(Pipe!pipeVars)
  <2> SUFFICES ASSUME IInv, [Next]_vars
               PROVE  Pipe!Next \/ UNCHANGED <<pushed, Pending, wire>>
    BY DEF Pipe!pipeVars
  <2>1. UNCHANGED vars => UNCHANGED <<pushed, Pending, wire>>
    BY DEF vars, Pending, InFlight
  <2>2. Disconnect => UNCHANGED <<pushed, Pending, wire>>
    BY DEF Disconnect, Pending, InFlight, event, kernel
  <2> QED
    BY <2>1, <2>2, PipeStep DEF Next, Quiet
<1> QED
  BY Inductive, <1>1, <1>2, PTL DEF Spec, Pipe!Spec, ImplementsPipe
=============================================================================
