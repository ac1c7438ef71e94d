----------------------------- MODULE SessionSend -----------------------------
(***************************************************************************)
(* The send path of one connected Session of ServerCore (Session.cpp):     *)
(* Send, RegisterSend, ProcessSend, HandleError and what Disconnect does   *)
(* to them.  Any thread may call Send (a room broadcasts from the main     *)
(* thread, a packet handler from an IOCP worker) and any worker may take   *)
(* the completion of the outstanding send.                                 *)
(*                                                                         *)
(* _sendQueue is protected by the session's lock, of which only the owner  *)
(* matters here: ProcessSend holds it through a whole RegisterSend.        *)
(* _sendEvent, the OVERLAPPED of the one send in flight, is protected by   *)
(* nothing but _sendRegistered, which an error path clears without the     *)
(* lock.  The kernel's side of WSASend is posted; wire is what the peer    *)
(* gets.  A buffer is the number of the Send call that queued it.          *)
(***************************************************************************)
EXTENDS Naturals, Sequences, FiniteSets

CONSTANTS Threads,     \* the threads that send or process completions
          NoThread,    \* nobody has the session's lock
          MaxSends,    \* bound on the calls of Send
          Errors       \* how WSASend may fail while the session is connected:
                       \* "reset" for WSAECONNRESET and WSAECONNABORTED,
                       \* "other" for every code HandleError only logs

ASSUME NoThreadAssumption == NoThread \notin Threads
ASSUME MaxSendsAssumption == MaxSends \in Nat
ASSUME ErrorsAssumption == Errors \subseteq {"reset", "other"}

VARIABLES connected,       \* _connected
          sendQueue,       \* _sendQueue
          sendRegistered,  \* _sendRegistered
          lock,            \* the thread that has the session's lock
          owner,           \* _sendEvent.owner is set
          sendBuffers,     \* _sendEvent.sendBuffers
          posted,          \* the sends the kernel has not completed yet
          pc,              \* thread -> where it is in the send path
          pushed,          \* number of buffers queued so far
          wire,            \* the buffers that reached the peer
          failures         \* the ways in which sends have failed so far

vars == <<connected, sendQueue, sendRegistered, lock, owner, sendBuffers,
          posted, pc, pushed, wire, failures>>

kernel == <<posted, wire>>
event  == <<owner, sendBuffers>>

Init == /\ connected = TRUE
        /\ sendQueue = <<>>
        /\ sendRegistered = FALSE
        /\ lock = NoThread
        /\ owner = FALSE
        /\ sendBuffers = <<>>
        /\ posted = <<>>
        /\ pc = [t \in Threads |-> "idle"]
        /\ pushed = 0
        /\ wire = <<>>
        /\ failures = {}

Goto(t, l) == pc' = [pc EXCEPT ![t] = l]

(* The end of RegisterSend; ProcessSend then leaves the scope of its guard. *)
Return(t) == /\ Goto(t, "idle")
             /\ lock' = IF lock = t THEN NoThread ELSE lock

-----------------------------------------------------------------------------
(* Send: the check before the lock. *)
Send(t) ==
    /\ pc[t] = "idle"
    /\ connected
    /\ pushed + Cardinality({u \in Threads : pc[u] = "push"}) < MaxSends
    /\ Goto(t, "push")
    /\ UNCHANGED <<connected, sendQueue, sendRegistered, lock, event, kernel, pushed, failures>>

(* Fault: every Send registers, whatever the exchange returned. *)
SendPushRegisters(t) ==
    /\ pc[t] = "push"
    /\ lock = NoThread
    /\ pushed' = pushed + 1
    /\ sendQueue' = Append(sendQueue, pushed + 1)
    /\ sendRegistered' = TRUE
    /\ Goto(t, "register")
    /\ UNCHANGED <<connected, lock, event, kernel, failures>>

(* Send: push and _sendRegistered.exchange(true) under the lock. *)
SendPush(t) ==
    /\ pc[t] = "push"
    /\ lock = NoThread
    /\ pushed' = pushed + 1
    /\ sendQueue' = Append(sendQueue, pushed + 1)
    /\ sendRegistered' = TRUE
    /\ Goto(t, IF sendRegistered THEN "idle" ELSE "register")
    /\ UNCHANGED <<connected, lock, event, kernel, failures>>

(* Fault: the event takes no reference to the session. *)
RegisterSendNoRef(t) ==
    /\ pc[t] = "register"
    /\ IF connected THEN Goto(t, "drain") /\ UNCHANGED lock ELSE Return(t)
    /\ UNCHANGED <<connected, sendQueue, sendRegistered, event, kernel, pushed, failures>>

(* RegisterSend: the early return, or _sendEvent.owner = shared_from_this(). *)
RegisterSend(t) ==
    /\ pc[t] = "register"
    /\ \/ /\ ~connected
          /\ Return(t)
          /\ UNCHANGED owner
       \/ /\ connected
          /\ owner' = TRUE
          /\ Goto(t, "drain")
          /\ UNCHANGED lock
    /\ UNCHANGED <<connected, sendQueue, sendRegistered, sendBuffers, kernel, pushed, failures>>

(* RegisterSend: the whole queue moves into the event. *)
Drain(t) ==
    /\ pc[t] = "drain"
    /\ lock \in {NoThread, t}
    /\ sendBuffers' = sendBuffers \o sendQueue
    /\ sendQueue' = <<>>
    /\ Goto(t, "post")
    /\ UNCHANGED <<connected, sendRegistered, lock, owner, kernel, pushed, failures>>

(* RegisterSend: a WSASend that succeeds or is pending.  Either way its    *)
(* completion goes through the completion port.                            *)
Post(t) ==
    /\ pc[t] = "post"
    /\ posted' = Append(posted, sendBuffers)
    /\ Return(t)
    /\ UNCHANGED <<connected, sendQueue, sendRegistered, event, pushed, wire, failures>>

(* RegisterSend: a WSASend that fails at once, and the switch of           *)
(* HandleError over its code.                                              *)
PostFails(t) ==
    /\ pc[t] = "post"
    /\ \E e \in IF connected THEN Errors ELSE {"reset", "other"} :
          /\ failures' = failures \cup {e}
          /\ Goto(t, IF e = "reset" THEN "reset" ELSE "clear")
    /\ UNCHANGED <<connected, sendQueue, sendRegistered, lock, event, kernel, pushed>>

(* HandleError: Disconnect. *)
HandleReset(t) ==
    /\ pc[t] = "reset"
    /\ connected' = FALSE
    /\ Goto(t, "clear")
    /\ UNCHANGED <<sendQueue, sendRegistered, lock, event, kernel, pushed, failures>>

(* Fault: the failed event keeps its buffers. *)
ClearEventKeepsBuffers(t) ==
    /\ pc[t] = "clear"
    /\ owner' = FALSE
    /\ Goto(t, "unregister")
    /\ UNCHANGED <<connected, sendQueue, sendRegistered, lock, sendBuffers, kernel, pushed, failures>>

(* RegisterSend after HandleError: the event is released ... *)
ClearEvent(t) ==
    /\ pc[t] = "clear"
    /\ owner' = FALSE
    /\ sendBuffers' = <<>>
    /\ Goto(t, "unregister")
    /\ UNCHANGED <<connected, sendQueue, sendRegistered, lock, kernel, pushed, failures>>

(* ... and _sendRegistered cleared, whatever was queued meanwhile. *)
Unregister(t) ==
    /\ pc[t] = "unregister"
    /\ sendRegistered' = FALSE
    /\ Return(t)
    /\ UNCHANGED <<connected, sendQueue, event, kernel, pushed, failures>>

(* IocpCore::Dispatch: a worker takes the completion of a send, which      *)
(* reports its bytes, or 0 bytes when it was aborted.                      *)
Dispatch(t) ==
    /\ pc[t] = "idle"
    /\ posted # <<>>
    /\ posted' = Tail(posted)
    /\ \/ /\ wire' = wire \o Head(posted)
          /\ Goto(t, "sent")
          /\ UNCHANGED failures
       \/ /\ failures' = failures \cup {"aborted"}
          /\ Goto(t, "aborted")
          /\ UNCHANGED wire
    /\ UNCHANGED <<connected, sendQueue, sendRegistered, lock, event, pushed>>

(* Fault: ProcessSend does not look for buffers queued meanwhile. *)
ProcessSendOnce(t) ==
    /\ pc[t] \in {"sent", "aborted"}
    /\ owner' = FALSE
    /\ sendBuffers' = <<>>
    /\ Goto(t, IF pc[t] = "sent" THEN "idle" ELSE "hangup")
    /\ UNCHANGED <<connected, sendQueue, sendRegistered, lock, kernel, pushed, failures>>

(* ProcessSend: the event is released, then numOfBytes is looked at. *)
ProcessSend(t) ==
    /\ pc[t] \in {"sent", "aborted"}
    /\ owner' = FALSE
    /\ sendBuffers' = <<>>
    /\ Goto(t, IF pc[t] = "sent" THEN "relock" ELSE "hangup")
    /\ UNCHANGED <<connected, sendQueue, sendRegistered, lock, kernel, pushed, failures>>

(* ProcessSend: Disconnect("Send 0") and return. *)
HangUp(t) ==
    /\ pc[t] = "hangup"
    /\ connected' = FALSE
    /\ Goto(t, "idle")
    /\ UNCHANGED <<sendQueue, sendRegistered, lock, event, kernel, pushed, failures>>

(* Fault: the send ends whatever the queue holds. *)
SendNextEnds(t) ==
    /\ pc[t] = "relock"
    /\ lock = NoThread
    /\ sendRegistered' = FALSE
    /\ Goto(t, "idle")
    /\ UNCHANGED <<connected, sendQueue, lock, event, kernel, pushed, failures>>

(* ProcessSend: under the lock, end the send or register the next one. *)
SendNext(t) ==
    /\ pc[t] = "relock"
    /\ lock = NoThread
    /\ \/ /\ sendQueue = <<>>
          /\ sendRegistered' = FALSE
          /\ Goto(t, "idle")
          /\ UNCHANGED lock
       \/ /\ sendQueue # <<>>
          /\ lock' = t
          /\ Goto(t, "register")
          /\ UNCHANGED sendRegistered
    /\ UNCHANGED <<connected, sendQueue, event, kernel, pushed, failures>>

(* Disconnect for a cause outside the send path (Recv 0, a bad packet). *)
Disconnect ==
    /\ connected
    /\ connected' = FALSE
    /\ UNCHANGED <<sendQueue, sendRegistered, lock, event, kernel, pc, pushed, failures>>

Proceed(t) == \/ SendPush(t) \/ RegisterSend(t) \/ Drain(t)
              \/ Post(t) \/ PostFails(t) \/ HandleReset(t)
              \/ ClearEvent(t) \/ Unregister(t)
              \/ ProcessSend(t) \/ HangUp(t) \/ SendNext(t)

Step(t) == Send(t) \/ Dispatch(t) \/ Proceed(t)

(* The session may be idle for good: nobody sends and nothing completes. *)
Quiet == /\ posted = <<>> /\ \A t \in Threads : pc[t] = "idle"
         /\ UNCHANGED vars

Next == (\E t \in Threads : Step(t)) \/ Disconnect \/ Quiet

Spec == Init /\ [][Next]_vars

(* A thread in the send path goes on, the lock is not lost to the same     *)
(* thread forever, and the workers keep taking completions.                *)
Fairness == /\ \A t \in Threads : /\ WF_vars(Proceed(t))
                                  /\ SF_vars(SendPush(t)) /\ SF_vars(SendNext(t))
            /\ WF_vars(\E t \in Threads : Dispatch(t))

FairSpec == Spec /\ Fairness

-----------------------------------------------------------------------------
(* Where a thread works on _sendEvent, or is about to. *)
EventRegion == {"register", "drain", "post", "reset", "clear", "unregister",
                "sent", "aborted", "relock"}

Labels == EventRegion \cup {"idle", "push", "hangup"}

(* The type of every variable; a thread has the lock for longer than one   *)
(* step only inside a RegisterSend that ProcessSend called.                *)
TypeOK == /\ connected \in BOOLEAN /\ sendRegistered \in BOOLEAN /\ owner \in BOOLEAN
          /\ sendQueue \in Seq(Nat) /\ sendBuffers \in Seq(Nat) /\ wire \in Seq(Nat)
          /\ posted \in Seq(Seq(Nat))
          /\ lock \in Threads \cup {NoThread}
          /\ \A t \in Threads : lock = t =>
                pc[t] \in {"register", "drain", "post", "reset", "clear", "unregister"}
          /\ pc \in [Threads -> Labels]
          /\ pushed \in Nat
          /\ failures \subseteq {"reset", "other", "aborted"}

(* A send without buffers would complete with 0 bytes, and ProcessSend     *)
(* would take that for the end of the connection.                          *)
NoEmptySend == \A i \in DOMAIN posted : posted[i] # <<>>

(* _sendEvent is one OVERLAPPED without a lock of its own: at most one     *)
(* send is in flight or being prepared or completed, while one is,         *)
(* _sendRegistered keeps every other thread away, and none is empty.       *)
OneSendAtATime ==
    LET Using == {t \in Threads : pc[t] \in EventRegion}
    IN  /\ Len(posted) + Cardinality(Using) <= 1
        /\ Using # {} \/ posted # <<>> => sendRegistered
        /\ NoEmptySend

(* While the kernel has a send, and until its completion is handled, the   *)
(* event keeps the session alive (IocpCore::Dispatch goes through          *)
(* iocpEvent->owner) and holds the buffers the kernel reads.               *)
OwnedWhileInFlight ==
    /\ posted # <<>> => owner /\ sendBuffers = Head(posted)
    /\ \A t \in Threads : pc[t] \in {"sent", "aborted"} => owner

(* Queued buffers of a connected session always have a send registered     *)
(* that will come round to them, unless a WSASend has failed with a code   *)
(* HandleError only logs: the buffers queued while it failed then wait for *)
(* the next Send.                                                          *)
NotStranded ==
    connected /\ sendQueue # <<>> /\ ~sendRegistered => "other" \in failures

(* Every queued buffer reaches the peer, unless the session disconnects or *)
(* a WSASend fails with a code HandleError only logs.                      *)
Delivered ==
    LET GivenUp == ~connected \/ "other" \in failures
    IN  \A n \in 1 .. MaxSends :
            pushed >= n ~> GivenUp \/ \E i \in DOMAIN wire : wire[i] = n

-----------------------------------------------------------------------------
(* The buffers in the event that are neither on the wire nor dropped yet. *)
InFlight == IF \E t \in Threads : pc[t] \in {"reset", "clear", "sent", "aborted"}
            THEN <<>> ELSE sendBuffers

Pending == InFlight \o sendQueue

Pipe == INSTANCE SendPipe WITH submitted <- pushed, pending <- Pending

(* The send path implements the abstract pipe. *)
ImplementsPipe == Pipe!Spec
=============================================================================
