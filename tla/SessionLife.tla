----------------------------- MODULE SessionLife -----------------------------
(***************************************************************************)
(* The life of the server's sessions in ServerCore, from AcceptEx to the   *)
(* release of the last reference: Listener, IocpCore::Dispatch, Service    *)
(* and the connect, receive and disconnect paths of Session.               *)
(*                                                                         *)
(* The worker threads take completions from the port in their order.  Any  *)
(* thread may also find, in a Send of its own, that the connection is lost *)
(* and call Disconnect.  A step is a critical section of Service, an       *)
(* atomic operation on _connected, a call that posts an overlapped         *)
(* operation, or a callback.                                               *)
(*                                                                         *)
(* A session object lives as long as something refers to it: the accept    *)
(* event, Service::_sessions, the owner field of one of its own events, or *)
(* a thread at work on it.  The operating system refers to nothing: it     *)
(* writes into the session's events and receive buffer all the same, and   *)
(* Dispatch follows the owner field of what it is given.                   *)
(***************************************************************************)
EXTENDS Naturals, Sequences, FiniteSets

CONSTANTS Sessions,      \* the session objects the listener can make
          AcceptEvents,  \* Listener::_acceptEvents
          Threads,       \* the threads that dispatch completions or send
          NoSession,     \* a null SessionRef
          Errors,        \* how WSARecv may fail on a connected session:
                         \* "reset" for WSAECONNRESET and WSAECONNABORTED,
                         \* "other" for every code HandleError only logs
          MayRefuse      \* may DisconnectEx fail at once?

ASSUME NoSessionAssumption == NoSession \notin Sessions /\ "none" \notin AcceptEvents
ASSUME SessionsAssumption == /\ IsFiniteSet(Sessions) /\ IsFiniteSet(AcceptEvents)
                             /\ Cardinality(AcceptEvents) <= Cardinality(Sessions)
ASSUME ErrorsAssumption == Errors \subseteq {"reset", "other"}
ASSUME MayRefuseAssumption == MayRefuse \in BOOLEAN

VARIABLES accepting,  \* accept event -> its session
          used,       \* the session objects made so far
          sessions,   \* Service::_sessions
          count,      \* Service::_sessionCount
          connected,  \* session -> _connected
          owner,      \* session -> its events whose owner is set
          called,     \* session -> the callbacks made on it, oldest first
          link,       \* session -> the connection as the system sees it
          kernel,     \* the operations the system has not completed
          port,       \* the completions queued, oldest first
          pc,         \* thread -> where it is
          job,        \* thread -> the session and the accept event it works on
          ret,        \* thread -> where it goes on after Disconnect
          logged,     \* session -> its calls that failed and were only logged,
                      \* which the code does not keep
          crash       \* the assertion of ReleaseSession has failed

listener == accepting
service  == <<sessions, count>>
system   == <<link, kernel, port>>
thread   == <<pc, job, ret>>
vars == <<listener, used, service, connected, owner, called, system, thread, logged, crash>>

NoJob == [session |-> NoSession, accept |-> "none"]

(* An operation is named by its kind and by its accept event or session. *)
Accept(e) == <<"accept", e>>
Recv(s)   == <<"recv", s>>
Disc(s)   == <<"disc", s>>

(* StartAccept has posted every accept event, with a session each, before  *)
(* the threads run.                                                        *)
Init == /\ accepting \in [AcceptEvents -> Sessions]
        /\ \A e, f \in AcceptEvents : accepting[e] = accepting[f] => e = f
        /\ used = {accepting[e] : e \in AcceptEvents}
        /\ kernel = {Accept(e) : e \in AcceptEvents}
        /\ port = <<>>
        /\ sessions = {} /\ count = 0
        /\ connected = [s \in Sessions |-> FALSE]
        /\ owner = [s \in Sessions |-> {}]
        /\ called = [s \in Sessions |-> <<>>]
        /\ link = [s \in Sessions |-> "none"]
        /\ pc = [t \in Threads |-> "idle"]
        /\ job = [t \in Threads |-> NoJob]
        /\ ret = [t \in Threads |-> "idle"]
        /\ logged = [s \in Sessions |-> {}]
        /\ crash = FALSE

Session(t) == job[t].session

Goto(t, l) == pc' = [pc EXCEPT ![t] = l]

(* A thread that is done drops its reference to the session. *)
Idle(t) == /\ Goto(t, "idle")
           /\ job' = [job EXCEPT ![t] = NoJob]

(* On to l, which is the end of what the thread does when it is "idle". *)
GoOn(t, l) == IF l = "idle" THEN Idle(t) ELSE Goto(t, l) /\ UNCHANGED job

(* Disconnect is called, to return to l. *)
Disconnecting(t, l) == /\ Goto(t, "disconnect")
                       /\ ret' = [ret EXCEPT ![t] = l]

-----------------------------------------------------------------------------
(* Listener::RegisterAccept: a new session for the event, and AcceptEx;    *)
(* when AcceptEx fails at once, another session is made and tried.  The    *)
(* bound on the sessions ends the accepts.                                 *)
RegisterAccept(t) ==
    LET e == job[t].accept
    IN  /\ pc[t] = "accept"
        /\ \/ \E s \in Sessions \ used :
                 /\ used' = used \cup {s}
                 /\ accepting' = [accepting EXCEPT ![e] = s]
                 /\ \/ kernel' = kernel \cup {Accept(e)} /\ Idle(t)
                    \/ UNCHANGED <<kernel, pc, job>>
           \/ /\ Sessions \subseteq used
              /\ accepting' = [accepting EXCEPT ![e] = NoSession]
              /\ Idle(t)
              /\ UNCHANGED <<used, kernel>>
        /\ UNCHANGED <<service, connected, owner, called, link, port, ret, logged, crash>>

(* Fault: an accept that fails is not posted again. *)
ProcessAcceptGivesUp(t) ==
    /\ pc[t] = "accepted"
    /\ \/ link[Session(t)] # "none" /\ Goto(t, "connect") /\ UNCHANGED job
       \/ link[Session(t)] # "up" /\ Idle(t)
    /\ UNCHANGED <<listener, used, service, connected, owner, called, system, ret, logged, crash>>

(* Listener::ProcessAccept: an accept that the peer has given up fails in  *)
(* SetUpdateAcceptSocket or getpeername, and the event is posted again.    *)
ProcessAccept(t) ==
    /\ pc[t] = "accepted"
    /\ \/ link[Session(t)] # "none" /\ Goto(t, "connect")
       \/ link[Session(t)] # "up" /\ Goto(t, "accept")
    /\ UNCHANGED <<listener, used, service, connected, owner, called, system, job, ret, logged, crash>>

(* Session::ProcessConnect, in its four steps. *)
ProcessConnect(t) ==
    /\ pc[t] = "connect"
    /\ connected' = [connected EXCEPT ![Session(t)] = TRUE]
    /\ Goto(t, "addSession")
    /\ UNCHANGED <<listener, used, service, owner, called, system, job, ret, logged, crash>>

AddSession(t) ==
    /\ pc[t] = "addSession"
    /\ sessions' = sessions \cup {Session(t)}
    /\ count' = count + 1
    /\ Goto(t, "onConnected")
    /\ UNCHANGED <<listener, used, connected, owner, called, system, job, ret, logged, crash>>

(* Fault: the callback registers a receive of its own. *)
OnConnectedReceives(t) ==
    /\ pc[t] = "onConnected"
    /\ called' = [called EXCEPT ![Session(t)] = Append(@, "connected")]
    /\ owner' = [owner EXCEPT ![Session(t)] = @ \cup {"recv"}]
    /\ kernel' = kernel \cup {Recv(Session(t))}
    /\ Goto(t, "registerRecv")
    /\ UNCHANGED <<listener, used, service, connected, link, port, job, ret, logged, crash>>

OnConnected(t) ==
    /\ pc[t] = "onConnected"
    /\ called' = [called EXCEPT ![Session(t)] = Append(@, "connected")]
    /\ Goto(t, "registerRecv")
    /\ UNCHANGED <<listener, used, service, connected, owner, system, job, ret, logged, crash>>

-----------------------------------------------------------------------------
(* Where RegisterRecv returns to: ProcessConnect has been called by        *)
(* ProcessAccept, which posts its event again.                             *)
Back(t) == IF job[t].accept = "none" THEN "idle" ELSE "accept"

(* Session::RegisterRecv: the check of _connected and the owner field. *)
RegisterRecv(t) ==
    /\ pc[t] = "registerRecv"
    /\ \/ /\ ~connected[Session(t)]
          /\ GoOn(t, Back(t))
          /\ UNCHANGED owner
       \/ /\ connected[Session(t)]
          /\ owner' = [owner EXCEPT ![Session(t)] = @ \cup {"recv"}]
          /\ Goto(t, "recv")
          /\ UNCHANGED job
    /\ UNCHANGED <<listener, used, service, connected, called, system, ret, logged, crash>>

(* Session::RegisterRecv: WSARecv, which always fails on a socket that has *)
(* been disconnected meanwhile.                                            *)
PostRecv(t) ==
    LET s == Session(t)
    IN  /\ pc[t] = "recv"
        /\ \/ /\ link[s] # "closed"
              /\ kernel' = kernel \cup {Recv(s)}
              /\ GoOn(t, Back(t))
              /\ UNCHANGED <<ret, logged>>
           \/ /\ "reset" \in Errors
              /\ Disconnecting(t, "recvFailed")
              /\ UNCHANGED <<kernel, job, logged>>
           \/ /\ "other" \in Errors \/ link[s] = "closed"
              /\ logged' = [logged EXCEPT ![s] = @ \cup {"recv"}]
              /\ Goto(t, "recvFailed")
              /\ UNCHANGED <<kernel, job, ret>>
        /\ UNCHANGED <<listener, used, service, connected, owner, called, link, port, crash>>

(* Fault: the owner of a receive that failed stays. *)
RecvFailedKeepsOwner(t) ==
    /\ pc[t] = "recvFailed"
    /\ GoOn(t, Back(t))
    /\ UNCHANGED <<listener, used, service, connected, owner, called, system, ret, logged, crash>>

RecvFailed(t) ==
    /\ pc[t] = "recvFailed"
    /\ owner' = [owner EXCEPT ![Session(t)] = @ \ {"recv"}]
    /\ GoOn(t, Back(t))
    /\ UNCHANGED <<listener, used, service, connected, called, system, ret, logged, crash>>

(* Session::ProcessRecv with data: OnRecv handles the packets, and a send  *)
(* of a handler may find the connection lost; a length that does not fit   *)
(* disconnects, otherwise the next receive is registered.                  *)
OnRecv(t) ==
    /\ pc[t] = "onRecv"
    /\ \/ Goto(t, "registerRecv") /\ UNCHANGED ret
       \/ Disconnecting(t, "registerRecv")
       \/ Disconnecting(t, "idle")
    /\ UNCHANGED <<listener, used, service, connected, owner, called, system, job, logged, crash>>

-----------------------------------------------------------------------------
(* Fault: every caller of Disconnect goes on. *)
DisconnectUnguarded(t) ==
    /\ pc[t] = "disconnect"
    /\ connected' = [connected EXCEPT ![Session(t)] = FALSE]
    /\ Goto(t, "registerDisconnect")
    /\ UNCHANGED <<listener, used, service, owner, called, system, job, ret, logged, crash>>

(* Fault: the flag is cleared and DisconnectEx is not called. *)
DisconnectFlagOnly(t) ==
    /\ pc[t] = "disconnect"
    /\ connected' = [connected EXCEPT ![Session(t)] = FALSE]
    /\ GoOn(t, ret[t])
    /\ UNCHANGED <<listener, used, service, owner, called, system, ret, logged, crash>>

(* Session::Disconnect: the exchange that lets one caller through. *)
Disconnect(t) ==
    /\ pc[t] = "disconnect"
    /\ connected' = [connected EXCEPT ![Session(t)] = FALSE]
    /\ IF connected[Session(t)] THEN Goto(t, "registerDisconnect") /\ UNCHANGED job
                                ELSE GoOn(t, ret[t])
    /\ UNCHANGED <<listener, used, service, owner, called, system, ret, logged, crash>>

(* Session::RegisterDisconnect: DisconnectEx fails at once or goes on. *)
RegisterDisconnect(t) ==
    LET s == Session(t)
    IN  /\ pc[t] = "registerDisconnect"
        /\ \/ /\ owner' = [owner EXCEPT ![s] = @ \cup {"disc"}]
              /\ kernel' = kernel \cup {Disc(s)}
              /\ UNCHANGED logged
           \/ /\ MayRefuse
              /\ logged' = [logged EXCEPT ![s] = @ \cup {"disc"}]
              /\ UNCHANGED <<owner, kernel>>
        /\ GoOn(t, ret[t])
        /\ UNCHANGED <<listener, used, service, connected, called, link, port, ret, crash>>

(* A thread whose Send to s fails with a reset calls Disconnect; sessions  *)
(* are sent to once their handlers have made them known, by OnConnected at *)
(* the earliest, and while somebody refers to them.                        *)
SendFails(t, s) ==
    /\ pc[t] = "idle"
    /\ connected[s] /\ s \in sessions /\ called[s] # <<>>
    /\ job' = [job EXCEPT ![t].session = s]
    /\ Disconnecting(t, "idle")
    /\ UNCHANGED <<listener, used, service, connected, owner, called, system, logged, crash>>

(* Session::ProcessDisconnect, in its two steps. *)
OnDisconnected(t) ==
    /\ pc[t] = "onDisconnected"
    /\ called' = [called EXCEPT ![Session(t)] = Append(@, "disconnected")]
    /\ Goto(t, "releaseSession")
    /\ UNCHANGED <<listener, used, service, connected, owner, system, job, ret, logged, crash>>

(* Service::ReleaseSession asserts that the session was there. *)
ReleaseSession(t) ==
    LET s == Session(t)
    IN  /\ pc[t] = "releaseSession"
        /\ \/ /\ s \in sessions
              /\ sessions' = sessions \ {s}
              /\ count' = count - 1
              /\ Idle(t)
              /\ UNCHANGED crash
           \/ /\ s \notin sessions
              /\ crash' = TRUE
              /\ UNCHANGED <<service, pc, job>>
        /\ UNCHANGED <<listener, used, connected, owner, called, system, ret, logged>>

-----------------------------------------------------------------------------
(* IocpCore::Dispatch and Session::Dispatch: the thread takes the oldest   *)
(* completion and a reference to its object; the handler clears the owner. *)
(* A completion with an error is dispatched like one of no bytes.          *)
Dispatch(t) ==
    /\ pc[t] = "idle" /\ port # <<>>
    /\ port' = Tail(port)
    /\ LET op == Head(port)[1]
       IN  IF op[1] = "accept"
           THEN /\ job' = [job EXCEPT ![t] = [session |-> accepting[op[2]], accept |-> op[2]]]
                /\ Goto(t, "accepted")
                /\ UNCHANGED <<owner, ret>>
           ELSE /\ job' = [job EXCEPT ![t].session = op[2]]
                /\ owner' = [owner EXCEPT ![op[2]] = @ \ {op[1]}]
                /\ \/ op[1] = "disc" /\ Goto(t, "onDisconnected") /\ UNCHANGED ret
                   \/ op[1] = "recv" /\ Head(port)[2] = 0 /\ Disconnecting(t, "idle")
                   \/ op[1] = "recv" /\ Head(port)[2] # 0 /\ Goto(t, "onRecv") /\ UNCHANGED ret
    /\ UNCHANGED <<listener, used, service, connected, called, link, kernel, logged, crash>>

(* The operating system completes an operation: op, with n bytes (0 is an  *)
(* end of file or an error).                                               *)
Complete(op, n) ==
    /\ op \in kernel
    /\ kernel' = kernel \ {op}
    /\ port' = Append(port, <<op, n>>)
    /\ UNCHANGED <<listener, used, service, connected, owner, called, thread, logged, crash>>

(* A peer connects, and may have given up before the accept is dispatched. *)
PeerConnects(e) ==
    /\ Complete(Accept(e), 0)
    /\ \/ link' = [link EXCEPT ![accepting[e]] = "up"]
       \/ link' = [link EXCEPT ![accepting[e]] = "down"]
       \/ UNCHANGED link

(* Data arrives. *)
PeerSends(s) == link[s] = "up" /\ Complete(Recv(s), 1) /\ UNCHANGED link

(* The connection is lost, or the peer closes it. *)
PeerCloses(s) ==
    /\ link[s] = "up"
    /\ link' = [link EXCEPT ![s] = "down"]
    /\ UNCHANGED <<listener, used, service, connected, owner, called, kernel, port, thread, logged, crash>>

(* A receive ends without data once the connection is down or is being     *)
(* disconnected.                                                           *)
RecvEnds(s) ==
    /\ link[s] # "up" \/ Disc(s) \in kernel
    /\ Complete(Recv(s), 0)
    /\ UNCHANGED link

DisconnectCompletes(s) ==
    /\ Complete(Disc(s), 0)
    /\ link' = [link EXCEPT ![s] = "closed"]

-----------------------------------------------------------------------------
(* What a thread does once it has a completion or a failed send. *)
Proceed(t) ==
    \/ RegisterAccept(t) \/ ProcessAccept(t) \/ ProcessConnect(t) \/ AddSession(t)
    \/ OnConnected(t) \/ RegisterRecv(t) \/ PostRecv(t) \/ RecvFailed(t) \/ OnRecv(t)
    \/ Disconnect(t) \/ RegisterDisconnect(t) \/ OnDisconnected(t) \/ ReleaseSession(t)

System(s) == PeerSends(s) \/ PeerCloses(s) \/ RecvEnds(s) \/ DisconnectCompletes(s)

(* Nothing is left to do: the listener has run out of sessions, or nobody  *)
(* connects.                                                               *)
Quiet == port = <<>> /\ (\A t \in Threads : pc[t] = "idle") /\ UNCHANGED vars

Running == \/ \E e \in AcceptEvents : PeerConnects(e)
           \/ \E s \in Sessions : System(s)
           \/ \E t \in Threads : Dispatch(t) \/ Proceed(t)
           \/ \E t \in Threads, s \in Sessions : SendFails(t, s)

(* The process that an assertion has stopped does nothing. *)
Next == (~crash /\ Running) \/ Quiet

Spec == Init /\ [][Next]_vars

(* Threads keep running and the system completes what it can: a receive on *)
(* a lost connection, a disconnect.  Nobody need connect, send or close.   *)
Fairness ==
    /\ \A t \in Threads : WF_vars(Dispatch(t)) /\ WF_vars(Proceed(t))
    /\ \A s \in Sessions : WF_vars(RecvEnds(s)) /\ WF_vars(DisconnectCompletes(s))

FairSpec == Spec /\ Fairness

-----------------------------------------------------------------------------
(* Properties. *)

Labels == {"idle", "accepted", "accept", "connect", "addSession", "onConnected",
           "registerRecv", "recv", "recvFailed", "onRecv", "disconnect",
           "registerDisconnect", "onDisconnected", "releaseSession"}

Operations == {Accept(e) : e \in AcceptEvents} \cup UNION {{Recv(s), Disc(s)} : s \in Sessions}

(* The state has its type, and a thread that is not idle has a session. *)
TypeOK ==
    /\ accepting \in [AcceptEvents -> Sessions \cup {NoSession}]
    /\ used \subseteq Sessions /\ sessions \subseteq used
    /\ count \in Nat
    /\ connected \in [Sessions -> BOOLEAN]
    /\ owner \in [Sessions -> SUBSET {"recv", "disc"}]
    /\ called \in [Sessions -> Seq({"connected", "disconnected"})]
    /\ link \in [Sessions -> {"none", "up", "down", "closed"}]
    /\ kernel \subseteq Operations
    /\ port \in Seq(Operations \X {0, 1})
    /\ pc \in [Threads -> Labels]
    /\ job \in [Threads -> [session : used \cup {NoSession}, accept : AcceptEvents \cup {"none"}]]
    /\ ret \in [Threads -> {"idle", "registerRecv", "recvFailed"}]
    /\ logged \in [Sessions -> SUBSET {"recv", "disc"}]
    /\ crash \in BOOLEAN
    /\ \A t \in Threads : pc[t] = "idle" <=> Session(t) = NoSession

(* The content's callbacks come once each and in order, OnConnected before *)
(* OnDisconnected, whoever finds the connection lost and however often.    *)
CallbacksInOrder ==
    \A s \in Sessions :
        called[s] \in {<<>>, <<"connected">>, <<"connected", "disconnected">>}

(* The service knows every session that is connected and announced, counts *)
(* the sessions it knows, and the assertion of ReleaseSession holds:       *)
(* ASSERT_CRASH(_sessions.erase(session) != 0).                            *)
ServiceKnows ==
    /\ ~crash
    /\ count = Cardinality(sessions)
    /\ \A s \in Sessions : connected[s] /\ called[s] # <<>> => s \in sessions

(* Content and service agree with the connection.                          *)
InService == TypeOK /\ CallbacksInOrder /\ ServiceKnows

InFlight(op) == op \in kernel \/ \E i \in DOMAIN port : port[i][1] = op

(* The threads at work on the receive buffer of s. *)
Receiving(s) ==
    {t \in Threads :
        /\ Session(t) = s
        /\ \/ pc[t] \in {"onRecv", "registerRecv", "recv"}
           \/ pc[t] \in {"disconnect", "registerDisconnect"} /\ ret[t] = "registerRecv"}

(* _recvBuffer has no lock: it is used by one thread at a time, and by     *)
(* none while the system receives into it.                                 *)
OneReceive ==
    \A s \in Sessions :
        Cardinality(Receiving(s)) + (IF InFlight(Recv(s)) THEN 1 ELSE 0) <= 1

(* The threads between setting the owner of the receive event of s and     *)
(* either posting it or clearing the owner again.                          *)
Posting(s) ==
    {t \in Threads :
        /\ Session(t) = s
        /\ \/ pc[t] \in {"recv", "recvFailed"}
           \/ pc[t] \in {"disconnect", "registerDisconnect"} /\ ret[t] = "recvFailed"}

(* An event owns its session just as long as it is needed: an operation in *)
(* flight has an owner for Dispatch to follow and keeps the memory it      *)
(* writes to, and a session no operation uses does not refer to itself,    *)
(* which would keep it for ever.                                           *)
OwnedWhileInFlight ==
    \A s \in Sessions :
        /\ "recv" \in owner[s] <=> InFlight(Recv(s)) \/ Posting(s) # {}
        /\ "disc" \in owner[s] <=> InFlight(Disc(s))

(* The server never stops accepting: each accept event is in flight or in  *)
(* the hands of a thread, however its connections fail.                    *)
KeepsAccepting ==
    \A e \in AcceptEvents :
        \/ InFlight(Accept(e))
        \/ \E t \in Threads : job[t].accept = e
        \/ accepting[e] = NoSession /\ Sessions \subseteq used

(* A connected session that no thread is at work on is listening: its next *)
(* packet or the end of its connection will be noticed.  This is lost only *)
(* with a receive that fails with a code HandleError logs and no more.     *)
NotDeaf ==
    \A s \in Sessions :
        connected[s] /\ "recv" \notin logged[s] =>
            InFlight(Recv(s)) \/ \E t \in Threads : Session(t) = s

(* The server goes on hearing: new connections, and those it has.          *)
Listens == KeepsAccepting /\ NotDeaf

(* Something refers to the session object: the content does between its    *)
(* callbacks.                                                              *)
Referenced(s) ==
    \/ \E e \in AcceptEvents : accepting[e] = s
    \/ s \in sessions
    \/ owner[s] # {}
    \/ called[s] = <<"connected">>
    \/ \E t \in Threads : Session(t) = s

(* A session whose connection is lost is disconnected, released and        *)
(* destroyed in the end, unless a receive of it or its DisconnectEx fails  *)
(* at once and is only logged.                                             *)
Released == \A s \in Sessions : link[s] = "down" ~> ~Referenced(s) \/ logged[s] # {}
=============================================================================
