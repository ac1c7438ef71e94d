------------------------- MODULE SessionLife_proofs -------------------------
(***************************************************************************)
(* Proofs about SessionLife, for every number of sessions, accept events   *)
(* and threads: the callbacks, the service's table, the receive buffer and *)
(* the owner fields of a session's events stay in step whatever the        *)
(* threads and the system do.                                              *)
(*                                                                         *)
(* Each of a session's operations is a token that one holder has at a      *)
(* time, the system, the port or a thread: the accept event until the      *)
(* session is announced, then the receive, and from the one exchange of    *)
(* _connected that finds it set, the disconnect.                           *)
(***************************************************************************)
EXTENDS SessionLife, FiniteSetTheorems, SequenceTheorems, TLAPS

(* The operations in flight: InFlight as a set. *)
Flight == kernel \cup {port[i][1] : i \in DOMAIN port}

(* An operation is posted once, and completes once. *)
OpsOnce ==
    /\ \A i, j \in DOMAIN port : port[i][1] = port[j][1] => i = j
    /\ \A i \in DOMAIN port : port[i][1] \notin kernel

(* A session that has not been announced to the content. *)
Untouched(s) == /\ called[s] = <<>> /\ owner[s] = {}
                /\ Recv(s) \notin Flight /\ Disc(s) \notin Flight

New(s) == /\ Untouched(s) /\ ~connected[s] /\ s \notin sessions
          /\ \A t \in Threads : Session(t) # s

(* The accept events and their sessions are apart from each other. *)
AcceptsApart ==
    /\ \A e \in AcceptEvents : accepting[e] \in used \cup {NoSession}
    /\ \A e, f \in AcceptEvents : accepting[e] = accepting[f] /\ accepting[e] # NoSession => e = f
    /\ \A t, u \in Threads : job[t].accept = job[u].accept /\ job[t].accept # "none" => t = u
    /\ \A t \in Threads : job[t].accept # "none" =>
          /\ Accept(job[t].accept) \notin Flight
          /\ pc[t] # "accept" => accepting[job[t].accept] = Session(t)

(* Nobody knows a session that waits for a peer or is yet to be made. *)
NewSessions ==
    /\ \A e \in AcceptEvents : Accept(e) \in Flight => accepting[e] \in used /\ New(accepting[e])
    /\ \A s \in Sessions \ used : New(s)

(* Only the thread that has its accept event knows a session that is being *)
(* connected.                                                              *)
Entering == {"accepted", "connect", "addSession", "onConnected"}

EnteredAlone ==
    \A t \in Threads : pc[t] \in Entering =>
        /\ Untouched(Session(t))
        /\ \A u \in Threads \ {t} : Session(u) # Session(t)
        /\ connected[Session(t)] <=> pc[t] \in {"addSession", "onConnected"}
        /\ Session(t) \in sessions <=> pc[t] = "onConnected"

(* Which threads have an accept event. *)
AcceptHeld ==
    \A t \in Threads :
        /\ pc[t] \in Entering \cup {"accept"} => job[t].accept # "none"
        /\ pc[t] \in {"idle", "onRecv", "onDisconnected", "releaseSession"} => job[t].accept = "none"
        /\ pc[t] \in {"disconnect", "registerDisconnect"} /\ ret[t] # "recvFailed"
              => job[t].accept = "none"

(* What is at work on a session comes after OnConnected. *)
Announced ==
    /\ \A t \in Threads : pc[t] \notin Entering \cup {"idle", "accept"} => called[Session(t)] # <<>>
    /\ \A s \in Sessions : Recv(s) \in Flight \/ Disc(s) \in Flight => called[s] # <<>>

(* The threads that have the receive of their session. *)
AtPost(t) == \/ pc[t] \in {"recv", "recvFailed"}
             \/ pc[t] \in {"disconnect", "registerDisconnect"} /\ ret[t] = "recvFailed"

AtReceive(t) == \/ AtPost(t) \/ pc[t] \in {"onRecv", "registerRecv"}
                \/ pc[t] \in {"disconnect", "registerDisconnect"} /\ ret[t] = "registerRecv"

ReceiveOnce ==
    /\ \A t, u \in Threads : AtReceive(t) /\ AtReceive(u) /\ Session(t) = Session(u) => t = u
    /\ \A t \in Threads : AtReceive(t) => Recv(Session(t)) \notin Flight

ReceiveOwned ==
    \A s \in Sessions : "recv" \in owner[s] <=>
        Recv(s) \in Flight \/ \E t \in Threads : AtPost(t) /\ Session(t) = s

(* The threads that have the disconnect of their session. *)
AtDisc(t) == pc[t] \in {"registerDisconnect", "onDisconnected", "releaseSession"}

DisconnectOnce ==
    /\ \A t, u \in Threads : AtDisc(t) /\ AtDisc(u) /\ Session(t) = Session(u) => t = u
    /\ \A t \in Threads : AtDisc(t) =>
          Disc(Session(t)) \notin Flight /\ ~connected[Session(t)] /\ Session(t) \in sessions
    /\ \A s \in Sessions : Disc(s) \in Flight => ~connected[s] /\ s \in sessions

DisconnectOwned == \A s \in Sessions : "disc" \in owner[s] <=> Disc(s) \in Flight

(* Where the disconnect is, OnDisconnected has not been called, but just.  *)
DisconnectCalled ==
    /\ \A t \in Threads : AtDisc(t) =>
          called[Session(t)] = IF pc[t] = "releaseSession" THEN <<"connected", "disconnected">>
                                                            ELSE <<"connected">>
    /\ \A s \in Sessions : Disc(s) \in Flight => called[s] = <<"connected">>

(* A session that is connected and announced is known and will receive. *)
KnownWhileConnected ==
    \A s \in Sessions : connected[s] /\ called[s] # <<>> => s \in sessions /\ called[s] = <<"connected">>

(* A thread that leaves a session still connected leaves it receiving. *)
Hears(t) == pc[t] \in {"addSession", "onConnected", "registerRecv", "recv", "onRecv", "disconnect"}

HeardOf ==
    \A s \in Sessions :
        connected[s] /\ "recv" \notin logged[s] =>
            Recv(s) \in Flight \/ \E t \in Threads : Session(t) = s /\ Hears(t)

FailedGone ==
    \A t \in Threads : pc[t] = "recvFailed" =>
        ~connected[Session(t)] \/ "recv" \in logged[Session(t)]

(* An accept event is in flight or with a thread, until sessions run out. *)
AcceptsKept ==
    \A e \in AcceptEvents :
        \/ Accept(e) \in Flight
        \/ \E t \in Threads : job[t].accept = e
        \/ accepting[e] = NoSession /\ Sessions \subseteq used

(* The service counts the sessions it knows. *)
Counted == ~crash /\ count = Cardinality(sessions)

IInv == /\ TypeOK /\ CallbacksInOrder /\ Counted
        /\ OpsOnce /\ AcceptsApart /\ NewSessions /\ EnteredAlone /\ AcceptHeld
        /\ Announced /\ ReceiveOnce /\ ReceiveOwned
        /\ DisconnectOnce /\ DisconnectOwned /\ DisconnectCalled /\ KnownWhileConnected
        /\ AcceptsKept /\ HeardOf /\ FailedGone

-----------------------------------------------------------------------------
(* The threads that a step of t leaves where they are. *)
OthersStay(t) == \A u \in Threads \ {t} : pc'[u] = pc[u] /\ job'[u] = job[u] /\ ret'[u] = ret[u]

(* The sessions that a step at s leaves as they are, in f. *)
OthersKeep(f, g, s) == \A r \in Sessions \ {s} : f[r] = g[r]

(* A thread goes on to l, or is done with its session. *)
GoesOn(t, l) == /\ pc'[t] = l
                /\ l # "idle" => job'[t] = job[t]
                /\ l = "idle" => job'[t].session = NoSession /\ job'[t].accept = "none"

(* A thread at work has a session. *)
LEMMA Working ==
    ASSUME TypeOK, NEW t \in Threads
    PROVE  /\ pc[t] # "idle" => Session(t) \in Sessions /\ Session(t) \in used
           /\ pc[t] = "idle" => Session(t) = NoSession
           /\ NoSession \notin Sessions /\ used \subseteq Sessions /\ sessions \subseteq used
BY NoSessionAssumption DEF TypeOK, Session

JobType == [session : used \cup {NoSession}, accept : AcceptEvents \cup {"none"}]

(* A thread that goes on, or is done, and nobody else. *)
LEMMA GoOnKeeps ==
    ASSUME TypeOK, NEW t \in Threads, NEW l \in Labels, pc[t] # "idle",
           used \subseteq used', GoOn(t, l)
    PROVE  /\ pc' \in [Threads -> Labels] /\ job' \in [Threads -> JobType']
           /\ \A u \in Threads : pc'[u] = "idle" <=> job'[u].session = NoSession
           /\ GoesOn(t, l)
           /\ \A u \in Threads \ {t} : pc'[u] = pc[u] /\ job'[u] = job[u]
<1>1. /\ pc \in [Threads -> Labels] /\ job \in [Threads -> JobType]
      /\ \A u \in Threads : pc[u] = "idle" <=> job[u].session = NoSession
  BY DEF TypeOK, JobType, Session
<1>2. pc' = [pc EXCEPT ![t] = l]
  BY DEF GoOn, Idle, Goto
<1>3. CASE l = "idle"
  <2>1. job' = [job EXCEPT ![t] = NoJob]
    BY <1>3 DEF GoOn, Idle
  <2>2. NoJob \in JobType' /\ NoJob.session = NoSession /\ NoJob.accept = "none"
    BY DEF NoJob, JobType
  <2>3. JobType \subseteq JobType'
    BY DEF JobType
  <2> HIDE DEF NoJob, JobType
  <2> QED
    BY <1>1, <1>2, <1>3, <2>1, <2>2, <2>3 DEF GoesOn
<1>4. CASE l # "idle"
  <2>1. job' = job
    BY <1>4 DEF GoOn
  <2>2. JobType \subseteq JobType'
    BY DEF JobType
  <2> HIDE DEF JobType
  <2> QED
    BY <1>1, <1>2, <1>4, <2>1, <2>2 DEF GoesOn
<1> QED
  BY <1>3, <1>4

(* The outcomes of the actions that have several. *)
RegisterRecvStops(t) ==
    /\ pc[t] = "registerRecv" /\ ~connected[Session(t)]
    /\ GoOn(t, Back(t))
    /\ UNCHANGED <<listener, used, service, connected, owner, called, system, ret, logged, crash>>

RegisterRecvGoes(t) ==
    /\ pc[t] = "registerRecv" /\ connected[Session(t)]
    /\ owner' = [owner EXCEPT ![Session(t)] = @ \cup {"recv"}]
    /\ Goto(t, "recv")
    /\ UNCHANGED <<listener, used, service, connected, called, system, job, ret, logged, crash>>

PostRecvGoes(t) ==
    /\ pc[t] = "recv"
    /\ kernel' = kernel \cup {Recv(Session(t))}
    /\ GoOn(t, Back(t))
    /\ UNCHANGED <<listener, used, service, connected, owner, called, link, port, ret, logged, crash>>

PostRecvReset(t) ==
    /\ pc[t] = "recv"
    /\ Disconnecting(t, "recvFailed")
    /\ UNCHANGED <<listener, used, service, connected, owner, called, system, job, logged, crash>>

PostRecvLogged(t) ==
    /\ pc[t] = "recv"
    /\ logged' = [logged EXCEPT ![Session(t)] = @ \cup {"recv"}]
    /\ Goto(t, "recvFailed")
    /\ UNCHANGED <<listener, used, service, connected, owner, called, system, job, ret, crash>>

RegisterDisconnectGoes(t) ==
    /\ pc[t] = "registerDisconnect"
    /\ owner' = [owner EXCEPT ![Session(t)] = @ \cup {"disc"}]
    /\ kernel' = kernel \cup {Disc(Session(t))}
    /\ GoOn(t, ret[t])
    /\ UNCHANGED <<listener, used, service, connected, called, link, port, ret, logged, crash>>

RegisterDisconnectFails(t) ==
    /\ pc[t] = "registerDisconnect"
    /\ logged' = [logged EXCEPT ![Session(t)] = @ \cup {"disc"}]
    /\ GoOn(t, ret[t])
    /\ UNCHANGED <<listener, used, service, connected, owner, called, system, ret, crash>>

RegisterAcceptPosts(t, s) ==
    /\ pc[t] = "accept" /\ s \in Sessions \ used
    /\ used' = used \cup {s}
    /\ accepting' = [accepting EXCEPT ![job[t].accept] = s]
    /\ kernel' = kernel \cup {Accept(job[t].accept)} /\ GoOn(t, "idle")
    /\ UNCHANGED <<service, connected, owner, called, link, port, ret, logged, crash>>

RegisterAcceptFails(t, s) ==
    /\ pc[t] = "accept" /\ s \in Sessions \ used
    /\ used' = used \cup {s}
    /\ accepting' = [accepting EXCEPT ![job[t].accept] = s]
    /\ UNCHANGED <<service, connected, owner, called, system, thread, logged, crash>>

RegisterAcceptEnds(t) ==
    /\ pc[t] = "accept" /\ Sessions \subseteq used
    /\ accepting' = [accepting EXCEPT ![job[t].accept] = NoSession]
    /\ GoOn(t, "idle")
    /\ UNCHANGED <<used, service, connected, owner, called, system, ret, logged, crash>>

Dispatched(t, op) ==
    /\ pc[t] = "idle" /\ port # <<>> /\ port' = Tail(port) /\ Head(port)[1] = op
    /\ UNCHANGED <<listener, used, service, connected, called, link, kernel, logged, crash>>

DispatchAccept(t, e) ==
    /\ Dispatched(t, Accept(e))
    /\ job' = [job EXCEPT ![t] = [session |-> accepting[e], accept |-> e]]
    /\ Goto(t, "accepted")
    /\ UNCHANGED <<owner, ret>>

DispatchRecv(t, s) ==
    /\ Dispatched(t, Recv(s))
    /\ job' = [job EXCEPT ![t].session = s]
    /\ owner' = [owner EXCEPT ![s] = @ \ {"recv"}]
    /\ Disconnecting(t, "idle") \/ (Goto(t, "onRecv") /\ UNCHANGED ret)

DispatchDisc(t, s) ==
    /\ Dispatched(t, Disc(s))
    /\ job' = [job EXCEPT ![t].session = s]
    /\ owner' = [owner EXCEPT ![s] = @ \ {"disc"}]
    /\ Goto(t, "onDisconnected") /\ UNCHANGED ret

(* What the calls that may fail at once come to. *)
LEMMA Outcomes ==
    ASSUME NEW t \in Threads
    PROVE  /\ RegisterRecv(t) => RegisterRecvStops(t) \/ RegisterRecvGoes(t)
           /\ PostRecv(t) => PostRecvGoes(t) \/ PostRecvReset(t) \/ PostRecvLogged(t)
           /\ RegisterDisconnect(t) => RegisterDisconnectGoes(t) \/ RegisterDisconnectFails(t)
<1>1. RegisterRecv(t) => RegisterRecvStops(t) \/ RegisterRecvGoes(t)
  BY DEF RegisterRecv, RegisterRecvStops, RegisterRecvGoes
<1>2. PostRecv(t) => PostRecvGoes(t) \/ PostRecvReset(t) \/ PostRecvLogged(t)
  BY DEF PostRecv, PostRecvGoes, PostRecvReset, PostRecvLogged, system
<1>3. RegisterDisconnect(t) => RegisterDisconnectGoes(t) \/ RegisterDisconnectFails(t)
  BY DEF RegisterDisconnect, RegisterDisconnectGoes, RegisterDisconnectFails, system
<1> QED
  BY <1>1, <1>2, <1>3

(* AcceptEx goes on, fails and is tried again, or the sessions have run out. *)
LEMMA AcceptOutcomes ==
    ASSUME NEW t \in Threads, RegisterAccept(t)
    PROVE  \/ \E s \in Sessions : RegisterAcceptPosts(t, s) \/ RegisterAcceptFails(t, s)
           \/ RegisterAcceptEnds(t)
BY DEF RegisterAccept, RegisterAcceptPosts, RegisterAcceptFails, RegisterAcceptEnds, system, thread, GoOn

(* A completion is of an accept, of a receive or of a disconnect. *)
LEMMA DispatchOutcomes ==
    ASSUME TypeOK, OpsOnce, NEW t \in Threads, Dispatch(t)
    PROVE  \/ \E e \in AcceptEvents : DispatchAccept(t, e)
           \/ \E s \in Sessions : DispatchRecv(t, s) \/ DispatchDisc(t, s)
<1> DEFINE op == Head(port)[1]
<1>1. op \in Operations
  <2>1. port # <<>>
    BY DEF Dispatch
  <2>2. port \in Seq(Operations \X {0, 1})
    BY DEF TypeOK
  <2>3. Head(port) \in Operations \X {0, 1}
    BY <2>1, <2>2
  <2> QED
    BY <2>3
<1>2. \/ \E e \in AcceptEvents : op = Accept(e)
      \/ \E s \in Sessions : op = Recv(s) \/ op = Disc(s)
  BY <1>1 DEF Operations
<1>3. ASSUME NEW e \in AcceptEvents, op = Accept(e) PROVE DispatchAccept(t, e)
  BY <1>3 DEF Dispatch, DispatchAccept, Dispatched, Accept
<1>4. ASSUME NEW s \in Sessions, op = Recv(s) PROVE DispatchRecv(t, s)
  BY <1>4 DEF Dispatch, DispatchRecv, Dispatched, Recv
<1>5. ASSUME NEW s \in Sessions, op = Disc(s) PROVE DispatchDisc(t, s)
  BY <1>5 DEF Dispatch, DispatchDisc, Dispatched, Disc
<1> QED
  BY <1>2, <1>3, <1>4, <1>5

(* The callbacks that have been made, one after the other. *)
LEMMA AppendOne == ASSUME NEW C, NEW s \in Seq(C), NEW b \in C, NEW u \in Seq(C),
                   Len(s) = 1, Len(u) = 2, u[1] = s[1], u[2] = b
            PROVE Append(s, b) = u
<1>1. Append(s, b) \in Seq(C) /\ Len(Append(s, b)) = Len(u)
  <2>1. Append(s, b) \in Seq(C) /\ Len(Append(s, b)) = Len(s) + 1
    BY AppendProperties
  <2> QED BY <2>1
<1>2. \A i \in 1..Len(s) : Append(s, b)[i] = s[i]
  BY AppendProperties
<1>3. Append(s, b)[2] = b
  <2>1. 2 = Len(s) + 1
    OBVIOUS
  <2>2. Append(s, b)[Len(s) + 1] = b
    BY AppendProperties, Zenon
  <2> QED
    BY <2>1, <2>2, Zenon
<1>4. \A i \in 1..2 : Append(s, b)[i] = u[i]
  BY <1>2, <1>3
<1> QED
  BY <1>4

(* The three lists of callbacks are what Append makes, and differ. *)
LEMMA Callbacks == /\ Append(<<>>, "connected") = <<"connected">>
                   /\ Append(<<"connected">>, "disconnected") = <<"connected", "disconnected">>
                   /\ <<>> # <<"connected">> /\ <<>> # <<"connected", "disconnected">>
                   /\ <<"connected">> # <<"connected", "disconnected">>
<1> DEFINE C == {"connected", "disconnected"}
<1>1. <<"connected">> \in Seq(C) /\ <<"connected", "disconnected">> \in Seq(C)
  OBVIOUS
<1>2. /\ Len(<<"connected">>) = 1 /\ <<"connected">>[1] = "connected"
      /\ Len(<<"connected", "disconnected">>) = 2
      /\ <<"connected", "disconnected">>[1] = "connected"
      /\ <<"connected", "disconnected">>[2] = "disconnected"
  OBVIOUS
<1>3. "disconnected" \in C
  OBVIOUS
<1> HIDE DEF C
<1>4. Append(<<"connected">>, "disconnected") = <<"connected", "disconnected">>
  BY <1>1, <1>2, <1>3, AppendOne
<1>5. Append(<<>>, "connected") = <<"connected">>
  OBVIOUS
<1>6. <<>> # <<"connected">> /\ <<>> # <<"connected", "disconnected">>
  OBVIOUS
<1> QED
  BY <1>4

(* The port gives and takes one operation. *)
LEMMA PortTail ==
    ASSUME TypeOK, OpsOnce, port # <<>>, port' = Tail(port), kernel' = kernel
    PROVE  /\ port' \in Seq(Operations \X {0, 1}) /\ OpsOnce'
           /\ Head(port) \in Operations \X {0, 1} /\ Head(port)[1] \in Flight
           /\ \A op : op \in Flight' <=> op \in Flight /\ op # Head(port)[1]
<1> DEFINE P == Operations \X {0, 1}
<1>1. port \in Seq(P)
  BY DEF TypeOK
<1> HIDE DEF P
<1>2. /\ Head(port) \in P /\ Tail(port) \in Seq(P) /\ Len(port) \in Nat /\ Len(port) >= 1
      /\ Len(Tail(port)) = Len(port) - 1 /\ Head(port) = port[1]
      /\ \A i \in 1..(Len(port) - 1) : Tail(port)[i] = port[i + 1]
  BY <1>1
<1>3. DOMAIN port = 1..Len(port) /\ DOMAIN port' = 1..(Len(port) - 1)
  OBVIOUS
<1>4. \A i \in DOMAIN port' : i + 1 \in DOMAIN port /\ port'[i] = port[i + 1]
  OBVIOUS
<1>5. OpsOnce'
  <2>1. ASSUME NEW i \in DOMAIN port', NEW j \in DOMAIN port', port'[i][1] = port'[j][1]
        PROVE  i = j
    <3>1. port[i + 1][1] = port[j + 1][1]
      BY <2>1
    <3>2. i + 1 = j + 1
      BY <1>4, <3>1 DEF OpsOnce
    <3> QED
      BY <3>2
  <2>2. ASSUME NEW i \in DOMAIN port' PROVE port'[i][1] \notin kernel
    BY DEF OpsOnce
  <2> QED
    BY DEF OpsOnce
<1>6. 1 \in DOMAIN port /\ Head(port)[1] = port[1][1]
  OBVIOUS
<1>7. Head(port)[1] \in Flight
  BY DEF Flight
<1>8. ASSUME NEW op PROVE op \in Flight' <=> op \in Flight /\ op # Head(port)[1]
  <2>1. CASE op \in kernel
    BY <2>1 DEF OpsOnce, Flight
  <2>2. ASSUME op \notin kernel, op \in Flight' PROVE op \in Flight /\ op # Head(port)[1]
    <3>1. PICK i \in DOMAIN port' : port'[i][1] = op
      BY <2>2 DEF Flight
    <3>2. i + 1 \in DOMAIN port /\ port[i + 1][1] = op /\ i + 1 # 1
      BY <3>1
    <3> QED
      BY <3>2 DEF OpsOnce, Flight
  <2>3. ASSUME op \notin kernel, op \in Flight, op # Head(port)[1] PROVE op \in Flight'
    <3>1. PICK i \in DOMAIN port : port[i][1] = op
      BY <2>3 DEF Flight
    <3>2. i - 1 \in DOMAIN port' /\ (i - 1) + 1 = i
      BY <1>3, <2>3, <3>1
    <3>3. port'[i - 1][1] = op
      BY <3>1, <3>2
    <3> QED
      BY <3>2, <3>3 DEF Flight
  <2> QED
    BY <2>1, <2>2, <2>3
<1> QED
  BY <1>2, <1>5, <1>7, <1>8 DEF P

(* A completion moves an operation from the system to the port. *)
LEMMA PortAppend ==
    ASSUME TypeOK, OpsOnce, NEW op \in kernel, NEW n \in {0, 1}, Complete(op, n)
    PROVE  /\ port' \in Seq(Operations \X {0, 1}) /\ kernel' \subseteq Operations
           /\ OpsOnce' /\ Flight' = Flight
<1> DEFINE P == Operations \X {0, 1}
           c == <<op, n>>
<1>1. port \in Seq(P) /\ c \in P /\ kernel' \subseteq Operations
  BY DEF TypeOK, Complete
<1>2. port' = Append(port, c) /\ kernel' = kernel \ {op} /\ c[1] = op
  BY DEF Complete
<1> HIDE DEF P, c
<1>3. /\ Append(port, c) \in Seq(P) /\ Len(port) \in Nat /\ Len(Append(port, c)) = Len(port) + 1
      /\ \A i \in 1..Len(port) : Append(port, c)[i] = port[i]
      /\ Append(port, c)[Len(port) + 1] = c
  BY <1>1
<1>4. DOMAIN port = 1..Len(port) /\ DOMAIN port' = 1..(Len(port) + 1)
  BY <1>2
<1>5. /\ \A i \in DOMAIN port : i \in DOMAIN port' /\ port'[i] = port[i]
      /\ \A i \in DOMAIN port' : i \in DOMAIN port \/ i = Len(port) + 1
      /\ Len(port) + 1 \in DOMAIN port' /\ port'[Len(port) + 1][1] = op
  BY <1>2
<1>6. OpsOnce'
  <2>1. ASSUME NEW i \in DOMAIN port', NEW j \in DOMAIN port', port'[i][1] = port'[j][1]
        PROVE  i = j
    BY <1>5, <2>1 DEF OpsOnce
  <2>2. ASSUME NEW i \in DOMAIN port' PROVE port'[i][1] \notin kernel'
    BY <1>2 DEF OpsOnce
  <2> QED
    BY <2>1, <2>2 DEF OpsOnce
<1>7. Flight' = Flight
  <2>1. ASSUME NEW x \in Flight PROVE x \in Flight'
    BY <1>2 DEF Flight
  <2>2. ASSUME NEW x \in Flight' PROVE x \in Flight
    BY <1>2 DEF Flight
  <2> QED
    BY <2>1, <2>2
<1> QED
  BY <1>1, <1>2, <1>6, <1>7 DEF P

(* An accept fails and is posted again, or its session is connected. *)
LEMMA ProcessAcceptKeeps ==
    ASSUME IInv, NEW t \in Threads, ProcessAccept(t)
    PROVE  IInv'
<1> USE DEF IInv
<1>1. pc[t] = "accepted" /\ Session(t) \in Sessions /\ Session(t) \in used
  BY Working DEF ProcessAccept
<1>2. OthersStay(t) /\ job' = job /\ ret' = ret
  BY DEF ProcessAccept, TypeOK, OthersStay, Goto
<1>3. pc'[t] \in {"connect", "accept"}
  BY DEF ProcessAccept, TypeOK, Goto
<1>4. UNCHANGED <<accepting, used, sessions, count, connected, owner, called, kernel, port, logged, crash>>
  BY DEF ProcessAccept, listener, service, system
<1>5. Flight' = Flight
  BY <1>4 DEF Flight
<1>6. /\ called[Session(t)] = <<>> /\ owner[Session(t)] = {}
      /\ Recv(Session(t)) \notin Flight /\ Disc(Session(t)) \notin Flight
      /\ connected[Session(t)] <=> pc[t] \in {"addSession", "onConnected"}
      /\ Session(t) \in sessions <=> pc[t] = "onConnected"
      /\ \A u \in Threads \ {t} : Session(u) # Session(t)
  BY <1>1 DEF EnteredAlone, Entering, Untouched
<1>7. TypeOK'
  BY <1>1 DEF ProcessAccept, TypeOK, Labels, listener, service, system, thread, Goto, Session
<1>8. CallbacksInOrder'
  BY <1>4 DEF CallbacksInOrder
<1>9. Counted'
  BY <1>4 DEF Counted
<1>10. OpsOnce'
  BY <1>4 DEF OpsOnce
<1>11. AcceptsApart'
  BY <1>1, <1>2, <1>4, <1>5 DEF AcceptsApart, Session, OthersStay
<1>12. NewSessions'
  BY <1>2, <1>4, <1>5 DEF NewSessions, New, Untouched, Session
<1>13. EnteredAlone'
  BY <1>1, <1>2, <1>3, <1>4, <1>5 DEF EnteredAlone, Entering, Untouched, Session, OthersStay
<1>14. AcceptHeld'
  BY <1>1, <1>2, <1>3 DEF AcceptHeld, Entering, OthersStay
<1>15. Announced'
  BY <1>2, <1>3, <1>4, <1>5 DEF Announced, Entering, Session, OthersStay
<1>16. ReceiveOnce'
  BY <1>2, <1>5, <1>6 DEF ReceiveOnce, AtPost, AtReceive, Session, OthersStay
<1>17. ReceiveOwned'
  BY <1>2, <1>3, <1>4, <1>5, <1>6 DEF ReceiveOwned, AtPost, Session, OthersStay
<1>18. DisconnectOnce'
  BY <1>2, <1>3, <1>4, <1>5 DEF DisconnectOnce, AtDisc, Session, OthersStay
<1>19. DisconnectOwned'
  BY <1>4, <1>5 DEF DisconnectOwned
<1>20. DisconnectCalled'
  BY <1>2, <1>3, <1>4, <1>5 DEF DisconnectCalled, AtDisc, Session, OthersStay
<1>21. KnownWhileConnected'
  BY <1>4 DEF KnownWhileConnected
<1>22. AcceptsKept'
  BY <1>2, <1>4, <1>5 DEF AcceptsKept
<1>23. HeardOf'
  BY <1>1, <1>2, <1>4, <1>5 DEF HeardOf, Hears, Session, OthersStay
<1>24. FailedGone'
  BY <1>2, <1>3, <1>4 DEF FailedGone, Session, OthersStay
<1> QED
  BY <1>7, <1>8, <1>9, <1>10, <1>11, <1>12, <1>13, <1>14, <1>15, <1>16, <1>17, <1>18, <1>19, <1>20, <1>21,
     <1>22, <1>23, <1>24

(* ProcessConnect sets _connected. *)
LEMMA ProcessConnectKeeps ==
    ASSUME IInv, NEW t \in Threads, ProcessConnect(t)
    PROVE  IInv'
<1> USE DEF IInv
<1>1. pc[t] = "connect" /\ Session(t) \in Sessions /\ Session(t) \in used
  BY Working DEF ProcessConnect
<1>2. OthersStay(t) /\ job' = job /\ ret' = ret
  BY DEF ProcessConnect, OthersStay, Goto
<1>3. pc'[t] = "addSession"
  BY DEF ProcessConnect, TypeOK, Goto
<1>4. connected'[Session(t)] = TRUE /\ OthersKeep(connected, connected', Session(t))
  BY <1>1 DEF ProcessConnect, TypeOK, OthersKeep
<1>5. UNCHANGED <<accepting, used, sessions, count, owner, called, kernel, port, logged, crash>>
  BY DEF ProcessConnect, listener, service, system
<1>6. Flight' = Flight
  BY <1>5 DEF Flight
<1>7. /\ called[Session(t)] = <<>> /\ owner[Session(t)] = {}
      /\ Recv(Session(t)) \notin Flight /\ Disc(Session(t)) \notin Flight
      /\ connected[Session(t)] <=> pc[t] \in {"addSession", "onConnected"}
      /\ Session(t) \in sessions <=> pc[t] = "onConnected"
      /\ \A u \in Threads \ {t} : Session(u) # Session(t)
  BY <1>1 DEF EnteredAlone, Entering, Untouched
<1>8. TypeOK'
  BY DEF ProcessConnect, TypeOK, Labels, listener, service, system, Goto, Session
<1>9. CallbacksInOrder'
  BY <1>5 DEF CallbacksInOrder
<1>10. Counted'
  BY <1>5 DEF Counted
<1>11. OpsOnce'
  BY <1>5 DEF OpsOnce
<1>12. AcceptsApart'
  BY <1>1, <1>2, <1>5, <1>6 DEF AcceptsApart, AcceptHeld, Entering, Session, OthersStay, OthersKeep
<1>13. NewSessions'
  BY <1>2, <1>4, <1>5, <1>6, <1>7, Working DEF NewSessions, New, Untouched, Session, OthersStay, OthersKeep
<1>14. EnteredAlone'
  BY <1>1, <1>2, <1>3, <1>4, <1>5, <1>6, <1>7, Working DEF EnteredAlone, Entering, Untouched, Session,
     OthersStay, OthersKeep
<1>15. AcceptHeld'
  BY <1>1, <1>2, <1>3 DEF AcceptHeld, Entering, OthersStay, OthersKeep
<1>16. Announced'
  BY <1>2, <1>3, <1>5, <1>6 DEF Announced, Entering, Session, OthersStay
<1>17. ReceiveOnce'
  BY <1>2, <1>6, <1>7, Working DEF ReceiveOnce, AtPost, AtReceive, Session, OthersStay, OthersKeep
<1>18. ReceiveOwned'
  BY <1>2, <1>3, <1>5, <1>6, <1>7 DEF ReceiveOwned, AtPost, Session, OthersStay
<1>19. DisconnectOnce'
  BY <1>2, <1>3, <1>4, <1>5, <1>6, <1>7, Working DEF DisconnectOnce, AtDisc, Session, OthersStay,
     OthersKeep, GoesOn
<1>20. DisconnectOwned'
  BY <1>5, <1>6 DEF DisconnectOwned
<1>21. DisconnectCalled'
  BY <1>2, <1>3, <1>5, <1>6 DEF DisconnectCalled, DisconnectOnce, AtDisc, Session, OthersStay, OthersKeep
<1>22. KnownWhileConnected'
  BY <1>4, <1>5, <1>7, Working DEF KnownWhileConnected, DisconnectOnce, OthersStay, OthersKeep
<1>23. AcceptsKept'
  BY <1>2, <1>5, <1>6 DEF AcceptsKept
<1>24. HeardOf'
  BY <1>2, <1>3, <1>4, <1>5, <1>6 DEF HeardOf, Hears, FailedGone, Session, OthersStay, OthersKeep
<1>25. FailedGone'
  BY <1>2, <1>3, <1>4, <1>5, <1>7, Working DEF FailedGone, Session, OthersStay, OthersKeep
<1> QED
  BY <1>8, <1>9, <1>10, <1>11, <1>12, <1>13, <1>14, <1>15, <1>16, <1>17, <1>18, <1>19, <1>20, <1>21, <1>22,
     <1>23, <1>24, <1>25

(* ProcessConnect puts the session into the service's table. *)
LEMMA AddSessionKeeps ==
    ASSUME IInv, NEW t \in Threads, AddSession(t)
    PROVE  IInv'
<1> USE DEF IInv
<1>1. pc[t] = "addSession" /\ Session(t) \in Sessions /\ Session(t) \in used
  BY Working DEF AddSession
<1>2. OthersStay(t) /\ job' = job /\ ret' = ret
  BY DEF AddSession, OthersStay, Goto
<1>3. pc'[t] = "onConnected"
  BY DEF AddSession, TypeOK, Goto
<1>4. sessions' = sessions \cup {Session(t)} /\ count' = count + 1
  BY DEF AddSession
<1>5. UNCHANGED <<accepting, used, connected, owner, called, kernel, port, logged, crash>>
  BY DEF AddSession, listener, system
<1>6. Flight' = Flight
  BY <1>5 DEF Flight
<1>7. /\ called[Session(t)] = <<>> /\ owner[Session(t)] = {}
      /\ Recv(Session(t)) \notin Flight /\ Disc(Session(t)) \notin Flight
      /\ connected[Session(t)] <=> pc[t] \in {"addSession", "onConnected"}
      /\ Session(t) \in sessions <=> pc[t] = "onConnected"
      /\ \A u \in Threads \ {t} : Session(u) # Session(t)
  BY <1>1 DEF EnteredAlone, Entering, Untouched
<1>8. TypeOK'
  BY DEF AddSession, TypeOK, Labels, listener, system, Goto, Session
<1>9. CallbacksInOrder'
  BY <1>5 DEF CallbacksInOrder
<1>10. Counted'
  BY <1>1, <1>4, <1>5, <1>7, Working, FS_AddElement, FS_Subset, SessionsAssumption DEF Counted
<1>11. OpsOnce'
  BY <1>5 DEF OpsOnce
<1>12. AcceptsApart'
  BY <1>1, <1>2, <1>5, <1>6 DEF AcceptsApart, AcceptHeld, Entering, Session, OthersStay, OthersKeep
<1>13. NewSessions'
  BY <1>2, <1>4, <1>5, <1>6 DEF NewSessions, New, Untouched, Session
<1>14. EnteredAlone'
  BY <1>1, <1>2, <1>3, <1>4, <1>5, <1>6 DEF EnteredAlone, Entering, Untouched, Session, OthersStay, OthersKeep
<1>15. AcceptHeld'
  BY <1>1, <1>2, <1>3 DEF AcceptHeld, Entering, OthersStay, OthersKeep
<1>16. Announced'
  BY <1>2, <1>3, <1>5, <1>6 DEF Announced, Entering, Session, OthersStay
<1>17. ReceiveOnce'
  BY <1>2, <1>6, <1>7, Working DEF ReceiveOnce, AtPost, AtReceive, Session, OthersStay, OthersKeep
<1>18. ReceiveOwned'
  BY <1>2, <1>3, <1>5, <1>6, <1>7 DEF ReceiveOwned, AtPost, Session, OthersStay
<1>19. DisconnectOnce'
  BY <1>2, <1>3, <1>4, <1>5, <1>6 DEF DisconnectOnce, AtDisc, Session, OthersStay
<1>20. DisconnectOwned'
  BY <1>5, <1>6 DEF DisconnectOwned
<1>21. DisconnectCalled'
  BY <1>2, <1>3, <1>5, <1>6 DEF DisconnectCalled, DisconnectOnce, AtDisc, Session, OthersStay, OthersKeep
<1>22. KnownWhileConnected'
  BY <1>4, <1>5 DEF KnownWhileConnected
<1>23. AcceptsKept'
  BY <1>2, <1>5, <1>6 DEF AcceptsKept
<1>24. HeardOf'
  BY <1>2, <1>3, <1>5, <1>6 DEF HeardOf, Hears, FailedGone, Session, OthersStay, OthersKeep
<1>25. FailedGone'
  BY <1>2, <1>3, <1>5 DEF FailedGone, Session, OthersStay
<1> QED
  BY <1>8, <1>9, <1>10, <1>11, <1>12, <1>13, <1>14, <1>15, <1>16, <1>17, <1>18, <1>19, <1>20, <1>21, <1>22,
     <1>23, <1>24, <1>25

(* ProcessConnect announces the session: the accept token becomes its receive. *)
LEMMA OnConnectedKeeps ==
    ASSUME IInv, NEW t \in Threads, OnConnected(t)
    PROVE  IInv'
<1> USE DEF IInv
<1>1. pc[t] = "onConnected" /\ Session(t) \in Sessions /\ Session(t) \in used
  BY Working DEF OnConnected
<1>2. OthersStay(t) /\ job' = job /\ ret' = ret
  BY DEF OnConnected, OthersStay, Goto
<1>3. pc'[t] = "registerRecv"
  BY DEF OnConnected, TypeOK, Goto
<1>4. called'[Session(t)] = Append(called[Session(t)], "connected") /\ called[Session(t)] = <<>>
      /\ OthersKeep(called, called', Session(t))
  BY DEF OnConnected, TypeOK, OthersKeep, EnteredAlone, Entering, Untouched
<1>5. UNCHANGED <<accepting, used, sessions, count, connected, owner, kernel, port, logged, crash>>
  BY DEF OnConnected, listener, service, system
<1>6. Flight' = Flight
  BY <1>5 DEF Flight
<1>7. /\ called[Session(t)] = <<>> /\ owner[Session(t)] = {}
      /\ Recv(Session(t)) \notin Flight /\ Disc(Session(t)) \notin Flight
      /\ connected[Session(t)] <=> pc[t] \in {"addSession", "onConnected"}
      /\ Session(t) \in sessions <=> pc[t] = "onConnected"
      /\ \A u \in Threads \ {t} : Session(u) # Session(t)
  BY <1>1 DEF EnteredAlone, Entering, Untouched
<1>8. TypeOK'
  BY DEF OnConnected, TypeOK, Labels, listener, service, system, Goto, Session
<1>9. CallbacksInOrder'
  BY <1>4, Callbacks DEF CallbacksInOrder, OthersKeep
<1>10. Counted'
  BY <1>5 DEF Counted
<1>11. OpsOnce'
  BY <1>5 DEF OpsOnce
<1>12. AcceptsApart'
  BY <1>1, <1>2, <1>5, <1>6 DEF AcceptsApart, Session, OthersStay
<1>13. NewSessions'
  BY <1>2, <1>4, <1>5, <1>6, <1>7, Working, Callbacks DEF NewSessions, New, Untouched, Session, OthersStay,
     OthersKeep, GoesOn
<1>14. EnteredAlone'
  BY <1>2, <1>3, <1>4, <1>5, <1>6, <1>7, Working, Callbacks DEF EnteredAlone, Entering, Untouched, Session,
     OthersStay, OthersKeep, GoesOn
<1>15. AcceptHeld'
  BY <1>2, <1>3 DEF AcceptHeld, Entering, AtPost, Session, OthersStay
<1>16. Announced'
  BY <1>2, <1>4, <1>6, <1>7, Working, Callbacks DEF Announced, Entering, Session, OthersStay, OthersKeep
<1>17. ReceiveOnce'
  BY <1>2, <1>6, <1>7, Working, Callbacks DEF ReceiveOnce, AtPost, AtReceive, Session, OthersStay
<1>18. ReceiveOwned'
  BY <1>1, <1>2, <1>3, <1>5, <1>6, Callbacks DEF ReceiveOwned, AtPost, Session, OthersStay, OthersKeep
<1>19. DisconnectOnce'
  BY <1>2, <1>3, <1>5, <1>6, Callbacks DEF DisconnectOnce, AtDisc, Session, OthersStay, OthersKeep
<1>20. DisconnectOwned'
  BY <1>5, <1>6 DEF DisconnectOwned
<1>21. DisconnectCalled'
  BY <1>2, <1>3, <1>4, <1>6, <1>7, Working, Callbacks DEF DisconnectCalled, DisconnectOnce, AtDisc, Session,
     OthersStay, OthersKeep, GoesOn
<1>22. KnownWhileConnected'
  BY <1>1, <1>4, <1>5, <1>6, <1>7, Working, Callbacks DEF KnownWhileConnected, OthersKeep, GoesOn
<1>23. AcceptsKept'
  BY <1>2, <1>5, <1>6 DEF AcceptsKept
<1>24. HeardOf'
  BY <1>2, <1>3, <1>5, <1>6, Callbacks DEF HeardOf, Hears, FailedGone, Session, OthersStay
<1>25. FailedGone'
  BY <1>2, <1>3, <1>5 DEF FailedGone, Session, OthersStay
<1> QED
  BY <1>8, <1>9, <1>10, <1>11, <1>12, <1>13, <1>14, <1>15, <1>16, <1>17, <1>18, <1>19, <1>20, <1>21, <1>22,
     <1>23, <1>24, <1>25

(* RegisterRecv finds the session disconnected: its receive ends. *)
LEMMA RegisterRecvStopsKeeps ==
    ASSUME IInv, NEW t \in Threads, RegisterRecvStops(t)
    PROVE  IInv'
<1> USE DEF IInv
<1>1. pc[t] = "registerRecv" /\ Session(t) \in Sessions /\ Session(t) \in used
  BY Working DEF RegisterRecvStops
<1>2. Recv(Session(t)) \notin Flight /\ \A u \in Threads \ {t} : AtReceive(u) => Session(u) # Session(t)
  BY <1>1 DEF ReceiveOnce, AtReceive
<1>3. called[Session(t)] # <<>>
  BY <1>1 DEF Announced, Entering
<1>4. /\ pc[t] \in {"onRecv", "onDisconnected", "releaseSession"} => job[t].accept = "none"
      /\ pc[t] \in {"disconnect", "registerDisconnect"} /\ ret[t] # "recvFailed" => job[t].accept = "none"
  BY DEF AcceptHeld
<1>5. /\ pc' \in [Threads -> Labels] /\ job' \in [Threads -> JobType']
      /\ ret' \in [Threads -> {"idle", "registerRecv", "recvFailed"}]
      /\ \A u \in Threads : pc'[u] = "idle" <=> job'[u].session = NoSession
      /\ OthersStay(t)
      /\ ret' = ret /\ ~connected[Session(t)] /\ GoesOn(t, Back(t))
  <2>1. GoOn(t, Back(t)) /\ ret' = ret /\ used' = used
    BY DEF RegisterRecvStops
  <2>2. Back(t) \in {"idle", "accept"} /\ Back(t) \in Labels
    BY DEF Back, Labels
  <2> QED
    BY <2>2, GoOnKeeps DEF RegisterRecvStops, OthersStay, TypeOK
<1>6. UNCHANGED <<accepting, used, sessions, count, connected, owner, called, kernel, port, logged, crash>>
  BY DEF RegisterRecvStops, listener, service, system
<1>7. Flight' = Flight
  BY <1>6 DEF Flight
<1>8. TypeOK'
  BY <1>5 DEF RegisterRecvStops, TypeOK, listener, service, system, JobType, Session
<1>9. CallbacksInOrder'
  BY <1>6 DEF CallbacksInOrder
<1>10. Counted'
  BY <1>6 DEF Counted
<1>11. OpsOnce'
  BY <1>6 DEF OpsOnce
<1>12. AcceptsApart'
  BY <1>5, <1>6, <1>7 DEF AcceptsApart, Session, OthersStay, OthersKeep, GoesOn, Back
<1>13. NewSessions'
  BY <1>5, <1>6, <1>7, Working DEF NewSessions, New, Untouched, Session, OthersStay, OthersKeep, GoesOn, Back
<1>14. EnteredAlone'
  BY <1>5, <1>6, <1>7, Working DEF EnteredAlone, Entering, Untouched, Session, OthersStay, OthersKeep,
     GoesOn, Back
<1>15. AcceptHeld'
  BY <1>5 DEF AcceptHeld, Entering, OthersStay, GoesOn, Back
<1>16. Announced'
  BY <1>5, <1>6, <1>7 DEF Announced, Session, OthersStay, OthersKeep, GoesOn, Back
<1>17. ReceiveOnce'
  BY <1>5, <1>7 DEF ReceiveOnce, AtPost, AtReceive, Session, OthersStay, OthersKeep, GoesOn, Back
<1>18. ReceiveOwned'
  BY <1>1, <1>5, <1>6, <1>7, Working DEF ReceiveOwned, AtPost, Session, OthersStay, OthersKeep, GoesOn, Back
<1>19. DisconnectOnce'
  BY <1>5, <1>6, <1>7 DEF DisconnectOnce, AtDisc, Session, OthersStay, OthersKeep, GoesOn, Back
<1>20. DisconnectOwned'
  BY <1>6, <1>7 DEF DisconnectOwned
<1>21. DisconnectCalled'
  BY <1>5, <1>6, <1>7 DEF DisconnectCalled, AtDisc, Session, OthersStay, OthersKeep, GoesOn, Back
<1>22. KnownWhileConnected'
  BY <1>6 DEF KnownWhileConnected
<1>23. AcceptsKept'
  BY <1>5, <1>6, <1>7 DEF AcceptsKept, OthersStay, OthersKeep, GoesOn, Back
<1>24. HeardOf'
  BY <1>5, <1>6, <1>7 DEF HeardOf, Hears, Session, OthersStay, OthersKeep
<1>25. FailedGone'
  BY <1>5, <1>6 DEF FailedGone, Session, OthersStay, GoesOn
<1> QED
  BY <1>8, <1>9, <1>10, <1>11, <1>12, <1>13, <1>14, <1>15, <1>16, <1>17, <1>18, <1>19, <1>20, <1>21, <1>22,
     <1>23, <1>24, <1>25

(* RegisterRecv sets the owner of the receive event. *)
LEMMA RegisterRecvGoesKeeps ==
    ASSUME IInv, NEW t \in Threads, RegisterRecvGoes(t)
    PROVE  IInv'
<1> USE DEF IInv
<1>1. pc[t] = "registerRecv" /\ Session(t) \in Sessions /\ Session(t) \in used
  BY Working DEF RegisterRecvGoes
<1>2. OthersStay(t) /\ job' = job /\ ret' = ret
  BY DEF RegisterRecvGoes, OthersStay, Goto
<1>3. pc'[t] = "recv"
  BY DEF RegisterRecvGoes, TypeOK, Goto
<1>4. Recv(Session(t)) \notin Flight /\ \A u \in Threads \ {t} : AtReceive(u) => Session(u) # Session(t)
  BY <1>1 DEF ReceiveOnce, AtReceive
<1>5. called[Session(t)] # <<>>
  BY <1>1 DEF Announced, Entering
<1>6. /\ pc[t] \in {"onRecv", "onDisconnected", "releaseSession"} => job[t].accept = "none"
      /\ pc[t] \in {"disconnect", "registerDisconnect"} /\ ret[t] # "recvFailed" => job[t].accept = "none"
  BY DEF AcceptHeld
<1>7. owner'[Session(t)] = owner[Session(t)] \cup {"recv"} /\ OthersKeep(owner, owner', Session(t))
  BY <1>1 DEF RegisterRecvGoes, TypeOK, OthersKeep
<1>8. UNCHANGED <<accepting, used, sessions, count, connected, called, kernel, port, logged, crash>>
  BY DEF RegisterRecvGoes, listener, service, system
<1>9. Flight' = Flight
  BY <1>8 DEF Flight
<1>10. TypeOK'
  BY DEF RegisterRecvGoes, TypeOK, Labels, listener, service, system, Goto, Session
<1>11. CallbacksInOrder'
  BY <1>8 DEF CallbacksInOrder
<1>12. Counted'
  BY <1>8 DEF Counted
<1>13. OpsOnce'
  BY <1>8 DEF OpsOnce
<1>14. AcceptsApart'
  BY <1>1, <1>2, <1>8, <1>9, Working DEF AcceptsApart, AcceptHeld, Entering, Session, OthersStay, OthersKeep
<1>15. NewSessions'
  BY <1>2, <1>7, <1>8, <1>9, Working DEF NewSessions, New, Untouched, Session, OthersStay, OthersKeep
<1>16. EnteredAlone'
  BY <1>2, <1>3, <1>7, <1>8, <1>9, Working DEF EnteredAlone, Entering, Untouched, Session, OthersStay,
     OthersKeep
<1>17. AcceptHeld'
  BY <1>2, <1>3 DEF AcceptHeld, Entering, OthersStay, OthersKeep
<1>18. Announced'
  BY <1>1, <1>2, <1>8, <1>9, Working DEF Announced, Entering, Session, OthersStay
<1>19. ReceiveOnce'
  BY <1>1, <1>2, <1>9 DEF ReceiveOnce, AtPost, AtReceive, Session, OthersStay, OthersKeep
<1>20. ReceiveOwned'
  BY <1>2, <1>3, <1>7, <1>8, <1>9, Working DEF ReceiveOwned, AtPost, Session, OthersStay, OthersKeep, GoesOn
<1>21. DisconnectOnce'
  BY <1>2, <1>3, <1>8, <1>9, Working DEF DisconnectOnce, AtDisc, Session, OthersStay
<1>22. DisconnectOwned'
  BY <1>7, <1>9 DEF DisconnectOwned, OthersKeep
<1>23. DisconnectCalled'
  BY <1>2, <1>3, <1>7, <1>8, <1>9, Working DEF DisconnectCalled, DisconnectOnce, AtDisc, Session,
     OthersStay, OthersKeep
<1>24. KnownWhileConnected'
  BY <1>8 DEF KnownWhileConnected
<1>25. AcceptsKept'
  BY <1>2, <1>8, <1>9 DEF AcceptsKept, AcceptHeld
<1>26. HeardOf'
  BY <1>2, <1>3, <1>7, <1>8, <1>9, Working DEF HeardOf, Hears, FailedGone, Session, OthersStay, OthersKeep
<1>27. FailedGone'
  BY <1>2, <1>3, <1>8 DEF FailedGone, Session, OthersStay, OthersKeep
<1> QED
  BY <1>10, <1>11, <1>12, <1>13, <1>14, <1>15, <1>16, <1>17, <1>18, <1>19, <1>20, <1>21, <1>22, <1>23,
     <1>24, <1>25, <1>26, <1>27

(* The owner is cleared after a WSARecv that failed. *)
LEMMA RecvFailedKeeps ==
    ASSUME IInv, NEW t \in Threads, RecvFailed(t)
    PROVE  IInv'
<1> USE DEF IInv
<1>1. pc[t] = "recvFailed" /\ Session(t) \in Sessions /\ Session(t) \in used
  BY Working DEF RecvFailed
<1>2. Recv(Session(t)) \notin Flight /\ \A u \in Threads \ {t} : AtReceive(u) => Session(u) # Session(t)
  BY <1>1 DEF ReceiveOnce, AtReceive, AtPost
<1>3. called[Session(t)] # <<>>
  BY <1>1 DEF Announced, Entering
<1>4. /\ pc[t] \in {"onRecv", "onDisconnected", "releaseSession"} => job[t].accept = "none"
      /\ pc[t] \in {"disconnect", "registerDisconnect"} /\ ret[t] # "recvFailed" => job[t].accept = "none"
  BY DEF AcceptHeld
<1>5. /\ pc' \in [Threads -> Labels] /\ job' \in [Threads -> JobType']
      /\ ret' \in [Threads -> {"idle", "registerRecv", "recvFailed"}]
      /\ \A u \in Threads : pc'[u] = "idle" <=> job'[u].session = NoSession
      /\ OthersStay(t)
      /\ ret' = ret /\ GoesOn(t, Back(t))
  <2>1. GoOn(t, Back(t)) /\ ret' = ret /\ used' = used
    BY DEF RecvFailed
  <2>2. Back(t) \in {"idle", "accept"} /\ Back(t) \in Labels
    BY DEF Back, Labels
  <2> QED
    BY <1>1, <2>1, <2>2, GoOnKeeps DEF OthersStay, TypeOK
<1>6. owner'[Session(t)] = owner[Session(t)] \ {"recv"} /\ OthersKeep(owner, owner', Session(t))
  BY <1>1 DEF RecvFailed, TypeOK, OthersKeep
<1>7. UNCHANGED <<accepting, used, sessions, count, connected, called, kernel, port, logged, crash>>
  BY DEF RecvFailed, listener, service, system
<1>8. Flight' = Flight
  BY <1>7 DEF Flight
<1>9. TypeOK'
  BY <1>5 DEF RecvFailed, TypeOK, listener, service, system, JobType, Session
<1>10. CallbacksInOrder'
  BY <1>7 DEF CallbacksInOrder
<1>11. Counted'
  BY <1>7 DEF Counted
<1>12. OpsOnce'
  BY <1>7 DEF OpsOnce
<1>13. AcceptsApart'
  BY <1>5, <1>7, <1>8 DEF AcceptsApart, Session, OthersStay, OthersKeep, GoesOn, Back
<1>14. NewSessions'
  BY <1>1, <1>3, <1>4, <1>5, <1>6, <1>7, <1>8, Working DEF NewSessions, New, Untouched, Session, OthersStay,
     OthersKeep, GoesOn, Back
<1>15. EnteredAlone'
  BY <1>5, <1>6, <1>7, <1>8, Working DEF EnteredAlone, Entering, Untouched, Session, OthersStay, OthersKeep,
     GoesOn, Back
<1>16. AcceptHeld'
  BY <1>5 DEF AcceptHeld, Entering, AtPost, Session, OthersStay, OthersKeep, GoesOn, Back
<1>17. Announced'
  BY <1>5, <1>7, <1>8 DEF Announced, Session, OthersStay, OthersKeep, GoesOn, Back
<1>18. ReceiveOnce'
  BY <1>5, <1>8 DEF ReceiveOnce, AtPost, AtReceive, Session, OthersStay, OthersKeep, GoesOn, Back
<1>19. ReceiveOwned'
  BY <1>2, <1>5, <1>6, <1>7, <1>8, Working DEF ReceiveOwned, AtPost, AtReceive, Session, OthersStay,
     OthersKeep, GoesOn, Back
<1>20. DisconnectOnce'
  BY <1>5, <1>7, <1>8 DEF DisconnectOnce, AtDisc, Session, OthersStay, OthersKeep, GoesOn, Back
<1>21. DisconnectOwned'
  BY <1>6, <1>8 DEF DisconnectOwned, OthersKeep, GoesOn
<1>22. DisconnectCalled'
  BY <1>5, <1>7, <1>8 DEF DisconnectCalled, DisconnectOnce, AtDisc, Session, OthersStay, OthersKeep, GoesOn,
     Back
<1>23. KnownWhileConnected'
  BY <1>7 DEF KnownWhileConnected
<1>24. AcceptsKept'
  BY <1>5, <1>7, <1>8 DEF AcceptsKept, Session, OthersStay, OthersKeep, GoesOn, Back
<1>25. HeardOf'
  BY <1>1, <1>5, <1>7, <1>8, Working DEF HeardOf, Hears, FailedGone, Session, OthersStay
<1>26. FailedGone'
  BY <1>5, <1>7 DEF FailedGone, Session, OthersStay, OthersKeep, GoesOn, Back
<1> QED
  BY <1>9, <1>10, <1>11, <1>12, <1>13, <1>14, <1>15, <1>16, <1>17, <1>18, <1>19, <1>20, <1>21, <1>22, <1>23,
     <1>24, <1>25, <1>26

(* The data is handled; the receive goes on or the session disconnects. *)
LEMMA OnRecvKeeps ==
    ASSUME IInv, NEW t \in Threads, OnRecv(t)
    PROVE  IInv'
<1> USE DEF IInv
<1>1. pc[t] = "onRecv" /\ Session(t) \in Sessions /\ Session(t) \in used
  BY Working DEF OnRecv
<1>2. OthersStay(t)
  BY DEF OnRecv, TypeOK, OthersStay, Goto, Disconnecting
<1>3. /\ job' = job
      /\ \/ pc'[t] = "registerRecv" /\ ret' = ret
         \/ pc'[t] = "disconnect" /\ ret'[t] \in {"registerRecv", "idle"}
  BY DEF OnRecv, TypeOK, Goto, Disconnecting
<1>4. Recv(Session(t)) \notin Flight /\ \A u \in Threads \ {t} : AtReceive(u) => Session(u) # Session(t)
  BY <1>1 DEF ReceiveOnce, AtReceive
<1>5. called[Session(t)] # <<>>
  BY <1>1 DEF Announced, Entering
<1>6. /\ pc[t] \in {"onRecv", "onDisconnected", "releaseSession"} => job[t].accept = "none"
      /\ pc[t] \in {"disconnect", "registerDisconnect"} /\ ret[t] # "recvFailed" => job[t].accept = "none"
  BY DEF AcceptHeld
<1>7. UNCHANGED <<accepting, used, sessions, count, connected, owner, called, kernel, port, logged, crash>>
  BY DEF OnRecv, listener, service, system
<1>8. Flight' = Flight
  BY <1>7 DEF Flight
<1>9. TypeOK'
  BY <1>1 DEF OnRecv, TypeOK, Labels, listener, service, system, thread, Goto, Session, Disconnecting
<1>10. CallbacksInOrder'
  BY <1>7 DEF CallbacksInOrder
<1>11. Counted'
  BY <1>7 DEF Counted
<1>12. OpsOnce'
  BY <1>7 DEF OpsOnce
<1>13. AcceptsApart'
  BY <1>1, <1>2, <1>3, <1>7, <1>8, Working DEF AcceptsApart, Session, OthersStay
<1>14. NewSessions'
  BY <1>3, <1>7, <1>8 DEF NewSessions, New, Untouched, Session, OthersStay
<1>15. EnteredAlone'
  BY <1>2, <1>3, <1>7, <1>8, Working DEF EnteredAlone, Entering, Untouched, Session, OthersStay
<1>16. AcceptHeld'
  BY <1>1, <1>2, <1>3 DEF AcceptHeld, Entering, AtPost, Session, OthersStay
<1>17. Announced'
  BY <1>1, <1>2, <1>3, <1>7, <1>8, Working DEF Announced, Entering, Session, OthersStay, OthersKeep
<1>18. ReceiveOnce'
  BY <1>2, <1>3, <1>4, <1>8, Working DEF ReceiveOnce, AtPost, AtReceive, Session, OthersStay
<1>19. ReceiveOwned'
  BY <1>1, <1>2, <1>3, <1>7, <1>8, Working DEF ReceiveOwned, AtPost, Session, OthersStay, OthersKeep
<1>20. DisconnectOnce'
  BY <1>2, <1>3, <1>7, <1>8, Working DEF DisconnectOnce, AtDisc, Session, OthersStay, OthersKeep
<1>21. DisconnectOwned'
  BY <1>7, <1>8 DEF DisconnectOwned
<1>22. DisconnectCalled'
  BY <1>2, <1>3, <1>7, <1>8, Working DEF DisconnectCalled, DisconnectOnce, AtDisc, Session, OthersStay
<1>23. KnownWhileConnected'
  BY <1>7 DEF KnownWhileConnected
<1>24. AcceptsKept'
  BY <1>3, <1>7, <1>8 DEF AcceptsKept
<1>25. HeardOf'
  BY <1>2, <1>3, <1>7, <1>8, Working DEF HeardOf, Hears, FailedGone, Session, OthersStay
<1>26. FailedGone'
  BY <1>2, <1>3, <1>7 DEF FailedGone, Session, OthersStay
<1> QED
  BY <1>9, <1>10, <1>11, <1>12, <1>13, <1>14, <1>15, <1>16, <1>17, <1>18, <1>19, <1>20, <1>21, <1>22, <1>23,
     <1>24, <1>25, <1>26

(* The exchange of _connected: one caller gets the disconnect. *)
LEMMA DisconnectKeeps ==
    ASSUME IInv, NEW t \in Threads, Disconnect(t)
    PROVE  IInv'
<1> USE DEF IInv
<1>1. pc[t] = "disconnect" /\ Session(t) \in Sessions /\ Session(t) \in used
  BY Working DEF Disconnect
<1>2. called[Session(t)] # <<>>
  BY <1>1 DEF Announced, Entering
<1>3. /\ pc[t] \in {"onRecv", "onDisconnected", "releaseSession"} => job[t].accept = "none"
      /\ pc[t] \in {"disconnect", "registerDisconnect"} /\ ret[t] # "recvFailed" => job[t].accept = "none"
  BY DEF AcceptHeld
<1>4. connected[Session(t)] =>
         /\ called[Session(t)] = <<"connected">> /\ Session(t) \in sessions
         /\ Disc(Session(t)) \notin Flight
         /\ \A u \in Threads : AtDisc(u) => Session(u) # Session(t)
  BY <1>1, <1>2 DEF KnownWhileConnected, DisconnectOnce
<1>5. /\ pc' \in [Threads -> Labels] /\ job' \in [Threads -> JobType']
      /\ ret' \in [Threads -> {"idle", "registerRecv", "recvFailed"}]
      /\ \A u \in Threads : pc'[u] = "idle" <=> job'[u].session = NoSession
      /\ OthersStay(t)
      /\ ret' = ret
      /\ IF connected[Session(t)] THEN pc'[t] = "registerDisconnect" /\ job'[t] = job[t]
                                  ELSE GoesOn(t, ret[t])
      /\ ret[t] \in {"idle", "registerRecv", "recvFailed"}
  <2>1. CASE ~connected[Session(t)]
    <3>1. GoOn(t, ret[t]) /\ ret' = ret /\ used' = used
      BY <2>1 DEF Disconnect
    <3>2. ret[t] \in {"idle", "registerRecv", "recvFailed"} /\ ret[t] \in Labels
      BY DEF TypeOK, Labels
    <3> QED
      BY <1>1, <2>1, <3>1, <3>2, GoOnKeeps DEF OthersStay, TypeOK
  <2>2. CASE connected[Session(t)]
    <3>1. pc' = [pc EXCEPT ![t] = "registerDisconnect"] /\ job' = job /\ ret' = ret /\ used' = used
      BY <2>2 DEF Disconnect, Goto
    <3> QED
      BY <1>1, <2>2, <3>1 DEF OthersStay, TypeOK, Session, JobType, Labels
  <2> QED
    BY <2>1, <2>2
<1>6. connected'[Session(t)] = FALSE /\ OthersKeep(connected, connected', Session(t))
  BY <1>1 DEF Disconnect, TypeOK, OthersKeep
<1>7. UNCHANGED <<accepting, used, sessions, count, owner, called, kernel, port, logged, crash>>
  BY DEF Disconnect, listener, service, system
<1>8. Flight' = Flight
  BY <1>7 DEF Flight
<1>9. TypeOK'
  BY <1>5 DEF Disconnect, TypeOK, listener, service, system, JobType, Session
<1>10. CallbacksInOrder'
  BY <1>7 DEF CallbacksInOrder
<1>11. Counted'
  BY <1>7 DEF Counted
<1>12. OpsOnce'
  BY <1>7 DEF OpsOnce
<1>13. AcceptsApart'
  BY <1>1, <1>5, <1>7, <1>8, Working DEF AcceptsApart, Session, OthersStay, OthersKeep, GoesOn
<1>14. NewSessions'
  BY <1>5, <1>6, <1>7, <1>8, Working DEF NewSessions, New, Untouched, Session, OthersStay, OthersKeep, GoesOn
<1>15. EnteredAlone'
  BY <1>1, <1>2, <1>3, <1>4, <1>5, <1>6, <1>7, <1>8, Working DEF EnteredAlone, Entering, Untouched, Session,
     OthersStay, OthersKeep, GoesOn
<1>16. AcceptHeld'
  BY <1>1, <1>5 DEF AcceptHeld, Entering, AtPost, Session, OthersStay, OthersKeep, GoesOn
<1>17. Announced'
  BY <1>2, <1>5, <1>7, <1>8, Working DEF Announced, Entering, Session, OthersStay, OthersKeep, GoesOn
<1>18. ReceiveOnce'
  BY <1>1, <1>5, <1>8, Working DEF ReceiveOnce, AtPost, AtReceive, Session, OthersStay, OthersKeep, GoesOn
<1>19. ReceiveOwned'
  BY <1>1, <1>5, <1>7, <1>8, Working DEF ReceiveOwned, AtPost, Session, OthersStay, OthersKeep, GoesOn
<1>20. DisconnectOnce'
  BY <1>4, <1>5, <1>6, <1>7, <1>8, Working DEF DisconnectOnce, AtDisc, Session, OthersStay, OthersKeep, GoesOn
<1>21. DisconnectOwned'
  BY <1>7, <1>8 DEF DisconnectOwned
<1>22. DisconnectCalled'
  BY <1>4, <1>5, <1>7, <1>8, Working DEF DisconnectCalled, DisconnectOnce, AtDisc, Session, OthersStay,
     OthersKeep, GoesOn
<1>23. KnownWhileConnected'
  BY <1>6, <1>7 DEF KnownWhileConnected, OthersKeep, GoesOn
<1>24. AcceptsKept'
  BY <1>1, <1>5, <1>7, <1>8, Working DEF AcceptsKept, AcceptHeld, Entering, Session, OthersStay, OthersKeep,
     GoesOn
<1>25. HeardOf'
  BY <1>5, <1>6, <1>7, <1>8 DEF HeardOf, Hears, FailedGone, Session, OthersStay, OthersKeep, GoesOn
<1>26. FailedGone'
  BY <1>5, <1>6, <1>7, Working DEF FailedGone, Session, OthersStay, OthersKeep, GoesOn
<1> QED
  BY <1>9, <1>10, <1>11, <1>12, <1>13, <1>14, <1>15, <1>16, <1>17, <1>18, <1>19, <1>20, <1>21, <1>22, <1>23,
     <1>24, <1>25, <1>26

(* ProcessDisconnect calls the content. *)
LEMMA OnDisconnectedKeeps ==
    ASSUME IInv, NEW t \in Threads, OnDisconnected(t)
    PROVE  IInv'
<1> USE DEF IInv
<1>1. pc[t] = "onDisconnected" /\ Session(t) \in Sessions /\ Session(t) \in used
  BY Working DEF OnDisconnected
<1>2. OthersStay(t) /\ job' = job /\ ret' = ret
  BY DEF OnDisconnected, OthersStay, Goto
<1>3. pc'[t] = "releaseSession"
  BY DEF OnDisconnected, TypeOK, Goto
<1>4. called[Session(t)] # <<>>
  BY <1>1 DEF Announced, Entering
<1>5. /\ pc[t] \in {"onRecv", "onDisconnected", "releaseSession"} => job[t].accept = "none"
      /\ pc[t] \in {"disconnect", "registerDisconnect"} /\ ret[t] # "recvFailed" => job[t].accept = "none"
  BY DEF AcceptHeld
<1>6. /\ Disc(Session(t)) \notin Flight /\ ~connected[Session(t)] /\ Session(t) \in sessions
      /\ \A u \in Threads \ {t} : AtDisc(u) => Session(u) # Session(t)
  BY <1>1 DEF DisconnectOnce, AtDisc
<1>7. called[Session(t)] = <<"connected">>
  BY <1>1 DEF DisconnectCalled, AtDisc
<1>8. called'[Session(t)] = <<"connected", "disconnected">>
      /\ OthersKeep(called, called', Session(t))
  BY <1>1, <1>7, Callbacks DEF OnDisconnected, TypeOK, OthersKeep
<1>9. UNCHANGED <<accepting, used, sessions, count, connected, owner, kernel, port, logged, crash>>
  BY DEF OnDisconnected, listener, service, system
<1>10. Flight' = Flight
  BY <1>9 DEF Flight
<1>11. TypeOK'
  BY DEF OnDisconnected, TypeOK, Labels, listener, service, system, Goto, Session
<1>12. CallbacksInOrder'
  BY <1>8 DEF CallbacksInOrder, DisconnectCalled, OthersKeep, GoesOn
<1>13. Counted'
  BY <1>9 DEF Counted
<1>14. OpsOnce'
  BY <1>9 DEF OpsOnce
<1>15. AcceptsApart'
  BY <1>1, <1>2, <1>9, <1>10 DEF AcceptsApart, AcceptHeld, Entering, Session, OthersStay, OthersKeep
<1>16. NewSessions'
  BY <1>2, <1>8, <1>9, <1>10, Working, Callbacks DEF NewSessions, New, Untouched, Session, OthersStay,
     OthersKeep
<1>17. EnteredAlone'
  BY <1>2, <1>3, <1>4, <1>7, <1>8, <1>9, <1>10, Working, Callbacks DEF EnteredAlone, Entering, Untouched,
     Session, OthersStay, OthersKeep
<1>18. AcceptHeld'
  BY <1>1, <1>2, <1>3 DEF AcceptHeld, Entering, AtPost, Session, OthersStay
<1>19. Announced'
  BY <1>2, <1>8, <1>9, <1>10, Working, Callbacks DEF Announced, Entering, Session, OthersStay, OthersKeep,
     GoesOn
<1>20. ReceiveOnce'
  BY <1>2, <1>3, <1>4, <1>9, <1>10 DEF ReceiveOnce, AtPost, AtReceive, Session, OthersStay, OthersKeep
<1>21. ReceiveOwned'
  BY <1>1, <1>2, <1>3, <1>9, <1>10 DEF ReceiveOwned, AtPost, Session, OthersStay
<1>22. DisconnectOnce'
  BY <1>1, <1>2, <1>9, <1>10 DEF DisconnectOnce, AtDisc, Session, OthersStay
<1>23. DisconnectOwned'
  BY <1>9, <1>10 DEF DisconnectOwned
<1>24. DisconnectCalled'
  BY <1>1, <1>2, <1>3, <1>4, <1>7, <1>8, <1>9, <1>10, Working, Callbacks DEF DisconnectCalled,
     DisconnectOnce, AtDisc, Session, OthersStay, OthersKeep
<1>25. KnownWhileConnected'
  BY <1>6, <1>8, <1>9 DEF KnownWhileConnected, OthersKeep, GoesOn
<1>26. AcceptsKept'
  BY <1>2, <1>9, <1>10 DEF AcceptsKept, AcceptHeld
<1>27. HeardOf'
  BY <1>1, <1>2, <1>9, <1>10 DEF HeardOf, Hears, FailedGone, Session, OthersStay, OthersKeep
<1>28. FailedGone'
  BY <1>2, <1>3, <1>9 DEF FailedGone, Session, OthersStay, OthersKeep
<1> QED
  BY <1>11, <1>12, <1>13, <1>14, <1>15, <1>16, <1>17, <1>18, <1>19, <1>20, <1>21, <1>22, <1>23, <1>24,
     <1>25, <1>26, <1>27, <1>28

(* ProcessDisconnect takes the session out of the service's table. *)
LEMMA ReleaseSessionKeeps ==
    ASSUME IInv, NEW t \in Threads, ReleaseSession(t)
    PROVE  IInv'
<1> USE DEF IInv
<1>1. pc[t] = "releaseSession" /\ Session(t) \in Sessions /\ Session(t) \in used
  BY Working DEF ReleaseSession
<1>2. called[Session(t)] # <<>>
  BY <1>1 DEF Announced, Entering
<1>3. /\ pc[t] \in {"onRecv", "onDisconnected", "releaseSession"} => job[t].accept = "none"
      /\ pc[t] \in {"disconnect", "registerDisconnect"} /\ ret[t] # "recvFailed" => job[t].accept = "none"
  BY DEF AcceptHeld
<1>4. /\ Disc(Session(t)) \notin Flight /\ ~connected[Session(t)] /\ Session(t) \in sessions
      /\ \A u \in Threads \ {t} : AtDisc(u) => Session(u) # Session(t)
  BY <1>1 DEF DisconnectOnce, AtDisc
<1>5. /\ pc' \in [Threads -> Labels] /\ job' \in [Threads -> JobType']
      /\ ret' \in [Threads -> {"idle", "registerRecv", "recvFailed"}]
      /\ \A u \in Threads : pc'[u] = "idle" <=> job'[u].session = NoSession
      /\ OthersStay(t)
      /\ ret' = ret /\ GoesOn(t, "idle")
  <2>1. GoOn(t, "idle") /\ ret' = ret /\ used' = used
    BY <1>4 DEF ReleaseSession, GoOn
  <2>2. "idle" \in Labels
    BY DEF Labels
  <2> QED
    BY <1>1, <2>1, <2>2, GoOnKeeps DEF OthersStay, TypeOK
<1>6. sessions' = sessions \ {Session(t)} /\ count' = count - 1 /\ crash' = crash
  BY <1>4 DEF ReleaseSession
<1>7. UNCHANGED <<accepting, used, connected, owner, called, kernel, port, logged>>
  BY DEF ReleaseSession, listener, system
<1>8. Flight' = Flight
  BY <1>7 DEF Flight
<1>9. TypeOK'
  <2>1. count' \in Nat
    <3>1. IsFiniteSet(sessions) /\ count = Cardinality(sessions)
      BY Working, FS_Subset, SessionsAssumption DEF Counted
    <3>2. Cardinality(sessions \ {Session(t)}) = count - 1 /\ Cardinality(sessions \ {Session(t)}) \in Nat
      BY <1>4, <3>1, FS_RemoveElement, FS_CardinalityType
    <3> QED
      BY <1>6, <3>2
  <2> QED
    BY <1>5, <1>6, <1>7, <2>1 DEF ReleaseSession, system, TypeOK, JobType, Session
<1>10. CallbacksInOrder'
  BY <1>7 DEF CallbacksInOrder
<1>11. Counted'
  BY <1>4, <1>6, Working, FS_RemoveElement, FS_Subset, SessionsAssumption DEF Counted
<1>12. OpsOnce'
  BY <1>7 DEF OpsOnce
<1>13. AcceptsApart'
  BY <1>5, <1>7, <1>8 DEF AcceptsApart, Session, OthersStay, OthersKeep, GoesOn
<1>14. NewSessions'
  BY <1>5, <1>6, <1>7, <1>8, Working DEF NewSessions, New, Untouched, Session, OthersStay, OthersKeep, GoesOn
<1>15. EnteredAlone'
  BY <1>5, <1>6, <1>7, <1>8, Working DEF EnteredAlone, Entering, Untouched, Session, OthersStay, OthersKeep,
     GoesOn
<1>16. AcceptHeld'
  BY <1>5 DEF AcceptHeld, Entering, OthersStay, OthersKeep, GoesOn
<1>17. Announced'
  BY <1>5, <1>7, <1>8 DEF Announced, Session, OthersStay, OthersKeep, GoesOn
<1>18. ReceiveOnce'
  BY <1>5, <1>8 DEF ReceiveOnce, AtPost, AtReceive, Session, OthersStay, OthersKeep, GoesOn
<1>19. ReceiveOwned'
  BY <1>1, <1>5, <1>7, <1>8, Working DEF ReceiveOwned, AtPost, Session, OthersStay, OthersKeep, GoesOn
<1>20. DisconnectOnce'
  BY <1>4, <1>5, <1>6, <1>7, <1>8, Working DEF DisconnectOnce, AtDisc, Session, OthersStay, OthersKeep, GoesOn
<1>21. DisconnectOwned'
  BY <1>7, <1>8 DEF DisconnectOwned
<1>22. DisconnectCalled'
  BY <1>5, <1>7, <1>8 DEF DisconnectCalled, AtDisc, Session, OthersStay, OthersKeep, GoesOn
<1>23. KnownWhileConnected'
  BY <1>4, <1>6, <1>7 DEF KnownWhileConnected
<1>24. AcceptsKept'
  BY <1>1, <1>5, <1>7, <1>8, Working DEF AcceptsKept, AcceptHeld, Entering, Session, OthersStay, OthersKeep,
     GoesOn
<1>25. HeardOf'
  BY <1>4, <1>5, <1>7, <1>8, Working DEF HeardOf, Hears, FailedGone, Session, OthersStay
<1>26. FailedGone'
  BY <1>5, <1>7 DEF FailedGone, Session, OthersStay, GoesOn
<1> QED
  BY <1>9, <1>10, <1>11, <1>12, <1>13, <1>14, <1>15, <1>16, <1>17, <1>18, <1>19, <1>20, <1>21, <1>22, <1>23,
     <1>24, <1>25, <1>26

(* DisconnectEx goes on, with an owner. *)
LEMMA RegisterDisconnectGoesKeeps ==
    ASSUME IInv, NEW t \in Threads, RegisterDisconnectGoes(t)
    PROVE  IInv'
<1> USE DEF IInv
<1>1. pc[t] = "registerDisconnect" /\ Session(t) \in Sessions /\ Session(t) \in used
  BY Working DEF RegisterDisconnectGoes
<1>2. called[Session(t)] # <<>>
  BY <1>1 DEF Announced, Entering
<1>3. /\ pc[t] \in {"onRecv", "onDisconnected", "releaseSession"} => job[t].accept = "none"
      /\ pc[t] \in {"disconnect", "registerDisconnect"} /\ ret[t] # "recvFailed" => job[t].accept = "none"
  BY DEF AcceptHeld
<1>4. /\ Disc(Session(t)) \notin Flight /\ ~connected[Session(t)] /\ Session(t) \in sessions
      /\ \A u \in Threads \ {t} : AtDisc(u) => Session(u) # Session(t)
  BY <1>1 DEF DisconnectOnce, AtDisc
<1>5. called[Session(t)] = <<"connected">>
  BY <1>1 DEF DisconnectCalled, AtDisc
<1>6. /\ pc' \in [Threads -> Labels] /\ job' \in [Threads -> JobType']
      /\ ret' \in [Threads -> {"idle", "registerRecv", "recvFailed"}]
      /\ \A u \in Threads : pc'[u] = "idle" <=> job'[u].session = NoSession
      /\ OthersStay(t)
      /\ ret' = ret /\ GoesOn(t, ret[t])
      /\ ret[t] \in {"idle", "registerRecv", "recvFailed"}
  <2>1. GoOn(t, ret[t]) /\ ret' = ret /\ used' = used
    BY DEF RegisterDisconnectGoes
  <2>2. ret[t] \in {"idle", "registerRecv", "recvFailed"} /\ ret[t] \in Labels
    BY DEF TypeOK, Labels
  <2> QED
    BY <1>1, <2>1, <2>2, GoOnKeeps DEF OthersStay, TypeOK
<1>7. owner'[Session(t)] = owner[Session(t)] \cup {"disc"} /\ OthersKeep(owner, owner', Session(t))
  BY <1>1 DEF RegisterDisconnectGoes, TypeOK, OthersKeep
<1>8. UNCHANGED <<accepting, used, sessions, count, connected, called, port, logged, crash>>
  BY DEF RegisterDisconnectGoes, listener, service
<1>9. /\ \A r : Recv(r) \in Flight' <=> Recv(r) \in Flight
      /\ \A r : Disc(r) \in Flight' <=> r = Session(t) \/ Disc(r) \in Flight
      /\ \A e : Accept(e) \in Flight' <=> Accept(e) \in Flight
  BY DEF RegisterDisconnectGoes, Flight, Recv, Disc, Accept
<1>10. TypeOK'
  BY <1>1, <1>6, <1>8 DEF RegisterDisconnectGoes, TypeOK, Labels, JobType, Session, Operations, Disc
<1>11. CallbacksInOrder'
  BY <1>8 DEF CallbacksInOrder
<1>12. Counted'
  BY <1>8 DEF Counted
<1>13. OpsOnce'
  BY <1>4 DEF OpsOnce, RegisterDisconnectGoes, Flight
<1>14. AcceptsApart'
  BY <1>1, <1>6, <1>7, <1>8, <1>9, Working DEF AcceptsApart, AcceptHeld, Entering, Session, OthersStay,
     OthersKeep, GoesOn
<1>15. NewSessions'
  BY <1>5, <1>6, <1>7, <1>8, <1>9, Working DEF NewSessions, New, Untouched, Session, OthersStay, OthersKeep,
     GoesOn
<1>16. EnteredAlone'
  BY <1>1, <1>5, <1>6, <1>7, <1>8, <1>9, Working DEF EnteredAlone, Entering, Untouched, Session, OthersStay,
     OthersKeep, GoesOn
<1>17. AcceptHeld'
  BY <1>6 DEF AcceptHeld, Entering, OthersStay, OthersKeep, GoesOn
<1>18. Announced'
  BY <1>5, <1>6, <1>7, <1>8, <1>9, Working DEF Announced, Entering, Session, OthersStay, OthersKeep, GoesOn
<1>19. ReceiveOnce'
  BY <1>1, <1>6, <1>9, Working DEF ReceiveOnce, AtPost, AtReceive, Session, OthersStay, OthersKeep, GoesOn
<1>20. ReceiveOwned'
  BY <1>1, <1>6, <1>7, <1>8, <1>9, Working DEF ReceiveOwned, AtPost, Session, OthersStay, OthersKeep, GoesOn
<1>21. DisconnectOnce'
  BY <1>4, <1>6, <1>8, <1>9, Working DEF DisconnectOnce, AtDisc, Session, OthersStay, OthersKeep, GoesOn
<1>22. DisconnectOwned'
  BY <1>7, <1>9 DEF DisconnectOwned, OthersKeep
<1>23. DisconnectCalled'
  BY <1>5, <1>6, <1>8, <1>9, Working DEF DisconnectCalled, DisconnectOnce, AtDisc, Session, OthersStay,
     OthersKeep, GoesOn
<1>24. KnownWhileConnected'
  BY <1>8 DEF KnownWhileConnected
<1>25. AcceptsKept'
  BY <1>1, <1>6, <1>7, <1>8, <1>9, Working DEF AcceptsKept, AcceptHeld, OthersStay, OthersKeep, GoesOn
<1>26. HeardOf'
  BY <1>4, <1>6, <1>7, <1>8, <1>9, Working DEF HeardOf, Hears, FailedGone, Session, OthersStay, OthersKeep
<1>27. FailedGone'
  BY <1>4, <1>6, <1>8 DEF FailedGone, Session, OthersStay, OthersKeep, GoesOn
<1> QED
  BY <1>10, <1>11, <1>12, <1>13, <1>14, <1>15, <1>16, <1>17, <1>18, <1>19, <1>20, <1>21, <1>22, <1>23,
     <1>24, <1>25, <1>26, <1>27

(* DisconnectEx fails: the owner is cleared again. *)
LEMMA RegisterDisconnectFailsKeeps ==
    ASSUME IInv, NEW t \in Threads, RegisterDisconnectFails(t)
    PROVE  IInv'
<1> USE DEF IInv
<1>1. pc[t] = "registerDisconnect" /\ Session(t) \in Sessions /\ Session(t) \in used
  BY Working DEF RegisterDisconnectFails
<1>2. called[Session(t)] # <<>>
  BY <1>1 DEF Announced, Entering
<1>3. /\ pc[t] \in {"onRecv", "onDisconnected", "releaseSession"} => job[t].accept = "none"
      /\ pc[t] \in {"disconnect", "registerDisconnect"} /\ ret[t] # "recvFailed" => job[t].accept = "none"
  BY DEF AcceptHeld
<1>4. /\ Disc(Session(t)) \notin Flight /\ ~connected[Session(t)] /\ Session(t) \in sessions
      /\ \A u \in Threads \ {t} : AtDisc(u) => Session(u) # Session(t)
  BY <1>1 DEF DisconnectOnce, AtDisc
<1>5. /\ pc' \in [Threads -> Labels] /\ job' \in [Threads -> JobType']
      /\ ret' \in [Threads -> {"idle", "registerRecv", "recvFailed"}]
      /\ \A u \in Threads : pc'[u] = "idle" <=> job'[u].session = NoSession
      /\ OthersStay(t)
      /\ ret' = ret /\ GoesOn(t, ret[t])
      /\ ret[t] \in {"idle", "registerRecv", "recvFailed"}
  <2>1. GoOn(t, ret[t]) /\ ret' = ret /\ used' = used
    BY DEF RegisterDisconnectFails
  <2>2. ret[t] \in {"idle", "registerRecv", "recvFailed"} /\ ret[t] \in Labels
    BY DEF TypeOK, Labels
  <2> QED
    BY <1>1, <2>1, <2>2, GoOnKeeps DEF OthersStay, TypeOK
<1>6. logged' \in [Sessions -> SUBSET {"recv", "disc"}]
      /\ \A r \in Sessions : "recv" \in logged'[r] <=> "recv" \in logged[r]
  BY <1>1 DEF RegisterDisconnectFails, TypeOK
<1>7. UNCHANGED <<accepting, used, sessions, count, connected, owner, called, kernel, port, crash>>
  BY DEF RegisterDisconnectFails, listener, service, system
<1>8. Flight' = Flight
  BY <1>7 DEF Flight
<1>9. TypeOK'
  BY <1>5 DEF RegisterDisconnectFails, TypeOK, listener, service, system, JobType, Session
<1>10. CallbacksInOrder'
  BY <1>7 DEF CallbacksInOrder
<1>11. Counted'
  BY <1>7 DEF Counted
<1>12. OpsOnce'
  BY <1>7 DEF OpsOnce
<1>13. AcceptsApart'
  BY <1>1, <1>5, <1>7, <1>8, Working DEF AcceptsApart, Session, OthersStay, OthersKeep, GoesOn
<1>14. NewSessions'
  BY <1>5, <1>7, <1>8, Working DEF NewSessions, New, Untouched, Session, OthersStay, OthersKeep, GoesOn
<1>15. EnteredAlone'
  BY <1>3, <1>4, <1>5, <1>6, <1>7, <1>8, Working DEF EnteredAlone, Entering, Untouched, Session, OthersStay,
     OthersKeep, GoesOn
<1>16. AcceptHeld'
  BY <1>5 DEF AcceptHeld, Entering, OthersStay, OthersKeep, GoesOn
<1>17. Announced'
  BY <1>2, <1>5, <1>7, <1>8, Working DEF Announced, Entering, Session, OthersStay, OthersKeep, GoesOn
<1>18. ReceiveOnce'
  BY <1>1, <1>5, <1>8, Working DEF ReceiveOnce, AtPost, AtReceive, Session, OthersStay, OthersKeep, GoesOn
<1>19. ReceiveOwned'
  BY <1>1, <1>5, <1>7, <1>8, Working DEF ReceiveOwned, AtPost, Session, OthersStay, OthersKeep, GoesOn
<1>20. DisconnectOnce'
  BY <1>5, <1>7, <1>8 DEF DisconnectOnce, AtDisc, Session, OthersStay, OthersKeep, GoesOn
<1>21. DisconnectOwned'
  BY <1>7, <1>8 DEF DisconnectOwned
<1>22. DisconnectCalled'
  BY <1>5, <1>7, <1>8 DEF DisconnectCalled, AtDisc, Session, OthersStay, OthersKeep, GoesOn
<1>23. KnownWhileConnected'
  BY <1>7 DEF KnownWhileConnected
<1>24. AcceptsKept'
  BY <1>1, <1>5, <1>7, <1>8, Working DEF AcceptsKept, AcceptHeld, Entering, Session, OthersStay, OthersKeep,
     GoesOn
<1>25. HeardOf'
  BY <1>4, <1>5, <1>6, <1>7, <1>8, Working DEF HeardOf, Hears, FailedGone, Session, OthersStay
<1>26. FailedGone'
  BY <1>4, <1>5, <1>6, <1>7, Working DEF FailedGone, Session, OthersStay, GoesOn
<1> QED
  BY <1>9, <1>10, <1>11, <1>12, <1>13, <1>14, <1>15, <1>16, <1>17, <1>18, <1>19, <1>20, <1>21, <1>22, <1>23,
     <1>24, <1>25, <1>26

(* WSARecv goes on: the receive is the system's. *)
LEMMA PostRecvGoesKeeps ==
    ASSUME IInv, NEW t \in Threads, PostRecvGoes(t)
    PROVE  IInv'
<1> USE DEF IInv
<1>1. pc[t] = "recv" /\ Session(t) \in Sessions /\ Session(t) \in used
  BY Working DEF PostRecvGoes
<1>2. Recv(Session(t)) \notin Flight /\ \A u \in Threads \ {t} : AtReceive(u) => Session(u) # Session(t)
  BY <1>1 DEF ReceiveOnce, AtReceive, AtPost
<1>3. called[Session(t)] # <<>>
  BY <1>1 DEF Announced, Entering
<1>4. /\ pc[t] \in {"onRecv", "onDisconnected", "releaseSession"} => job[t].accept = "none"
      /\ pc[t] \in {"disconnect", "registerDisconnect"} /\ ret[t] # "recvFailed" => job[t].accept = "none"
  BY DEF AcceptHeld
<1>5. /\ pc' \in [Threads -> Labels] /\ job' \in [Threads -> JobType']
      /\ ret' \in [Threads -> {"idle", "registerRecv", "recvFailed"}]
      /\ \A u \in Threads : pc'[u] = "idle" <=> job'[u].session = NoSession
      /\ OthersStay(t)
      /\ ret' = ret /\ GoesOn(t, Back(t))
  <2>1. GoOn(t, Back(t)) /\ ret' = ret /\ used' = used
    BY DEF PostRecvGoes
  <2>2. Back(t) \in {"idle", "accept"} /\ Back(t) \in Labels
    BY DEF Back, Labels
  <2> QED
    BY <1>1, <2>1, <2>2, GoOnKeeps DEF OthersStay, TypeOK
<1>6. UNCHANGED <<accepting, used, sessions, count, connected, owner, called, port, logged, crash>>
  BY DEF PostRecvGoes, listener, service
<1>7. /\ \A r : Recv(r) \in Flight' <=> r = Session(t) \/ Recv(r) \in Flight
      /\ \A r : Disc(r) \in Flight' <=> Disc(r) \in Flight
      /\ \A e : Accept(e) \in Flight' <=> Accept(e) \in Flight
  BY DEF PostRecvGoes, Flight, Recv, Disc, Accept
<1>8. TypeOK'
  BY <1>1, <1>5, <1>6 DEF PostRecvGoes, TypeOK, JobType, Session, Operations, Recv
<1>9. CallbacksInOrder'
  BY <1>6 DEF CallbacksInOrder
<1>10. Counted'
  BY <1>6 DEF Counted
<1>11. OpsOnce'
  BY <1>2 DEF OpsOnce, PostRecvGoes, Flight
<1>12. AcceptsApart'
  BY <1>5, <1>6, <1>7 DEF AcceptsApart, Session, OthersStay, OthersKeep, GoesOn, Back
<1>13. NewSessions'
  BY <1>5, <1>6, <1>7, Working DEF NewSessions, New, Untouched, Session, OthersStay, OthersKeep, GoesOn, Back
<1>14. EnteredAlone'
  BY <1>5, <1>6, <1>7, Working DEF EnteredAlone, Entering, Untouched, Session, OthersStay, OthersKeep,
     GoesOn, Back
<1>15. AcceptHeld'
  BY <1>5 DEF AcceptHeld, Entering, OthersStay, GoesOn, Back
<1>16. Announced'
  BY <1>3, <1>5, <1>6, <1>7, Working DEF Announced, Entering, Session, OthersStay, OthersKeep, GoesOn
<1>17. ReceiveOnce'
  BY <1>2, <1>5, <1>7, Working DEF ReceiveOnce, AtPost, AtReceive, Session, OthersStay, OthersKeep, GoesOn,
     Back
<1>18. ReceiveOwned'
  BY <1>1, <1>5, <1>6, <1>7, Working DEF ReceiveOwned, AtPost, Session, OthersStay, OthersKeep, GoesOn
<1>19. DisconnectOnce'
  BY <1>5, <1>6, <1>7 DEF DisconnectOnce, AtDisc, Session, OthersStay, OthersKeep, GoesOn, Back
<1>20. DisconnectOwned'
  BY <1>6, <1>7 DEF DisconnectOwned
<1>21. DisconnectCalled'
  BY <1>5, <1>6, <1>7 DEF DisconnectCalled, AtDisc, Session, OthersStay, OthersKeep, GoesOn, Back
<1>22. KnownWhileConnected'
  BY <1>6 DEF KnownWhileConnected
<1>23. AcceptsKept'
  BY <1>5, <1>6, <1>7 DEF AcceptsKept, OthersStay, OthersKeep, GoesOn, Back
<1>24. HeardOf'
  BY <1>5, <1>6, <1>7 DEF HeardOf, Hears, Session, OthersStay, OthersKeep
<1>25. FailedGone'
  BY <1>5, <1>6 DEF FailedGone, Session, OthersStay, GoesOn, Back
<1> QED
  BY <1>8, <1>9, <1>10, <1>11, <1>12, <1>13, <1>14, <1>15, <1>16, <1>17, <1>18, <1>19, <1>20, <1>21, <1>22,
     <1>23, <1>24, <1>25

(* WSARecv fails with a reset: the thread disconnects. *)
LEMMA PostRecvResetKeeps ==
    ASSUME IInv, NEW t \in Threads, PostRecvReset(t)
    PROVE  IInv'
<1> USE DEF IInv
<1>1. pc[t] = "recv" /\ Session(t) \in Sessions /\ Session(t) \in used
  BY Working DEF PostRecvReset
<1>2. OthersStay(t)
  BY DEF PostRecvReset, OthersStay, Goto, Disconnecting
<1>3. job' = job /\ pc'[t] = "disconnect" /\ ret'[t] = "recvFailed"
  BY DEF PostRecvReset, TypeOK, Goto, Disconnecting
<1>4. Recv(Session(t)) \notin Flight /\ \A u \in Threads \ {t} : AtReceive(u) => Session(u) # Session(t)
  BY <1>1 DEF ReceiveOnce, AtReceive, AtPost
<1>5. called[Session(t)] # <<>>
  BY <1>1 DEF Announced, Entering
<1>6. /\ pc[t] \in {"onRecv", "onDisconnected", "releaseSession"} => job[t].accept = "none"
      /\ pc[t] \in {"disconnect", "registerDisconnect"} /\ ret[t] # "recvFailed" => job[t].accept = "none"
  BY DEF AcceptHeld
<1>7. UNCHANGED <<accepting, used, sessions, count, connected, owner, called, kernel, port, logged, crash>>
  BY DEF PostRecvReset, listener, service, system
<1>8. Flight' = Flight
  BY <1>7 DEF Flight
<1>9. TypeOK'
  BY DEF PostRecvReset, TypeOK, Labels, listener, service, system, Goto, Session, Disconnecting
<1>10. CallbacksInOrder'
  BY <1>7 DEF CallbacksInOrder
<1>11. Counted'
  BY <1>7 DEF Counted
<1>12. OpsOnce'
  BY <1>7 DEF OpsOnce
<1>13. AcceptsApart'
  BY <1>1, <1>2, <1>3, <1>7, <1>8, Working DEF AcceptsApart, Session, OthersStay
<1>14. NewSessions'
  BY <1>3, <1>7, <1>8 DEF NewSessions, New, Untouched, Session, OthersStay
<1>15. EnteredAlone'
  BY <1>2, <1>3, <1>7, <1>8, Working DEF EnteredAlone, Entering, Untouched, Session, OthersStay
<1>16. AcceptHeld'
  BY <1>2, <1>3 DEF AcceptHeld, Entering, AtPost, Session, OthersStay
<1>17. Announced'
  BY <1>1, <1>2, <1>3, <1>7, <1>8, Working DEF Announced, Entering, Session, OthersStay, OthersKeep
<1>18. ReceiveOnce'
  BY <1>2, <1>3, <1>4, <1>8, Working DEF ReceiveOnce, AtPost, AtReceive, Session, OthersStay
<1>19. ReceiveOwned'
  BY <1>1, <1>2, <1>3, <1>7, <1>8, Working DEF ReceiveOwned, AtPost, Session, OthersStay, OthersKeep
<1>20. DisconnectOnce'
  BY <1>2, <1>3, <1>7, <1>8, Working DEF DisconnectOnce, AtDisc, Session, OthersStay, OthersKeep
<1>21. DisconnectOwned'
  BY <1>7, <1>8 DEF DisconnectOwned
<1>22. DisconnectCalled'
  BY <1>2, <1>3, <1>7, <1>8, Working DEF DisconnectCalled, DisconnectOnce, AtDisc, Session, OthersStay
<1>23. KnownWhileConnected'
  BY <1>7 DEF KnownWhileConnected
<1>24. AcceptsKept'
  BY <1>3, <1>7, <1>8 DEF AcceptsKept
<1>25. HeardOf'
  BY <1>2, <1>3, <1>7, <1>8, Working DEF HeardOf, Hears, FailedGone, Session, OthersStay
<1>26. FailedGone'
  BY <1>2, <1>3, <1>7 DEF FailedGone, Session, OthersStay
<1> QED
  BY <1>9, <1>10, <1>11, <1>12, <1>13, <1>14, <1>15, <1>16, <1>17, <1>18, <1>19, <1>20, <1>21, <1>22, <1>23,
     <1>24, <1>25, <1>26

(* WSARecv fails with another code, which is logged. *)
LEMMA PostRecvLoggedKeeps ==
    ASSUME IInv, NEW t \in Threads, PostRecvLogged(t)
    PROVE  IInv'
<1> USE DEF IInv
<1>1. pc[t] = "recv" /\ Session(t) \in Sessions /\ Session(t) \in used
  BY Working DEF PostRecvLogged
<1>2. OthersStay(t) /\ job' = job /\ ret' = ret
  BY DEF PostRecvLogged, OthersStay, Goto
<1>3. pc'[t] = "recvFailed"
  BY DEF PostRecvLogged, TypeOK, Goto
<1>4. Recv(Session(t)) \notin Flight /\ \A u \in Threads \ {t} : AtReceive(u) => Session(u) # Session(t)
  BY <1>1 DEF ReceiveOnce, AtReceive, AtPost
<1>5. called[Session(t)] # <<>>
  BY <1>1 DEF Announced, Entering
<1>6. /\ pc[t] \in {"onRecv", "onDisconnected", "releaseSession"} => job[t].accept = "none"
      /\ pc[t] \in {"disconnect", "registerDisconnect"} /\ ret[t] # "recvFailed" => job[t].accept = "none"
  BY DEF AcceptHeld
<1>7. /\ "recv" \in logged'[Session(t)]
      /\ \A r \in Sessions : logged[r] \subseteq logged'[r]
  BY <1>1 DEF PostRecvLogged, TypeOK
<1>8. UNCHANGED <<accepting, used, sessions, count, connected, owner, called, kernel, port, crash>>
  BY DEF PostRecvLogged, listener, service, system
<1>9. Flight' = Flight
  BY <1>8 DEF Flight
<1>10. TypeOK'
  BY DEF PostRecvLogged, TypeOK, Labels, listener, service, system, Goto, Session
<1>11. CallbacksInOrder'
  BY <1>8 DEF CallbacksInOrder
<1>12. Counted'
  BY <1>8 DEF Counted
<1>13. OpsOnce'
  BY <1>8 DEF OpsOnce
<1>14. AcceptsApart'
  BY <1>1, <1>2, <1>8, <1>9, Working DEF AcceptsApart, AcceptHeld, Entering, Session, OthersStay, OthersKeep
<1>15. NewSessions'
  BY <1>2, <1>8, <1>9, Working DEF NewSessions, New, Untouched, Session
<1>16. EnteredAlone'
  BY <1>2, <1>3, <1>7, <1>8, <1>9, Working DEF EnteredAlone, Entering, Untouched, Session, OthersStay,
     OthersKeep
<1>17. AcceptHeld'
  BY <1>2, <1>3 DEF AcceptHeld, Entering, OthersStay, OthersKeep
<1>18. Announced'
  BY <1>1, <1>2, <1>8, <1>9, Working DEF Announced, Entering, Session, OthersStay
<1>19. ReceiveOnce'
  BY <1>1, <1>2, <1>9 DEF ReceiveOnce, AtPost, AtReceive, Session, OthersStay, OthersKeep
<1>20. ReceiveOwned'
  BY <1>1, <1>2, <1>3, <1>8, <1>9, Working DEF ReceiveOwned, AtPost, Session, OthersStay
<1>21. DisconnectOnce'
  BY <1>2, <1>3, <1>8, <1>9, Working DEF DisconnectOnce, AtDisc, Session, OthersStay
<1>22. DisconnectOwned'
  BY <1>8, <1>9 DEF DisconnectOwned
<1>23. DisconnectCalled'
  BY <1>2, <1>3, <1>7, <1>8, <1>9, Working DEF DisconnectCalled, DisconnectOnce, AtDisc, Session,
     OthersStay, OthersKeep
<1>24. KnownWhileConnected'
  BY <1>8 DEF KnownWhileConnected
<1>25. AcceptsKept'
  BY <1>2, <1>8, <1>9 DEF AcceptsKept, AcceptHeld
<1>26. HeardOf'
  BY <1>2, <1>7, <1>8, <1>9, Working DEF HeardOf, Hears, FailedGone, Session, OthersStay, OthersKeep
<1>27. FailedGone'
  BY <1>2, <1>7, <1>8, Working DEF FailedGone, Session, OthersStay, OthersKeep
<1> QED
  BY <1>10, <1>11, <1>12, <1>13, <1>14, <1>15, <1>16, <1>17, <1>18, <1>19, <1>20, <1>21, <1>22, <1>23,
     <1>24, <1>25, <1>26, <1>27

(* A thread takes the completion of an accept. *)
LEMMA DispatchAcceptKeeps ==
    ASSUME IInv, NEW t \in Threads, NEW e \in AcceptEvents, DispatchAccept(t, e)
    PROVE  IInv'
<1> USE DEF IInv
<1>1. pc[t] = "idle" /\ Session(t) = NoSession /\ job[t].accept = "none"
  BY Working DEF DispatchAccept, Dispatched, AcceptHeld
<1>2. /\ OpsOnce' /\ port' \in Seq(Operations \X {0, 1}) /\ Accept(e) \in Flight
      /\ \A x : x \in Flight' <=> x \in Flight /\ x # Accept(e)
  BY PortTail DEF DispatchAccept, Dispatched
<1>3. /\ accepting[e] \in used /\ accepting[e] \in Sessions /\ accepting[e] # NoSession
      /\ called[accepting[e]] = <<>> /\ owner[accepting[e]] = {}
      /\ Recv(accepting[e]) \notin Flight /\ Disc(accepting[e]) \notin Flight
      /\ ~connected[accepting[e]] /\ accepting[e] \notin sessions
      /\ \A u \in Threads : Session(u) # accepting[e]
  BY <1>2, Working DEF NewSessions, New, Untouched
<1>4. \A u \in Threads : job[u].accept # e
  BY <1>2, NoSessionAssumption DEF AcceptsApart
<1>5. /\ pc' \in [Threads -> Labels] /\ job' \in [Threads -> JobType']
      /\ ret' \in [Threads -> {"idle", "registerRecv", "recvFailed"}]
      /\ \A u \in Threads : pc'[u] = "idle" <=> job'[u].session = NoSession
  BY <1>3 DEF DispatchAccept, TypeOK, JobType, Session, Goto, Labels, Dispatched
<1>6. /\ pc'[t] = "accepted" /\ job'[t].session = accepting[e] /\ job'[t].accept = e
      /\ OthersStay(t) /\ ret' = ret
  BY DEF DispatchAccept, OthersStay, TypeOK, Goto
<1>7. UNCHANGED <<accepting, used, sessions, count, connected, owner, called, logged, crash>>
  BY DEF DispatchAccept, Dispatched, listener, service
<1>8. /\ \A r : Recv(r) \in Flight' <=> Recv(r) \in Flight
      /\ \A r : Disc(r) \in Flight' <=> Disc(r) \in Flight
      /\ \A e2 : Accept(e2) \in Flight' <=> e2 # e /\ Accept(e2) \in Flight
  BY <1>2 DEF Accept, Recv, Disc
<1>9. TypeOK'
  BY <1>5, <1>7 DEF DispatchAccept, Dispatched, TypeOK, JobType, Session
<1>10. CallbacksInOrder'
  BY <1>7 DEF CallbacksInOrder
<1>11. Counted'
  BY <1>7 DEF Counted
<1>12. OpsOnce'
  BY <1>2
<1>13. AcceptsApart'
  BY <1>4, <1>6, <1>7, <1>8 DEF AcceptsApart, OthersStay, Session
<1>14. NewSessions'
  BY <1>6, <1>7, <1>8, Working DEF NewSessions, New, Untouched, OthersStay, Session, AcceptsApart
<1>15. EnteredAlone'
  BY <1>3, <1>6, <1>7, <1>8 DEF EnteredAlone, Untouched, Session, OthersStay
<1>16. AcceptHeld'
  BY <1>1, <1>4, <1>6 DEF AcceptHeld, OthersStay
<1>17. Announced'
  BY <1>6, <1>7, <1>8 DEF Announced, Entering, Session, OthersStay
<1>18. ReceiveOnce'
  BY <1>6, <1>8 DEF ReceiveOnce, AtPost, AtReceive, Session, OthersStay
<1>19. ReceiveOwned'
  BY <1>1, <1>6, <1>7, <1>8 DEF ReceiveOwned, AtPost, Session, OthersStay
<1>20. DisconnectOnce'
  BY <1>6, <1>7, <1>8 DEF DisconnectOnce, AtDisc, Session, OthersStay
<1>21. DisconnectOwned'
  BY <1>7, <1>8 DEF DisconnectOwned
<1>22. DisconnectCalled'
  BY <1>6, <1>7, <1>8 DEF DisconnectCalled, AtDisc, Session, OthersStay
<1>23. KnownWhileConnected'
  BY <1>7 DEF KnownWhileConnected
<1>24. AcceptsKept'
  BY <1>1, <1>6, <1>7, <1>8, NoSessionAssumption DEF AcceptsKept, OthersStay
<1>25. HeardOf'
  BY <1>1, <1>6, <1>7, <1>8 DEF HeardOf, Hears, Session, OthersStay
<1>26. FailedGone'
  BY <1>6, <1>7 DEF FailedGone, Session, OthersStay
<1> QED
  BY <1>9, <1>10, <1>11, <1>12, <1>13, <1>14, <1>15, <1>16, <1>17, <1>18, <1>19, <1>20, <1>21, <1>22, <1>23,
     <1>24, <1>25, <1>26

(* A thread takes the completion of a receive. *)
LEMMA DispatchRecvKeeps ==
    ASSUME IInv, NEW t \in Threads, NEW s \in Sessions, DispatchRecv(t, s)
    PROVE  IInv'
<1> USE DEF IInv
<1>1. pc[t] = "idle" /\ Session(t) = NoSession /\ job[t].accept = "none"
  BY Working DEF DispatchRecv, Dispatched, AcceptHeld
<1>2. /\ OpsOnce' /\ port' \in Seq(Operations \X {0, 1}) /\ Recv(s) \in Flight
      /\ \A x : x \in Flight' <=> x \in Flight /\ x # Recv(s)
  BY PortTail DEF DispatchRecv, Dispatched
<1>3. s \in used /\ s # NoSession /\ called[s] # <<>>
  BY <1>2, NoSessionAssumption DEF NewSessions, New, Untouched, Announced
<1>4. /\ \A e \in AcceptEvents : Accept(e) \in Flight => accepting[e] # s
      /\ \A u \in Threads : pc[u] \in Entering => Session(u) # s
  BY <1>2 DEF NewSessions, New, Untouched, EnteredAlone
<1>5. \A u \in Threads : AtReceive(u) => Session(u) # s
  BY <1>2 DEF ReceiveOnce
<1>6. /\ pc' \in [Threads -> Labels] /\ job' \in [Threads -> JobType']
      /\ ret' \in [Threads -> {"idle", "registerRecv", "recvFailed"}]
      /\ \A u \in Threads : pc'[u] = "idle" <=> job'[u].session = NoSession
  <2>1. /\ job \in [Threads -> JobType] /\ JobType' = JobType /\ job[t] \in JobType
        /\ pc \in [Threads -> Labels] /\ \A u \in Threads : pc[u] = "idle" <=> job[u].session = NoSession
    BY DEF TypeOK, JobType, Session, DispatchRecv, Dispatched
  <2>2. /\ [job[t] EXCEPT !.session = s] \in JobType
        /\ [job[t] EXCEPT !.session = s].session = s
    BY <1>3, <2>1 DEF JobType
  <2>3. job' = [job EXCEPT ![t] = [job[t] EXCEPT !.session = s]]
    BY DEF DispatchRecv
  <2>4. pc' = [pc EXCEPT ![t] = "disconnect"] \/ pc' = [pc EXCEPT ![t] = "onRecv"]
    BY DEF DispatchRecv, Goto, Disconnecting
  <2>5. ret' \in [Threads -> {"idle", "registerRecv", "recvFailed"}]
    BY DEF DispatchRecv, TypeOK, Disconnecting, Goto
  <2> HIDE DEF JobType
  <2> QED
    BY <1>3, <2>1, <2>2, <2>3, <2>4, <2>5 DEF Labels
<1>7. /\ job'[t].session = s /\ job'[t].accept = "none" /\ OthersStay(t)
      /\ owner'[s] = owner[s] \ {"recv"} /\ OthersKeep(owner, owner', s)
      /\ owner' \in [Sessions -> SUBSET {"recv", "disc"}]
      /\ \/ pc'[t] = "disconnect" /\ ret'[t] = "idle"
         \/ pc'[t] = "onRecv" /\ ret' = ret
  BY <1>1 DEF DispatchRecv, OthersStay, OthersKeep, TypeOK, Goto, Disconnecting
<1>8. UNCHANGED <<accepting, used, sessions, count, connected, called, logged, crash>>
  BY DEF DispatchRecv, Dispatched, listener, service
<1>9. /\ \A r : Recv(r) \in Flight' <=> r # s /\ Recv(r) \in Flight
      /\ \A r : Disc(r) \in Flight' <=> Disc(r) \in Flight
      /\ \A e2 : Accept(e2) \in Flight' <=> Accept(e2) \in Flight
  BY <1>2 DEF Accept, Recv, Disc
<1>10. TypeOK'
  BY <1>6, <1>8 DEF DispatchRecv, Dispatched, TypeOK, JobType, Session
<1>11. CallbacksInOrder'
  BY <1>8 DEF CallbacksInOrder
<1>12. Counted'
  BY <1>8 DEF Counted
<1>13. OpsOnce'
  BY <1>2
<1>14. AcceptsApart'
  BY <1>7, <1>8, <1>9 DEF AcceptsApart, Session, OthersStay, OthersKeep
<1>15. NewSessions'
  BY <1>3, <1>7, <1>8, <1>9, Working DEF NewSessions, New, Untouched, Session, OthersStay, OthersKeep
<1>16. EnteredAlone'
  BY <1>4, <1>7, <1>8, <1>9, Working DEF EnteredAlone, Entering, Untouched, Session, OthersStay, OthersKeep
<1>17. AcceptHeld'
  BY <1>7 DEF AcceptHeld, Entering, OthersStay
<1>18. Announced'
  BY <1>3, <1>7, <1>8, <1>9 DEF Announced, Session, OthersStay
<1>19. ReceiveOnce'
  BY <1>5, <1>7, <1>9, Working DEF ReceiveOnce, AtPost, AtReceive, Session, OthersStay, OthersKeep
<1>20. ReceiveOwned'
  BY <1>1, <1>5, <1>7, <1>8, <1>9, Working DEF ReceiveOwned, AtPost, AtReceive, Session, OthersStay,
     OthersKeep
<1>21. DisconnectOnce'
  BY <1>7, <1>8, <1>9 DEF DisconnectOnce, AtDisc, Session, OthersStay
<1>22. DisconnectOwned'
  BY <1>7, <1>9 DEF DisconnectOwned, OthersKeep
<1>23. DisconnectCalled'
  BY <1>7, <1>8, <1>9 DEF DisconnectCalled, AtDisc, Session, OthersStay, OthersKeep
<1>24. KnownWhileConnected'
  BY <1>8 DEF KnownWhileConnected
<1>25. AcceptsKept'
  BY <1>1, <1>7, <1>8, <1>9, Working DEF AcceptsKept, AcceptHeld, OthersStay, OthersKeep
<1>26. HeardOf'
  BY <1>1, <1>7, <1>8, <1>9, Working DEF HeardOf, Hears, FailedGone, Session, OthersStay, OthersKeep
<1>27. FailedGone'
  BY <1>7, <1>8 DEF FailedGone, Session, OthersStay
<1> QED
  BY <1>10, <1>11, <1>12, <1>13, <1>14, <1>15, <1>16, <1>17, <1>18, <1>19, <1>20, <1>21, <1>22, <1>23,
     <1>24, <1>25, <1>26, <1>27

(* A thread takes the completion of a disconnect. *)
LEMMA DispatchDiscKeeps ==
    ASSUME IInv, NEW t \in Threads, NEW s \in Sessions, DispatchDisc(t, s)
    PROVE  IInv'
<1> USE DEF IInv
<1>1. pc[t] = "idle" /\ Session(t) = NoSession /\ job[t].accept = "none"
  BY Working DEF DispatchDisc, Dispatched, AcceptHeld
<1>2. /\ OpsOnce' /\ port' \in Seq(Operations \X {0, 1}) /\ Disc(s) \in Flight
      /\ \A x : x \in Flight' <=> x \in Flight /\ x # Disc(s)
  BY PortTail DEF DispatchDisc, Dispatched
<1>3. s \in used /\ s # NoSession /\ called[s] # <<>>
  BY <1>2, NoSessionAssumption DEF NewSessions, New, Untouched, Announced
<1>4. /\ \A e \in AcceptEvents : Accept(e) \in Flight => accepting[e] # s
      /\ \A u \in Threads : pc[u] \in Entering => Session(u) # s
  BY <1>2 DEF NewSessions, New, Untouched, EnteredAlone
<1>5. /\ ~connected[s] /\ s \in sessions /\ called[s] = <<"connected">>
      /\ \A u \in Threads : AtDisc(u) => Session(u) # s
  BY <1>2 DEF DisconnectOnce, DisconnectCalled
<1>6. /\ pc' \in [Threads -> Labels] /\ job' \in [Threads -> JobType']
      /\ ret' \in [Threads -> {"idle", "registerRecv", "recvFailed"}]
      /\ \A u \in Threads : pc'[u] = "idle" <=> job'[u].session = NoSession
  <2>1. /\ job \in [Threads -> JobType] /\ JobType' = JobType /\ job[t] \in JobType
        /\ pc \in [Threads -> Labels] /\ \A u \in Threads : pc[u] = "idle" <=> job[u].session = NoSession
    BY DEF TypeOK, JobType, Session, DispatchDisc, Dispatched
  <2>2. /\ [job[t] EXCEPT !.session = s] \in JobType
        /\ [job[t] EXCEPT !.session = s].session = s
    BY <1>3, <2>1 DEF JobType
  <2>3. job' = [job EXCEPT ![t] = [job[t] EXCEPT !.session = s]]
    BY DEF DispatchDisc
  <2>4. pc' = [pc EXCEPT ![t] = "onDisconnected"]
    BY DEF DispatchDisc, Goto
  <2>5. ret' \in [Threads -> {"idle", "registerRecv", "recvFailed"}]
    BY DEF DispatchDisc, TypeOK
  <2> HIDE DEF JobType
  <2> QED
    BY <1>3, <2>1, <2>2, <2>3, <2>4, <2>5 DEF Labels
<1>7. /\ job'[t].session = s /\ job'[t].accept = "none" /\ OthersStay(t)
      /\ owner'[s] = owner[s] \ {"disc"} /\ OthersKeep(owner, owner', s)
      /\ owner' \in [Sessions -> SUBSET {"recv", "disc"}]
      /\ pc'[t] = "onDisconnected" /\ ret' = ret
  BY <1>1 DEF DispatchDisc, OthersStay, OthersKeep, TypeOK, Goto
<1>8. UNCHANGED <<accepting, used, sessions, count, connected, called, logged, crash>>
  BY DEF DispatchDisc, Dispatched, listener, service
<1>9. /\ \A r : Recv(r) \in Flight' <=> Recv(r) \in Flight
      /\ \A r : Disc(r) \in Flight' <=> r # s /\ Disc(r) \in Flight
      /\ \A e2 : Accept(e2) \in Flight' <=> Accept(e2) \in Flight
  BY <1>2 DEF Accept, Recv, Disc
<1>10. TypeOK'
  BY <1>6, <1>8 DEF DispatchDisc, Dispatched, TypeOK, JobType, Session
<1>11. CallbacksInOrder'
  BY <1>8 DEF CallbacksInOrder
<1>12. Counted'
  BY <1>8 DEF Counted
<1>13. OpsOnce'
  BY <1>2
<1>14. AcceptsApart'
  BY <1>7, <1>8, <1>9 DEF AcceptsApart, Session, OthersStay, OthersKeep
<1>15. NewSessions'
  BY <1>3, <1>7, <1>8, <1>9, Working DEF NewSessions, New, Untouched, Session, OthersStay, OthersKeep
<1>16. EnteredAlone'
  BY <1>5, <1>7, <1>8, <1>9, Working DEF EnteredAlone, Entering, Untouched, Session, OthersStay, OthersKeep
<1>17. AcceptHeld'
  BY <1>7 DEF AcceptHeld, Entering, OthersStay
<1>18. Announced'
  BY <1>5, <1>7, <1>8, <1>9 DEF Announced, Session, OthersStay
<1>19. ReceiveOnce'
  BY <1>7, <1>9 DEF ReceiveOnce, AtPost, AtReceive, Session, OthersStay, OthersKeep
<1>20. ReceiveOwned'
  BY <1>1, <1>7, <1>9, Working DEF ReceiveOwned, AtPost, AtReceive, Session, OthersStay, OthersKeep
<1>21. DisconnectOnce'
  BY <1>5, <1>7, <1>8, <1>9 DEF DisconnectOnce, AtDisc, Session, OthersStay
<1>22. DisconnectOwned'
  BY <1>7, <1>9 DEF DisconnectOwned, OthersKeep
<1>23. DisconnectCalled'
  BY <1>5, <1>7, <1>8, <1>9, Working DEF DisconnectCalled, DisconnectOnce, AtDisc, Session, OthersStay,
     OthersKeep
<1>24. KnownWhileConnected'
  BY <1>8 DEF KnownWhileConnected
<1>25. AcceptsKept'
  BY <1>1, <1>7, <1>8, <1>9, Working DEF AcceptsKept, AcceptHeld, OthersStay, OthersKeep
<1>26. HeardOf'
  BY <1>1, <1>7, <1>8, <1>9, Working DEF HeardOf, Hears, FailedGone, Session, OthersStay, OthersKeep
<1>27. FailedGone'
  BY <1>7, <1>8 DEF FailedGone, Session, OthersStay
<1> QED
  BY <1>10, <1>11, <1>12, <1>13, <1>14, <1>15, <1>16, <1>17, <1>18, <1>19, <1>20, <1>21, <1>22, <1>23,
     <1>24, <1>25, <1>26, <1>27

(* A thread's own Send finds the connection lost. *)
LEMMA SendFailsKeeps ==
    ASSUME IInv, NEW t \in Threads, NEW s \in Sessions, SendFails(t, s)
    PROVE  IInv'
<1> USE DEF IInv
<1>1. pc[t] = "idle" /\ Session(t) = NoSession /\ job[t].accept = "none"
  BY Working DEF SendFails, AcceptHeld
<1>2. /\ s \in used /\ s # NoSession /\ connected[s] /\ s \in sessions /\ called[s] = <<"connected">>
      /\ \A u \in Threads : AtDisc(u) => Session(u) # s
  BY Working DEF SendFails, KnownWhileConnected, DisconnectOnce
<1>3. /\ \A e \in AcceptEvents : Accept(e) \in Flight => accepting[e] # s
      /\ \A u \in Threads : pc[u] \in Entering => Session(u) # s
  BY <1>2 DEF NewSessions, New, Untouched, EnteredAlone
<1>4. /\ pc' \in [Threads -> Labels] /\ job' \in [Threads -> JobType']
      /\ ret' \in [Threads -> {"idle", "registerRecv", "recvFailed"}]
      /\ \A u \in Threads : pc'[u] = "idle" <=> job'[u].session = NoSession
  <2>1. /\ job \in [Threads -> JobType] /\ JobType' = JobType /\ job[t] \in JobType
        /\ pc \in [Threads -> Labels] /\ \A u \in Threads : pc[u] = "idle" <=> job[u].session = NoSession
    BY DEF TypeOK, JobType, Session, SendFails
  <2>2. /\ [job[t] EXCEPT !.session = s] \in JobType
        /\ [job[t] EXCEPT !.session = s].session = s
    BY <1>2, <2>1 DEF JobType
  <2>3. job' = [job EXCEPT ![t] = [job[t] EXCEPT !.session = s]]
    BY DEF SendFails
  <2>4. pc' = [pc EXCEPT ![t] = "disconnect"]
    BY DEF SendFails, Goto, Disconnecting
  <2>5. ret' \in [Threads -> {"idle", "registerRecv", "recvFailed"}]
    BY DEF SendFails, TypeOK, Disconnecting
  <2> HIDE DEF JobType
  <2> QED
    BY <1>2, <2>1, <2>2, <2>3, <2>4, <2>5 DEF Labels
<1>5. /\ job'[t].session = s /\ job'[t].accept = "none" /\ OthersStay(t)
      /\ pc'[t] = "disconnect" /\ ret'[t] = "idle"
  BY <1>1 DEF SendFails, OthersStay, TypeOK, Goto, Disconnecting
<1>6. UNCHANGED <<accepting, used, sessions, count, connected, owner, called, kernel, port, logged, crash>>
  BY DEF SendFails, listener, service, system
<1>7. Flight' = Flight
  BY <1>6 DEF Flight
<1>8. TypeOK'
  BY <1>4, <1>6 DEF SendFails, TypeOK, JobType, Session, system
<1>9. CallbacksInOrder'
  BY <1>6 DEF CallbacksInOrder
<1>10. Counted'
  BY <1>6 DEF Counted
<1>11. OpsOnce'
  BY <1>6 DEF OpsOnce
<1>12. AcceptsApart'
  BY <1>5, <1>6, <1>7 DEF AcceptsApart, AcceptHeld, Entering, Session, OthersStay, OthersKeep
<1>13. NewSessions'
  BY <1>2, <1>5, <1>6, <1>7 DEF NewSessions, New, Untouched, Session, OthersStay, OthersKeep
<1>14. EnteredAlone'
  BY <1>3, <1>5, <1>6, <1>7 DEF EnteredAlone, Entering, Untouched, Session, OthersStay, OthersKeep
<1>15. AcceptHeld'
  BY <1>5 DEF AcceptHeld, Entering, OthersStay
<1>16. Announced'
  BY <1>2, <1>5, <1>6, <1>7, Working DEF Announced, Session, OthersStay
<1>17. ReceiveOnce'
  BY <1>5, <1>7 DEF ReceiveOnce, AtPost, AtReceive, Session, OthersStay, OthersKeep
<1>18. ReceiveOwned'
  BY <1>1, <1>5, <1>6, <1>7 DEF ReceiveOwned, AtPost, Session, OthersStay
<1>19. DisconnectOnce'
  BY <1>5, <1>6, <1>7 DEF DisconnectOnce, AtDisc, Session, OthersStay
<1>20. DisconnectOwned'
  BY <1>6, <1>7 DEF DisconnectOwned
<1>21. DisconnectCalled'
  BY <1>5, <1>6, <1>7 DEF DisconnectCalled, DisconnectOnce, AtDisc, Session, OthersStay, OthersKeep
<1>22. KnownWhileConnected'
  BY <1>6 DEF KnownWhileConnected
<1>23. AcceptsKept'
  BY <1>1, <1>5, <1>6, <1>7 DEF AcceptsKept, AcceptHeld, OthersStay, OthersKeep
<1>24. HeardOf'
  BY <1>1, <1>5, <1>6, <1>7 DEF HeardOf, Hears, FailedGone, Session, OthersStay, OthersKeep
<1>25. FailedGone'
  BY <1>5, <1>6 DEF FailedGone, Session, OthersStay
<1> QED
  BY <1>8, <1>9, <1>10, <1>11, <1>12, <1>13, <1>14, <1>15, <1>16, <1>17, <1>18, <1>19, <1>20, <1>21, <1>22,
     <1>23, <1>24, <1>25

(* A new session waits for a peer. *)
LEMMA RegisterAcceptPostsKeeps ==
    ASSUME IInv, NEW t \in Threads, NEW s, RegisterAcceptPosts(t, s)
    PROVE  IInv'
<1> USE DEF IInv
<1>1. /\ s \in Sessions /\ s # NoSession /\ New(s)
      /\ \A e2 \in AcceptEvents : accepting[e2] # s
  BY NoSessionAssumption DEF RegisterAcceptPosts, NewSessions, AcceptsApart
<1>2. /\ pc[t] = "accept" /\ job[t].accept \in AcceptEvents /\ Accept(job[t].accept) \notin Flight
      /\ accepting' \in [AcceptEvents -> Sessions \cup {NoSession}]
      /\ \A e2 \in AcceptEvents : accepting'[e2] \in used' \cup {NoSession}
      /\ \A e2 \in AcceptEvents \ {job[t].accept} : accepting'[e2] = accepting[e2]
  BY DEF RegisterAcceptPosts, AcceptHeld, AcceptsApart, TypeOK
<1>3. accepting'[job[t].accept] = s /\ used' = used \cup {s}
  BY <1>2 DEF RegisterAcceptPosts
<1>4. /\ pc' \in [Threads -> Labels] /\ job' \in [Threads -> JobType']
      /\ ret' \in [Threads -> {"idle", "registerRecv", "recvFailed"}]
      /\ \A u \in Threads : pc'[u] = "idle" <=> job'[u].session = NoSession
      /\ OthersStay(t) /\ GoesOn(t, "idle")
  <2>1. GoOn(t, "idle") /\ ret' = ret
    BY DEF RegisterAcceptPosts
  <2>2. "idle" \in Labels
    BY DEF Labels
  <2> QED
    BY <2>2, GoOnKeeps DEF RegisterAcceptPosts, OthersStay, TypeOK
<1>5. /\ OthersStay(t) /\ pc'[t] = "idle" /\ job'[t].session = NoSession /\ job'[t].accept = "none"
  BY <1>4 DEF GoesOn
<1>6. UNCHANGED <<sessions, count, connected, owner, called, port, logged, crash>>
  BY DEF RegisterAcceptPosts, service
<1>7. /\ \A r : Recv(r) \in Flight' <=> Recv(r) \in Flight
      /\ \A r : Disc(r) \in Flight' <=> Disc(r) \in Flight
      /\ \A e2 : Accept(e2) \in Flight' <=> e2 = job[t].accept \/ Accept(e2) \in Flight
  BY DEF RegisterAcceptPosts, Flight, Accept, Recv, Disc
<1>8. TypeOK'
  <2>1. used' \subseteq Sessions /\ sessions' \subseteq used'
    BY Working DEF RegisterAcceptPosts, service
  <2>2. kernel' \subseteq Operations /\ port' = port /\ link' = link
    <3>1. Accept(job[t].accept) \in Operations
      BY <1>2 DEF Operations
    <3> QED
      BY <3>1 DEF RegisterAcceptPosts, TypeOK
  <2> QED
    BY <1>2, <1>4, <1>6, <2>1, <2>2 DEF TypeOK, JobType, Session
<1>9. CallbacksInOrder'
  BY <1>6 DEF CallbacksInOrder
<1>10. Counted'
  BY <1>6 DEF Counted
<1>11. OpsOnce'
  BY <1>2 DEF OpsOnce, RegisterAcceptPosts, Flight
<1>12. AcceptsApart'
  <2>1. \A e2, f \in AcceptEvents :
           accepting'[e2] = accepting'[f] /\ accepting'[e2] # NoSession => e2 = f
    BY <1>1, <1>2, <1>3 DEF AcceptsApart
  <2>2. \A u, v \in Threads : job'[u].accept = job'[v].accept /\ job'[u].accept # "none" => u = v
    BY <1>5 DEF AcceptsApart, OthersStay
  <2>3. ASSUME NEW u \in Threads, job'[u].accept # "none"
        PROVE  /\ Accept(job'[u].accept) \notin Flight'
               /\ pc'[u] # "accept" => accepting'[job'[u].accept] = job'[u].session
    <3>1. CASE u = t
      BY <1>5, <2>3, <3>1
    <3>2. CASE u # t
      <4>1. /\ job'[u] = job[u] /\ pc'[u] = pc[u] /\ job[u].accept # job[t].accept
            /\ job[u].accept \in AcceptEvents
        BY <1>5, <2>3 DEF AcceptsApart, OthersStay, TypeOK
      <4> QED
        BY <1>2, <1>7, <2>3, <4>1 DEF AcceptsApart, Session
    <3> QED
      BY <3>1, <3>2
  <2> QED
    BY <1>2, <2>1, <2>2, <2>3 DEF AcceptsApart, Session
<1>13. NewSessions'
  BY <1>1, <1>2, <1>3, <1>5, <1>6, <1>7, Working DEF NewSessions, New, Untouched, OthersStay, Session
<1>14. EnteredAlone'
  BY <1>5, <1>6, <1>7, Working DEF EnteredAlone, Entering, Untouched, Session, OthersStay
<1>15. AcceptHeld'
  BY <1>5 DEF AcceptHeld, Entering, OthersStay
<1>16. Announced'
  BY <1>5, <1>6, <1>7 DEF Announced, Session, OthersStay
<1>17. ReceiveOnce'
  BY <1>5, <1>7 DEF ReceiveOnce, AtPost, AtReceive, Session, OthersStay
<1>18. ReceiveOwned'
  BY <1>2, <1>5, <1>6, <1>7 DEF ReceiveOwned, AtPost, Session, OthersStay
<1>19. DisconnectOnce'
  BY <1>5, <1>6, <1>7 DEF DisconnectOnce, AtDisc, Session, OthersStay
<1>20. DisconnectOwned'
  BY <1>6, <1>7 DEF DisconnectOwned
<1>21. DisconnectCalled'
  BY <1>5, <1>6, <1>7 DEF DisconnectCalled, AtDisc, Session, OthersStay
<1>22. KnownWhileConnected'
  BY <1>6 DEF KnownWhileConnected
<1>23. AcceptsKept'
  BY <1>2, <1>3, <1>5, <1>7 DEF AcceptsKept, OthersStay
<1>24. HeardOf'
  BY <1>2, <1>5, <1>6, <1>7 DEF HeardOf, Hears, Session, OthersStay
<1>25. FailedGone'
  BY <1>5, <1>6 DEF FailedGone, Session, OthersStay
<1> QED
  BY <1>8, <1>9, <1>10, <1>11, <1>12, <1>13, <1>14, <1>15, <1>16, <1>17, <1>18, <1>19, <1>20, <1>21, <1>22,
     <1>23, <1>24, <1>25

(* A new session is dropped and the next one tried. *)
LEMMA RegisterAcceptFailsKeeps ==
    ASSUME IInv, NEW t \in Threads, NEW s, RegisterAcceptFails(t, s)
    PROVE  IInv'
<1> USE DEF IInv
<1>1. /\ s \in Sessions /\ s # NoSession /\ New(s)
      /\ \A e2 \in AcceptEvents : accepting[e2] # s
  BY NoSessionAssumption DEF RegisterAcceptFails, NewSessions, AcceptsApart
<1>2. /\ pc[t] = "accept" /\ job[t].accept \in AcceptEvents /\ Accept(job[t].accept) \notin Flight
      /\ accepting' \in [AcceptEvents -> Sessions \cup {NoSession}]
      /\ \A e2 \in AcceptEvents : accepting'[e2] \in used' \cup {NoSession}
      /\ \A e2 \in AcceptEvents \ {job[t].accept} : accepting'[e2] = accepting[e2]
  BY DEF RegisterAcceptFails, AcceptHeld, AcceptsApart, TypeOK
<1>3. accepting'[job[t].accept] = s /\ used' = used \cup {s}
  BY <1>2 DEF RegisterAcceptFails
<1>4. /\ pc' \in [Threads -> Labels] /\ job' \in [Threads -> JobType']
      /\ ret' \in [Threads -> {"idle", "registerRecv", "recvFailed"}]
      /\ \A u \in Threads : pc'[u] = "idle" <=> job'[u].session = NoSession
  BY DEF RegisterAcceptFails, thread, TypeOK, JobType, Session
<1>5. UNCHANGED <<pc, job, ret>>
  BY DEF RegisterAcceptFails, thread
<1>6. UNCHANGED <<sessions, count, connected, owner, called, kernel, port, logged, crash>>
  BY DEF RegisterAcceptFails, service, system
<1>7. Flight' = Flight
  BY <1>6 DEF Flight
<1>8. TypeOK'
  <2>1. used' \subseteq Sessions /\ sessions' \subseteq used'
    BY Working DEF RegisterAcceptFails, service
  <2>2. kernel' \subseteq Operations /\ port' = port /\ link' = link
    <3>1. Accept(job[t].accept) \in Operations
      BY <1>2 DEF Operations
    <3> QED
      BY DEF RegisterAcceptFails, TypeOK, system
  <2> QED
    BY <1>2, <1>4, <1>6, <2>1, <2>2 DEF TypeOK, JobType, Session
<1>9. CallbacksInOrder'
  BY <1>6 DEF CallbacksInOrder
<1>10. Counted'
  BY <1>6 DEF Counted
<1>11. OpsOnce'
  BY <1>6 DEF OpsOnce
<1>12. AcceptsApart'
  <2>1. \A e2, f \in AcceptEvents :
           accepting'[e2] = accepting'[f] /\ accepting'[e2] # NoSession => e2 = f
    BY <1>1, <1>2, <1>3 DEF AcceptsApart
  <2>2. \A u, v \in Threads : job'[u].accept = job'[v].accept /\ job'[u].accept # "none" => u = v
    BY <1>5 DEF AcceptsApart
  <2>3. ASSUME NEW u \in Threads, job'[u].accept # "none"
        PROVE  /\ Accept(job'[u].accept) \notin Flight'
               /\ pc'[u] # "accept" => accepting'[job'[u].accept] = job'[u].session
    <3>1. CASE u = t
      BY <1>2, <1>5, <1>7, <3>1
    <3>2. CASE u # t
      <4>1. /\ job'[u] = job[u] /\ pc'[u] = pc[u] /\ job[u].accept # job[t].accept
            /\ job[u].accept \in AcceptEvents
        BY <1>5, <2>3, <3>2 DEF AcceptsApart, TypeOK
      <4> QED
        BY <1>2, <1>7, <2>3, <4>1 DEF AcceptsApart, Session
    <3> QED
      BY <3>1, <3>2
  <2> QED
    BY <1>2, <2>1, <2>2, <2>3 DEF AcceptsApart, Session
<1>13. NewSessions'
  BY <1>2, <1>3, <1>5, <1>6, <1>7 DEF NewSessions, New, Untouched, Session
<1>14. EnteredAlone'
  BY <1>5, <1>6, <1>7 DEF EnteredAlone, Untouched, Session
<1>15. AcceptHeld'
  BY <1>5 DEF AcceptHeld
<1>16. Announced'
  BY <1>5, <1>6, <1>7 DEF Announced, Session
<1>17. ReceiveOnce'
  BY <1>5, <1>7 DEF ReceiveOnce, AtPost, AtReceive, Session
<1>18. ReceiveOwned'
  BY <1>5, <1>6, <1>7 DEF ReceiveOwned, AtPost, Session
<1>19. DisconnectOnce'
  BY <1>5, <1>6, <1>7 DEF DisconnectOnce, AtDisc, Session
<1>20. DisconnectOwned'
  BY <1>6, <1>7 DEF DisconnectOwned
<1>21. DisconnectCalled'
  BY <1>5, <1>6, <1>7 DEF DisconnectCalled, AtDisc, Session
<1>22. KnownWhileConnected'
  BY <1>6 DEF KnownWhileConnected
<1>23. AcceptsKept'
  BY <1>2, <1>3, <1>5, <1>7 DEF AcceptsKept
<1>24. HeardOf'
  BY <1>5, <1>6, <1>7 DEF HeardOf, Hears, Session
<1>25. FailedGone'
  BY <1>5, <1>6 DEF FailedGone, Session
<1> QED
  BY <1>8, <1>9, <1>10, <1>11, <1>12, <1>13, <1>14, <1>15, <1>16, <1>17, <1>18, <1>19, <1>20, <1>21, <1>22,
     <1>23, <1>24, <1>25

(* No session is left to make. *)
LEMMA RegisterAcceptEndsKeeps ==
    ASSUME IInv, NEW t \in Threads, RegisterAcceptEnds(t)
    PROVE  IInv'
<1> USE DEF IInv
<1>1. /\ pc[t] = "accept" /\ job[t].accept \in AcceptEvents /\ Accept(job[t].accept) \notin Flight
      /\ accepting' \in [AcceptEvents -> Sessions \cup {NoSession}]
      /\ \A e2 \in AcceptEvents : accepting'[e2] \in used' \cup {NoSession}
      /\ \A e2 \in AcceptEvents \ {job[t].accept} : accepting'[e2] = accepting[e2]
  BY DEF RegisterAcceptEnds, AcceptHeld, AcceptsApart, TypeOK
<1>2. accepting'[job[t].accept] = NoSession /\ used' = used /\ Sessions \subseteq used
  BY <1>1 DEF RegisterAcceptEnds
<1>3. /\ pc' \in [Threads -> Labels] /\ job' \in [Threads -> JobType']
      /\ ret' \in [Threads -> {"idle", "registerRecv", "recvFailed"}]
      /\ \A u \in Threads : pc'[u] = "idle" <=> job'[u].session = NoSession
      /\ OthersStay(t) /\ GoesOn(t, "idle")
  <2>1. GoOn(t, "idle") /\ ret' = ret
    BY DEF RegisterAcceptEnds
  <2>2. "idle" \in Labels
    BY DEF Labels
  <2> QED
    BY <2>2, GoOnKeeps DEF RegisterAcceptEnds, OthersStay, TypeOK
<1>4. /\ OthersStay(t) /\ pc'[t] = "idle" /\ job'[t].session = NoSession /\ job'[t].accept = "none"
  BY <1>3 DEF GoesOn
<1>5. UNCHANGED <<sessions, count, connected, owner, called, kernel, port, logged, crash>>
  BY DEF RegisterAcceptEnds, service, system
<1>6. Flight' = Flight
  BY <1>5 DEF Flight
<1>7. TypeOK'
  BY <1>1, <1>3, <1>5 DEF RegisterAcceptEnds, TypeOK, JobType, Session, system
<1>8. CallbacksInOrder'
  BY <1>5 DEF CallbacksInOrder
<1>9. Counted'
  BY <1>5 DEF Counted
<1>10. OpsOnce'
  BY <1>5 DEF OpsOnce
<1>11. AcceptsApart'
  <2>1. \A e2, f \in AcceptEvents :
           accepting'[e2] = accepting'[f] /\ accepting'[e2] # NoSession => e2 = f
    BY <1>1, <1>2 DEF AcceptsApart
  <2>2. \A u, v \in Threads : job'[u].accept = job'[v].accept /\ job'[u].accept # "none" => u = v
    BY <1>4 DEF AcceptsApart, OthersStay
  <2>3. ASSUME NEW u \in Threads, job'[u].accept # "none"
        PROVE  /\ Accept(job'[u].accept) \notin Flight'
               /\ pc'[u] # "accept" => accepting'[job'[u].accept] = job'[u].session
    <3>1. CASE u = t
      BY <1>4, <2>3, <3>1
    <3>2. CASE u # t
      <4>1. /\ job'[u] = job[u] /\ pc'[u] = pc[u] /\ job[u].accept # job[t].accept
            /\ job[u].accept \in AcceptEvents
        BY <1>4, <2>3 DEF AcceptsApart, OthersStay, TypeOK
      <4> QED
        BY <1>1, <1>6, <2>3, <4>1 DEF AcceptsApart, Session
    <3> QED
      BY <3>1, <3>2
  <2> QED
    BY <1>1, <2>1, <2>2, <2>3 DEF AcceptsApart, Session
<1>12. NewSessions'
  BY <1>1, <1>2, <1>4, <1>5, <1>6, Working DEF NewSessions, New, Untouched, OthersStay, Session
<1>13. EnteredAlone'
  BY <1>4, <1>5, <1>6, Working DEF EnteredAlone, Entering, Untouched, Session, OthersStay
<1>14. AcceptHeld'
  BY <1>4 DEF AcceptHeld, Entering, OthersStay
<1>15. Announced'
  BY <1>4, <1>5, <1>6 DEF Announced, Session, OthersStay
<1>16. ReceiveOnce'
  BY <1>4, <1>6 DEF ReceiveOnce, AtPost, AtReceive, Session, OthersStay
<1>17. ReceiveOwned'
  BY <1>1, <1>4, <1>5, <1>6 DEF ReceiveOwned, AtPost, Session, OthersStay
<1>18. DisconnectOnce'
  BY <1>4, <1>5, <1>6 DEF DisconnectOnce, AtDisc, Session, OthersStay
<1>19. DisconnectOwned'
  BY <1>5, <1>6 DEF DisconnectOwned
<1>20. DisconnectCalled'
  BY <1>4, <1>5, <1>6 DEF DisconnectCalled, AtDisc, Session, OthersStay
<1>21. KnownWhileConnected'
  BY <1>5 DEF KnownWhileConnected
<1>22. AcceptsKept'
  BY <1>1, <1>2, <1>4, <1>6 DEF AcceptsKept, OthersStay
<1>23. HeardOf'
  BY <1>1, <1>4, <1>5, <1>6 DEF HeardOf, Hears, Session, OthersStay
<1>24. FailedGone'
  BY <1>4, <1>5 DEF FailedGone, Session, OthersStay
<1> QED
  BY <1>7, <1>8, <1>9, <1>10, <1>11, <1>12, <1>13, <1>14, <1>15, <1>16, <1>17, <1>18, <1>19, <1>20, <1>21,
     <1>22, <1>23, <1>24

(* What the system does changes no more than where an operation is. *)
LEMMA SystemKeeps ==
    ASSUME IInv, TypeOK', OpsOnce', Flight' = Flight,
           UNCHANGED <<accepting, used, sessions, count, connected, owner, called, logged, crash>>,
           UNCHANGED <<pc, job, ret>>
    PROVE  IInv'
<1> USE DEF IInv
<1>1. CallbacksInOrder' /\ Counted' /\ AcceptsApart' /\ AcceptHeld' /\ KnownWhileConnected'
  BY DEF CallbacksInOrder, Counted, AcceptsApart, AcceptHeld, KnownWhileConnected, Session
<1>2. NewSessions' /\ EnteredAlone' /\ Announced'
  BY DEF NewSessions, New, Untouched, EnteredAlone, Announced, Session
<1>3. ReceiveOnce' /\ ReceiveOwned'
  BY DEF ReceiveOnce, ReceiveOwned, AtReceive, AtPost, Session
<1>4. DisconnectOnce' /\ DisconnectOwned' /\ DisconnectCalled'
  BY DEF DisconnectOnce, DisconnectOwned, DisconnectCalled, AtDisc, Session
<1>5. AcceptsKept' /\ HeardOf' /\ FailedGone'
  BY DEF AcceptsKept, HeardOf, Hears, FailedGone, Session
<1> QED
  BY <1>1, <1>2, <1>3, <1>4, <1>5

(* Every step of the threads and of the system keeps the invariant. *)
LEMMA StepKeeps == ASSUME IInv, [Next]_vars PROVE IInv'
<1> USE DEF IInv
<1>1. ASSUME NEW op, NEW n \in {0, 1}, Complete(op, n),
             link' \in [Sessions -> {"none", "up", "down", "closed"}]
      PROVE  IInv'
  <2>1. /\ port' \in Seq(Operations \X {0, 1}) /\ kernel' \subseteq Operations
        /\ OpsOnce' /\ Flight' = Flight
    BY <1>1, PortAppend DEF Complete
  <2>2. /\ UNCHANGED <<accepting, used, sessions, count, connected, owner, called, logged, crash>>
        /\ UNCHANGED <<pc, job, ret>>
    BY <1>1 DEF Complete, listener, service, thread
  <2>3. TypeOK'
    BY <1>1, <2>1, <2>2 DEF TypeOK, Session
  <2> QED
    BY <2>1, <2>2, <2>3, SystemKeeps
<1>2. ASSUME NEW e \in AcceptEvents, PeerConnects(e) PROVE IInv'
  <2>1. Complete(Accept(e), 0)
    BY <1>2 DEF PeerConnects
  <2>2. link' \in [Sessions -> {"none", "up", "down", "closed"}]
    BY <1>2 DEF PeerConnects, TypeOK
  <2> QED
    BY <1>1, <2>1, <2>2
<1>3. ASSUME NEW s \in Sessions, System(s) PROVE IInv'
  <2>1. CASE PeerCloses(s)
    <3>1. /\ UNCHANGED <<accepting, used, sessions, count, connected, owner, called, logged, crash>>
          /\ UNCHANGED <<pc, job, ret>> /\ UNCHANGED <<kernel, port>>
      BY <2>1 DEF PeerCloses, listener, service, thread
    <3>2. Flight' = Flight /\ OpsOnce'
      BY <3>1 DEF Flight, OpsOnce
    <3>3. TypeOK'
      BY <2>1, <3>1 DEF PeerCloses, TypeOK, Session
    <3> QED
      BY <3>1, <3>2, <3>3, SystemKeeps
  <2>2. CASE PeerSends(s)
    BY <1>1, <2>2 DEF PeerSends, TypeOK
  <2>3. CASE RecvEnds(s)
    BY <1>1, <2>3 DEF RecvEnds, TypeOK
  <2>4. CASE DisconnectCompletes(s)
    BY <1>1, <2>4 DEF DisconnectCompletes, TypeOK
  <2> QED
    BY <1>3, <2>1, <2>2, <2>3, <2>4 DEF System
<1>4. ASSUME NEW t \in Threads, Dispatch(t) PROVE IInv'
  BY <1>4, DispatchOutcomes, DispatchAcceptKeeps, DispatchRecvKeeps, DispatchDiscKeeps
<1>5. ASSUME NEW t \in Threads, RegisterAccept(t) PROVE IInv'
  BY <1>5, AcceptOutcomes, RegisterAcceptPostsKeeps, RegisterAcceptFailsKeeps, RegisterAcceptEndsKeeps
<1>6. ASSUME NEW t \in Threads, RegisterRecv(t) \/ PostRecv(t) \/ RegisterDisconnect(t) PROVE IInv'
  BY <1>6, Outcomes, RegisterRecvStopsKeeps, RegisterRecvGoesKeeps, PostRecvGoesKeeps, PostRecvResetKeeps,
     PostRecvLoggedKeeps, RegisterDisconnectGoesKeeps, RegisterDisconnectFailsKeeps
<1>7. ASSUME NEW t \in Threads, Proceed(t) PROVE IInv'
  BY <1>5, <1>6, <1>7, ProcessAcceptKeeps, ProcessConnectKeeps, AddSessionKeeps, OnConnectedKeeps,
     RecvFailedKeeps, OnRecvKeeps, DisconnectKeeps, OnDisconnectedKeeps, ReleaseSessionKeeps DEF Proceed
<1>8. ASSUME NEW t \in Threads, NEW s \in Sessions, SendFails(t, s) PROVE IInv'
  BY <1>8, SendFailsKeeps
<1>9. CASE UNCHANGED vars
  <2>1. /\ UNCHANGED <<accepting, used, sessions, count, connected, owner, called, logged, crash>>
        /\ UNCHANGED <<pc, job, ret>> /\ UNCHANGED <<kernel, port, link>>
    BY <1>9 DEF vars, listener, service, system, thread
  <2>2. Flight' = Flight /\ OpsOnce'
    BY <2>1 DEF Flight, OpsOnce
  <2>3. TypeOK'
    BY <2>1 DEF TypeOK, Session
  <2> QED
    BY <2>1, <2>2, <2>3, SystemKeeps
<1> QED
  BY <1>2, <1>3, <1>4, <1>7, <1>8, <1>9 DEF Next, Running, Quiet

(* It holds when StartAccept has posted the accepts. *)
LEMMA InitIInv == Init => IInv
<1> SUFFICES ASSUME Init PROVE IInv
  OBVIOUS
<1> USE DEF Init
<1>1. TypeOK
  BY NoSessionAssumption, EmptySeq DEF TypeOK, Session, NoJob, Labels, Operations
<1>2. Flight = {Accept(e) : e \in AcceptEvents}
  BY DEF Flight
<1>3. \A s : Recv(s) \notin Flight /\ Disc(s) \notin Flight
  BY <1>2 DEF Accept, Recv, Disc
<1>4. CallbacksInOrder /\ KnownWhileConnected /\ HeardOf /\ FailedGone
  BY DEF CallbacksInOrder, KnownWhileConnected, HeardOf, FailedGone
<1>5. Counted
  BY FS_EmptySet DEF Counted
<1>6. OpsOnce
  BY DEF OpsOnce
<1>7. AcceptsApart /\ AcceptHeld
  BY DEF AcceptsApart, AcceptHeld, NoJob, Entering
<1>8. NewSessions
  BY <1>3, NoSessionAssumption DEF NewSessions, New, Untouched, Session, NoJob
<1>9. EnteredAlone /\ Announced
  BY <1>3 DEF EnteredAlone, Announced, Entering
<1>10. ReceiveOnce /\ ReceiveOwned
  BY <1>3 DEF ReceiveOnce, ReceiveOwned, AtReceive, AtPost
<1>11. DisconnectOnce /\ DisconnectOwned /\ DisconnectCalled
  BY <1>3 DEF DisconnectOnce, DisconnectOwned, DisconnectCalled, AtDisc
<1>12. AcceptsKept
  BY <1>2 DEF AcceptsKept
<1> QED
  BY <1>1, <1>4, <1>5, <1>6, <1>7, <1>8, <1>9, <1>10, <1>11, <1>12 DEF IInv

-----------------------------------------------------------------------------
(* Every holder of a token is where it should be, whatever the threads and *)
(* the system do.                                                          *)
THEOREM Inductive == Spec => []IInv
<1>1. IInv /\ [Next]_vars => IInv'
  BY StepKeeps
<1> QED
  BY InitIInv, <1>1, PTL DEF Spec

(* The set of operations in flight is the predicate of the same meaning. *)
LEMMA FlightIs == \A op : InFlight(op) <=> op \in Flight
BY DEF InFlight, Flight

(* OnConnected and OnDisconnected come once each and in that order, the    *)
(* service knows and counts its sessions, and the assertion of             *)
(* ReleaseSession never fails, however many threads find a connection lost *)
(* and race to disconnect it.                                              *)
THEOREM AlwaysInService == Spec => []InService
<1>1. IInv => InService
  BY DEF IInv, InService, ServiceKnows, Counted, KnownWhileConnected
<1> QED
  BY Inductive, <1>1, PTL

(* One thread, or the system, is at work on a receive buffer at a time.    *)
THEOREM AlwaysOneReceive == Spec => []OneReceive
<1>1. IInv => OneReceive
  <2> SUFFICES ASSUME IInv, NEW s \in Sessions
               PROVE  Cardinality(Receiving(s)) + (IF InFlight(Recv(s)) THEN 1 ELSE 0) <= 1
    BY DEF OneReceive
  <2>1. \A t \in Receiving(s) : t \in Threads /\ AtReceive(t) /\ Session(t) = s
    BY DEF Receiving, AtReceive, AtPost
  <2>2. \A t, u \in Receiving(s) : t = u
    BY <2>1 DEF IInv, ReceiveOnce
  <2>3. CASE Receiving(s) = {}
    BY <2>3, FS_EmptySet
  <2>4. ASSUME NEW t \in Receiving(s)
        PROVE  Cardinality(Receiving(s)) + (IF InFlight(Recv(s)) THEN 1 ELSE 0) <= 1
    <3>1. Receiving(s) = {t}
      BY <2>2
    <3>2. ~InFlight(Recv(s))
      BY <2>1, FlightIs DEF IInv, ReceiveOnce
    <3>3. Cardinality(Receiving(s)) = 1
      BY <3>1, FS_Singleton
    <3> QED
      BY <3>2, <3>3
  <2> QED
    BY <2>3, <2>4
<1> QED
  BY Inductive, <1>1, PTL

(* The owner fields of a session's events are set just while an operation  *)
(* needs them: nothing in flight is without, and nothing refers for ever.  *)
THEOREM AlwaysOwned == Spec => []OwnedWhileInFlight
<1>1. IInv => OwnedWhileInFlight
  <2> SUFFICES ASSUME IInv, NEW s \in Sessions
               PROVE  /\ "recv" \in owner[s] <=> InFlight(Recv(s)) \/ Posting(s) # {}
                      /\ "disc" \in owner[s] <=> InFlight(Disc(s))
    BY DEF OwnedWhileInFlight
  <2>1. Posting(s) # {} <=> \E t \in Threads : AtPost(t) /\ Session(t) = s
    BY DEF Posting, AtPost
  <2> QED
    BY <2>1, FlightIs DEF IInv, ReceiveOwned, DisconnectOwned
<1> QED
  BY Inductive, <1>1, PTL

(* No failure of a connection costs an accept event, and a session that is *)
(* connected goes on receiving unless a failed receive of it was only      *)
(* logged.                                                                 *)
THEOREM AlwaysListens == Spec => []Listens
<1>1. IInv => KeepsAccepting
  BY FlightIs DEF IInv, AcceptsKept, KeepsAccepting
<1>2. IInv => NotDeaf
  BY FlightIs DEF IInv, HeardOf, NotDeaf
<1> QED
  BY Inductive, <1>1, <1>2, PTL DEF Listens
=============================================================================
