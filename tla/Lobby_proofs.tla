---------------------------- MODULE Lobby_proofs ----------------------------
(***************************************************************************)
(* Proofs about Lobby.  With one worker, for every set of sessions and     *)
(* player ids and every number of rooms: rooms, members, names and screens *)
(* agree.  With any number of workers: a room is not ended for want of     *)
(* players while it has one; a listed room has its host, while no two      *)
(* rooms have one id; and the first room's count is its players, until a   *)
(* second room is made.                                                    *)
(***************************************************************************)
EXTENDS Lobby, FiniteSetTheorems, TLAPS

USE DEF registry, player, client

(***************************************************************************)
(* The inductive invariant.                                                *)
(***************************************************************************)
Alone == \A g, h \in Handlers : Running(g) /\ Running(h) => g = h

Made == Cardinality(DOMAIN room)

Asked == {<<"none">>, <<"create">>, <<"exit">>} \cup ({"login"} \X Names) \cup ({"join"} \X Nat)

RecvSteps == {"idle", "login", "loginInsert", "create", "addRoom", "join", "add", "answer",
              "exit", "exitGet", "exited", "remove", "dismiss", "unlist"}
DiscSteps == {"idle", "disconnected", "discGet", "remove", "dismiss", "unlist", "clearRoom",
              "freeName", "sessionRemove", "done"}

(* What has a type of its own. *)
FieldsTyped ==
    /\ currentRoom \in [Sessions -> Nat \cup {NoRoom}]
    /\ playerName \in [Sessions -> Names \cup {NoName}]
    /\ online \subseteq Sessions
    /\ screen \in [Sessions -> {"login", "lobby", "room"}]
    /\ request \in [Sessions -> Asked]
    /\ pc \in [Handlers -> RecvSteps \cup DiscSteps]
    /\ \A s \in Sessions : pc[Recv(s)] \in RecvSteps /\ pc[Disc(s)] \in DiscSteps
    /\ local \in [Handlers -> [room : Nat \cup {NoRoom}, snapshot : SUBSET Sessions,
                               ret : {"done", "exited", "clearRoom"}]]
    /\ crash \in {"none", "ROOM_REQUEST"}

RoomData == [id : Nat, hostId : Names, sessions : SUBSET Sessions, playerCount : Nat]

(* The rooms are numbered as they are made, and listed under their ids:    *)
(* no other room is made between the two readings of roomIdCount.          *)
RoomsTyped ==
    /\ Made \in Nat /\ DOMAIN room = 1..Made
    /\ \A r \in DOMAIN room :
          /\ room[r] \in RoomData /\ room[r].id = r - 1
          /\ room[r].playerCount = Cardinality(room[r].sessions)
    /\ \A k \in DOMAIN rooms : k \in Nat /\ k + 1 \in DOMAIN room /\ rooms[k] = k + 1
    /\ roomIdCount = IF \E s \in Sessions : pc[Recv(s)] = "addRoom" THEN Made - 1 ELSE Made

(* A bound of the model. *)
Creating == {s \in Sessions : request[s] = <<"create">> /\ pc[Recv(s)] \in {"idle", "create"}}
Bounded == Made + Cardinality(Creating) <= MaxRooms

(* Rooms that are named have been made. *)
KnownRooms ==
    \A s \in Sessions :
       /\ request[s][1] = "join" => request[s][2] < Made
       /\ currentRoom[s] # NoRoom => currentRoom[s] < Made

(* What a client has asked for fits its screen, and its handler.           *)
Requests ==
    \A s \in Sessions :
       /\ pc[Recv(s)] # "idle" => pc[Disc(s)] = "idle"
       /\ screen[s] = "login" <=> playerName[s] = NoName
       /\ request[s][1] = "login" => screen[s] = "login"
       /\ request[s][1] \in {"create", "join"} => screen[s] = "lobby"
       /\ request[s][1] = "exit" => screen[s] # "login"
       /\ pc[Recv(s)] \in {"login", "loginInsert"} => request[s][1] = "login"
       /\ pc[Recv(s)] \in {"create", "addRoom"} => request[s][1] = "create"
       /\ pc[Recv(s)] = "join" => request[s][1] = "join"
       /\ pc[Recv(s)] \in {"add", "answer"} => request[s][1] \in {"create", "join"}
       /\ pc[Recv(s)] \in {"exit", "exitGet", "exited", "remove", "dismiss", "unlist"} =>
             request[s][1] = "exit"
       /\ pc[Recv(s)] = "loginInsert" => request[s][2] \notin playerIdList
       /\ pc[Recv(s)] \in {"remove", "dismiss", "unlist"} => local[Recv(s)].ret = "exited"
       /\ pc[Disc(s)] \in {"remove", "dismiss", "unlist"} => local[Disc(s)].ret = "clearRoom"

(* The client shows the room that the server has it in. *)
Shown ==
    \A s \in Sessions :
       /\ screen[s] # "room" /\ pc[Recv(s)] # "answer" => currentRoom[s] = NoRoom
       /\ screen[s] = "room" /\ pc[Disc(s)] \notin {"freeName", "sessionRemove", "done"} =>
             currentRoom[s] # NoRoom
       /\ pc[Disc(s)] \in {"freeName", "sessionRemove", "done"} => currentRoom[s] = NoRoom

(* Members point back, live, to a room that is listed. *)
Entered ==
    \A r \in DOMAIN room : \A s \in Sessions :
       s \in room[r].sessions =>
          /\ currentRoom[s] = r - 1 /\ r - 1 \in DOMAIN rooms
          /\ pc[Disc(s)] \in {"idle", "disconnected", "discGet", "remove"}
          /\ pc[Recv(s)] \notin {"dismiss", "unlist", "exited"}

(* The room a handler works on. *)
AtWork ==
    \A h \in Handlers :
       /\ pc[h] = "addRoom" => /\ Made # 0 /\ local[h].room = Made /\ room[Made].sessions = {}
                               /\ room[Made].hostId = playerName[Of(h)]
       /\ pc[h] = "add" => local[h].room \in Nat /\ local[h].room - 1 \in DOMAIN rooms
       /\ pc[h] = "answer" => currentRoom[Of(h)] # NoRoom
       /\ pc[h] = "exitGet" => local[h].room = currentRoom[Of(h)] /\ currentRoom[Of(h)] # NoRoom
       /\ pc[h] = "discGet" => currentRoom[Of(h)] # NoRoom
       /\ pc[h] \in {"remove", "dismiss", "unlist"} =>
             /\ currentRoom[Of(h)] \in DOMAIN rooms /\ local[h].room = currentRoom[Of(h)] + 1
       /\ pc[h] \in {"dismiss", "unlist"} => room[local[h].room].sessions = {}
       /\ pc[h] = "dismiss" => \A t \in local[h].snapshot :
                                   currentRoom[t] = currentRoom[Of(h)] /\ t # Of(h)

(* A session that has a room is in it, unless it is on its way out. *)
Leaving(s) == \/ pc[Recv(s)] \in {"dismiss", "unlist", "exited"}
              \/ pc[Disc(s)] \in {"dismiss", "unlist", "clearRoom"}
              \/ \E h \in Handlers : pc[h] = "dismiss" /\ s \in local[h].snapshot

Inside == \A s \in Sessions :
             currentRoom[s] # NoRoom =>
                 \/ Leaving(s)
                 \/ currentRoom[s] + 1 \in DOMAIN room /\ s \in room[currentRoom[s] + 1].sessions

(* Its host is a member of a listed room that is not about to close. *)
Hosted ==
    \A k \in DOMAIN rooms :
       \/ \E s \in room[k + 1].sessions : playerName[s] = room[k + 1].hostId
       \/ \E s \in Sessions : /\ pc[Recv(s)] = "add" /\ local[Recv(s)].room = k + 1
                              /\ playerName[s] = room[k + 1].hostId
       \/ \E h \in Handlers : pc[h] \in {"dismiss", "unlist"} /\ local[h].room = k + 1

(* The names in use are those of the sessions that have not given them up. *)
Holders == {s \in Sessions : pc[Disc(s)] \notin {"sessionRemove", "done"}}
Named ==
    /\ \A s, t \in Sessions : /\ s # t /\ ~Gone(s) /\ ~Gone(t)
                              /\ playerName[s] = playerName[t]
                              => playerName[s] = NoName
    /\ playerIdList = {playerName[s] : s \in Holders} \ {NoName}

IInv == /\ FieldsTyped /\ Alone /\ RoomsTyped /\ Bounded /\ KnownRooms /\ Requests
        /\ Shown /\ Entered /\ AtWork /\ Inside /\ Hosted /\ Named

-----------------------------------------------------------------------------
(***************************************************************************)
(* Handlers.                                                               *)
(***************************************************************************)
LEMMA Apart ==
    /\ \A s \in Sessions : /\ Recv(s) \in Handlers /\ Of(Recv(s)) = s
                           /\ Disc(s) \in Handlers /\ Of(Disc(s)) = s
    /\ \A s, t \in Sessions : /\ Recv(s) # Disc(t)
                              /\ Recv(s) = Recv(t) => s = t
                              /\ Disc(s) = Disc(t) => s = t
    /\ \A h \in Handlers : Of(h) \in Sessions /\ (h = Recv(Of(h)) \/ h = Disc(Of(h)))
  BY DEF Recv, Disc, Of, Handlers

(* A handler that runs is the only one. *)
LEMMA OthersRest ==
    ASSUME FieldsTyped, Alone, NEW h \in Handlers, pc[h] \notin {"idle", "done"}
    PROVE  \A g \in Handlers : g # h => pc[g] \in {"idle", "done"}
  BY DEF Alone, Running

(* A step from one point of a handler to another. *)
LEMMA Moves ==
    ASSUME FieldsTyped, Alone, NEW h \in Handlers, pc[h] \notin {"idle", "done"},
           NEW l \in RecvSteps \cup DiscSteps, Goto(h, l)
    PROVE  /\ pc' \in [Handlers -> RecvSteps \cup DiscSteps] /\ pc'[h] = l
           /\ \A g \in Handlers : g # h => pc'[g] = pc[g] /\ pc[g] \in {"idle", "done"}
           /\ Alone'
<1>1. \A g \in Handlers : g # h => pc[g] \in {"idle", "done"}
  BY OthersRest
<1>2. /\ pc' \in [Handlers -> RecvSteps \cup DiscSteps] /\ pc'[h] = l
      /\ \A g \in Handlers : g # h => pc'[g] = pc[g]
  BY DEF Goto, FieldsTyped
<1>3. Alone'
  BY <1>1, <1>2 DEF Alone, Running
<1> QED
  BY <1>1, <1>2, <1>3

(* With one worker a handler starts when none runs. *)
LEMMA FreeRest ==
    ASSUME Workers = 1, FreeWorker
    PROVE  \A h \in Handlers : pc[h] \in {"idle", "done"}
<1> DEFINE Busy == {h \in Handlers : Running(h)}
<1>1. IsFiniteSet(Handlers)
  <2>1. IsFiniteSet({"recv"})
    BY FS_Singleton
  <2>2. {"recv", "disc"} = {"recv"} \cup {"disc"}
    OBVIOUS
  <2>3. IsFiniteSet({"recv", "disc"})
    BY <2>1, <2>2, FS_AddElement
  <2> QED
    BY <2>3, SessionsAssumption, FS_Product DEF Handlers
<1>2. IsFiniteSet(Busy)
  BY <1>1, FS_Subset
<1>3. Cardinality(Busy) \in Nat
  BY <1>2, FS_CardinalityType
<1>4. Cardinality(Busy) < 1
  BY DEF FreeWorker
<1>5. Cardinality(Busy) = 0
  BY <1>3, <1>4
<1>6. Busy = {}
  BY <1>2, <1>5, FS_EmptySet
<1> QED
  BY <1>6 DEF Running

(* A handler that a worker starts is the only one that runs. *)
LEMMA Starts ==
    ASSUME FieldsTyped, Workers = 1, FreeWorker, NEW h \in Handlers, pc[h] = "idle",
           NEW l \in RecvSteps \cup DiscSteps, Goto(h, l)
    PROVE  /\ pc' \in [Handlers -> RecvSteps \cup DiscSteps] /\ pc'[h] = l
           /\ \A g \in Handlers : g # h => pc'[g] = pc[g]
           /\ \A g \in Handlers : pc[g] \in {"idle", "done"}
           /\ Alone'
<1>1. \A g \in Handlers : pc[g] \in {"idle", "done"}
  BY FreeRest
<1>2. /\ pc' \in [Handlers -> RecvSteps \cup DiscSteps] /\ pc'[h] = l
      /\ \A g \in Handlers : g # h => pc'[g] = pc[g]
  BY DEF Goto, FieldsTyped
<1>3. Alone'
  BY <1>1, <1>2 DEF Alone, Running
<1> QED
  BY <1>1, <1>2, <1>3

(* The bound is kept when no client asks for a room and none is made. *)
LEMMA BoundKept ==
    ASSUME Bounded, RoomsTyped, DOMAIN room' = DOMAIN room, Creating' \subseteq Creating
    PROVE  Bounded'
<1>1. IsFiniteSet(Creating)
  BY SessionsAssumption, FS_Subset DEF Creating
<1>2. IsFiniteSet(Creating') /\ Cardinality(Creating') <= Cardinality(Creating)
  BY <1>1, FS_Subset
<1>3. Cardinality(Creating) \in Nat /\ Cardinality(Creating') \in Nat
  BY <1>1, <1>2, FS_CardinalityType
<1>4. Made' = Made /\ Made \in Nat
  BY DEF Made, RoomsTyped
<1>5. MaxRooms \in Nat
  BY RoomsAssumption
<1> QED
  BY <1>2, <1>3, <1>4, <1>5 DEF Bounded

(* What SetLocal does to the local variable for the room. *)
LEMMA RoomSet ==
    ASSUME FieldsTyped, NEW h \in Handlers, NEW v \in Nat \cup {NoRoom}, SetLocal(h, "room", v)
    PROVE  /\ local'[h].room = v /\ local'[h].ret = local[h].ret
           /\ local'[h].snapshot = local[h].snapshot
           /\ local' \in [Handlers -> [room : Nat \cup {NoRoom}, snapshot : SUBSET Sessions,
                                       ret : {"done", "exited", "clearRoom"}]]
           /\ \A g \in Handlers : g # h => local'[g] = local[g]
<1>1. local[h] \in [room : Nat \cup {NoRoom}, snapshot : SUBSET Sessions,
                    ret : {"done", "exited", "clearRoom"}]
  BY DEF FieldsTyped
<1>2. PICK l : l = [local[h] EXCEPT !.room = v]
  OBVIOUS
<1>3. /\ l.room = v /\ l.ret = local[h].ret /\ l.snapshot = local[h].snapshot
      /\ l \in [room : Nat \cup {NoRoom}, snapshot : SUBSET Sessions,
                ret : {"done", "exited", "clearRoom"}]
  BY <1>1, <1>2
<1>4. local' = [local EXCEPT ![h] = l]
  BY <1>2 DEF SetLocal
<1> QED
  BY <1>3, <1>4 DEF FieldsTyped

(* Room numbers are natural numbers. *)
LEMMA Codes ==
    ASSUME FieldsTyped
    PROVE  /\ \A s \in Sessions : request[s][1] = "join" => request[s][2] \in Nat
           /\ \A s \in Sessions : currentRoom[s] # NoRoom => currentRoom[s] \in Nat
  BY DEF FieldsTyped, Asked

(***************************************************************************)
(* The clients, and the workers that take what comes.                      *)
(***************************************************************************)
(* What a client may ask for on its screen. *)
Fits(q, s) == \/ /\ q[1] = "login" /\ q \in {"login"} \X Names /\ screen[s] = "login"
              \/ /\ q = <<"create">> /\ screen[s] = "lobby" /\ MayCreate
              \/ /\ q[1] = "join" /\ q[2] \in DOMAIN rooms /\ q = <<"join", q[2]>>
                 /\ screen[s] = "lobby"
              \/ /\ q = <<"exit">> /\ screen[s] = "room"

(* A client asks for something. *)
LEMMA AskKeeps == ASSUME IInv, NEW s \in Sessions, Ask(s) PROVE IInv'
<1>1. PICK q : request' = [request EXCEPT ![s] = q] /\ Fits(q, s)
  <2>1. CASE screen[s] = "login" /\ \E n \in Names : request' = [request EXCEPT ![s] = <<"login", n>>]
    <3>1. PICK n \in Names : request' = [request EXCEPT ![s] = <<"login", n>>]
      BY <2>1
    <3>2. Fits(<<"login", n>>, s)
      BY <2>1 DEF Fits
    <3> QED
      BY <3>1, <3>2
  <2>2. CASE screen[s] = "lobby" /\ MayCreate /\ request' = [request EXCEPT ![s] = <<"create">>]
    BY <2>2 DEF Fits
  <2>3. CASE screen[s] = "lobby" /\ \E k \in DOMAIN rooms : request' = [request EXCEPT ![s] = <<"join", k>>]
    <3>1. PICK k \in DOMAIN rooms : request' = [request EXCEPT ![s] = <<"join", k>>]
      BY <2>3
    <3>2. Fits(<<"join", k>>, s)
      BY <2>3 DEF Fits
    <3> QED
      BY <3>1, <3>2
  <2>4. CASE screen[s] = "room" /\ request' = [request EXCEPT ![s] = <<"exit">>]
    BY <2>4 DEF Fits
  <2> QED
    BY <2>1, <2>2, <2>3, <2>4 DEF Ask
<1>2. /\ UNCHANGED <<registry, playerIdList, room, player, screen, pc, local, crash>>
      /\ request[s] = <<"none">> /\ pc[Recv(s)] = "idle"
  BY DEF Ask
<1>3. /\ request'[s] = q /\ \A t \in Sessions : t # s => request'[t] = request[t]
      /\ DOMAIN request' = Sessions
  BY <1>1 DEF IInv, FieldsTyped
<1>4. q \in Asked /\ q[1] \in {"login", "create", "join", "exit"}
      /\ (q[1] = "join" => q[2] < Made)
  <2>1. \A k \in DOMAIN rooms : k \in Nat /\ k < Made
    BY DEF IInv, RoomsTyped
  <2> QED
    BY <1>1, <2>1 DEF Fits, Asked
<1>5. FieldsTyped'
  <2>1. request' \in [Sessions -> Asked]
    BY <1>1, <1>4 DEF IInv, FieldsTyped
  <2> QED
    BY <1>2, <2>1 DEF IInv, FieldsTyped
<1>6. Requests'
  BY <1>1, <1>2, <1>3, <1>4 DEF IInv, Requests, Fits
<1>7. KnownRooms'
  BY <1>2, <1>3, <1>4 DEF IInv, KnownRooms, Made
<1>8. Bounded'
  <2>1. CASE q[1] # "create"
    <3>1. Creating' \subseteq Creating
      BY <1>2, <1>3, <2>1 DEF Creating
    <3> QED
      BY <1>2, <3>1, BoundKept DEF IInv
  <2>2. CASE q[1] = "create"
    <3>1. Creating' = Creating \cup {s}
      BY <1>1, <1>2, <1>3, <2>2 DEF Creating, Fits
    <3>2. IsFiniteSet(Creating) /\ Cardinality(Creating) \in Nat
      BY SessionsAssumption, FS_Subset, FS_CardinalityType DEF Creating
    <3>3. Cardinality(Creating') <= Cardinality(Creating) + 1 /\ Cardinality(Creating') \in Nat
      <4>1. \/ Cardinality(Creating \cup {s}) = Cardinality(Creating)
            \/ Cardinality(Creating \cup {s}) = Cardinality(Creating) + 1
        BY <3>2, FS_AddElement
      <4> QED
        BY <3>1, <3>2, <4>1
    <3>4. Made + Cardinality(Creating) < MaxRooms
      BY <1>1, <2>2 DEF Fits, MayCreate, Made, Creating
    <3>5. Made' = Made /\ Made \in Nat /\ MaxRooms \in Nat
      BY <1>2, RoomsAssumption DEF IInv, RoomsTyped, Made
    <3> QED
      BY <3>2, <3>3, <3>4, <3>5 DEF Bounded
  <2> QED
    BY <2>1, <2>2
<1>9. Alone' /\ RoomsTyped' /\ Shown' /\ Entered' /\ AtWork' /\ Inside' /\ Hosted' /\ Named'
  <2>1. Alone' /\ RoomsTyped'
    BY <1>2 DEF IInv, Alone, Running, RoomsTyped, Made
  <2>2. Shown' /\ Entered' /\ Inside'
    BY <1>2 DEF IInv, Shown, Entered, Inside, Leaving
  <2>3. AtWork' /\ Hosted' /\ Named'
    BY <1>2 DEF IInv, AtWork, Made, Hosted, Named, Holders, Gone
  <2> QED
    BY <2>1, <2>2, <2>3
<1> QED
  BY <1>5, <1>6, <1>7, <1>8, <1>9 DEF IInv

(* A worker takes a packet. *)
LEMMA ReceiveKeeps == ASSUME IInv, Workers = 1, NEW s \in Sessions, Receive(s) PROVE IInv'
<1>1. /\ UNCHANGED <<registry, playerIdList, room, player, client, local, crash>>
      /\ pc[Recv(s)] = "idle" /\ pc[Disc(s)] = "idle" /\ request[s] # <<"none">>
      /\ FreeWorker /\ Goto(Recv(s), request[s][1])
  BY DEF Receive
<1>2. PICK l \in {"login", "create", "join", "exit"} : l = request[s][1]
  BY <1>1 DEF IInv, FieldsTyped, Asked
<1>3. /\ pc' \in [Handlers -> RecvSteps \cup DiscSteps] /\ pc'[Recv(s)] = l
      /\ \A g \in Handlers : g # Recv(s) => pc'[g] = pc[g]
      /\ \A g \in Handlers : pc[g] \in {"idle", "done"}
      /\ Alone'
  <2>1. l \in RecvSteps \cup DiscSteps /\ Recv(s) \in Handlers
    BY Apart DEF RecvSteps
  <2> QED
    BY <1>1, <1>2, <2>1, Starts DEF IInv
<1>4. FieldsTyped'
  BY <1>1, <1>3, Apart DEF IInv, FieldsTyped, RecvSteps
<1>5. RoomsTyped' /\ KnownRooms'
  BY <1>1, <1>3, Apart DEF IInv, RoomsTyped, Made, KnownRooms
<1>6. Bounded'
  <2>1. Creating' \subseteq Creating
    BY <1>1, <1>3, Apart DEF Creating
  <2> QED
    BY <1>1, <2>1, BoundKept DEF IInv
<1>7. Requests'
  BY <1>1, <1>2, <1>3, Apart DEF IInv, Requests
<1>8. Shown' /\ Entered'
  <2>1. Shown'
    BY <1>1, <1>2, <1>3, Apart DEF IInv, Shown
  <2>2. Entered'
    BY <1>1, <1>2, <1>3, Apart DEF IInv, Entered
  <2> QED
    BY <2>1, <2>2
<1>9. AtWork'
  BY <1>1, <1>3 DEF IInv, AtWork, Made
<1>10. Inside'
  BY <1>1, <1>3, Apart DEF IInv, Inside, Leaving
<1>11. Hosted' /\ Named'
  BY <1>1, <1>3, Apart DEF IInv, Hosted, Named, Holders, Gone
<1> QED
  BY <1>3, <1>4, <1>5, <1>6, <1>7, <1>8, <1>9, <1>10, <1>11 DEF IInv

(* A worker takes the end of a connection. *)
LEMMA DropKeeps == ASSUME IInv, Workers = 1, NEW s \in Sessions, Drop(s) PROVE IInv'
<1>1. /\ UNCHANGED <<registry, playerIdList, room, player, client, local, crash>>
      /\ pc[Disc(s)] = "idle" /\ FreeWorker /\ Goto(Disc(s), "disconnected")
  BY DEF Drop
<1>2. /\ pc' \in [Handlers -> RecvSteps \cup DiscSteps] /\ pc'[Disc(s)] = "disconnected"
      /\ \A g \in Handlers : g # Disc(s) => pc'[g] = pc[g]
      /\ \A g \in Handlers : pc[g] \in {"idle", "done"}
      /\ Alone'
  <2>1. "disconnected" \in RecvSteps \cup DiscSteps /\ Disc(s) \in Handlers
    BY Apart DEF DiscSteps
  <2> QED
    BY <1>1, <2>1, Starts DEF IInv
<1>3. FieldsTyped'
  BY <1>1, <1>2, Apart DEF IInv, FieldsTyped, DiscSteps
<1>4. RoomsTyped' /\ KnownRooms'
  BY <1>1, <1>2, Apart DEF IInv, RoomsTyped, Made, KnownRooms
<1>5. Bounded'
  <2>1. Creating' \subseteq Creating
    BY <1>1, <1>2, Apart DEF Creating
  <2> QED
    BY <1>1, <2>1, BoundKept DEF IInv
<1>6. Requests'
  <2>1. \A t \in Sessions : pc[Recv(t)] = "idle"
    BY <1>2, Apart DEF IInv, FieldsTyped, RecvSteps
  <2> QED
    BY <1>1, <1>2, <2>1, Apart DEF IInv, Requests
<1>7. Shown' /\ Entered'
  <2>1. Shown'
    BY <1>1, <1>2, Apart DEF IInv, Shown
  <2>2. Entered'
    BY <1>1, <1>2, Apart DEF IInv, Entered
  <2> QED
    BY <2>1, <2>2
<1>8. AtWork'
  BY <1>1, <1>2 DEF IInv, AtWork, Made
<1>9. Inside'
  BY <1>1, <1>2, Apart DEF IInv, Inside, Leaving
<1>10. Hosted' /\ Named'
  BY <1>1, <1>2, Apart DEF IInv, Hosted, Named, Holders, Gone
<1> QED
  BY <1>2, <1>3, <1>4, <1>5, <1>6, <1>7, <1>8, <1>9, <1>10 DEF IInv

(***************************************************************************)
(* The handlers of packets.                                                *)
(***************************************************************************)
(* A handler returns without having done anything. *)
LEMMA IgnoredKeeps ==
    ASSUME IInv, NEW s \in Sessions, pc[Recv(s)] \in {"login", "join", "exit"}, Finish(s),
           UNCHANGED <<registry, playerIdList, room, player, screen, local, crash>>
    PROVE  IInv'
<1>1. /\ pc' \in [Handlers -> RecvSteps \cup DiscSteps] /\ pc'[Recv(s)] = "idle"
      /\ \A g \in Handlers : g # Recv(s) => pc'[g] = pc[g] /\ pc[g] \in {"idle", "done"}
      /\ Alone'
  <2>1. "idle" \in RecvSteps \cup DiscSteps /\ Recv(s) \in Handlers
    BY Apart DEF RecvSteps
  <2> QED
    BY <2>1, Moves DEF IInv, Finish
<1>2. /\ request'[s] = <<"none">> /\ \A t \in Sessions : t # s => request'[t] = request[t]
      /\ request' \in [Sessions -> Asked] /\ request'[s][1] = "none"
  BY DEF IInv, FieldsTyped, Finish, Asked
<1>3. FieldsTyped'
  BY <1>1, <1>2, Apart DEF IInv, FieldsTyped, RecvSteps
<1>4. RoomsTyped' /\ KnownRooms'
  <2>1. RoomsTyped'
    BY <1>1, Apart DEF IInv, RoomsTyped, Made
  <2>2. KnownRooms'
    <3>1. Made' = Made /\ currentRoom' = currentRoom
      BY DEF Made
    <3> QED
      BY <1>2, <3>1 DEF IInv, KnownRooms
  <2> QED
    BY <2>1, <2>2
<1>5. Bounded'
  <2>1. Creating' \subseteq Creating
    BY <1>1, <1>2, Apart DEF Creating
  <2> QED
    BY <2>1, BoundKept DEF IInv
<1>6. Requests'
  BY <1>1, <1>2, Apart DEF IInv, Requests
<1>7. Shown'
  BY <1>1, Apart DEF IInv, Shown
<1>8. Entered'
  BY <1>1, Apart DEF IInv, Entered
<1>9. AtWork'
  BY <1>1 DEF IInv, AtWork, Made
<1>10. Inside'
  BY <1>1, Apart DEF IInv, Inside, Leaving
<1>11. Hosted' /\ Named'
  BY <1>1, Apart DEF IInv, Hosted, Named, Holders, Gone
<1> QED
  BY <1>1, <1>3, <1>4, <1>5, <1>6, <1>7, <1>8, <1>9, <1>10, <1>11 DEF IInv

(* Handle_C_LOGIN finds the player id in use, or free. *)
LEMMA LoginKeeps == ASSUME IInv, NEW s \in Sessions, Login(s) PROVE IInv'
<1>1. /\ UNCHANGED <<registry, playerIdList, room, player, screen, local, crash>>
      /\ pc[Recv(s)] = "login"
  BY DEF Login
<1>2. CASE Finish(s)
  BY <1>1, <1>2, IgnoredKeeps
<1>3. CASE request[s][2] \notin playerIdList /\ Goto(Recv(s), "loginInsert") /\ UNCHANGED request
  <2>1. /\ pc' \in [Handlers -> RecvSteps \cup DiscSteps] /\ pc'[Recv(s)] = "loginInsert"
        /\ \A g \in Handlers : g # Recv(s) => pc'[g] = pc[g] /\ pc[g] \in {"idle", "done"}
        /\ Alone'
    <3>1. "loginInsert" \in RecvSteps \cup DiscSteps /\ Recv(s) \in Handlers
      BY Apart DEF RecvSteps
    <3> QED
      BY <1>1, <1>3, <3>1, Moves DEF IInv
  <2>2. FieldsTyped'
    BY <1>1, <1>3, <2>1, Apart DEF IInv, FieldsTyped, RecvSteps
  <2>3. RoomsTyped' /\ KnownRooms'
    BY <1>1, <1>3, <2>1, Apart DEF IInv, RoomsTyped, Made, KnownRooms
  <2>4. Bounded'
    <3>1. Creating' \subseteq Creating
      BY <1>1, <1>3, <2>1, Apart DEF Creating
    <3> QED
      BY <1>1, <3>1, BoundKept DEF IInv
  <2>5. Requests'
    BY <1>1, <1>3, <2>1, Apart DEF IInv, Requests
  <2>6. Shown'
    BY <1>1, <2>1, Apart DEF IInv, Shown
  <2>7. Entered'
    BY <1>1, <2>1, Apart DEF IInv, Entered
  <2>8. AtWork'
    BY <1>1, <2>1 DEF IInv, AtWork, Made
  <2>9. Inside'
    BY <1>1, <2>1, Apart DEF IInv, Inside, Leaving
  <2>10. Hosted' /\ Named'
    BY <1>1, <2>1, Apart DEF IInv, Hosted, Named, Holders, Gone
  <2> QED
    BY <2>1, <2>2, <2>3, <2>4, <2>5, <2>6, <2>7, <2>8, <2>9, <2>10 DEF IInv
<1> QED
  BY <1>2, <1>3 DEF Login

(* Handle_C_LOGIN inserts it: nobody has logged in under it meanwhile. *)
LEMMA LoginInsertKeeps == ASSUME IInv, NEW s \in Sessions, LoginInsert(s) PROVE IInv'
<1>1. /\ UNCHANGED <<registry, room, currentRoom, online, local, crash>>
      /\ pc[Recv(s)] = "loginInsert" /\ Finish(s)
  BY DEF LoginInsert
<1>2. PICK n \in Names : n = request[s][2]
  BY <1>1 DEF IInv, FieldsTyped, Requests, Asked
<1>3. /\ n \notin playerIdList /\ n # NoName
      /\ playerName[s] = NoName /\ screen[s] = "login" /\ currentRoom[s] = NoRoom
  BY <1>1, <1>2, NamesAssumption DEF IInv, Requests, Shown
<1>4. /\ playerIdList' = playerIdList \cup {n}
      /\ playerName' \in [Sessions -> Names \cup {NoName}] /\ playerName'[s] = n
      /\ \A t \in Sessions : t # s => playerName'[t] = playerName[t]
      /\ screen' \in [Sessions -> {"login", "lobby", "room"}] /\ screen'[s] = "lobby"
      /\ \A t \in Sessions : t # s => screen'[t] = screen[t]
  BY <1>2 DEF LoginInsert, IInv, FieldsTyped
<1>5. /\ pc' \in [Handlers -> RecvSteps \cup DiscSteps] /\ pc'[Recv(s)] = "idle"
      /\ \A g \in Handlers : g # Recv(s) => pc'[g] = pc[g] /\ pc[g] \in {"idle", "done"}
      /\ Alone'
  <2>1. "idle" \in RecvSteps \cup DiscSteps /\ Recv(s) \in Handlers
    BY Apart DEF RecvSteps
  <2> QED
    BY <1>1, <2>1, Moves DEF IInv, Finish
<1>6. /\ request'[s] = <<"none">> /\ \A t \in Sessions : t # s => request'[t] = request[t]
      /\ request' \in [Sessions -> Asked] /\ request'[s][1] = "none"
  BY <1>1 DEF IInv, FieldsTyped, Finish, Asked
<1>7. FieldsTyped'
  BY <1>1, <1>4, <1>5, <1>6, Apart DEF IInv, FieldsTyped, RecvSteps
<1>8. RoomsTyped' /\ KnownRooms'
  <2>1. RoomsTyped'
    BY <1>1, <1>5, Apart DEF IInv, RoomsTyped, Made
  <2>2. KnownRooms'
    <3>1. Made' = Made /\ currentRoom' = currentRoom
      BY <1>1 DEF Made
    <3> QED
      BY <1>6, <3>1 DEF IInv, KnownRooms
  <2> QED
    BY <2>1, <2>2
<1>9. Bounded'
  <2>1. Creating' \subseteq Creating
    BY <1>5, <1>6, Apart DEF Creating
  <2> QED
    BY <1>1, <2>1, BoundKept DEF IInv
<1>10. Requests'
  BY <1>1, <1>3, <1>4, <1>5, <1>6, Apart DEF IInv, Requests
<1>11. Shown'
  BY <1>1, <1>3, <1>4, <1>5, Apart DEF IInv, Shown
<1>12. Entered'
  BY <1>1, <1>5, Apart DEF IInv, Entered
<1>13. AtWork'
  BY <1>1, <1>5 DEF IInv, AtWork, Made
<1>14. Inside'
  BY <1>1, <1>5, Apart DEF IInv, Inside, Leaving
<1>15. Hosted'
  <2>1. ASSUME NEW k \in DOMAIN rooms
        PROVE  \E t \in room[k + 1].sessions : playerName'[t] = room[k + 1].hostId
    <3>1. PICK t \in room[k + 1].sessions : playerName[t] = room[k + 1].hostId
      BY <1>1, <1>5, Apart DEF IInv, Hosted
    <3>2. t \in Sessions /\ room[k + 1].hostId \in Names
      <4>1. room[k + 1] \in RoomData
        BY DEF IInv, RoomsTyped
      <4> QED
        BY <4>1 DEF RoomData
    <3>3. t # s
      BY <1>3, <3>1, <3>2, NamesAssumption
    <3> QED
      BY <1>4, <3>1, <3>2, <3>3
  <2> QED
    BY <1>1, <2>1 DEF Hosted
<1>16. Named'
  <2>1. \A t \in Sessions : pc[Disc(t)] \in {"idle", "done"} /\ pc'[Disc(t)] = pc[Disc(t)]
    BY <1>5, Apart
  <2>2. \A t \in Holders : playerName[t] # n
    BY <1>3 DEF IInv, Named
  <2>3. Holders' = Holders /\ \A t \in Sessions : t \in Holders <=> ~Gone(t)
    BY <2>1 DEF Holders, Gone
  <2>4. \A t \in Sessions : Gone(t)' <=> Gone(t)
    BY <2>1 DEF Gone
  <2>5. \A t, u \in Sessions : /\ t # u /\ ~Gone(t) /\ ~Gone(u) /\ playerName'[t] = playerName'[u]
                               => playerName'[t] = NoName
    BY <1>4, <2>2, <2>3 DEF IInv, Named
  <2>6. s \in Holders
    BY <1>1, Apart DEF IInv, Requests, Holders
  <2>7. playerIdList' = {playerName'[t] : t \in Holders} \ {NoName}
    BY <1>3, <1>4, <2>6 DEF IInv, Named, Holders
  <2> QED
    BY <2>3, <2>4, <2>5, <2>7 DEF Named
<1> QED
  BY <1>5, <1>7, <1>8, <1>9, <1>10, <1>11, <1>12, <1>13, <1>14, <1>15, <1>16 DEF IInv

(* Handle_C_ROOM_CREATE makes the room, with the next id. *)
LEMMA CreateKeeps == ASSUME IInv, NEW s \in Sessions, Create(s) PROVE IInv'
<1>1. /\ UNCHANGED <<registry, playerIdList, player, client, crash>> /\ pc[Recv(s)] = "create"
      /\ Goto(Recv(s), "addRoom")
  BY DEF Create
<1>2. PICK r \in Nat : r = Made + 1 /\ DOMAIN room = 1..Made /\ Made \in Nat /\ r \notin DOMAIN room
  <2>1. DOMAIN room = 1..Made /\ Made \in Nat
    BY DEF IInv, RoomsTyped
  <2> QED
    BY <2>1
<1>3. roomIdCount = r - 1
  <2>1. \A t \in Sessions : pc[Recv(t)] # "addRoom"
    BY <1>1, Apart, OthersRest DEF IInv
  <2> QED
    BY <1>2, <2>1 DEF IInv, RoomsTyped
<1>4. PICK new : new = [id |-> r - 1, hostId |-> playerName[s], sessions |-> {}, playerCount |-> 0]
  OBVIOUS
<1>5. /\ DOMAIN room' = DOMAIN room \cup {r} /\ room'[r] = new
      /\ \A i \in DOMAIN room : room'[i] = room[i]
  BY <1>2, <1>3, <1>4 DEF Create, Made
<1>6. DOMAIN room' = 1..r /\ Made' = r
  <2>1. DOMAIN room' = 1..r
    BY <1>2, <1>5
  <2> QED
    BY <1>2, <2>1, FS_Interval DEF Made
<1>7. /\ local'[Recv(s)].room = r
      /\ local' \in [Handlers -> [room : Nat \cup {NoRoom}, snapshot : SUBSET Sessions,
                                  ret : {"done", "exited", "clearRoom"}]]
      /\ \A g \in Handlers : g # Recv(s) => local'[g] = local[g]
  <2>1. SetLocal(Recv(s), "room", r) /\ Recv(s) \in Handlers
    BY <1>2, Apart DEF Create, Made
  <2> QED
    BY <2>1, RoomSet DEF IInv
<1>8. /\ pc' \in [Handlers -> RecvSteps \cup DiscSteps] /\ pc'[Recv(s)] = "addRoom"
      /\ \A g \in Handlers : g # Recv(s) => pc'[g] = pc[g] /\ pc[g] \in {"idle", "done"}
      /\ Alone'
  <2>1. "addRoom" \in RecvSteps \cup DiscSteps /\ Recv(s) \in Handlers
    BY Apart DEF RecvSteps
  <2> QED
    BY <1>1, <2>1, Moves DEF IInv
<1>9. FieldsTyped'
  BY <1>1, <1>7, <1>8, Apart DEF IInv, FieldsTyped, RecvSteps
<1>10. playerName[s] \in Names
  BY <1>1 DEF IInv, FieldsTyped, Requests
<1>11. RoomsTyped'
  <2>1. Cardinality({}) = 0
    BY FS_EmptySet
  <2>2. \A i \in DOMAIN room' :
          /\ room'[i] \in RoomData /\ room'[i].id = i - 1
          /\ room'[i].playerCount = Cardinality(room'[i].sessions)
    <3>1. new \in RoomData /\ new.id = r - 1 /\ new.playerCount = Cardinality(new.sessions)
      BY <1>2, <1>4, <1>10, <2>1 DEF RoomData
    <3> QED
      BY <1>5, <3>1 DEF IInv, RoomsTyped
  <2>3. roomIdCount' = IF \E t \in Sessions : pc'[Recv(t)] = "addRoom" THEN r - 1 ELSE r
    BY <1>1, <1>3, <1>8
  <2>4. \A k \in DOMAIN rooms' : k \in Nat /\ k + 1 \in DOMAIN room' /\ rooms'[k] = k + 1
    BY <1>1, <1>5 DEF IInv, RoomsTyped
  <2> QED
    BY <1>2, <1>6, <2>2, <2>3, <2>4 DEF RoomsTyped
<1>12. Bounded'
  <2>1. s \in Creating /\ Creating' = Creating \ {s}
    BY <1>1, <1>8, Apart DEF Creating, IInv, Requests, FieldsTyped, Asked
  <2>2. IsFiniteSet(Creating) /\ Cardinality(Creating) \in Nat
    BY SessionsAssumption, FS_Subset, FS_CardinalityType DEF Creating
  <2>3. Cardinality(Creating \ {s}) = Cardinality(Creating) - 1
    BY <2>1, <2>2, FS_RemoveElement
  <2>4. Cardinality(Creating') = Cardinality(Creating) - 1
    BY <2>1, <2>3
  <2> QED
    BY <1>2, <1>6, <2>2, <2>4, RoomsAssumption DEF IInv, Bounded
<1>13. KnownRooms'
  <2>1. \A i \in Nat : i < Made => i < r
    BY <1>2
  <2> QED
    BY <1>1, <1>6, <2>1, Codes DEF IInv, KnownRooms
<1>14. Requests'
  BY <1>1, <1>7, <1>8, Apart DEF IInv, Requests
<1>15. Shown'
  BY <1>1, <1>8, Apart DEF IInv, Shown
<1>16. Entered'
  BY <1>1, <1>4, <1>5, <1>8, Apart DEF IInv, Entered
<1>17. AtWork'
  BY <1>1, <1>4, <1>5, <1>6, <1>7, <1>8, Apart DEF IInv, AtWork
<1>18. Inside'
  BY <1>1, <1>5, <1>7, <1>8, Apart DEF IInv, Inside, Leaving
<1>19. Hosted'
  <2>1. ASSUME NEW k \in DOMAIN rooms
        PROVE  \E t \in room[k + 1].sessions : playerName[t] = room[k + 1].hostId
    BY <1>1, <1>8, Apart DEF IInv, Hosted
  <2>2. \A k \in DOMAIN rooms : room'[k + 1] = room[k + 1]
    BY <1>5 DEF IInv, RoomsTyped
  <2> QED
    BY <1>1, <2>1, <2>2 DEF Hosted
<1>20. Named'
  BY <1>1, <1>8, Apart DEF IInv, Named, Holders, Gone
<1> QED
  BY <1>8, <1>9, <1>11, <1>12, <1>13, <1>14, <1>15, <1>16, <1>17, <1>18, <1>19, <1>20 DEF IInv

(* RoomManager::AddRoom lists the room, under its id. *)
LEMMA AddRoomKeeps == ASSUME IInv, NEW s \in Sessions, AddRoom(s) PROVE IInv'
<1>1. /\ UNCHANGED <<playerIdList, room, player, client, local, crash>> /\ pc[Recv(s)] = "addRoom"
      /\ Goto(Recv(s), "add") /\ roomIdCount' = roomIdCount + 1
  BY DEF AddRoom
<1>2. PICK id \in Nat : /\ id = roomIdCount /\ Made = id + 1 /\ local[Recv(s)].room = id + 1
                       /\ id + 1 \in DOMAIN room /\ room[id + 1].hostId = playerName[s]
                       /\ room[id + 1].sessions = {}
  <2>1. local[Recv(s)].room = Made /\ room[Made].hostId = playerName[s] /\ room[Made].sessions = {}
    BY <1>1, Apart DEF IInv, AtWork
  <2>2. local[Recv(s)].room \in Nat
    BY <2>1 DEF IInv, RoomsTyped
  <2>3. Made \in Nat /\ roomIdCount = Made - 1 /\ DOMAIN room = 1..Made
    BY <1>1 DEF IInv, RoomsTyped
  <2>4. Made # 0
    BY <1>1, Apart DEF IInv, AtWork
  <2>5. roomIdCount \in Nat /\ Made = roomIdCount + 1 /\ Made \in DOMAIN room
    BY <2>3, <2>4
  <2> QED
    BY <2>1, <2>5
<1>3. /\ DOMAIN rooms' = DOMAIN rooms \cup {id} /\ rooms'[id] = id + 1
      /\ \A k \in DOMAIN rooms : k # id => rooms'[k] = rooms[k]
  BY <1>2 DEF AddRoom
<1>4. /\ pc' \in [Handlers -> RecvSteps \cup DiscSteps] /\ pc'[Recv(s)] = "add"
      /\ \A g \in Handlers : g # Recv(s) => pc'[g] = pc[g] /\ pc[g] \in {"idle", "done"}
      /\ Alone'
  <2>1. "add" \in RecvSteps \cup DiscSteps /\ Recv(s) \in Handlers
    BY Apart DEF RecvSteps
  <2> QED
    BY <1>1, <2>1, Moves DEF IInv
<1>5. FieldsTyped'
  BY <1>1, <1>4, Apart DEF IInv, FieldsTyped, RecvSteps
<1>6. RoomsTyped'
  <2>1. \A t \in Sessions : pc'[Recv(t)] # "addRoom"
    BY <1>4, Apart
  <2>2. Made' = Made /\ roomIdCount' = Made
    BY <1>1, <1>2 DEF Made
  <2> QED
    BY <1>1, <1>2, <1>3, <2>1, <2>2 DEF IInv, RoomsTyped
<1>7. Bounded'
  <2>1. Creating' \subseteq Creating
    BY <1>1, <1>4, Apart DEF Creating
  <2> QED
    BY <1>1, <2>1, BoundKept DEF IInv
<1>8. KnownRooms' /\ Requests'
  BY <1>1, <1>4, Apart DEF IInv, KnownRooms, Made, Requests
<1>9. Shown'
  BY <1>1, <1>4, Apart DEF IInv, Shown
<1>10. Entered'
  BY <1>1, <1>3, <1>4, Apart DEF IInv, Entered
<1>11. AtWork'
  BY <1>1, <1>2, <1>3, <1>4 DEF IInv, AtWork, Made
<1>12. Inside'
  BY <1>1, <1>4, Apart DEF IInv, Inside, Leaving
<1>13. Hosted'
  <2>1. ASSUME NEW k \in DOMAIN rooms
        PROVE  \E t \in room[k + 1].sessions : playerName[t] = room[k + 1].hostId
    BY <1>1, <1>4, Apart DEF IInv, Hosted
  <2>2. pc'[Recv(s)] = "add" /\ local'[Recv(s)].room = id + 1 /\ playerName'[s] = room'[id + 1].hostId
    BY <1>1, <1>2, <1>4
  <2> QED
    BY <1>1, <1>3, <2>1, <2>2 DEF Hosted
<1>14. Named'
  BY <1>1, <1>4, Apart DEF IInv, Named, Holders, Gone
<1> QED
  BY <1>4, <1>5, <1>6, <1>7, <1>8, <1>9, <1>10, <1>11, <1>12, <1>13, <1>14 DEF IInv

(* Handle_C_ROOM_REQUEST finds the room. *)
LEMMA JoinKeeps == ASSUME IInv, NEW s \in Sessions, Join(s) PROVE IInv'
<1>1. /\ UNCHANGED <<registry, playerIdList, room, player, screen>> /\ pc[Recv(s)] = "join"
  BY DEF Join
<1>2. CASE crash' = "ROOM_REQUEST" /\ UNCHANGED <<request, pc, local>>
  <2>1. FieldsTyped' /\ Alone' /\ RoomsTyped' /\ Bounded' /\ KnownRooms' /\ Requests'
    BY <1>1, <1>2 DEF IInv, FieldsTyped, Alone, Running, RoomsTyped, Bounded, Creating, Made,
                      KnownRooms, Requests
  <2>2. Shown' /\ Entered' /\ AtWork' /\ Inside' /\ Hosted' /\ Named'
    BY <1>1, <1>2 DEF IInv, Shown, Entered, AtWork, Made, Inside, Leaving, Hosted, Named, Holders, Gone
  <2> QED
    BY <2>1, <2>2 DEF IInv
<1>3. CASE Finish(s) /\ UNCHANGED <<local, crash>>
  BY <1>1, <1>3, IgnoredKeeps
<1>4. ASSUME request[s][2] \in DOMAIN rooms, SetLocal(Recv(s), "room", rooms[request[s][2]]),
             Goto(Recv(s), "add"), UNCHANGED <<request, crash>>
      PROVE  IInv'
  <2>1. PICK k \in DOMAIN rooms : k = request[s][2] /\ k \in Nat /\ rooms[k] = k + 1
    BY <1>4 DEF IInv, RoomsTyped
  <2>2. /\ local'[Recv(s)].room = k + 1
        /\ local' \in [Handlers -> [room : Nat \cup {NoRoom}, snapshot : SUBSET Sessions,
                                    ret : {"done", "exited", "clearRoom"}]]
        /\ \A g \in Handlers : g # Recv(s) => local'[g] = local[g]
    <3>1. k + 1 \in Nat \cup {NoRoom} /\ SetLocal(Recv(s), "room", k + 1) /\ Recv(s) \in Handlers
      BY <1>4, <2>1, Apart
    <3> QED
      BY <3>1, RoomSet DEF IInv
  <2>3. /\ pc' \in [Handlers -> RecvSteps \cup DiscSteps] /\ pc'[Recv(s)] = "add"
        /\ \A g \in Handlers : g # Recv(s) => pc'[g] = pc[g] /\ pc[g] \in {"idle", "done"}
        /\ Alone'
    <3>1. "add" \in RecvSteps \cup DiscSteps /\ Recv(s) \in Handlers
      BY Apart DEF RecvSteps
    <3> QED
      BY <1>1, <1>4, <3>1, Moves DEF IInv
  <2>4. FieldsTyped'
    <3>1. \A t \in Sessions : pc'[Recv(t)] \in RecvSteps /\ pc'[Disc(t)] \in DiscSteps
      BY <2>3, Apart DEF IInv, FieldsTyped, RecvSteps
    <3>2. UNCHANGED <<currentRoom, playerName, online, screen, request, crash>>
      BY <1>1, <1>4
    <3> QED
      BY <2>2, <2>3, <3>1, <3>2 DEF IInv, FieldsTyped
  <2>5. RoomsTyped'
    BY <1>1, <2>3, Apart DEF IInv, RoomsTyped, Made
  <2>6. Bounded'
    <3>1. Creating' \subseteq Creating
      BY <1>4, <2>3, Apart DEF Creating
    <3> QED
      BY <1>1, <3>1, BoundKept DEF IInv
  <2>7. KnownRooms' /\ Requests'
    BY <1>1, <1>4, <2>3, Apart DEF IInv, KnownRooms, Made, Requests
  <2>8. Shown'
    BY <1>1, <2>3, Apart DEF IInv, Shown
  <2>9. Entered'
    BY <1>1, <2>3, Apart DEF IInv, Entered
  <2>10. AtWork'
    BY <1>1, <2>1, <2>2, <2>3 DEF IInv, AtWork, Made
  <2>11. Inside'
    BY <1>1, <2>2, <2>3, Apart DEF IInv, Inside, Leaving
  <2>12. Hosted'
    BY <1>1, <2>2, <2>3, Apart DEF IInv, Hosted
  <2>13. Named'
    BY <1>1, <2>3, Apart DEF IInv, Named, Holders, Gone
  <2> QED
    BY <2>3, <2>4, <2>5, <2>6, <2>7, <2>8, <2>9, <2>10, <2>11, <2>12, <2>13 DEF IInv
<1> QED
  BY <1>2, <1>3, <1>4 DEF Join

(* Room::Add.  The session is not in the room. *)
LEMMA AddKeeps == ASSUME IInv, NEW s \in Sessions, Add(s) PROVE IInv'
<1>1. /\ UNCHANGED <<registry, playerIdList, playerName, online, client, local, crash>>
      /\ pc[Recv(s)] = "add" /\ Goto(Recv(s), "answer")
  BY DEF Add
<1>2. PICK r \in DOMAIN room : r = local[Recv(s)].room /\ r \in Nat /\ r - 1 \in DOMAIN rooms
  <2>1. local[Recv(s)].room \in Nat /\ local[Recv(s)].room - 1 \in DOMAIN rooms
    BY <1>1, Apart DEF IInv, AtWork
  <2>2. local[Recv(s)].room \in DOMAIN room
    BY <2>1 DEF IInv, RoomsTyped
  <2> QED
    BY <2>1, <2>2
<1>3. room[r] \in RoomData /\ room[r].id = r - 1 /\ room[r].playerCount = Cardinality(room[r].sessions)
  BY DEF IInv, RoomsTyped
<1>4. currentRoom[s] = NoRoom /\ screen[s] = "lobby"
  BY <1>1 DEF IInv, Requests, Shown
<1>5. \A i \in DOMAIN room : s \notin room[i].sessions
  <2>1. \A i \in DOMAIN room : i - 1 # NoRoom
    BY RoomsAssumption DEF IInv, RoomsTyped
  <2> QED
    BY <1>4, <2>1 DEF IInv, Entered
<1>6. PICK new : new = [room[r] EXCEPT !.sessions = room[r].sessions \cup {s},
                                       !.playerCount = room[r].playerCount + 1]
  OBVIOUS
<1>7. /\ new \in RoomData /\ new.id = r - 1 /\ new.hostId = room[r].hostId
      /\ new.sessions = room[r].sessions \cup {s}
      /\ new.playerCount = Cardinality(new.sessions)
  <2>1. IsFiniteSet(room[r].sessions)
    BY <1>3, SessionsAssumption, FS_Subset DEF RoomData
  <2>2. Cardinality(room[r].sessions \cup {s}) = Cardinality(room[r].sessions) + 1
    BY <1>5, <2>1, FS_AddElement
  <2>3. /\ new \in RoomData /\ new.id = r - 1 /\ new.hostId = room[r].hostId
        /\ new.sessions = room[r].sessions \cup {s}
        /\ new.playerCount = room[r].playerCount + 1
    <3>1. PICK sessions \in SUBSET Sessions : sessions = room[r].sessions \cup {s}
      BY <1>3 DEF RoomData
    <3>2. PICK count \in Nat : count = room[r].playerCount + 1
      BY <1>3 DEF RoomData
    <3>3. new = [room[r] EXCEPT !.sessions = sessions, !.playerCount = count]
      BY <1>6, <3>1, <3>2
    <3>4. /\ new \in RoomData /\ new.id = r - 1 /\ new.hostId = room[r].hostId
          /\ new.sessions = sessions /\ new.playerCount = count
      BY <1>3, <3>3 DEF RoomData
    <3> QED
      BY <3>1, <3>2, <3>4
  <2> QED
    BY <1>3, <2>2, <2>3
<1>8. room' = [room EXCEPT ![r] = new]
  BY <1>2, <1>6 DEF Add
<1>9. /\ DOMAIN room' = DOMAIN room /\ room'[r] = new
      /\ \A i \in DOMAIN room : i # r => room'[i] = room[i]
  BY <1>8
<1>10. /\ currentRoom'[s] = r - 1 /\ \A t \in Sessions : t # s => currentRoom'[t] = currentRoom[t]
       /\ currentRoom' \in [Sessions -> Nat \cup {NoRoom}]
  <2>1. r - 1 \in Nat
    BY <1>3 DEF RoomData
  <2> QED
    BY <1>2, <1>3, <2>1 DEF Add, IInv, FieldsTyped
<1>11. /\ pc' \in [Handlers -> RecvSteps \cup DiscSteps] /\ pc'[Recv(s)] = "answer"
       /\ \A g \in Handlers : g # Recv(s) => pc'[g] = pc[g] /\ pc[g] \in {"idle", "done"}
       /\ Alone'
  <2>1. "answer" \in RecvSteps \cup DiscSteps /\ Recv(s) \in Handlers
    BY Apart DEF RecvSteps
  <2> QED
    BY <1>1, <2>1, Moves DEF IInv
<1>12. FieldsTyped'
  BY <1>1, <1>10, <1>11, Apart DEF IInv, FieldsTyped, RecvSteps
<1>13. RoomsTyped'
  <2>1. Made' = Made
    BY <1>9 DEF Made
  <2>2. \A i \in DOMAIN room' :
          /\ room'[i] \in RoomData /\ room'[i].id = i - 1
          /\ room'[i].playerCount = Cardinality(room'[i].sessions)
    BY <1>7, <1>9 DEF IInv, RoomsTyped
  <2>3. \A t \in Sessions : pc'[Recv(t)] # "addRoom" /\ pc[Recv(t)] # "addRoom"
    BY <1>1, <1>11, Apart
  <2> QED
    BY <1>1, <1>9, <2>1, <2>2, <2>3 DEF IInv, RoomsTyped
<1>14. Bounded'
  <2>1. Creating' \subseteq Creating
    BY <1>1, <1>11, Apart DEF Creating
  <2> QED
    BY <1>9, <2>1, BoundKept DEF IInv
<1>15. KnownRooms'
  <2>1. Made' = Made /\ r - 1 < Made
    BY <1>9 DEF Made, IInv, RoomsTyped
  <2> QED
    BY <1>1, <1>10, <2>1 DEF IInv, KnownRooms
<1>16. Requests'
  BY <1>1, <1>11, Apart DEF IInv, Requests
<1>17. Shown'
  <2>1. pc[Disc(s)] = "idle"
    BY <1>1 DEF IInv, Requests
  <2> QED
    BY <1>1, <1>4, <1>10, <1>11, <2>1, Apart DEF IInv, Shown
<1>18. Entered'
  <2>1. pc'[Disc(s)] = "idle"
    BY <1>1, <1>11, Apart DEF IInv, Requests
  <2> QED
    BY <1>1, <1>2, <1>5, <1>7, <1>9, <1>10, <1>11, <2>1, Apart DEF IInv, Entered
<1>19. AtWork'
  <2>1. currentRoom'[s] # NoRoom
    BY <1>3, <1>10, RoomsAssumption DEF RoomData
  <2> QED
    BY <1>1, <1>11, <2>1, Apart DEF IInv, AtWork
<1>20. Inside'
  <2>1. \A t \in Sessions : ~Leaving(t)
    BY <1>1, <1>11, Apart DEF Leaving
  <2>2. ASSUME NEW t \in Sessions, t # s, currentRoom[t] # NoRoom
        PROVE  currentRoom[t] + 1 \in DOMAIN room' /\ t \in room'[currentRoom[t] + 1].sessions
    BY <1>7, <1>9, <2>1, <2>2 DEF IInv, Inside
  <2>3. s \in room'[r].sessions /\ (r - 1) + 1 = r
    BY <1>3, <1>7, <1>9 DEF RoomData, IInv, RoomsTyped
  <2> QED
    BY <1>9, <1>10, <2>2, <2>3 DEF Inside
<1>21. Hosted'
  <2>1. ASSUME NEW k \in DOMAIN rooms
        PROVE  \E t \in room'[k + 1].sessions : playerName[t] = room'[k + 1].hostId
    <3>1. k + 1 \in DOMAIN room /\ room'[k + 1].hostId = room[k + 1].hostId
          /\ room[k + 1].sessions \subseteq room'[k + 1].sessions
      BY <1>7, <1>9 DEF IInv, RoomsTyped
    <3>2. \A g \in Handlers : g # Recv(s) => pc[g] \notin {"add", "dismiss", "unlist"}
      BY <1>11
    <3>3. \/ \E t \in room[k + 1].sessions : playerName[t] = room[k + 1].hostId
          \/ r = k + 1 /\ playerName[s] = room[k + 1].hostId
      BY <1>1, <1>2, <3>2, Apart DEF IInv, Hosted
    <3> QED
      BY <1>7, <1>9, <3>1, <3>3
  <2> QED
    BY <1>1, <2>1 DEF Hosted
<1>22. Named'
  BY <1>1, <1>11, Apart DEF IInv, Named, Holders, Gone
<1>23. Alone'
  BY <1>11
<1> QED
  BY <1>12, <1>13, <1>14, <1>15, <1>16, <1>17, <1>18, <1>19, <1>20, <1>21, <1>22, <1>23 DEF IInv

(* S_ROOM_LOBBY brings the client to its room. *)
LEMMA AnswerKeeps == ASSUME IInv, NEW s \in Sessions, Answer(s) PROVE IInv'
<1>1. /\ UNCHANGED <<registry, playerIdList, room, player, local, crash>>
      /\ pc[Recv(s)] = "answer" /\ Finish(s)
  BY DEF Answer
<1>2. screen[s] = "lobby" /\ pc[Disc(s)] = "idle"
  BY <1>1 DEF IInv, Requests
<1>3. /\ screen' \in [Sessions -> {"login", "lobby", "room"}] /\ screen'[s] = "room"
      /\ \A t \in Sessions : t # s => screen'[t] = screen[t]
  BY DEF Answer, IInv, FieldsTyped
<1>4. /\ pc' \in [Handlers -> RecvSteps \cup DiscSteps] /\ pc'[Recv(s)] = "idle"
      /\ \A g \in Handlers : g # Recv(s) => pc'[g] = pc[g] /\ pc[g] \in {"idle", "done"}
      /\ Alone'
  <2>1. "idle" \in RecvSteps \cup DiscSteps /\ Recv(s) \in Handlers
    BY Apart DEF RecvSteps
  <2> QED
    BY <1>1, <2>1, Moves DEF IInv, Finish
<1>5. /\ request'[s] = <<"none">> /\ \A t \in Sessions : t # s => request'[t] = request[t]
      /\ request' \in [Sessions -> Asked] /\ request'[s][1] = "none"
  BY <1>1 DEF IInv, FieldsTyped, Finish, Asked
<1>6. FieldsTyped'
  <2>1. \A t \in Sessions : pc'[Recv(t)] \in RecvSteps /\ pc'[Disc(t)] \in DiscSteps
    BY <1>4, Apart DEF IInv, FieldsTyped, RecvSteps
  <2> QED
    BY <1>1, <1>3, <1>4, <1>5, <2>1 DEF IInv, FieldsTyped
<1>7. RoomsTyped'
  BY <1>1, <1>4, Apart DEF IInv, RoomsTyped, Made
<1>8. Bounded'
  <2>1. Creating' \subseteq Creating
    BY <1>4, <1>5, Apart DEF Creating
  <2> QED
    BY <1>1, <2>1, BoundKept DEF IInv
<1>9. KnownRooms'
  BY <1>1, <1>5 DEF IInv, KnownRooms, Made
<1>10. Requests'
  BY <1>1, <1>2, <1>3, <1>4, <1>5, Apart DEF IInv, Requests
<1>11. Shown'
  <2>1. currentRoom[s] # NoRoom
    BY <1>1, Apart DEF IInv, AtWork
  <2> QED
    BY <1>1, <1>2, <1>3, <1>4, <2>1, Apart DEF IInv, Shown
<1>12. Entered'
  BY <1>1, <1>4, Apart DEF IInv, Entered
<1>13. AtWork'
  BY <1>1, <1>4 DEF IInv, AtWork, Made
<1>14. Inside'
  BY <1>1, <1>4, Apart DEF IInv, Inside, Leaving
<1>15. Hosted' /\ Named'
  BY <1>1, <1>4, Apart DEF IInv, Hosted, Named, Holders, Gone
<1> QED
  BY <1>4, <1>6, <1>7, <1>8, <1>9, <1>10, <1>11, <1>12, <1>13, <1>14, <1>15 DEF IInv

(* Handle_C_EXIT_GAME: a session in no room is ignored. *)
LEMMA ExitKeeps == ASSUME IInv, NEW s \in Sessions, Exit(s) PROVE IInv'
<1>1. /\ UNCHANGED <<registry, playerIdList, room, player, screen, crash>> /\ pc[Recv(s)] = "exit"
  BY DEF Exit
<1>2. CASE Finish(s) /\ UNCHANGED local
  BY <1>1, <1>2, IgnoredKeeps
<1>3. ASSUME currentRoom[s] # NoRoom, SetLocal(Recv(s), "room", currentRoom[s]),
             Goto(Recv(s), "exitGet"), UNCHANGED request
      PROVE  IInv'
  <2>1. /\ local'[Recv(s)].room = currentRoom[s]
        /\ local' \in [Handlers -> [room : Nat \cup {NoRoom}, snapshot : SUBSET Sessions,
                                    ret : {"done", "exited", "clearRoom"}]]
        /\ \A g \in Handlers : g # Recv(s) => local'[g] = local[g]
    <3>1. currentRoom[s] \in Nat \cup {NoRoom} /\ Recv(s) \in Handlers
      BY Apart DEF IInv, FieldsTyped
    <3> QED
      BY <1>3, <3>1, RoomSet DEF IInv
  <2>2. /\ pc' \in [Handlers -> RecvSteps \cup DiscSteps] /\ pc'[Recv(s)] = "exitGet"
        /\ \A g \in Handlers : g # Recv(s) => pc'[g] = pc[g] /\ pc[g] \in {"idle", "done"}
        /\ Alone'
    <3>1. "exitGet" \in RecvSteps \cup DiscSteps /\ Recv(s) \in Handlers
      BY Apart DEF RecvSteps
    <3> QED
      BY <1>1, <1>3, <3>1, Moves DEF IInv
  <2>3. FieldsTyped'
    <3>1. \A t \in Sessions : pc'[Recv(t)] \in RecvSteps /\ pc'[Disc(t)] \in DiscSteps
      BY <2>2, Apart DEF IInv, FieldsTyped, RecvSteps
    <3>2. UNCHANGED <<currentRoom, playerName, online, screen, request, crash>>
      BY <1>1, <1>3
    <3> QED
      BY <2>1, <2>2, <3>1, <3>2 DEF IInv, FieldsTyped
  <2>4. RoomsTyped'
    BY <1>1, <2>2, Apart DEF IInv, RoomsTyped, Made
  <2>5. Bounded'
    <3>1. Creating' \subseteq Creating
      BY <1>3, <2>2, Apart DEF Creating
    <3> QED
      BY <1>1, <3>1, BoundKept DEF IInv
  <2>6. KnownRooms' /\ Requests'
    BY <1>1, <1>3, <2>2, Apart DEF IInv, KnownRooms, Made, Requests
  <2>7. Shown'
    BY <1>1, <2>2, Apart DEF IInv, Shown
  <2>8. Entered'
    BY <1>1, <2>2, Apart DEF IInv, Entered
  <2>9. AtWork'
    BY <1>1, <1>3, <2>1, <2>2, Apart DEF IInv, AtWork, Made
  <2>10. Inside'
    BY <1>1, <2>1, <2>2, Apart DEF IInv, Inside, Leaving
  <2>11. Hosted'
    BY <1>1, <2>1, <2>2, Apart DEF IInv, Hosted
  <2>12. Named'
    BY <1>1, <2>2, Apart DEF IInv, Named, Holders, Gone
  <2> QED
    BY <2>2, <2>3, <2>4, <2>5, <2>6, <2>7, <2>8, <2>9, <2>10, <2>11, <2>12 DEF IInv
<1> QED
  BY <1>2, <1>3 DEF Exit

(* A session that has a room, and is not on its way out, is in that room,  *)
(* and the room is listed: GetRoom does not return null.                   *)
LEMMA RoomFound ==
    ASSUME IInv, NEW h \in Handlers, pc[h] \in {"exitGet", "discGet", "remove"},
           currentRoom[Of(h)] # NoRoom
    PROVE  LET k == currentRoom[Of(h)]
           IN  /\ k \in DOMAIN rooms /\ k \in Nat /\ rooms[k] = k + 1
               /\ k + 1 \in DOMAIN room /\ Of(h) \in room[k + 1].sessions
<1>1. PICK s \in Sessions : s = Of(h) /\ (h = Recv(s) \/ h = Disc(s))
  BY Apart
<1>2. \A g \in Handlers : g # h => pc[g] \in {"idle", "done"}
  BY OthersRest DEF IInv
<1>3. ~Leaving(s)
  BY <1>1, <1>2, Apart DEF Leaving
<1>4. currentRoom[s] + 1 \in DOMAIN room /\ s \in room[currentRoom[s] + 1].sessions
  BY <1>1, <1>3 DEF IInv, Inside
<1>5. currentRoom[s] \in Nat /\ currentRoom[s] + 1 - 1 = currentRoom[s]
  BY <1>1, Codes DEF IInv
<1>6. currentRoom[s] \in DOMAIN rooms
  BY <1>4, <1>5 DEF IInv, Entered
<1> QED
  BY <1>1, <1>4, <1>5, <1>6 DEF IInv, RoomsTyped

(* Handle_C_EXIT_GAME and OnDisconnected go on to Remove. *)
LEMMA ToRemoveKeeps ==
    ASSUME IInv, NEW h \in Handlers, pc[h] \in {"exitGet", "discGet"}, Goto(h, "remove"),
           currentRoom[Of(h)] # NoRoom,
           local' = [local EXCEPT ![h] = [room |-> rooms[currentRoom[Of(h)]], snapshot |-> {},
                                          ret |-> IF h = Recv(Of(h)) THEN "exited" ELSE "clearRoom"]],
           UNCHANGED <<registry, playerIdList, room, player, client, crash>>
    PROVE  IInv'
<1>1. PICK s \in Sessions : s = Of(h) /\ (h = Recv(s) \/ h = Disc(s))
  BY Apart
<1>2. PICK k \in Nat : /\ k = currentRoom[s] /\ k \in DOMAIN rooms /\ rooms[k] = k + 1
                       /\ k + 1 \in DOMAIN room
  BY <1>1, RoomFound
<1>3. /\ local'[h].room = k + 1 /\ local'[h].ret = IF h = Recv(s) THEN "exited" ELSE "clearRoom"
      /\ local' \in [Handlers -> [room : Nat \cup {NoRoom}, snapshot : SUBSET Sessions,
                                  ret : {"done", "exited", "clearRoom"}]]
      /\ \A g \in Handlers : g # h => local'[g] = local[g]
  <2>1. PICK l : l = [room |-> k + 1, snapshot |-> {},
                      ret |-> IF h = Recv(s) THEN "exited" ELSE "clearRoom"]
    OBVIOUS
  <2>2. local' = [local EXCEPT ![h] = l]
    BY <1>1, <1>2, <2>1
  <2>3. l \in [room : Nat \cup {NoRoom}, snapshot : SUBSET Sessions,
               ret : {"done", "exited", "clearRoom"}]
    BY <2>1
  <2> QED
    BY <2>1, <2>2, <2>3 DEF IInv, FieldsTyped
<1>4. /\ pc' \in [Handlers -> RecvSteps \cup DiscSteps] /\ pc'[h] = "remove"
      /\ \A g \in Handlers : g # h => pc'[g] = pc[g] /\ pc[g] \in {"idle", "done"}
      /\ Alone'
  <2>1. "remove" \in RecvSteps \cup DiscSteps
    BY DEF RecvSteps
  <2> QED
    BY <2>1, Moves DEF IInv
<1>5. FieldsTyped'
  <2>1. \A t \in Sessions : pc'[Recv(t)] \in RecvSteps /\ pc'[Disc(t)] \in DiscSteps
    BY <1>4, Apart DEF IInv, FieldsTyped, RecvSteps, DiscSteps
  <2> QED
    BY <1>3, <1>4, <2>1 DEF IInv, FieldsTyped
<1>6. RoomsTyped' /\ KnownRooms'
  BY <1>4, Apart DEF IInv, RoomsTyped, Made, KnownRooms
<1>7. Bounded'
  <2>1. Creating' \subseteq Creating
    BY <1>4, Apart DEF Creating
  <2> QED
    BY <2>1, BoundKept DEF IInv
<1>8. Requests'
  <2>1. h = Recv(s) => pc[h] = "exitGet"
    BY <1>1, Apart DEF IInv, FieldsTyped, RecvSteps
  <2> QED
    BY <1>1, <1>3, <1>4, <2>1, Apart DEF IInv, Requests
<1>9. Shown'
  BY <1>1, <1>4, Apart DEF IInv, Shown
<1>10. Entered'
  BY <1>1, <1>4, Apart DEF IInv, Entered
<1>11. AtWork'
  BY <1>1, <1>2, <1>3, <1>4 DEF IInv, AtWork, Made
<1>12. Inside'
  <2>1. \A t \in Sessions : ~Leaving(t)
    BY <1>4, Apart DEF Leaving
  <2> QED
    BY <2>1 DEF IInv, Inside
<1>13. Hosted'
  <2>1. \A g \in Handlers : pc[g] \notin {"add", "dismiss", "unlist"}
    BY <1>4
  <2>2. ASSUME NEW k1 \in DOMAIN rooms
        PROVE  \E t \in room[k1 + 1].sessions : playerName[t] = room[k1 + 1].hostId
    BY <2>1, Apart DEF IInv, Hosted
  <2> QED
    BY <2>2 DEF Hosted
<1>14. Named'
  BY <1>4, Apart DEF IInv, Named, Holders, Gone
<1> QED
  BY <1>4, <1>5, <1>6, <1>7, <1>8, <1>9, <1>10, <1>11, <1>12, <1>13, <1>14 DEF IInv

(* Handle_C_EXIT_GAME: the room is there. *)
LEMMA ExitGetKeeps == ASSUME IInv, NEW s \in Sessions, ExitGet(s) PROVE IInv'
<1>1. pc[Recv(s)] = "exitGet" /\ UNCHANGED <<registry, playerIdList, room, player, client>>
  BY DEF ExitGet
<1>2. local[Recv(s)].room = currentRoom[s] /\ currentRoom[s] # NoRoom
  BY <1>1, Apart DEF IInv, AtWork
<1>3. currentRoom[s] \in DOMAIN rooms
  BY <1>1, <1>2, RoomFound, Apart
<1>4. /\ local' = [local EXCEPT ![Recv(s)] = [room |-> rooms[currentRoom[s]], snapshot |-> {},
                                              ret |-> "exited"]]
      /\ Goto(Recv(s), "remove") /\ UNCHANGED crash
  BY <1>2, <1>3 DEF ExitGet
<1> QED
  BY <1>1, <1>2, <1>4, ToRemoveKeeps, Apart

(* S_ROOM_EXIT brings the client back to the lobby. *)
LEMMA ExitedKeeps == ASSUME IInv, NEW s \in Sessions, Exited(s) PROVE IInv'
<1>1. /\ UNCHANGED <<registry, playerIdList, room, playerName, online, local, crash>>
      /\ pc[Recv(s)] = "exited" /\ Finish(s)
  BY DEF Exited
<1>2. /\ currentRoom' \in [Sessions -> Nat \cup {NoRoom}] /\ currentRoom'[s] = NoRoom
      /\ \A t \in Sessions : t # s => currentRoom'[t] = currentRoom[t]
      /\ screen' \in [Sessions -> {"login", "lobby", "room"}] /\ screen'[s] = "lobby"
      /\ \A t \in Sessions : t # s => screen'[t] = screen[t]
  BY DEF Exited, IInv, FieldsTyped
<1>3. /\ pc' \in [Handlers -> RecvSteps \cup DiscSteps] /\ pc'[Recv(s)] = "idle"
      /\ \A g \in Handlers : g # Recv(s) => pc'[g] = pc[g] /\ pc[g] \in {"idle", "done"}
      /\ Alone'
  <2>1. "idle" \in RecvSteps \cup DiscSteps /\ Recv(s) \in Handlers
    BY Apart DEF RecvSteps
  <2> QED
    BY <1>1, <2>1, Moves DEF IInv, Finish
<1>4. /\ request'[s] = <<"none">> /\ \A t \in Sessions : t # s => request'[t] = request[t]
      /\ request' \in [Sessions -> Asked] /\ request'[s][1] = "none"
  BY <1>1 DEF IInv, FieldsTyped, Finish, Asked
<1>5. FieldsTyped'
  <2>1. \A t \in Sessions : pc'[Recv(t)] \in RecvSteps /\ pc'[Disc(t)] \in DiscSteps
    BY <1>3, Apart DEF IInv, FieldsTyped, RecvSteps, DiscSteps
  <2> QED
    BY <1>1, <1>2, <1>3, <1>4, <2>1 DEF IInv, FieldsTyped
<1>6. RoomsTyped'
  BY <1>1, <1>3, Apart DEF IInv, RoomsTyped, Made
<1>7. Bounded'
  <2>1. Creating' \subseteq Creating
    BY <1>3, <1>4, Apart DEF Creating
  <2> QED
    BY <1>1, <2>1, BoundKept DEF IInv
<1>8. KnownRooms'
  BY <1>1, <1>2, <1>4 DEF IInv, KnownRooms, Made
<1>9. Requests'
  BY <1>1, <1>2, <1>3, <1>4, Apart DEF IInv, Requests
<1>10. Shown'
  BY <1>1, <1>2, <1>3, Apart DEF IInv, Shown
<1>11. Entered'
  BY <1>1, <1>2, <1>3, Apart DEF IInv, Entered
<1>12. AtWork'
  BY <1>1, <1>3 DEF IInv, AtWork, Made
<1>13. Inside'
  BY <1>1, <1>2, <1>3, Apart DEF IInv, Inside, Leaving
<1>14. Hosted' /\ Named'
  BY <1>1, <1>3, Apart DEF IInv, Hosted, Named, Holders, Gone
<1> QED
  BY <1>3, <1>5, <1>6, <1>7, <1>8, <1>9, <1>10, <1>11, <1>12, <1>13, <1>14 DEF IInv

(* GameSession::OnDisconnected reads the current room. *)
LEMMA DisconnectedKeeps == ASSUME IInv, NEW s \in Sessions, Disconnected(s) PROVE IInv'
<1>1. /\ pc[Disc(s)] = "disconnected"
      /\ UNCHANGED <<registry, playerIdList, room, player, client, local, crash>>
  BY DEF Disconnected
<1>2. PICK l \in {"freeName", "discGet"} : /\ Goto(Disc(s), l)
                                           /\ l = "freeName" => currentRoom[s] = NoRoom
                                           /\ l = "discGet" => currentRoom[s] # NoRoom
  BY DEF Disconnected
<1>3. /\ pc' \in [Handlers -> RecvSteps \cup DiscSteps] /\ pc'[Disc(s)] = l
      /\ \A g \in Handlers : g # Disc(s) => pc'[g] = pc[g] /\ pc[g] \in {"idle", "done"}
      /\ Alone'
  <2>1. l \in RecvSteps \cup DiscSteps /\ Disc(s) \in Handlers
    BY Apart DEF DiscSteps
  <2> QED
    BY <1>1, <1>2, <2>1, Moves DEF IInv
<1>4. FieldsTyped'
  <2>1. \A t \in Sessions : pc'[Recv(t)] \in RecvSteps /\ pc'[Disc(t)] \in DiscSteps
    BY <1>3, Apart DEF IInv, FieldsTyped, RecvSteps, DiscSteps
  <2> QED
    BY <1>1, <1>3, <2>1 DEF IInv, FieldsTyped
<1>5. RoomsTyped' /\ KnownRooms'
  BY <1>1, <1>3, Apart DEF IInv, RoomsTyped, Made, KnownRooms
<1>6. Bounded'
  <2>1. Creating' \subseteq Creating
    BY <1>1, <1>3, Apart DEF Creating
  <2> QED
    BY <1>1, <2>1, BoundKept DEF IInv
<1>7. Requests'
  BY <1>1, <1>3, Apart DEF IInv, Requests
<1>8. Shown'
  BY <1>1, <1>2, <1>3, Apart DEF IInv, Shown
<1>9. Entered'
  <2>1. \A r \in DOMAIN room : r - 1 # NoRoom
    BY RoomsAssumption DEF IInv, RoomsTyped
  <2> QED
    BY <1>1, <1>2, <1>3, <2>1, Apart DEF IInv, Entered
<1>10. AtWork'
  BY <1>1, <1>2, <1>3, Apart DEF IInv, AtWork, Made
<1>11. Inside'
  BY <1>1, <1>3, Apart DEF IInv, Inside, Leaving
<1>12. Hosted' /\ Named'
  BY <1>1, <1>3, Apart DEF IInv, Hosted, Named, Holders, Gone
<1> QED
  BY <1>3, <1>4, <1>5, <1>6, <1>7, <1>8, <1>9, <1>10, <1>11, <1>12 DEF IInv

(* OnDisconnected finds the room: it is listed. *)
LEMMA DiscGetKeeps == ASSUME IInv, NEW s \in Sessions, DiscGet(s) PROVE IInv'
<1>1. pc[Disc(s)] = "discGet" /\ UNCHANGED <<registry, playerIdList, room, player, client, crash>>
  BY DEF DiscGet
<1>2. currentRoom[s] # NoRoom
  BY <1>1, Apart DEF IInv, AtWork
<1>3. currentRoom[s] \in DOMAIN rooms
  BY <1>1, <1>2, RoomFound, Apart
<1>4. /\ local' = [local EXCEPT ![Disc(s)] = [room |-> rooms[currentRoom[s]], snapshot |-> {},
                                              ret |-> "clearRoom"]]
      /\ Goto(Disc(s), "remove")
  BY <1>3 DEF DiscGet, LeaveRoom
<1> QED
  BY <1>1, <1>2, <1>4, ToRemoveKeeps, Apart

(* OnDisconnected forgets the room it has left. *)
LEMMA ClearRoomKeeps == ASSUME IInv, NEW s \in Sessions, ClearRoom(s) PROVE IInv'
<1>1. /\ UNCHANGED <<registry, playerIdList, room, playerName, online, client, local, crash>>
      /\ pc[Disc(s)] = "clearRoom" /\ Goto(Disc(s), "freeName")
  BY DEF ClearRoom
<1>2. /\ currentRoom' \in [Sessions -> Nat \cup {NoRoom}] /\ currentRoom'[s] = NoRoom
      /\ \A t \in Sessions : t # s => currentRoom'[t] = currentRoom[t]
  BY DEF ClearRoom, IInv, FieldsTyped
<1>3. /\ pc' \in [Handlers -> RecvSteps \cup DiscSteps] /\ pc'[Disc(s)] = "freeName"
      /\ \A g \in Handlers : g # Disc(s) => pc'[g] = pc[g] /\ pc[g] \in {"idle", "done"}
      /\ Alone'
  <2>1. "freeName" \in RecvSteps \cup DiscSteps /\ Disc(s) \in Handlers
    BY Apart DEF DiscSteps
  <2> QED
    BY <1>1, <2>1, Moves DEF IInv
<1>4. FieldsTyped'
  <2>1. \A t \in Sessions : pc'[Recv(t)] \in RecvSteps /\ pc'[Disc(t)] \in DiscSteps
    BY <1>3, Apart DEF IInv, FieldsTyped, RecvSteps, DiscSteps
  <2> QED
    BY <1>1, <1>2, <1>3, <2>1 DEF IInv, FieldsTyped
<1>5. RoomsTyped'
  BY <1>1, <1>3, Apart DEF IInv, RoomsTyped, Made
<1>6. Bounded'
  <2>1. Creating' \subseteq Creating
    BY <1>1, <1>3, Apart DEF Creating
  <2> QED
    BY <1>1, <2>1, BoundKept DEF IInv
<1>7. KnownRooms'
  BY <1>1, <1>2 DEF IInv, KnownRooms, Made
<1>8. Requests'
  BY <1>1, <1>3, Apart DEF IInv, Requests
<1>9. Shown'
  BY <1>1, <1>2, <1>3, Apart DEF IInv, Shown
<1>10. Entered'
  BY <1>1, <1>2, <1>3, Apart DEF IInv, Entered
<1>11. AtWork'
  BY <1>1, <1>3 DEF IInv, AtWork, Made
<1>12. Inside'
  BY <1>1, <1>2, <1>3, Apart DEF IInv, Inside, Leaving
<1>13. Hosted' /\ Named'
  BY <1>1, <1>3, Apart DEF IInv, Hosted, Named, Holders, Gone
<1> QED
  BY <1>3, <1>4, <1>5, <1>6, <1>7, <1>8, <1>9, <1>10, <1>11, <1>12, <1>13 DEF IInv

(* OnDisconnected gives the player id up: nobody else has it. *)
LEMMA FreeNameKeeps == ASSUME IInv, NEW s \in Sessions, FreeName(s) PROVE IInv'
<1>1. /\ UNCHANGED <<registry, room, player, client, local, crash>>
      /\ pc[Disc(s)] = "freeName" /\ Goto(Disc(s), "sessionRemove")
      /\ playerIdList' = playerIdList \ {playerName[s]}
  BY DEF FreeName
<1>2. /\ pc' \in [Handlers -> RecvSteps \cup DiscSteps] /\ pc'[Disc(s)] = "sessionRemove"
      /\ \A g \in Handlers : g # Disc(s) => pc'[g] = pc[g] /\ pc[g] \in {"idle", "done"}
      /\ Alone'
  <2>1. "sessionRemove" \in RecvSteps \cup DiscSteps /\ Disc(s) \in Handlers
    BY Apart DEF DiscSteps
  <2> QED
    BY <1>1, <2>1, Moves DEF IInv
<1>3. FieldsTyped'
  <2>1. \A t \in Sessions : pc'[Recv(t)] \in RecvSteps /\ pc'[Disc(t)] \in DiscSteps
    BY <1>2, Apart DEF IInv, FieldsTyped, RecvSteps, DiscSteps
  <2> QED
    BY <1>1, <1>2, <2>1 DEF IInv, FieldsTyped
<1>4. RoomsTyped' /\ KnownRooms'
  BY <1>1, <1>2, Apart DEF IInv, RoomsTyped, Made, KnownRooms
<1>5. Bounded'
  <2>1. Creating' \subseteq Creating
    BY <1>1, <1>2, Apart DEF Creating
  <2> QED
    BY <1>1, <2>1, BoundKept DEF IInv
<1>6. Requests'
  BY <1>1, <1>2, Apart DEF IInv, Requests
<1>7. Shown' /\ Entered'
  BY <1>1, <1>2, Apart DEF IInv, Shown, Entered
<1>8. AtWork'
  BY <1>1, <1>2 DEF IInv, AtWork, Made
<1>9. Inside' /\ Hosted'
  BY <1>1, <1>2, Apart DEF IInv, Inside, Leaving, Hosted
<1>10. Named'
  <2>1. Holders' = Holders \ {s} /\ s \in Holders
    BY <1>1, <1>2, Apart DEF Holders
  <2>2. \A t \in Holders' : playerName[t] = playerName[s] => playerName[t] = NoName
    BY <1>1, <2>1 DEF IInv, Named, Holders, Gone
  <2>3. playerIdList' = {playerName[t] : t \in Holders'} \ {NoName}
    BY <1>1, <2>1, <2>2 DEF IInv, Named
  <2>4. \A t \in Sessions : ~Gone(t)' => ~Gone(t)
    BY <1>1, <1>2, Apart DEF Gone
  <2>5. \A t, u \in Sessions : /\ t # u /\ ~Gone(t)' /\ ~Gone(u)'
                               /\ playerName'[t] = playerName'[u]
                               => playerName'[t] = NoName
    BY <1>1, <2>4 DEF IInv, Named
  <2>6. playerIdList' = {playerName'[t] : t \in Holders'} \ {NoName}
    BY <1>1, <2>3
  <2> QED
    BY <2>5, <2>6 DEF Named
<1> QED
  BY <1>2, <1>3, <1>4, <1>5, <1>6, <1>7, <1>8, <1>9, <1>10 DEF IInv

(* GameSessionManager::Remove finds the session in no room. *)
LEMMA SessionRemoveKeeps == ASSUME IInv, NEW s \in Sessions, SessionRemove(s) PROVE IInv'
<1>1. /\ UNCHANGED <<registry, playerIdList, room, currentRoom, playerName, client, local, crash>>
      /\ pc[Disc(s)] = "sessionRemove" /\ online' = online \ {s}
  BY DEF SessionRemove
<1>2. Goto(Disc(s), "done")
  BY <1>1 DEF SessionRemove, IInv, Shown
<1>3. /\ pc' \in [Handlers -> RecvSteps \cup DiscSteps] /\ pc'[Disc(s)] = "done"
      /\ \A g \in Handlers : g # Disc(s) => pc'[g] = pc[g] /\ pc[g] \in {"idle", "done"}
      /\ Alone'
  <2>1. "done" \in RecvSteps \cup DiscSteps /\ Disc(s) \in Handlers
    BY Apart DEF DiscSteps
  <2> QED
    BY <1>1, <1>2, <2>1, Moves DEF IInv
<1>4. FieldsTyped'
  <2>1. \A t \in Sessions : pc'[Recv(t)] \in RecvSteps /\ pc'[Disc(t)] \in DiscSteps
    BY <1>3, Apart DEF IInv, FieldsTyped, RecvSteps, DiscSteps
  <2> QED
    BY <1>1, <1>3, <2>1 DEF IInv, FieldsTyped
<1>5. RoomsTyped' /\ KnownRooms'
  BY <1>1, <1>3, Apart DEF IInv, RoomsTyped, Made, KnownRooms
<1>6. Bounded'
  <2>1. Creating' \subseteq Creating
    BY <1>1, <1>3, Apart DEF Creating
  <2> QED
    BY <1>1, <2>1, BoundKept DEF IInv
<1>7. Requests'
  BY <1>1, <1>3, Apart DEF IInv, Requests
<1>8. Shown' /\ Entered'
  BY <1>1, <1>3, Apart DEF IInv, Shown, Entered
<1>9. AtWork'
  BY <1>1, <1>3 DEF IInv, AtWork, Made
<1>10. Inside' /\ Hosted'
  BY <1>1, <1>3, Apart DEF IInv, Inside, Leaving, Hosted
<1>11. Named'
  BY <1>1, <1>3, Apart DEF IInv, Named, Holders, Gone
<1> QED
  BY <1>3, <1>4, <1>5, <1>6, <1>7, <1>8, <1>9, <1>10, <1>11 DEF IInv

(* GameSessionManager::Remove has no room to leave. *)
LEMMA SessionGetKeeps == ASSUME IInv, NEW s \in Sessions, SessionGet(s) PROVE IInv'
  BY DEF SessionGet, IInv, FieldsTyped, DiscSteps

-----------------------------------------------------------------------------
(***************************************************************************)
(* Room::Remove, in the receive handler and in the disconnect handler.     *)
(***************************************************************************)
(* Where it returns to. *)
LEMMA Returns ==
    ASSUME IInv, NEW h \in Handlers, pc[h] \in {"remove", "dismiss", "unlist"}
    PROVE  local[h].ret = IF h = Recv(Of(h)) THEN "exited" ELSE "clearRoom"
  BY Apart DEF IInv, Requests

(* A handler in Room::Remove has one step to go after another. *)
LEMMA RemoveMoves ==
    ASSUME IInv, NEW h \in Handlers, pc[h] \in {"remove", "dismiss", "unlist"},
           NEW l, l \in {"dismiss", "unlist"} \/ l = local[h].ret, Goto(h, l)
    PROVE  /\ pc' \in [Handlers -> RecvSteps \cup DiscSteps] /\ pc'[h] = l
           /\ \A g \in Handlers : g # h => pc'[g] = pc[g] /\ pc[g] \in {"idle", "done"}
           /\ Alone'
           /\ \A t \in Sessions : pc'[Recv(t)] \in RecvSteps /\ pc'[Disc(t)] \in DiscSteps
           /\ l \in {"dismiss", "unlist", IF h = Recv(Of(h)) THEN "exited" ELSE "clearRoom"}
<1>1. l \in {"dismiss", "unlist", IF h = Recv(Of(h)) THEN "exited" ELSE "clearRoom"}
  BY Returns
<1>2. /\ pc' \in [Handlers -> RecvSteps \cup DiscSteps] /\ pc'[h] = l
      /\ \A g \in Handlers : g # h => pc'[g] = pc[g] /\ pc[g] \in {"idle", "done"}
      /\ Alone'
  <2>1. l \in RecvSteps \cup DiscSteps
    BY <1>1 DEF RecvSteps, DiscSteps
  <2> QED
    BY <2>1, Moves DEF IInv
<1>3. \A t \in Sessions : pc'[Recv(t)] \in RecvSteps /\ pc'[Disc(t)] \in DiscSteps
  BY <1>1, <1>2, Apart DEF IInv, FieldsTyped, RecvSteps, DiscSteps
<1> QED
  BY <1>1, <1>2, <1>3

(* What SetLocal does to the snapshot. *)
LEMMA SnapshotSet ==
    ASSUME FieldsTyped, NEW h \in Handlers, NEW v \in SUBSET Sessions, SetLocal(h, "snapshot", v)
    PROVE  /\ local'[h].snapshot = v /\ local'[h].ret = local[h].ret
           /\ local'[h].room = local[h].room
           /\ local' \in [Handlers -> [room : Nat \cup {NoRoom}, snapshot : SUBSET Sessions,
                                       ret : {"done", "exited", "clearRoom"}]]
           /\ \A g \in Handlers : g # h => local'[g] = local[g]
<1>1. local[h] \in [room : Nat \cup {NoRoom}, snapshot : SUBSET Sessions,
                    ret : {"done", "exited", "clearRoom"}]
  BY DEF FieldsTyped
<1>2. PICK l : l = [local[h] EXCEPT !.snapshot = v]
  OBVIOUS
<1>3. /\ l.snapshot = v /\ l.ret = local[h].ret /\ l.room = local[h].room
      /\ l \in [room : Nat \cup {NoRoom}, snapshot : SUBSET Sessions,
                ret : {"done", "exited", "clearRoom"}]
  BY <1>1, <1>2
<1>4. local' = [local EXCEPT ![h] = l]
  BY <1>2 DEF SetLocal
<1> QED
  BY <1>3, <1>4 DEF FieldsTyped

(* The room a handler in Room::Remove works on. *)
LEMMA RoomAtWork ==
    ASSUME IInv, NEW h \in Handlers, pc[h] \in {"remove", "dismiss", "unlist"}
    PROVE  \E k \in Nat : /\ k = currentRoom[Of(h)] /\ k # NoRoom /\ k \in DOMAIN rooms
                          /\ rooms[k] = k + 1 /\ local[h].room = k + 1
                          /\ k + 1 \in DOMAIN room /\ room[k + 1] \in RoomData
                          /\ room[k + 1].id = k
                          /\ room[k + 1].playerCount = Cardinality(room[k + 1].sessions)
<1>1. PICK k : k = currentRoom[Of(h)]
  OBVIOUS
<1>2. k \in DOMAIN rooms /\ local[h].room = k + 1
  BY <1>1 DEF IInv, AtWork
<1>3. k \in Nat /\ k + 1 \in DOMAIN room /\ rooms[k] = k + 1
  BY <1>2 DEF IInv, RoomsTyped
<1>4. k # NoRoom /\ (k + 1) - 1 = k
  BY <1>3, RoomsAssumption
<1> QED
  BY <1>1, <1>2, <1>3, <1>4 DEF IInv, RoomsTyped

(* The critical section: the session is in the room, and the room ends     *)
(* with nobody left or without its host.                                   *)
LEMMA RemoveKeeps == ASSUME IInv, NEW h \in Handlers, Remove(h) PROVE IInv'
<1>1. PICK s \in Sessions : s = Of(h) /\ (h = Recv(s) \/ h = Disc(s))
  BY Apart
<1>2. pc[h] = "remove" /\ UNCHANGED <<registry, playerIdList, player, client, crash>>
  BY DEF Remove
<1>3. PICK k \in Nat : /\ k = currentRoom[s] /\ k # NoRoom /\ k \in DOMAIN rooms
                       /\ rooms[k] = k + 1 /\ local[h].room = k + 1
                       /\ k + 1 \in DOMAIN room /\ room[k + 1] \in RoomData
                       /\ room[k + 1].id = k
                       /\ room[k + 1].playerCount = Cardinality(room[k + 1].sessions)
  BY <1>1, <1>2, RoomAtWork
<1>4. PICK r \in DOMAIN room : r = k + 1
  BY <1>3
<1>5. s \in room[r].sessions
  BY <1>1, <1>2, <1>3, <1>4, RoomFound
<1>6. PICK left \in SUBSET Sessions : left = room[r].sessions \ {s}
  BY <1>3, <1>4 DEF RoomData
<1>7. Cardinality(left) = room[r].playerCount - 1 /\ Cardinality(left) \in Nat
  <2>1. IsFiniteSet(room[r].sessions)
    BY <1>3, <1>4, SessionsAssumption, FS_Subset DEF RoomData
  <2>2. IsFiniteSet(left) /\ Cardinality(left) = Cardinality(room[r].sessions) - 1
    BY <1>5, <1>6, <2>1, FS_RemoveElement
  <2> QED
    BY <1>3, <1>4, <2>2, FS_CardinalityType
<1>8. PICK closes \in BOOLEAN : closes <=> Closes(r, s, Cardinality(left))
  BY DEF Closes
<1>9. PICK sessions \in SUBSET Sessions : sessions = IF closes THEN {} ELSE left
  OBVIOUS
<1>10. PICK new : new = [room[r] EXCEPT !.sessions = sessions, !.playerCount = Cardinality(sessions)]
  OBVIOUS
<1>11. Cardinality(sessions) = IF closes THEN 0 ELSE Cardinality(left)
  BY <1>9, FS_EmptySet
<1>12. /\ room' = [room EXCEPT ![r] = new] /\ SetLocal(h, "snapshot", left)
       /\ IF closes THEN Goto(h, "dismiss") ELSE Return(h)
  BY <1>1, <1>3, <1>4, <1>5, <1>6, <1>7, <1>8, <1>9, <1>10, <1>11 DEF Remove
<1>13. /\ new \in RoomData /\ new.id = k /\ new.hostId = room[r].hostId
       /\ new.sessions = sessions /\ new.playerCount = Cardinality(sessions)
  <2>1. PICK count \in Nat : count = Cardinality(sessions)
    BY <1>7, <1>11
  <2> QED
    BY <1>3, <1>4, <1>10, <2>1 DEF RoomData
<1>14. /\ DOMAIN room' = DOMAIN room /\ room'[r] = new
       /\ \A i \in DOMAIN room : i # r => room'[i] = room[i]
  BY <1>12
<1>15. /\ local'[h].snapshot = left /\ local'[h].ret = local[h].ret
       /\ local'[h].room = local[h].room
       /\ local' \in [Handlers -> [room : Nat \cup {NoRoom}, snapshot : SUBSET Sessions,
                                   ret : {"done", "exited", "clearRoom"}]]
       /\ \A g \in Handlers : g # h => local'[g] = local[g]
  BY <1>12, SnapshotSet DEF IInv
<1>16. PICK l : Goto(h, l) /\ l = IF closes THEN "dismiss" ELSE local[h].ret
  BY <1>12 DEF Return
<1>17. /\ pc' \in [Handlers -> RecvSteps \cup DiscSteps] /\ pc'[h] = l
       /\ \A g \in Handlers : g # h => pc'[g] = pc[g] /\ pc[g] \in {"idle", "done"}
       /\ Alone'
       /\ \A t \in Sessions : pc'[Recv(t)] \in RecvSteps /\ pc'[Disc(t)] \in DiscSteps
  <2>1. l \in {"dismiss", "unlist"} \/ l = local[h].ret
    BY <1>16
  <2> QED
    BY <1>2, <1>16, <2>1, RemoveMoves
<1>18. IF closes THEN l = "dismiss" ELSE l = IF h = Recv(s) THEN "exited" ELSE "clearRoom"
  BY <1>1, <1>2, <1>16, Returns
<1>19. FieldsTyped'
  BY <1>2, <1>15, <1>17 DEF IInv, FieldsTyped
<1>20. RoomsTyped'
  <2>1. Made' = Made
    BY <1>14 DEF Made
  <2>2. \A i \in DOMAIN room' :
          /\ room'[i] \in RoomData /\ room'[i].id = i - 1
          /\ room'[i].playerCount = Cardinality(room'[i].sessions)
    BY <1>3, <1>4, <1>13, <1>14 DEF IInv, RoomsTyped
  <2>3. \A t \in Sessions : pc'[Recv(t)] # "addRoom" /\ pc[Recv(t)] # "addRoom"
    BY <1>1, <1>2, <1>17, <1>18, Apart
  <2> QED
    BY <1>2, <1>14, <2>1, <2>2, <2>3 DEF IInv, RoomsTyped
<1>21. Bounded'
  <2>1. Creating' \subseteq Creating
    BY <1>1, <1>2, <1>17, <1>18, Apart DEF Creating
  <2> QED
    BY <1>14, <2>1, BoundKept DEF IInv
<1>22. KnownRooms'
  BY <1>2, <1>14 DEF IInv, KnownRooms, Made
<1>23. Requests'
  BY <1>1, <1>2, <1>15, <1>17, <1>18, Apart DEF IInv, Requests
<1>24. Shown'
  BY <1>1, <1>2, <1>17, <1>18, Apart DEF IInv, Shown
<1>25. Entered'
  <2>1. \A i \in DOMAIN room : room'[i].sessions \subseteq room[i].sessions
    BY <1>6, <1>9, <1>13, <1>14
  <2>2. \A i \in DOMAIN room : s \notin room'[i].sessions
    <3>1. \A i \in DOMAIN room : s \in room[i].sessions => i = r
      BY <1>3, <1>4 DEF IInv, Entered, RoomsTyped
    <3> QED
      BY <1>6, <1>9, <1>13, <2>1, <3>1, <1>14
  <2>3. ASSUME NEW i \in DOMAIN room, NEW t \in Sessions, t \in room'[i].sessions
        PROVE  /\ currentRoom[t] = i - 1 /\ i - 1 \in DOMAIN rooms
               /\ pc'[Disc(t)] \in {"idle", "disconnected", "discGet", "remove"}
               /\ pc'[Recv(t)] \notin {"dismiss", "unlist", "exited"}
    <3>1. t # s /\ t \in room[i].sessions
      BY <2>1, <2>2, <2>3
    <3>2. Disc(t) # h /\ Recv(t) # h
      BY <1>1, <3>1, Apart
    <3> QED
      BY <1>17, <3>1, <3>2, Apart DEF IInv, Entered
  <2> QED
    BY <1>2, <1>14, <2>3 DEF Entered
<1>26. AtWork'
  <2>1. \A t \in left : currentRoom[t] = k /\ t # s
    BY <1>3, <1>4, <1>6 DEF IInv, Entered
  <2>2. closes => room'[k + 1].sessions = {}
    BY <1>4, <1>9, <1>13, <1>14
  <2> QED
    BY <1>1, <1>2, <1>3, <1>15, <1>17, <1>18, <2>1, <2>2 DEF AtWork
<1>27. Inside'
  <2>1. \A t \in Sessions : ~Leaving(t)
    BY <1>2, <1>17, Apart DEF Leaving
  <2>2. Leaving(s)'
    BY <1>1, <1>17, <1>18 DEF Leaving
  <2>3. \A t \in left : closes => Leaving(t)'
    BY <1>15, <1>17, <1>18 DEF Leaving
  <2>4. ASSUME NEW t \in Sessions, currentRoom[t] # NoRoom
        PROVE  \/ Leaving(t)'
               \/ currentRoom[t] + 1 \in DOMAIN room' /\ t \in room'[currentRoom[t] + 1].sessions
    <3>1. currentRoom[t] + 1 \in DOMAIN room /\ t \in room[currentRoom[t] + 1].sessions
      BY <2>1, <2>4 DEF IInv, Inside
    <3>2. CASE currentRoom[t] + 1 = r
      BY <1>6, <1>9, <1>13, <1>14, <2>2, <2>3, <3>1, <3>2
    <3>3. CASE currentRoom[t] + 1 # r
      BY <1>14, <3>1, <3>3
    <3> QED
      BY <3>2, <3>3
  <2> QED
    BY <1>2, <2>4 DEF Inside
<1>28. Hosted'
  <2>1. \A g \in Handlers : pc[g] \notin {"add", "dismiss", "unlist"}
    BY <1>2, <1>17
  <2>2. ASSUME NEW k1 \in DOMAIN rooms
        PROVE  \E t \in room[k1 + 1].sessions : playerName[t] = room[k1 + 1].hostId
    BY <2>1, Apart DEF IInv, Hosted
  <2>3. ASSUME NEW k1 \in DOMAIN rooms
        PROVE  \/ \E t \in room'[k1 + 1].sessions : playerName[t] = room'[k1 + 1].hostId
               \/ \E g \in Handlers : pc'[g] \in {"dismiss", "unlist"} /\ local'[g].room = k1 + 1
    <3>1. k1 + 1 \in DOMAIN room
      BY DEF IInv, RoomsTyped
    <3>2. CASE k1 + 1 # r
      BY <1>14, <2>2, <3>1, <3>2
    <3>3. CASE k1 + 1 = r /\ closes
      BY <1>3, <1>4, <1>15, <1>17, <1>18, <3>3
    <3>4. CASE k1 + 1 = r /\ ~closes
      <4>1. playerName[s] # room[r].hostId
        BY <1>8, <3>4 DEF Closes
      <4>2. PICK t \in room[r].sessions : playerName[t] = room[r].hostId
        BY <2>2, <3>4
      <4>3. t \in room'[r].sessions /\ room'[r].hostId = room[r].hostId
        BY <1>6, <1>9, <1>13, <1>14, <3>4, <4>1, <4>2
      <4> QED
        BY <3>4, <4>2, <4>3
    <3> QED
      BY <3>2, <3>3, <3>4
  <2> QED
    BY <1>2, <2>3 DEF Hosted
<1>29. Named'
  BY <1>1, <1>2, <1>17, <1>18, Apart DEF IInv, Named, Holders, Gone
<1> QED
  BY <1>17, <1>19, <1>20, <1>21, <1>22, <1>23, <1>24, <1>25, <1>26, <1>27, <1>28, <1>29 DEF IInv

(* A player left in a room that ends is told, and forgets the room. *)
LEMMA DismissKeeps == ASSUME IInv, NEW h \in Handlers, Dismiss(h) PROVE IInv'
<1>1. PICK s \in Sessions : s = Of(h) /\ (h = Recv(s) \/ h = Disc(s))
  BY Apart
<1>2. /\ pc[h] = "dismiss"
      /\ UNCHANGED <<registry, playerIdList, room, playerName, online, request, crash>>
  BY DEF Dismiss
<1>3. PICK k \in Nat : /\ k = currentRoom[s] /\ k # NoRoom /\ k \in DOMAIN rooms
                       /\ rooms[k] = k + 1 /\ local[h].room = k + 1
                       /\ k + 1 \in DOMAIN room
  BY <1>1, <1>2, RoomAtWork
<1>4. ASSUME local[h].snapshot = {}, Goto(h, "unlist"), UNCHANGED <<currentRoom, screen, local>>
      PROVE  IInv'
  <2>1. /\ pc' \in [Handlers -> RecvSteps \cup DiscSteps] /\ pc'[h] = "unlist"
        /\ \A g \in Handlers : g # h => pc'[g] = pc[g] /\ pc[g] \in {"idle", "done"}
        /\ Alone'
        /\ \A t \in Sessions : pc'[Recv(t)] \in RecvSteps /\ pc'[Disc(t)] \in DiscSteps
    BY <1>2, <1>4, RemoveMoves
  <2>2. FieldsTyped'
    BY <1>2, <1>4, <2>1 DEF IInv, FieldsTyped
  <2>3. RoomsTyped' /\ KnownRooms'
    BY <1>1, <1>2, <1>4, <2>1, Apart DEF IInv, RoomsTyped, Made, KnownRooms
  <2>4. Bounded'
    <3>1. Creating' \subseteq Creating
      BY <1>1, <1>2, <2>1, Apart DEF Creating
    <3> QED
      BY <1>2, <3>1, BoundKept DEF IInv
  <2>5. Requests'
    BY <1>1, <1>2, <1>4, <2>1, Apart DEF IInv, Requests
  <2>6. Shown'
    BY <1>1, <1>2, <1>4, <2>1, Apart DEF IInv, Shown
  <2>7. Entered'
    BY <1>1, <1>2, <1>4, <2>1, Apart DEF IInv, Entered
  <2>8. AtWork'
    BY <1>1, <1>2, <1>4, <2>1 DEF IInv, AtWork
  <2>9. Inside'
    <3>1. \A t \in Sessions : Leaving(t) => Leaving(t)'
      BY <1>1, <1>2, <1>4, <2>1, Apart DEF Leaving
    <3> QED
      BY <1>2, <1>4, <3>1 DEF IInv, Inside
  <2>10. Hosted'
    BY <1>1, <1>2, <1>4, <2>1, Apart DEF IInv, Hosted
  <2>11. Named'
    BY <1>1, <1>2, <1>4, <2>1, Apart DEF IInv, Named, Holders, Gone
  <2> QED
    BY <2>1, <2>2, <2>3, <2>4, <2>5, <2>6, <2>7, <2>8, <2>9, <2>10, <2>11 DEF IInv
<1>5. ASSUME NEW t \in local[h].snapshot,
             currentRoom' = [currentRoom EXCEPT ![t] = NoRoom],
             screen' = [screen EXCEPT ![t] = "lobby"],
             SetLocal(h, "snapshot", local[h].snapshot \ {t}), UNCHANGED pc
      PROVE  IInv'
  <2>1. /\ local[h].snapshot \in SUBSET Sessions /\ t \in Sessions
        /\ currentRoom[t] = k /\ t # s /\ room[k + 1].sessions = {}
    BY <1>1, <1>2, <1>3, <1>5 DEF IInv, FieldsTyped, AtWork
  <2>2. \A g \in Handlers : g # h => pc[g] \in {"idle", "done"}
    BY <1>2, OthersRest DEF IInv
  <2>3. screen[t] = "room" /\ playerName[t] # NoName
    <3>1. pc[Recv(t)] # "answer" /\ currentRoom[t] # NoRoom
      BY <1>2, <1>3, <2>1, <2>2, Apart
    <3> QED
      BY <2>1, <3>1 DEF IInv, Shown, Requests
  <2>4. /\ currentRoom' \in [Sessions -> Nat \cup {NoRoom}] /\ currentRoom'[t] = NoRoom
        /\ \A u \in Sessions : u # t => currentRoom'[u] = currentRoom[u]
        /\ screen' \in [Sessions -> {"login", "lobby", "room"}] /\ screen'[t] = "lobby"
        /\ \A u \in Sessions : u # t => screen'[u] = screen[u]
    BY <1>5, <2>1 DEF IInv, FieldsTyped
  <2>5. /\ local'[h].snapshot = local[h].snapshot \ {t} /\ local'[h].ret = local[h].ret
        /\ local'[h].room = local[h].room
        /\ local' \in [Handlers -> [room : Nat \cup {NoRoom}, snapshot : SUBSET Sessions,
                                    ret : {"done", "exited", "clearRoom"}]]
        /\ \A g \in Handlers : g # h => local'[g] = local[g]
    BY <1>5, <2>1, SnapshotSet DEF IInv
  <2>6. FieldsTyped'
    BY <1>2, <1>5, <2>4, <2>5 DEF IInv, FieldsTyped
  <2>7. Alone' /\ RoomsTyped'
    BY <1>2, <1>5 DEF IInv, Alone, Running, RoomsTyped, Made
  <2>8. Bounded'
    BY <1>2, <1>5 DEF IInv, Bounded, Creating, Made
  <2>9. KnownRooms'
    BY <1>2, <2>4 DEF IInv, KnownRooms, Made
  <2>10. Requests'
    BY <1>2, <1>5, <2>3, <2>4, <2>5, Apart DEF IInv, Requests
  <2>11. Shown'
    BY <1>5, <2>4 DEF IInv, Shown
  <2>12. Entered'
    <3>1. \A i \in DOMAIN room : t \notin room[i].sessions
      BY <2>1 DEF IInv, Entered, RoomsTyped
    <3> QED
      BY <1>2, <1>5, <2>4, <3>1 DEF IInv, Entered
  <2>13. AtWork'
    BY <1>1, <1>2, <1>3, <1>5, <2>1, <2>2, <2>4, <2>5 DEF IInv, AtWork
  <2>14. Inside'
    <3>1. \A u \in Sessions : u # t => (Leaving(u) => Leaving(u)')
      BY <1>5, <2>5 DEF Leaving
    <3> QED
      BY <1>2, <2>4, <3>1 DEF IInv, Inside
  <2>15. Hosted'
    BY <1>1, <1>2, <1>5, <2>5, Apart DEF IInv, Hosted
  <2>16. Named'
    BY <1>2, <1>5 DEF IInv, Named, Holders, Gone
  <2> QED
    BY <2>6, <2>7, <2>8, <2>9, <2>10, <2>11, <2>12, <2>13, <2>14, <2>15, <2>16 DEF IInv
<1> QED
  BY <1>2, <1>4, <1>5 DEF Dismiss

(* RoomManager::RemoveRoom: the room is listed under its id. *)
LEMMA UnlistKeeps == ASSUME IInv, NEW h \in Handlers, Unlist(h) PROVE IInv'
<1>1. PICK s \in Sessions : s = Of(h) /\ (h = Recv(s) \/ h = Disc(s))
  BY Apart
<1>2. /\ pc[h] = "unlist" /\ Return(h)
      /\ UNCHANGED <<roomIdCount, playerIdList, room, player, client, local, crash>>
  BY DEF Unlist
<1>3. PICK k \in Nat : /\ k = currentRoom[s] /\ k # NoRoom /\ k \in DOMAIN rooms
                       /\ rooms[k] = k + 1 /\ local[h].room = k + 1
                       /\ k + 1 \in DOMAIN room /\ room[k + 1].id = k
  BY <1>1, <1>2, RoomAtWork
<1>4. room[k + 1].sessions = {}
  BY <1>2, <1>3 DEF IInv, AtWork
<1>5. DOMAIN rooms' = DOMAIN rooms \ {k} /\ \A i \in DOMAIN rooms' : rooms'[i] = rooms[i]
  BY <1>3 DEF Unlist
<1>6. PICK l : Goto(h, l) /\ l = local[h].ret
  BY <1>2 DEF Return
<1>7. /\ pc' \in [Handlers -> RecvSteps \cup DiscSteps] /\ pc'[h] = l
      /\ \A g \in Handlers : g # h => pc'[g] = pc[g] /\ pc[g] \in {"idle", "done"}
      /\ Alone'
      /\ \A t \in Sessions : pc'[Recv(t)] \in RecvSteps /\ pc'[Disc(t)] \in DiscSteps
  BY <1>2, <1>6, RemoveMoves
<1>8. l = IF h = Recv(s) THEN "exited" ELSE "clearRoom"
  BY <1>1, <1>2, <1>6, Returns
<1>9. FieldsTyped'
  BY <1>2, <1>7 DEF IInv, FieldsTyped
<1>10. RoomsTyped'
  <2>1. \A t \in Sessions : pc'[Recv(t)] # "addRoom" /\ pc[Recv(t)] # "addRoom"
    BY <1>1, <1>2, <1>7, <1>8, Apart
  <2> QED
    BY <1>2, <1>5, <2>1 DEF IInv, RoomsTyped, Made
<1>11. Bounded'
  <2>1. Creating' \subseteq Creating
    BY <1>1, <1>2, <1>7, <1>8, Apart DEF Creating
  <2> QED
    BY <1>2, <2>1, BoundKept DEF IInv
<1>12. KnownRooms'
  BY <1>2 DEF IInv, KnownRooms, Made
<1>13. Requests'
  BY <1>1, <1>2, <1>7, <1>8, Apart DEF IInv, Requests
<1>14. Shown'
  BY <1>1, <1>2, <1>7, <1>8, Apart DEF IInv, Shown
<1>15. Entered'
  <2>1. \A i \in DOMAIN room : room[i].sessions # {} => i - 1 # k
    BY <1>3, <1>4 DEF IInv, RoomsTyped
  <2>2. ASSUME NEW i \in DOMAIN room, NEW t \in Sessions, t \in room[i].sessions
        PROVE  /\ currentRoom[t] = i - 1 /\ i - 1 \in DOMAIN rooms'
               /\ pc'[Disc(t)] \in {"idle", "disconnected", "discGet", "remove"}
               /\ pc'[Recv(t)] \notin {"dismiss", "unlist", "exited"}
    <3>1. /\ currentRoom[t] = i - 1 /\ i - 1 \in DOMAIN rooms
          /\ pc[Disc(t)] \in {"idle", "disconnected", "discGet", "remove"}
          /\ pc[Recv(t)] \notin {"dismiss", "unlist", "exited"}
      BY <2>2 DEF IInv, Entered
    <3>2. t # s
      BY <1>3, <2>1, <2>2, <3>1
    <3>3. Disc(t) # h /\ Recv(t) # h
      BY <1>1, <3>2, Apart
    <3> QED
      BY <1>5, <1>7, <2>1, <2>2, <3>1, <3>3, Apart
  <2> QED
    BY <1>2, <2>2 DEF Entered
<1>16. AtWork'
  BY <1>7, <1>8 DEF AtWork
<1>17. Inside'
  <2>1. \A t \in Sessions : Leaving(t) => Leaving(t)'
    BY <1>1, <1>2, <1>7, <1>8, Apart DEF Leaving
  <2> QED
    BY <1>2, <2>1 DEF IInv, Inside
<1>18. Hosted'
  <2>1. ASSUME NEW i \in DOMAIN rooms'
        PROVE  \E t \in room[i + 1].sessions : playerName[t] = room[i + 1].hostId
    <3>1. i \in DOMAIN rooms /\ i # k /\ i \in Nat
      BY <1>5 DEF IInv, RoomsTyped
    <3>2. local[h].room # i + 1
      BY <1>3, <3>1
    <3>3. \A g \in Handlers : pc[g] \in {"dismiss", "unlist"} => g = h
      BY <1>7
    <3>4. \A t \in Sessions : pc[Recv(t)] # "add"
      BY <1>2, <1>7, Apart
    <3> QED
      BY <3>1, <3>2, <3>3, <3>4 DEF IInv, Hosted
  <2> QED
    BY <1>2, <2>1 DEF Hosted
<1>19. Named'
  BY <1>1, <1>2, <1>7, <1>8, Apart DEF IInv, Named, Holders, Gone
<1> QED
  BY <1>7, <1>9, <1>10, <1>11, <1>12, <1>13, <1>14, <1>15, <1>16, <1>17, <1>18, <1>19 DEF IInv

-----------------------------------------------------------------------------
(***************************************************************************)
(* The invariant.                                                          *)
(***************************************************************************)
LEMMA InitIInv == Init => IInv
<1> SUFFICES ASSUME Init PROVE IInv
  OBVIOUS
<1> USE DEF Init
<1>1. DOMAIN room = {} /\ DOMAIN rooms = {}
  OBVIOUS
<1>2. Made = 0
  BY <1>1, FS_EmptySet DEF Made
<1>3. FieldsTyped
  <2>1. NoLocal \in [room : Nat \cup {NoRoom}, snapshot : SUBSET Sessions,
                     ret : {"done", "exited", "clearRoom"}]
    BY DEF NoLocal
  <2>2. <<"none">> \in Asked /\ "idle" \in RecvSteps /\ "idle" \in DiscSteps
    BY DEF Asked, RecvSteps, DiscSteps
  <2> QED
    BY <2>1, <2>2, Apart DEF FieldsTyped
<1>4. Alone
  BY DEF Alone, Running
<1>5. RoomsTyped
  <2>1. \A s \in Sessions : pc[Recv(s)] # "addRoom"
    BY Apart
  <2>2. DOMAIN room = 1..0
    BY <1>1
  <2> QED
    BY <1>1, <1>2, <2>1, <2>2 DEF RoomsTyped
<1>6. Bounded
  <2>1. Creating = {}
    BY DEF Creating
  <2> QED
    BY <1>2, <2>1, FS_EmptySet, RoomsAssumption DEF Bounded
<1>7. KnownRooms /\ Requests /\ Shown
  BY Apart, NamesAssumption DEF KnownRooms, Requests, Shown
<1>8. Entered /\ AtWork /\ Inside
  BY <1>1 DEF Entered, AtWork, Inside
<1>9. Hosted /\ Named
  BY <1>1 DEF Hosted, Named, Holders
<1> QED
  BY <1>3, <1>4, <1>5, <1>6, <1>7, <1>8, <1>9 DEF IInv

(* Every step of one worker and of the clients keeps it. *)
LEMMA StepKeeps == ASSUME IInv, Workers = 1, [Next]_vars PROVE IInv'
<1>1. CASE UNCHANGED vars
  <2>1. /\ UNCHANGED <<rooms, roomIdCount, playerIdList, room, currentRoom, playerName, online>>
        /\ UNCHANGED <<screen, request, pc, local, crash>>
    BY <1>1 DEF vars
  <2>2. FieldsTyped' /\ Alone'
    BY <2>1 DEF IInv, FieldsTyped, Alone, Running
  <2>3. RoomsTyped' /\ Bounded' /\ KnownRooms'
    BY <2>1 DEF IInv, RoomsTyped, Bounded, Creating, KnownRooms, Made
  <2>4. Requests' /\ Shown' /\ Entered'
    BY <2>1 DEF IInv, Requests, Shown, Entered
  <2>5. AtWork' /\ Inside'
    BY <2>1 DEF IInv, AtWork, Made, Inside, Leaving
  <2>6. Hosted' /\ Named'
    BY <2>1 DEF IInv, Hosted, Named, Holders, Gone
  <2> QED
    BY <2>2, <2>3, <2>4, <2>5, <2>6 DEF IInv
<1>2. CASE \E s \in Sessions : Ask(s) \/ Receive(s) \/ Drop(s)
  BY <1>2, AskKeeps, ReceiveKeeps, DropKeeps
<1>3. CASE \E s \in Sessions : RecvStep(s)
  <2>1. PICK s \in Sessions : RecvStep(s)
    BY <1>3
  <2>2. CASE Login(s) \/ LoginInsert(s)
    BY <2>2, LoginKeeps, LoginInsertKeeps
  <2>3. CASE Create(s) \/ AddRoom(s) \/ Join(s)
    BY <2>3, CreateKeeps, AddRoomKeeps, JoinKeeps
  <2>4. CASE Add(s) \/ Answer(s)
    BY <2>4, AddKeeps, AnswerKeeps
  <2>5. CASE Exit(s) \/ ExitGet(s) \/ Exited(s)
    BY <2>5, ExitKeeps, ExitGetKeeps, ExitedKeeps
  <2> QED
    BY <2>1, <2>2, <2>3, <2>4, <2>5 DEF RecvStep
<1>4. CASE \E s \in Sessions : DiscStep(s)
  <2>1. PICK s \in Sessions : DiscStep(s)
    BY <1>4
  <2>2. CASE Disconnected(s) \/ DiscGet(s) \/ ClearRoom(s)
    BY <2>2, DisconnectedKeeps, DiscGetKeeps, ClearRoomKeeps
  <2>3. CASE FreeName(s) \/ SessionRemove(s) \/ SessionGet(s)
    BY <2>3, FreeNameKeeps, SessionRemoveKeeps, SessionGetKeeps
  <2> QED
    BY <2>1, <2>2, <2>3 DEF DiscStep
<1>5. CASE \E h \in Handlers : RemoveStep(h)
  BY <1>5, RemoveKeeps, DismissKeeps, UnlistKeeps DEF RemoveStep
<1> QED
  BY <1>1, <1>2, <1>3, <1>4, <1>5 DEF Next, HandlerStep, Over

(* With one worker, everything the proofs below rest on holds for ever. *)
THEOREM OneWorkerInductive == ASSUME Workers = 1 PROVE Spec => []IInv
<1>1. IInv /\ [Next]_vars => IInv'
  BY StepKeeps
<1> QED
  BY <1>1, InitIInv, PTL DEF Spec

-----------------------------------------------------------------------------
(***************************************************************************)
(* What it says of rooms, members, names and screens.                      *)
(***************************************************************************)
LEMMA TypesMeet == IInv => TypeOK
<1> SUFFICES ASSUME IInv PROVE TypeOK
  OBVIOUS
<1>1. Made \in Nat /\ MaxRooms \in Nat /\ Made <= MaxRooms
  <2>1. Cardinality(Creating) \in Nat
    BY SessionsAssumption, FS_Subset, FS_CardinalityType DEF Creating
  <2> QED
    BY <2>1, RoomsAssumption DEF IInv, RoomsTyped, Bounded
<1>2. roomIdCount \in 0..MaxRooms
  <2>1. \A s \in Sessions : pc[Recv(s)] = "addRoom" => Made # 0
    BY Apart DEF IInv, AtWork
  <2> QED
    BY <1>1, <2>1 DEF IInv, RoomsTyped
<1>3. DOMAIN rooms \subseteq 0..MaxRooms - 1 /\ \A k \in DOMAIN rooms : rooms[k] \in DOMAIN room
  <2>1. \A k \in DOMAIN rooms : k \in Nat /\ k + 1 \in 1..Made /\ rooms[k] \in DOMAIN room
    BY DEF IInv, RoomsTyped
  <2>2. \A k \in DOMAIN rooms : k \in 0..MaxRooms - 1
    BY <1>1, <2>1
  <2> QED
    BY <2>1, <2>2
<1>4. DOMAIN room \in {1..n : n \in 0..MaxRooms}
  <2>1. Made \in 0..MaxRooms /\ DOMAIN room = 1..Made
    BY <1>1 DEF IInv, RoomsTyped
  <2> QED
    BY <2>1
<1>5. ASSUME NEW r \in DOMAIN room
      PROVE  /\ room[r].id \in 0..MaxRooms
             /\ room[r].hostId \in Names
             /\ room[r].sessions \subseteq Sessions
             /\ room[r].playerCount \in 0..Cardinality(Sessions)
  <2>1. /\ room[r] \in RoomData /\ room[r].id = r - 1 /\ r \in 1..Made
        /\ room[r].playerCount = Cardinality(room[r].sessions)
    BY DEF IInv, RoomsTyped
  <2>2. room[r].sessions \subseteq Sessions /\ room[r].playerCount \in Nat
    BY <2>1 DEF RoomData
  <2>3. Cardinality(room[r].sessions) <= Cardinality(Sessions) /\ Cardinality(Sessions) \in Nat
    BY <2>2, SessionsAssumption, FS_Subset, FS_CardinalityType
  <2>4. room[r].playerCount \in 0..Cardinality(Sessions)
    BY <2>1, <2>2, <2>3
  <2>5. room[r].id \in 0..MaxRooms
    BY <1>1, <2>1
  <2> QED
    BY <2>1, <2>2, <2>4, <2>5 DEF RoomData
<1>6. playerIdList \subseteq Names
  BY DEF IInv, Named, Holders, FieldsTyped
<1>7. /\ currentRoom \in [Sessions -> 0..MaxRooms \cup {NoRoom}]
      /\ playerName \in [Sessions -> Names \cup {NoName}]
      /\ online \subseteq Sessions
      /\ screen \in [Sessions -> {"login", "lobby", "room"}]
  <2>1. \A s \in Sessions : currentRoom[s] # NoRoom => currentRoom[s] \in 0..MaxRooms
    BY <1>1, Codes DEF IInv, KnownRooms
  <2> QED
    BY <2>1 DEF IInv, FieldsTyped
<1>8. ASSUME NEW s \in Sessions
      PROVE  \/ request[s] \in {<<"none">>, <<"create">>, <<"exit">>}
             \/ request[s] \in {"login"} \X Names
             \/ request[s] \in {"join"} \X (0..MaxRooms - 1)
  <2>1. request[s] \in Asked
    BY DEF IInv, FieldsTyped
  <2>2. ASSUME request[s] \in {"join"} \X Nat
        PROVE  request[s] \in {"join"} \X (0..MaxRooms - 1)
    <3>1. PICK k \in Nat : request[s] = <<"join", k>>
      BY <2>2
    <3>2. k < Made
      BY <3>1 DEF IInv, KnownRooms
    <3>3. k \in 0..MaxRooms - 1
      BY <1>1, <3>2
    <3> QED
      BY <3>1, <3>3
  <2> QED
    BY <2>1, <2>2 DEF Asked
<1>9. pc \in [Handlers -> Steps]
  BY DEF IInv, FieldsTyped, RecvSteps, DiscSteps, Steps
<1>10. ASSUME NEW h \in Handlers
       PROVE  /\ local[h].snapshot \subseteq Sessions
              /\ local[h].ret \in Steps
              /\ pc[h] \in {"addRoom", "add", "remove", "dismiss", "unlist"} =>
                    local[h].room \in DOMAIN room
  <2>1. local[h].snapshot \subseteq Sessions /\ local[h].ret \in Steps
    BY DEF IInv, FieldsTyped, Steps
  <2>2. pc[h] = "addRoom" => local[h].room \in DOMAIN room
    BY <1>1 DEF IInv, AtWork, RoomsTyped
  <2>3. pc[h] = "add" => local[h].room \in DOMAIN room
    <3>1. \A r \in Nat : r - 1 \in DOMAIN rooms => r \in DOMAIN room
      BY DEF IInv, RoomsTyped
    <3> QED
      BY <3>1 DEF IInv, AtWork
  <2>4. pc[h] \in {"remove", "dismiss", "unlist"} => local[h].room \in DOMAIN room
    BY RoomAtWork
  <2> QED
    BY <2>1, <2>2, <2>3, <2>4
<1>11. crash \in {"none", "ROOM_REQUEST", "EXIT_GAME"}
  BY DEF IInv, FieldsTyped
<1> QED
  BY <1>2, <1>3, <1>4, <1>5, <1>6, <1>7, <1>8, <1>9, <1>10, <1>11 DEF TypeOK

(* Between handlers a listed room has its host among its members. *)
LEMMA HostInside ==
    ASSUME IInv, Idle, NEW k \in DOMAIN rooms
    PROVE  /\ rooms[k] = k + 1 /\ k \in Nat /\ k + 1 \in DOMAIN room
           /\ \E s \in Sessions : /\ s \in room[k + 1].sessions /\ currentRoom[s] = k
                                  /\ playerName[s] = room[k + 1].hostId
<1>1. rooms[k] = k + 1 /\ k \in Nat /\ k + 1 \in DOMAIN room
  BY DEF IInv, RoomsTyped
<1>2. \A h \in Handlers : pc[h] \in {"idle", "done"}
  BY DEF Idle, Running
<1>3. PICK s \in room[k + 1].sessions : playerName[s] = room[k + 1].hostId
  BY <1>2, Apart DEF IInv, Hosted
<1>4. s \in Sessions
  BY <1>1 DEF IInv, RoomsTyped, RoomData
<1>5. currentRoom[s] = k
  BY <1>1, <1>3, <1>4 DEF IInv, Entered
<1> QED
  BY <1>1, <1>3, <1>4, <1>5

(* The list of rooms, the rooms and the sessions agree, for every number   *)
(* of clients, names and rooms: a room is listed under its own id, its     *)
(* members have it as their current room, are connected, and have its host *)
(* among them when no handler runs.                                        *)
THEOREM MembershipKept == ASSUME Workers = 1 PROVE Spec => []Membership
<1>1. ASSUME IInv PROVE Membership
  <2>1. TypeOK
    BY <1>1, TypesMeet
  <2>2. HostStays
    <3>1. \A k \in Nat : k # NoRoom
      BY RoomsAssumption
    <3> QED
      BY <1>1, <3>1, HostInside DEF HostStays
  <2>3. MembersPointBack
    <3>1. \A r \in DOMAIN room : room[r].sessions \subseteq Sessions /\ room[r].id = r - 1
      BY <1>1 DEF IInv, RoomsTyped, RoomData
    <3> QED
      BY <1>1, <3>1 DEF IInv, Entered, MembersPointBack
  <2>4. OnlyLive
    <3>1. \A r \in DOMAIN room : room[r].sessions \subseteq Sessions
      BY <1>1 DEF IInv, RoomsTyped, RoomData
    <3> QED
      BY <1>1, <3>1 DEF IInv, Entered, OnlyLive, Gone
  <2>5. UnlistedEmpty
    <3>1. ASSUME NEW r \in DOMAIN room, room[r].sessions # {}
          PROVE  r - 1 \in DOMAIN rooms /\ rooms[r - 1] = r /\ room[r].id = r - 1
      <4>1. room[r].sessions \subseteq Sessions /\ room[r].id = r - 1 /\ r \in Nat
        BY <1>1 DEF IInv, RoomsTyped, RoomData
      <4>2. r - 1 \in DOMAIN rooms
        BY <1>1, <3>1, <4>1 DEF IInv, Entered
      <4>3. rooms[r - 1] = (r - 1) + 1
        BY <1>1, <4>2 DEF IInv, RoomsTyped
      <4> QED
        BY <4>1, <4>2, <4>3
    <3> QED
      BY <3>1 DEF UnlistedEmpty
  <2> QED
    BY <2>1, <2>2, <2>3, <2>4, <2>5 DEF Membership
<1> QED
  BY <1>1, OneWorkerInductive, PTL

(* One player id, one session: no id is lost and none is used twice. *)
THEOREM NamesKept == ASSUME Workers = 1 PROVE Spec => []NamesOfLive
<1>1. ASSUME IInv PROVE NamesOfLive
  <2> DEFINE Live == {s \in Sessions : ~Gone(s)}
  <2>1. ASSUME Idle PROVE Holders = Live
    <3>1. \A s \in Sessions : pc[Disc(s)] \in {"idle", "done"}
      BY <2>1, Apart DEF Idle, Running
    <3> QED
      BY <3>1 DEF Holders, Gone
  <2>2. \A s, t \in Live : s # t /\ playerName[s] = playerName[t] => playerName[s] = NoName
    BY <1>1 DEF IInv, Named
  <2>3. Idle => playerIdList = {playerName[s] : s \in Live} \ {NoName}
    BY <1>1, <2>1 DEF IInv, Named
  <2> QED
    BY <2>2, <2>3 DEF NamesOfLive
<1> QED
  BY <1>1, OneWorkerInductive, PTL

(* A connected client shows a room exactly when the server has it in one. *)
THEOREM ScreensAgree == ASSUME Workers = 1 PROVE Spec => []Screens
<1>1. ASSUME IInv PROVE Screens
  <2>1. ASSUME Idle, NEW s \in Sessions, ~Gone(s)
        PROVE  screen[s] = "room" <=> currentRoom[s] # NoRoom
    <3>1. pc[Disc(s)] = "idle" /\ pc[Recv(s)] # "answer"
      BY <2>1, Apart DEF Idle, Running, Gone
    <3> QED
      BY <1>1, <3>1 DEF IInv, Shown
  <2> QED
    BY <2>1 DEF Screens
<1> QED
  BY <1>1, OneWorkerInductive, PTL

(* The count of a listed room is exact, and its host is in it. *)
THEOREM RoomsExact == ASSUME Workers = 1 PROVE Spec => []RoomExact
<1>1. ASSUME IInv PROVE RoomExact
  <2>1. \A r \in DOMAIN room : /\ room[r].playerCount = Cardinality(room[r].sessions)
                               /\ room[r].playerCount \in Nat
    BY <1>1 DEF IInv, RoomsTyped, RoomData
  <2>2. CountCovers
    BY <2>1 DEF CountCovers
  <2>3. CountExact /\ RoomHasHost
    BY <1>1, <2>1, HostInside DEF CountExact, RoomHasHost
  <2> QED
    BY <2>2, <2>3 DEF RoomExact
<1> QED
  BY <1>1, OneWorkerInductive, PTL

-----------------------------------------------------------------------------
(***************************************************************************)
(* The count of a room, for any number of workers.                         *)
(***************************************************************************)
Counted(x) ==
    /\ x = [id |-> x.id, hostId |-> x.hostId, sessions |-> x.sessions,
            playerCount |-> x.playerCount]
    /\ x.sessions \subseteq Sessions
    /\ x.playerCount \in Nat /\ x.playerCount >= Cardinality(x.sessions)

AllCounted == \A r \in DOMAIN room : Counted(room[r])

(* A room with other players is counted when its count still covers them. *)
LEMMA Recounted ==
    ASSUME AllCounted, NEW r, NEW sessions \in SUBSET Sessions, NEW count \in Nat,
           r \in DOMAIN room => count >= Cardinality(sessions),
           room' = [room EXCEPT ![r].sessions = sessions, ![r].playerCount = count]
    PROVE  /\ AllCounted' /\ DOMAIN room' = DOMAIN room
           /\ \A i \in DOMAIN room :
                 /\ room'[i].id = room[i].id /\ room'[i].hostId = room[i].hostId
                 /\ room'[i].sessions = IF i = r THEN sessions ELSE room[i].sessions
<1>1. PICK new : new = [room[r] EXCEPT !.sessions = sessions, !.playerCount = count]
  OBVIOUS
<1>2. room' = [room EXCEPT ![r] = new]
  BY <1>1
<1>3. CASE r \notin DOMAIN room
  BY <1>2, <1>3 DEF AllCounted
<1>4. CASE r \in DOMAIN room
  <2>1. PICK id, hostId : /\ id = room[r].id /\ hostId = room[r].hostId
                          /\ new = [id |-> id, hostId |-> hostId, sessions |-> sessions,
                                    playerCount |-> count]
    <3>1. PICK id, hostId, old, was :
             room[r] = [id |-> id, hostId |-> hostId, sessions |-> old, playerCount |-> was]
      BY <1>4 DEF AllCounted, Counted
    <3> QED
      BY <1>1, <3>1
  <2>2. Counted(new) /\ new.id = room[r].id /\ new.hostId = room[r].hostId
        /\ new.sessions = sessions
    BY <1>4, <2>1 DEF Counted
  <2> QED
    BY <1>2, <1>4, <2>2 DEF AllCounted
<1> QED
  BY <1>3, <1>4

(* Create, Add and Remove are the steps that touch the rooms. *)
LEMMA CreateCounts == ASSUME AllCounted, NEW s \in Sessions, Create(s) PROVE AllCounted'
<1>1. PICK r : r = Cardinality(DOMAIN room) + 1
  OBVIOUS
<1>2. PICK new : new = [id |-> roomIdCount, hostId |-> playerName[s], sessions |-> {},
                        playerCount |-> 0]
  OBVIOUS
<1>3. Counted(new)
  BY <1>2, FS_EmptySet DEF Counted
<1>4. room' = [i \in DOMAIN room \cup {r} |-> IF i = r THEN new ELSE room[i]]
  BY <1>1, <1>2 DEF Create
<1> QED
  BY <1>3, <1>4 DEF AllCounted

(* One more, at most, in the room and one more counted. *)
LEMMA AddCounts ==
    ASSUME AllCounted, NEW s \in Sessions, Add(s)
    PROVE  /\ AllCounted' /\ DOMAIN room' = DOMAIN room
           /\ \A i \in DOMAIN room :
                 /\ room'[i].id = room[i].id /\ room'[i].hostId = room[i].hostId
                 /\ room'[i].sessions = IF i = local[Recv(s)].room THEN room[i].sessions \cup {s}
                                                                   ELSE room[i].sessions
<1>1. PICK r : r = local[Recv(s)].room
  OBVIOUS
<1>2. room' = [room EXCEPT ![r].sessions = room[r].sessions \cup {s},
                           ![r].playerCount = room[r].playerCount + 1]
  BY <1>1 DEF Add
<1>3. CASE r \notin DOMAIN room
  BY <1>1, <1>2, <1>3 DEF AllCounted
<1>4. CASE r \in DOMAIN room
  <2>1. Counted(room[r])
    BY <1>4 DEF AllCounted
  <2>2. PICK sessions \in SUBSET Sessions : sessions = room[r].sessions \cup {s}
    BY <2>1 DEF Counted
  <2>3. PICK count \in Nat : count = room[r].playerCount + 1
    BY <2>1 DEF Counted
  <2>4. count >= Cardinality(sessions)
    <3>1. IsFiniteSet(room[r].sessions)
      BY <2>1, SessionsAssumption, FS_Subset DEF Counted
    <3>2. Cardinality(room[r].sessions) \in Nat
      BY <3>1, FS_CardinalityType
    <3>3. Cardinality(sessions) \in {Cardinality(room[r].sessions), Cardinality(room[r].sessions) + 1}
      BY <2>2, <3>1, FS_AddElement
    <3> QED
      BY <2>1, <2>3, <3>2, <3>3 DEF Counted
  <2>5. room' = [room EXCEPT ![r].sessions = sessions, ![r].playerCount = count]
    BY <1>2, <2>2, <2>3
  <2>6. /\ AllCounted' /\ DOMAIN room' = DOMAIN room
        /\ \A i \in DOMAIN room :
              /\ room'[i].id = room[i].id /\ room'[i].hostId = room[i].hostId
              /\ room'[i].sessions = IF i = r THEN sessions ELSE room[i].sessions
    BY <2>4, <2>5, Recounted
  <2> QED
    BY <1>1, <2>2, <2>6
<1> QED
  BY <1>3, <1>4

(* One counted less for a player who was in it; none in a room that ends. *)
LEMMA RemoveCounts ==
    ASSUME AllCounted, NEW h \in Handlers, Remove(h)
    PROVE  /\ AllCounted' /\ DOMAIN room' = DOMAIN room
           /\ \A i \in DOMAIN room :
                 /\ room'[i].id = room[i].id /\ room'[i].hostId = room[i].hostId
                 /\ room'[i].sessions \subseteq room[i].sessions
                 /\ i # local[h].room => room'[i].sessions = room[i].sessions
           /\ \/ Goto(h, "dismiss")
              \/ /\ Return(h) /\ playerName[Of(h)] # room[local[h].room].hostId
                 /\ local[h].room \in DOMAIN room =>
                       room'[local[h].room].sessions =
                           room[local[h].room].sessions \ {Of(h)}
<1>1. PICK s \in Sessions : s = Of(h)
  BY Apart
<1>2. PICK r : r = local[h].room
  OBVIOUS
<1>3. PICK left, n, closes :
         /\ left = room[r].sessions \ {s}
         /\ n = IF s \in room[r].sessions THEN room[r].playerCount - 1 ELSE room[r].playerCount
         /\ closes = Closes(r, s, n)
  OBVIOUS
<1>4. room' = [room EXCEPT ![r].sessions = IF closes THEN {} ELSE left,
                           ![r].playerCount = IF closes THEN 0 ELSE n]
  BY <1>1, <1>2, <1>3 DEF Remove
<1>5. /\ closes => Goto(h, "dismiss")
      /\ ~closes => Return(h) /\ playerName[s] # room[r].hostId
  BY <1>1, <1>2, <1>3 DEF Remove, Closes
<1>6. CASE r \notin DOMAIN room
  BY <1>1, <1>2, <1>4, <1>5, <1>6 DEF AllCounted
<1>7. CASE r \in DOMAIN room
  <2>1. Counted(room[r])
    BY <1>7 DEF AllCounted
  <2>2. IsFiniteSet(room[r].sessions)
    BY <2>1, SessionsAssumption, FS_Subset DEF Counted
  <2>3. Cardinality(room[r].sessions) \in Nat
    BY <2>2, FS_CardinalityType
  <2>4. Cardinality(left) \in Nat
    BY <1>3, <2>2, FS_RemoveElement, FS_CardinalityType
  <2>5. n \in Nat /\ n >= Cardinality(left)
    <3>1. CASE s \in room[r].sessions
      <4>1. Cardinality(left) = Cardinality(room[r].sessions) - 1
        BY <1>3, <2>2, <3>1, FS_RemoveElement
      <4> QED
        BY <1>3, <2>1, <2>3, <2>4, <3>1, <4>1 DEF Counted
    <3>2. CASE s \notin room[r].sessions
      <4>1. left = room[r].sessions
        BY <1>3, <3>2
      <4> QED
        BY <1>3, <2>1, <3>2, <4>1 DEF Counted
    <3> QED
      BY <3>1, <3>2
  <2>6. PICK sessions \in SUBSET Sessions : sessions = IF closes THEN {} ELSE left
    BY <1>3, <2>1 DEF Counted
  <2>7. PICK count \in Nat : count = IF closes THEN 0 ELSE n
    BY <2>5
  <2>8. count >= Cardinality(sessions)
    BY <2>5, <2>6, <2>7, FS_EmptySet
  <2>9. room' = [room EXCEPT ![r].sessions = sessions, ![r].playerCount = count]
    BY <1>4, <2>6, <2>7
  <2>10. /\ AllCounted' /\ DOMAIN room' = DOMAIN room
         /\ \A i \in DOMAIN room :
               /\ room'[i].id = room[i].id /\ room'[i].hostId = room[i].hostId
               /\ room'[i].sessions = IF i = r THEN sessions ELSE room[i].sessions
    BY <2>8, <2>9, Recounted
  <2>11. sessions \subseteq room[r].sessions /\ (~closes => sessions = room[r].sessions \ {s})
    BY <1>3, <2>6
  <2> QED
    BY <1>1, <1>2, <1>5, <1>7, <2>10, <2>11
<1> QED
  BY <1>6, <1>7

(* However many workers there are, and however handlers overlap, a room's  *)
(* count is never below its players: Room::Remove does not end a room for  *)
(* want of players while somebody is in it.                                *)
THEOREM NeverEndedEarly == Spec => []CountCovers
<1>1. Init => AllCounted
  BY DEF Init, AllCounted
<1>2. ASSUME AllCounted, [Next]_vars PROVE AllCounted'
  <2>1. CASE UNCHANGED room
    BY <1>2, <2>1 DEF AllCounted, Counted
  <2>2. CASE \E s \in Sessions : Create(s) \/ Add(s)
    BY <1>2, <2>2, CreateCounts, AddCounts
  <2>3. CASE \E h \in Handlers : Remove(h)
    BY <1>2, <2>3, RemoveCounts
  <2>4. \/ UNCHANGED room
        \/ \E s \in Sessions : Create(s) \/ Add(s)
        \/ \E h \in Handlers : Remove(h)
    BY <1>2 DEF Next, HandlerStep, RecvStep, DiscStep, RemoveStep, Ask, Receive, Drop,
                Login, LoginInsert, AddRoom, Join, Answer, Exit, ExitGet, Exited, Dismiss,
                Unlist, Disconnected, DiscGet, ClearRoom, FreeName, SessionRemove,
                SessionGet, Over, vars
  <2> QED
    BY <2>1, <2>2, <2>3, <2>4
<1>3. AllCounted => CountCovers
  BY DEF AllCounted, Counted, CountCovers
<1> QED
  BY <1>1, <1>2, <1>3, PTL DEF Spec

-----------------------------------------------------------------------------
(***************************************************************************)
(* The host of a room, for any number of workers, while no two rooms have  *)
(* been made with one id.                                                  *)
(***************************************************************************)
OwnIds == \A q, r \in DOMAIN room : room[q].id = room[r].id => q = r

Locals == [room : Nat \cup {NoRoom}, snapshot : SUBSET Sessions,
           ret : {"done", "exited", "clearRoom"}]

ManyFields ==
    /\ currentRoom \in [Sessions -> Nat \cup {NoRoom}]
    /\ playerName \in [Sessions -> Names \cup {NoName}]
    /\ screen \in [Sessions -> {"login", "lobby", "room"}]
    /\ request \in [Sessions -> Asked]
    /\ pc \in [Handlers -> Steps]
    /\ local \in [Handlers -> Locals]

ManyRooms ==
    /\ roomIdCount \in Nat
    /\ Made \in Nat /\ DOMAIN room = 1..Made
    /\ AllCounted /\ \A r \in DOMAIN room : room[r].id \in Nat
    /\ \A k \in DOMAIN rooms : k \in Nat /\ rooms[k] \in DOMAIN room
    /\ \A h \in Handlers : pc[h] \in {"addRoom", "add", "remove", "dismiss", "unlist"} =>
                               local[h].room \in DOMAIN room

(* Who has yet to log in is in no room, and is not sent out of one. *)
Newcomers ==
    \A s \in Sessions :
       /\ request[s][1] = "login" => screen[s] = "login"
       /\ pc[Recv(s)] \in {"login", "loginInsert"} => request[s][1] = "login"
       /\ screen[s] = "login" =>
             /\ request[s][1] \in {"none", "login"}
             /\ pc[Recv(s)] \in {"idle", "login", "loginInsert"}
             /\ \A r \in DOMAIN room : s \notin room[r].sessions
             /\ \A h \in Handlers : s \notin local[h].snapshot

(* One room at a time is on its way into the list, under its own id. *)
Listing ==
    /\ \A r \in DOMAIN room : room[r].id = r - 1
    /\ \A k \in DOMAIN rooms : rooms[k] = k + 1
    /\ \A s, t \in Sessions : pc[Recv(s)] = "addRoom" /\ pc[Recv(t)] = "addRoom" => s = t
    /\ \A s \in Sessions : pc[Recv(s)] = "addRoom" =>
          /\ local[Recv(s)].room = Made /\ roomIdCount = Made - 1
          /\ room[Made].hostId = playerName[s]
    /\ (\A s \in Sessions : pc[Recv(s)] # "addRoom") => roomIdCount = Made

ManyInv == /\ ManyFields /\ ManyRooms /\ Newcomers
           /\ OwnIds => Listing /\ Hosted

(* What a step of a handler does to where it is. *)
LEMMA Went ==
    ASSUME ManyFields, NEW h \in Handlers, NEW l \in Steps, Goto(h, l)
    PROVE  /\ pc' \in [Handlers -> Steps] /\ pc'[h] = l
           /\ \A g \in Handlers : g # h => pc'[g] = pc[g]
  BY DEF ManyFields, Goto

(* What SetLocal does. *)
LEMMA LocalSet ==
    ASSUME ManyFields, NEW h \in Handlers, NEW l \in Locals, local' = [local EXCEPT ![h] = l]
    PROVE  /\ local' \in [Handlers -> Locals] /\ local'[h] = l
           /\ \A g \in Handlers : g # h => local'[g] = local[g]
  BY DEF ManyFields

(* The room alone. *)
LEMMA ManyRoomSet ==
    ASSUME ManyFields, NEW h \in Handlers, NEW v \in Nat \cup {NoRoom}, SetLocal(h, "room", v)
    PROVE  /\ local' \in [Handlers -> Locals] /\ local'[h].room = v
           /\ local'[h].snapshot = local[h].snapshot
           /\ \A g \in Handlers : g # h => local'[g] = local[g]
<1>1. PICK l : l = [local[h] EXCEPT !.room = v]
  OBVIOUS
<1>2. l \in Locals /\ l.room = v /\ l.snapshot = local[h].snapshot
  BY <1>1 DEF ManyFields, Locals
<1> QED
  BY <1>1, <1>2, LocalSet DEF SetLocal

(* The snapshot alone. *)
LEMMA ManySnapshotSet ==
    ASSUME ManyFields, NEW h \in Handlers, NEW v \in SUBSET Sessions, SetLocal(h, "snapshot", v)
    PROVE  /\ local' \in [Handlers -> Locals] /\ local'[h].snapshot = v
           /\ local'[h].room = local[h].room
           /\ \A g \in Handlers : g # h => local'[g] = local[g]
<1>1. PICK l : l = [local[h] EXCEPT !.snapshot = v]
  OBVIOUS
<1>2. l \in Locals /\ l.room = local[h].room /\ l.snapshot = v
  BY <1>1 DEF ManyFields, Locals
<1> QED
  BY <1>1, <1>2, LocalSet DEF SetLocal

(* A step that neither makes, lists, enters nor leaves a room. *)
LEMMA Passes ==
    ASSUME ManyInv, NEW h \in Handlers, UNCHANGED <<rooms, roomIdCount, room>>,
           \A g \in Handlers : g # h => pc'[g] = pc[g] /\ local'[g] = local[g],
           pc[h] \notin {"addRoom", "add", "dismiss", "unlist"},
           pc'[h] \notin {"addRoom", "dismiss", "unlist"},
           pc'[h] \in {"add", "remove"} => local'[h].room \in DOMAIN room,
           \A s \in Sessions : screen[s] # "login" => playerName'[s] = playerName[s],
           ManyFields', Newcomers'
    PROVE  ManyInv'
<1>1. ManyRooms'
  BY DEF ManyInv, ManyRooms, Made, AllCounted, Counted
<1>2. OwnIds' => OwnIds
  BY DEF OwnIds
<1>3. \A s \in Sessions : /\ pc'[Recv(s)] = "addRoom" <=> pc[Recv(s)] = "addRoom"
                          /\ pc[Recv(s)] = "addRoom" => local'[Recv(s)] = local[Recv(s)]
  BY Apart
<1>4. \A s \in Sessions : pc[Recv(s)] \in {"addRoom", "add"} => playerName'[s] = playerName[s]
  BY DEF ManyInv, Newcomers
<1>5. ASSUME Listing PROVE Listing'
  BY <1>3, <1>4, <1>5 DEF Listing, Made
<1>6. ASSUME Listing, Hosted PROVE Hosted'
  <2>1. ASSUME NEW k \in DOMAIN rooms
        PROVE  \/ \E s \in room[k + 1].sessions : playerName'[s] = room[k + 1].hostId
               \/ \E s \in Sessions : /\ pc'[Recv(s)] = "add" /\ local'[Recv(s)].room = k + 1
                                      /\ playerName'[s] = room[k + 1].hostId
               \/ \E g \in Handlers : pc'[g] \in {"dismiss", "unlist"} /\ local'[g].room = k + 1
    <3>1. CASE \E s \in room[k + 1].sessions : playerName[s] = room[k + 1].hostId
      <4>1. PICK s \in room[k + 1].sessions : playerName[s] = room[k + 1].hostId
        BY <3>1
      <4>2. k + 1 \in DOMAIN room
        BY <1>6 DEF Listing, ManyInv, ManyRooms
      <4>3. s \in Sessions /\ screen[s] # "login"
        BY <4>1, <4>2 DEF ManyInv, ManyRooms, AllCounted, Counted, Newcomers
      <4> QED
        BY <4>1, <4>3
    <3>2. CASE \E s \in Sessions : /\ pc[Recv(s)] = "add" /\ local[Recv(s)].room = k + 1
                                   /\ playerName[s] = room[k + 1].hostId
      <4>1. PICK s \in Sessions : /\ pc[Recv(s)] = "add" /\ local[Recv(s)].room = k + 1
                                  /\ playerName[s] = room[k + 1].hostId
        BY <3>2
      <4>2. pc'[Recv(s)] = "add" /\ local'[Recv(s)].room = k + 1
        BY <4>1, Apart
      <4> QED
        BY <1>4, <4>1, <4>2
    <3>3. CASE \E g \in Handlers : pc[g] \in {"dismiss", "unlist"} /\ local[g].room = k + 1
      <4>1. PICK g \in Handlers : pc[g] \in {"dismiss", "unlist"} /\ local[g].room = k + 1
        BY <3>3
      <4>2. g # h
        BY <4>1
      <4> QED
        BY <4>1, <4>2
    <3> QED
      BY <1>6, <3>1, <3>2, <3>3 DEF Hosted
  <2> QED
    BY <2>1 DEF Hosted
<1> QED
  BY <1>1, <1>2, <1>5, <1>6 DEF ManyInv

(* A client asks for something. *)
LEMMA ManyAsk == ASSUME ManyInv, NEW s \in Sessions, Ask(s) PROVE ManyInv'
<1>1. /\ UNCHANGED <<registry, playerIdList, room, player, screen, pc, local, crash>>
      /\ request[s] = <<"none">> /\ pc[Recv(s)] = "idle"
  BY DEF Ask
<1>2. PICK q \in Asked : /\ request' = [request EXCEPT ![s] = q]
                         /\ q[1] = "login" <=> screen[s] = "login"
  <2>1. \A k \in DOMAIN rooms : k \in Nat
    BY DEF ManyInv, ManyRooms
  <2>2. CASE screen[s] = "login" /\ \E n \in Names : request' = [request EXCEPT ![s] = <<"login", n>>]
    <3>1. PICK n \in Names : request' = [request EXCEPT ![s] = <<"login", n>>]
      BY <2>2
    <3>2. <<"login", n>> \in Asked /\ <<"login", n>>[1] = "login"
      BY DEF Asked
    <3> QED
      BY <2>2, <3>1, <3>2
  <2>3. CASE screen[s] = "lobby" /\ request' = [request EXCEPT ![s] = <<"create">>]
    <3>1. <<"create">> \in Asked
      BY DEF Asked
    <3> QED
      BY <2>3, <3>1
  <2>4. CASE screen[s] = "lobby" /\ \E k \in DOMAIN rooms : request' = [request EXCEPT ![s] = <<"join", k>>]
    <3>1. PICK k \in DOMAIN rooms : request' = [request EXCEPT ![s] = <<"join", k>>]
      BY <2>4
    <3>2. <<"join", k>> \in Asked /\ <<"join", k>>[1] = "join"
      BY <2>1 DEF Asked
    <3> QED
      BY <2>4, <3>1, <3>2
  <2>5. CASE screen[s] = "room" /\ request' = [request EXCEPT ![s] = <<"exit">>]
    <3>1. <<"exit">> \in Asked
      BY DEF Asked
    <3> QED
      BY <2>5, <3>1
  <2> QED
    BY <2>2, <2>3, <2>4, <2>5 DEF Ask
<1>3. /\ request' \in [Sessions -> Asked] /\ request'[s] = q
      /\ \A t \in Sessions : t # s => request'[t] = request[t]
  BY <1>2 DEF ManyInv, ManyFields
<1>4. ManyFields'
  BY <1>1, <1>3 DEF ManyInv, ManyFields
<1>5. Newcomers'
  BY <1>1, <1>2, <1>3, Apart DEF ManyInv, Newcomers
<1> QED
  BY <1>1, <1>4, <1>5, Passes, Apart

(* A worker takes its packet. *)
LEMMA ManyReceive == ASSUME ManyInv, NEW s \in Sessions, Receive(s) PROVE ManyInv'
<1>1. /\ UNCHANGED <<registry, playerIdList, room, player, client, local, crash>>
      /\ pc[Recv(s)] = "idle" /\ request[s] # <<"none">> /\ Goto(Recv(s), request[s][1])
  BY DEF Receive
<1>2. request[s][1] \in {"login", "create", "join", "exit"}
  BY <1>1 DEF ManyInv, ManyFields, Asked
<1>3. /\ pc' \in [Handlers -> Steps] /\ pc'[Recv(s)] = request[s][1]
      /\ \A g \in Handlers : g # Recv(s) => pc'[g] = pc[g]
  <2>1. request[s][1] \in Steps /\ Recv(s) \in Handlers
    BY <1>2, Apart DEF Steps
  <2> QED
    BY <1>1, <2>1, Went DEF ManyInv
<1>4. ManyFields'
  BY <1>1, <1>3 DEF ManyInv, ManyFields
<1>5. Newcomers'
  BY <1>1, <1>2, <1>3, Apart DEF ManyInv, Newcomers
<1> QED
  BY <1>1, <1>2, <1>3, <1>4, <1>5, Passes, Apart

(* A worker takes its disconnect event. *)
LEMMA ManyDrop == ASSUME ManyInv, NEW s \in Sessions, Drop(s) PROVE ManyInv'
<1>1. /\ UNCHANGED <<registry, playerIdList, room, player, client, local, crash>>
      /\ pc[Disc(s)] = "idle" /\ Goto(Disc(s), "disconnected")
  BY DEF Drop
<1>2. /\ pc' \in [Handlers -> Steps] /\ pc'[Disc(s)] = "disconnected"
      /\ \A g \in Handlers : g # Disc(s) => pc'[g] = pc[g]
  <2>1. "disconnected" \in Steps /\ Disc(s) \in Handlers
    BY Apart DEF Steps
  <2> QED
    BY <1>1, <2>1, Went DEF ManyInv
<1>3. ManyFields'
  BY <1>1, <1>2 DEF ManyInv, ManyFields
<1>4. Newcomers'
  BY <1>1, <1>2, Apart DEF ManyInv, Newcomers
<1> QED
  BY <1>1, <1>2, <1>3, <1>4, Passes, Apart

(* A receive handler ends. *)
LEMMA Ended ==
    ASSUME ManyFields, NEW s \in Sessions, Finish(s)
    PROVE  /\ pc' \in [Handlers -> Steps] /\ pc'[Recv(s)] = "idle"
           /\ \A g \in Handlers : g # Recv(s) => pc'[g] = pc[g]
           /\ request' \in [Sessions -> Asked] /\ request'[s] = <<"none">>
           /\ \A t \in Sessions : t # s => request'[t] = request[t]
<1>1. "idle" \in Steps /\ Recv(s) \in Handlers /\ <<"none">> \in Asked
  BY Apart DEF Steps, Asked
<1>2. Goto(Recv(s), "idle") /\ request' = [request EXCEPT ![s] = <<"none">>]
  BY DEF Finish
<1> QED
  BY <1>1, <1>2, Went DEF ManyFields

(* A receive handler ends, and its session is where it was or logged in. *)
LEMMA ManyFinish ==
    ASSUME ManyInv, NEW s \in Sessions, Finish(s), UNCHANGED <<registry, room, local>>,
           pc[Recv(s)] \notin {"idle", "addRoom", "add", "dismiss", "unlist"},
           \A t \in Sessions : screen[t] # "login" => playerName'[t] = playerName[t],
           \A t \in Sessions : t # s => screen'[t] = screen[t],
           screen'[s] # "login" \/ screen'[s] = screen[s],
           ManyFields'
    PROVE  ManyInv'
<1>1. /\ pc' \in [Handlers -> Steps] /\ pc'[Recv(s)] = "idle"
      /\ \A g \in Handlers : g # Recv(s) => pc'[g] = pc[g]
      /\ request' \in [Sessions -> Asked] /\ request'[s] = <<"none">>
      /\ \A t \in Sessions : t # s => request'[t] = request[t]
  BY Ended DEF ManyInv
<1>2. Newcomers'
  BY <1>1, Apart DEF ManyInv, Newcomers
<1> QED
  BY <1>1, <1>2, Passes, Apart

(* Handle_C_LOGIN looks for the player id. *)
LEMMA ManyLogin == ASSUME ManyInv, NEW s \in Sessions, Login(s) PROVE ManyInv'
<1>1. UNCHANGED <<registry, playerIdList, room, player, screen, local, crash>> /\ pc[Recv(s)] = "login"
  BY DEF Login
<1>2. CASE Finish(s)
  <2>1. ManyFields'
    BY <1>1, <1>2, Ended DEF ManyInv, ManyFields
  <2> QED
    BY <1>1, <1>2, <2>1, ManyFinish
<1>3. CASE Goto(Recv(s), "loginInsert") /\ UNCHANGED request
  <2>1. /\ pc' \in [Handlers -> Steps] /\ pc'[Recv(s)] = "loginInsert"
        /\ \A g \in Handlers : g # Recv(s) => pc'[g] = pc[g]
    <3>1. "loginInsert" \in Steps /\ Recv(s) \in Handlers
      BY Apart DEF Steps
    <3> QED
      BY <1>3, <3>1, Went DEF ManyInv
  <2>2. ManyFields'
    BY <1>1, <1>3, <2>1 DEF ManyInv, ManyFields
  <2>3. Newcomers'
    BY <1>1, <1>3, <2>1, Apart DEF ManyInv, Newcomers
  <2> QED
    BY <1>1, <2>1, <2>2, <2>3, Passes, Apart
<1> QED
  BY <1>2, <1>3 DEF Login

(* Handle_C_LOGIN names the session. *)
LEMMA ManyLoginInsert == ASSUME ManyInv, NEW s \in Sessions, LoginInsert(s) PROVE ManyInv'
<1>1. /\ UNCHANGED <<registry, room, currentRoom, online, local, crash>>
      /\ pc[Recv(s)] = "loginInsert" /\ Finish(s)
  BY DEF LoginInsert
<1>2. request[s][1] = "login" /\ screen[s] = "login" /\ request[s][2] \in Names
  BY <1>1 DEF ManyInv, ManyFields, Newcomers, Asked
<1>3. /\ playerName' \in [Sessions -> Names \cup {NoName}]
      /\ \A t \in Sessions : t # s => playerName'[t] = playerName[t]
      /\ screen' \in [Sessions -> {"login", "lobby", "room"}] /\ screen'[s] = "lobby"
      /\ \A t \in Sessions : t # s => screen'[t] = screen[t]
  BY <1>2 DEF LoginInsert, ManyInv, ManyFields
<1>4. ManyFields'
  BY <1>1, <1>3, Ended DEF ManyInv, ManyFields
<1> QED
  BY <1>1, <1>2, <1>3, <1>4, ManyFinish

(* Handle_C_ROOM_REQUEST finds a room, or fails. *)
LEMMA ManyJoin == ASSUME ManyInv, NEW s \in Sessions, Join(s) PROVE ManyInv'
<1>1. UNCHANGED <<registry, playerIdList, room, player, screen>> /\ pc[Recv(s)] = "join"
  BY DEF Join
<1>2. CASE UNCHANGED <<request, pc, local>>
  <2>1. ManyFields' /\ Newcomers'
    BY <1>1, <1>2 DEF ManyInv, ManyFields, Newcomers
  <2> QED
    BY <1>1, <1>2, <2>1, Passes, Apart
<1>3. ASSUME NEW k \in DOMAIN rooms, SetLocal(Recv(s), "room", rooms[k]), Goto(Recv(s), "add"),
             UNCHANGED request
      PROVE  ManyInv'
  <2>1. rooms[k] \in DOMAIN room /\ rooms[k] \in Nat
    BY DEF ManyInv, ManyRooms
  <2>2. /\ pc' \in [Handlers -> Steps] /\ pc'[Recv(s)] = "add"
        /\ \A g \in Handlers : g # Recv(s) => pc'[g] = pc[g]
    <3>1. "add" \in Steps /\ Recv(s) \in Handlers
      BY Apart DEF Steps
    <3> QED
      BY <1>3, <3>1, Went DEF ManyInv
  <2>3. /\ local' \in [Handlers -> Locals] /\ local'[Recv(s)].room = rooms[k]
        /\ local'[Recv(s)].snapshot = local[Recv(s)].snapshot
        /\ \A g \in Handlers : g # Recv(s) => local'[g] = local[g]
    BY <1>3, <2>1, ManyRoomSet, Apart DEF ManyInv
  <2>4. ManyFields'
    BY <1>1, <1>3, <2>2, <2>3 DEF ManyInv, ManyFields
  <2>5. Newcomers'
    <3>1. \A g \in Handlers : local'[g].snapshot = local[g].snapshot
      BY <2>3
    <3> QED
      BY <1>1, <1>3, <2>2, <3>1, Apart DEF ManyInv, Newcomers
  <2> QED
    BY <1>1, <2>1, <2>2, <2>3, <2>4, <2>5, Passes, Apart
<1>4. CASE Finish(s) /\ UNCHANGED local
  <2>1. ManyFields'
    BY <1>1, <1>4, Ended DEF ManyInv, ManyFields
  <2> QED
    BY <1>1, <1>4, <2>1, ManyFinish
<1> QED
  BY <1>2, <1>3, <1>4 DEF Join

(* The answer S_ROOM_LOBBY. *)
LEMMA ManyAnswer == ASSUME ManyInv, NEW s \in Sessions, Answer(s) PROVE ManyInv'
<1>1. /\ UNCHANGED <<registry, playerIdList, room, player, local, crash>>
      /\ pc[Recv(s)] = "answer" /\ Finish(s)
  BY DEF Answer
<1>2. /\ screen' \in [Sessions -> {"login", "lobby", "room"}] /\ screen'[s] = "room"
      /\ \A t \in Sessions : t # s => screen'[t] = screen[t]
  BY DEF Answer, ManyInv, ManyFields
<1>3. ManyFields'
  BY <1>1, <1>2, Ended DEF ManyInv, ManyFields
<1> QED
  BY <1>1, <1>2, <1>3, ManyFinish

(* Handle_C_EXIT_GAME reads the current room. *)
LEMMA ManyExit == ASSUME ManyInv, NEW s \in Sessions, Exit(s) PROVE ManyInv'
<1>1. UNCHANGED <<registry, playerIdList, room, player, screen, crash>> /\ pc[Recv(s)] = "exit"
  BY DEF Exit
<1>2. CASE Finish(s) /\ UNCHANGED local
  <2>1. ManyFields'
    BY <1>1, <1>2, Ended DEF ManyInv, ManyFields
  <2> QED
    BY <1>1, <1>2, <2>1, ManyFinish
<1>3. CASE /\ SetLocal(Recv(s), "room", currentRoom[s]) /\ Goto(Recv(s), "exitGet")
           /\ UNCHANGED request
  <2>1. currentRoom[s] \in Nat \cup {NoRoom}
    BY DEF ManyInv, ManyFields
  <2>2. /\ pc' \in [Handlers -> Steps] /\ pc'[Recv(s)] = "exitGet"
        /\ \A g \in Handlers : g # Recv(s) => pc'[g] = pc[g]
    <3>1. "exitGet" \in Steps /\ Recv(s) \in Handlers
      BY Apart DEF Steps
    <3> QED
      BY <1>3, <3>1, Went DEF ManyInv
  <2>3. /\ local' \in [Handlers -> Locals]
        /\ local'[Recv(s)].snapshot = local[Recv(s)].snapshot
        /\ \A g \in Handlers : g # Recv(s) => local'[g] = local[g]
    BY <1>3, <2>1, ManyRoomSet, Apart DEF ManyInv
  <2>4. ManyFields'
    BY <1>1, <1>3, <2>2, <2>3 DEF ManyInv, ManyFields
  <2>5. Newcomers'
    <3>1. \A g \in Handlers : local'[g].snapshot = local[g].snapshot
      BY <2>3
    <3> QED
      BY <1>1, <1>3, <2>2, <3>1, Apart DEF ManyInv, Newcomers
  <2> QED
    BY <1>1, <2>2, <2>3, <2>4, <2>5, Passes, Apart
<1> QED
  BY <1>2, <1>3 DEF Exit

(* Handle_C_EXIT_GAME has left. *)
LEMMA ManyExited == ASSUME ManyInv, NEW s \in Sessions, Exited(s) PROVE ManyInv'
<1>1. /\ UNCHANGED <<registry, playerIdList, room, playerName, online, local, crash>>
      /\ pc[Recv(s)] = "exited" /\ Finish(s)
  BY DEF Exited
<1>2. /\ screen' \in [Sessions -> {"login", "lobby", "room"}] /\ screen'[s] = "lobby"
      /\ \A t \in Sessions : t # s => screen'[t] = screen[t]
      /\ currentRoom' \in [Sessions -> Nat \cup {NoRoom}]
  BY DEF Exited, ManyInv, ManyFields
<1>3. ManyFields'
  BY <1>1, <1>2, Ended DEF ManyInv, ManyFields
<1> QED
  BY <1>1, <1>2, <1>3, ManyFinish

(* A handler has found the room to leave. *)
LEMMA ManyToRemove ==
    ASSUME ManyInv, NEW h \in Handlers, pc[h] \in {"exitGet", "discGet", "sessionGet"},
           Goto(h, "remove"), NEW k \in DOMAIN rooms, NEW ret \in {"done", "exited", "clearRoom"},
           local' = [local EXCEPT ![h] = [room |-> rooms[k], snapshot |-> {}, ret |-> ret]],
           UNCHANGED <<registry, playerIdList, room, player, client>>
    PROVE  ManyInv'
<1>1. rooms[k] \in DOMAIN room /\ rooms[k] \in Nat
  BY DEF ManyInv, ManyRooms
<1>2. PICK l \in Locals : l = [room |-> rooms[k], snapshot |-> {}, ret |-> ret]
  BY <1>1 DEF Locals
<1>3. /\ local' \in [Handlers -> Locals] /\ local'[h].room = rooms[k]
      /\ local'[h].snapshot = {}
      /\ \A g \in Handlers : g # h => local'[g] = local[g]
  BY <1>2, LocalSet DEF ManyInv
<1>4. /\ pc' \in [Handlers -> Steps] /\ pc'[h] = "remove"
      /\ \A g \in Handlers : g # h => pc'[g] = pc[g]
  <2>1. "remove" \in Steps
    BY DEF Steps
  <2> QED
    BY <2>1, Went DEF ManyInv
<1>5. ManyFields'
  BY <1>3, <1>4 DEF ManyInv, ManyFields
<1>6. Newcomers'
  <2>1. \A g \in Handlers : local'[g].snapshot \subseteq local[g].snapshot
    BY <1>3
  <2> QED
    BY <1>4, <2>1, Apart DEF ManyInv, Newcomers
<1> QED
  BY <1>1, <1>3, <1>4, <1>5, <1>6, Passes

(* A disconnect handler goes on, in no room. *)
LEMMA ManyOn ==
    ASSUME ManyInv, NEW s \in Sessions,
           NEW l \in {"discGet", "clearRoom", "freeName", "sessionRemove", "sessionGet", "done"},
           pc[Disc(s)] \in {"disconnected", "discGet", "clearRoom", "freeName", "sessionRemove",
                            "sessionGet"},
           Goto(Disc(s), l), UNCHANGED <<registry, room, playerName, client, local>>,
           currentRoom' \in [Sessions -> Nat \cup {NoRoom}]
    PROVE  ManyInv'
<1>1. /\ pc' \in [Handlers -> Steps] /\ pc'[Disc(s)] = l
      /\ \A g \in Handlers : g # Disc(s) => pc'[g] = pc[g]
  <2>1. l \in Steps /\ Disc(s) \in Handlers
    BY Apart DEF Steps
  <2> QED
    BY <2>1, Went DEF ManyInv
<1>2. ManyFields'
  BY <1>1 DEF ManyInv, ManyFields
<1>3. Newcomers'
  BY <1>1, Apart DEF ManyInv, Newcomers
<1> QED
  BY <1>1, <1>2, <1>3, Passes, Apart

(* Exits and disconnects that look for a room. *)
LEMMA ManyGet ==
    ASSUME ManyInv, NEW s \in Sessions, ExitGet(s) \/ DiscGet(s) \/ SessionGet(s)
    PROVE  ManyInv'
<1>1. CASE ExitGet(s)
  <2>1. UNCHANGED <<registry, playerIdList, room, player, client>> /\ pc[Recv(s)] = "exitGet"
    BY <1>1 DEF ExitGet
  <2>2. CASE UNCHANGED <<pc, local>>
    <3>1. ManyFields' /\ Newcomers'
      BY <2>1, <2>2 DEF ManyInv, ManyFields, Newcomers
    <3> QED
      BY <2>1, <2>2, <3>1, Passes, Apart
  <2>3. CASE local[Recv(s)].room \in DOMAIN rooms /\ Goto(Recv(s), "remove")
             /\ local' = [local EXCEPT ![Recv(s)] =
                             [room |-> rooms[local[Recv(s)].room], snapshot |-> {}, ret |-> "exited"]]
    BY <2>1, <2>3, ManyToRemove, Apart
  <2> QED
    BY <1>1, <2>2, <2>3 DEF ExitGet
<1>2. ASSUME NEW ret \in {"clearRoom", "done"}, LeaveRoom(s, ret),
             pc[Disc(s)] \in {"discGet", "sessionGet"},
             UNCHANGED <<registry, playerIdList, room, player, client, crash>>
      PROVE  ManyInv'
  <2>1. CASE UNCHANGED local /\ Goto(Disc(s), ret)
    <3>1. currentRoom' \in [Sessions -> Nat \cup {NoRoom}]
      BY <1>2 DEF ManyInv, ManyFields
    <3> QED
      BY <1>2, <2>1, <3>1, ManyOn
  <2>2. CASE currentRoom[s] \in DOMAIN rooms /\ Goto(Disc(s), "remove")
             /\ local' = [local EXCEPT ![Disc(s)] =
                             [room |-> rooms[currentRoom[s]], snapshot |-> {}, ret |-> ret]]
    BY <1>2, <2>2, ManyToRemove, Apart
  <2> QED
    BY <1>2, <2>1, <2>2 DEF LeaveRoom
<1> QED
  BY <1>1, <1>2 DEF DiscGet, SessionGet

(* The other steps of a disconnect. *)
LEMMA ManyDisc ==
    ASSUME ManyInv, NEW s \in Sessions,
           Disconnected(s) \/ ClearRoom(s) \/ FreeName(s) \/ SessionRemove(s)
    PROVE  ManyInv'
<1>1. currentRoom' \in [Sessions -> Nat \cup {NoRoom}]
  BY DEF Disconnected, ClearRoom, FreeName, SessionRemove, ManyInv, ManyFields
<1>2. /\ UNCHANGED <<registry, room, playerName, client, local>>
      /\ pc[Disc(s)] \in {"disconnected", "clearRoom", "freeName", "sessionRemove"}
  BY DEF Disconnected, ClearRoom, FreeName, SessionRemove
<1>3. PICK l \in {"discGet", "freeName", "sessionRemove", "sessionGet", "done"} : Goto(Disc(s), l)
  BY DEF Disconnected, ClearRoom, FreeName, SessionRemove
<1> QED
  BY <1>1, <1>2, <1>3, ManyOn

(* A room is made: under an id of its own when none is on its way.         *)
LEMMA ManyCreate == ASSUME ManyInv, NEW s \in Sessions, Create(s) PROVE ManyInv'
<1>1. /\ UNCHANGED <<registry, playerIdList, player, client, crash>> /\ pc[Recv(s)] = "create"
      /\ Goto(Recv(s), "addRoom")
  BY DEF Create
<1>2. PICK r \in Nat : r = Made + 1 /\ DOMAIN room = 1..Made /\ Made \in Nat /\ r \notin DOMAIN room
  <2>1. DOMAIN room = 1..Made /\ Made \in Nat
    BY DEF ManyInv, ManyRooms
  <2> QED
    BY <2>1
<1>3. /\ DOMAIN room' = DOMAIN room \cup {r}
      /\ \A i \in DOMAIN room : room'[i] = room[i]
      /\ room'[r] = [id |-> roomIdCount, hostId |-> playerName[s], sessions |-> {},
                     playerCount |-> 0]
  BY <1>2 DEF Create, Made
<1>4. room'[r].id = roomIdCount /\ room'[r].hostId = playerName[s] /\ room'[r].sessions = {}
  BY <1>3
<1>5. DOMAIN room' = 1..r /\ Made' = r
  <2>1. DOMAIN room' = 1..r
    BY <1>2, <1>3
  <2> QED
    BY <1>2, <2>1, FS_Interval DEF Made
<1>6. /\ local' \in [Handlers -> Locals] /\ local'[Recv(s)].room = r
      /\ local'[Recv(s)].snapshot = local[Recv(s)].snapshot
      /\ \A g \in Handlers : g # Recv(s) => local'[g] = local[g]
  <2>1. SetLocal(Recv(s), "room", r)
    BY <1>2 DEF Create, Made
  <2> QED
    BY <1>2, <2>1, ManyRoomSet, Apart DEF ManyInv
<1>7. /\ pc' \in [Handlers -> Steps] /\ pc'[Recv(s)] = "addRoom"
      /\ \A g \in Handlers : g # Recv(s) => pc'[g] = pc[g]
  <2>1. "addRoom" \in Steps /\ Recv(s) \in Handlers
    BY Apart DEF Steps
  <2> QED
    BY <1>1, <2>1, Went DEF ManyInv
<1>8. ManyFields'
  BY <1>1, <1>6, <1>7 DEF ManyInv, ManyFields
<1>9. ManyRooms'
  <2>1. AllCounted'
    BY CreateCounts DEF ManyInv, ManyRooms
  <2>2. \A i \in DOMAIN room' : room'[i].id \in Nat
    BY <1>3, <1>4 DEF ManyInv, ManyRooms
  <2>3. \A g \in Handlers : pc'[g] \in {"addRoom", "add", "remove", "dismiss", "unlist"} =>
                                local'[g].room \in DOMAIN room'
    BY <1>3, <1>6, <1>7 DEF ManyInv, ManyRooms
  <2> QED
    BY <1>1, <1>3, <1>5, <2>1, <2>2, <2>3 DEF ManyInv, ManyRooms
<1>10. Newcomers'
  <2>1. \A g \in Handlers : local'[g].snapshot = local[g].snapshot
    BY <1>6
  <2>2. \A t \in Sessions : (\A i \in DOMAIN room : t \notin room[i].sessions) =>
                                \A i \in DOMAIN room' : t \notin room'[i].sessions
    BY <1>3, <1>4
  <2> QED
    BY <1>1, <1>7, <2>1, <2>2, Apart DEF ManyInv, Newcomers
<1>11. ASSUME OwnIds' PROVE Listing' /\ Hosted'
  <2>1. OwnIds
    BY <1>3, <1>11 DEF OwnIds
  <2>2. Listing /\ Hosted
    BY <2>1 DEF ManyInv
  <2>3. \A t \in Sessions : pc[Recv(t)] # "addRoom"
    <3>1. ASSUME NEW t \in Sessions, pc[Recv(t)] = "addRoom" PROVE FALSE
      <4>1. local[Recv(t)].room = Made /\ roomIdCount = Made - 1
        BY <2>2, <3>1 DEF Listing
      <4>2. Made \in DOMAIN room
        BY <3>1, <4>1, Apart DEF ManyInv, ManyRooms
      <4>3. room'[Made].id = Made - 1
        BY <1>3, <2>2, <4>2 DEF Listing
      <4> QED
        BY <1>2, <1>3, <1>4, <1>11, <4>1, <4>2, <4>3 DEF OwnIds
    <3> QED
      BY <3>1
  <2>4. roomIdCount = r - 1
    BY <1>2, <2>2, <2>3 DEF Listing
  <2>5. Listing'
    <3>1. \A i \in DOMAIN room' : room'[i].id = i - 1
      BY <1>3, <1>4, <2>2, <2>4 DEF Listing
    <3>2. \A t \in Sessions : pc'[Recv(t)] = "addRoom" <=> t = s
      BY <1>7, <2>3, Apart
    <3>3. room'[Made'].hostId = playerName'[s] /\ local'[Recv(s)].room = Made'
          /\ roomIdCount' = Made' - 1
      BY <1>1, <1>4, <1>5, <1>6, <2>4
    <3>4. \A k \in DOMAIN rooms' : rooms'[k] = k + 1
      BY <1>1, <2>2 DEF Listing
    <3> QED
      BY <3>1, <3>2, <3>3, <3>4 DEF Listing
  <2>6. Hosted'
    <3>1. \A k \in DOMAIN rooms : k + 1 \in DOMAIN room /\ room'[k + 1] = room[k + 1]
      BY <1>3, <2>2 DEF Listing, ManyInv, ManyRooms
    <3>2. \A g \in Handlers : pc[g] \in {"add", "dismiss", "unlist"} =>
                                  pc'[g] = pc[g] /\ local'[g] = local[g]
      BY <1>1, <1>6, <1>7
    <3> QED
      BY <1>1, <2>2, <3>1, <3>2, Apart DEF Hosted
  <2> QED
    BY <2>5, <2>6
<1> QED
  BY <1>8, <1>9, <1>10, <1>11 DEF ManyInv

(* It is listed. *)
LEMMA ManyAddRoom == ASSUME ManyInv, NEW s \in Sessions, AddRoom(s) PROVE ManyInv'
<1>1. /\ UNCHANGED <<playerIdList, room, player, client, local, crash>>
      /\ pc[Recv(s)] = "addRoom" /\ Goto(Recv(s), "add") /\ roomIdCount' = roomIdCount + 1
  BY DEF AddRoom
<1>2. /\ DOMAIN rooms' = DOMAIN rooms \cup {roomIdCount}
      /\ \A k \in DOMAIN rooms' : rooms'[k] = IF k = roomIdCount THEN local[Recv(s)].room
                                                                 ELSE rooms[k]
  BY DEF AddRoom
<1>3. /\ pc' \in [Handlers -> Steps] /\ pc'[Recv(s)] = "add"
      /\ \A g \in Handlers : g # Recv(s) => pc'[g] = pc[g]
  <2>1. "add" \in Steps /\ Recv(s) \in Handlers
    BY Apart DEF Steps
  <2> QED
    BY <1>1, <2>1, Went DEF ManyInv
<1>4. local[Recv(s)].room \in DOMAIN room /\ Recv(s) \in Handlers
  BY <1>1, Apart DEF ManyInv, ManyRooms
<1>5. ManyFields'
  BY <1>1, <1>3 DEF ManyInv, ManyFields
<1>6. ManyRooms'
  BY <1>1, <1>2, <1>3, <1>4 DEF ManyInv, ManyRooms, Made, AllCounted, Counted
<1>7. Newcomers'
  BY <1>1, <1>3, Apart DEF ManyInv, Newcomers
<1>8. ASSUME OwnIds' PROVE Listing' /\ Hosted'
  <2>1. Listing /\ Hosted
    BY <1>1, <1>8 DEF ManyInv, OwnIds
  <2>2. /\ local[Recv(s)].room = Made /\ roomIdCount = Made - 1 /\ Made \in Nat
        /\ room[Made].hostId = playerName[s] /\ (Made - 1) + 1 = Made
    BY <1>1, <2>1 DEF Listing, ManyInv, ManyRooms
  <2>3. \A t \in Sessions : pc'[Recv(t)] # "addRoom"
    BY <1>1, <1>3, <2>1, Apart DEF Listing
  <2>4. Listing'
    <3>1. \A k \in DOMAIN rooms' : rooms'[k] = k + 1
      BY <1>2, <2>1, <2>2 DEF Listing
    <3>2. roomIdCount' = Made'
      BY <1>1, <2>2 DEF Made
    <3> QED
      BY <1>1, <2>1, <2>3, <3>1, <3>2 DEF Listing
  <2>5. Hosted'
    <3>1. \A t \in Sessions : pc[Recv(t)] = "add" => pc'[Recv(t)] = "add"
      BY <1>1, <1>3, Apart
    <3>2. \A g \in Handlers : pc[g] \in {"dismiss", "unlist"} => pc'[g] = pc[g]
      BY <1>1, <1>3
    <3> QED
      BY <1>1, <1>2, <1>3, <2>1, <2>2, <3>1, <3>2 DEF Hosted
  <2> QED
    BY <2>4, <2>5
<1> QED
  BY <1>5, <1>6, <1>7, <1>8 DEF ManyInv

(* Who made it, or another, enters it. *)
LEMMA ManyAdd == ASSUME ManyInv, NEW s \in Sessions, Add(s) PROVE ManyInv'
<1>1. /\ UNCHANGED <<registry, playerIdList, playerName, online, client, local, crash>>
      /\ pc[Recv(s)] = "add" /\ Goto(Recv(s), "answer")
  BY DEF Add
<1>2. PICK r \in DOMAIN room : r = local[Recv(s)].room
  BY <1>1, Apart DEF ManyInv, ManyRooms
<1>3. /\ AllCounted' /\ DOMAIN room' = DOMAIN room
      /\ \A i \in DOMAIN room :
            /\ room'[i].id = room[i].id /\ room'[i].hostId = room[i].hostId
            /\ room'[i].sessions = IF i = r THEN room[i].sessions \cup {s} ELSE room[i].sessions
  BY <1>2, AddCounts DEF ManyInv, ManyRooms
<1>4. /\ pc' \in [Handlers -> Steps] /\ pc'[Recv(s)] = "answer"
      /\ \A g \in Handlers : g # Recv(s) => pc'[g] = pc[g]
  <2>1. "answer" \in Steps /\ Recv(s) \in Handlers
    BY Apart DEF Steps
  <2> QED
    BY <1>1, <2>1, Went DEF ManyInv
<1>5. ManyFields'
  <2>1. currentRoom' \in [Sessions -> Nat \cup {NoRoom}]
    <3>1. room[r].id \in Nat
      BY DEF ManyInv, ManyRooms
    <3> QED
      BY <1>2, <3>1 DEF Add, ManyInv, ManyFields
  <2> QED
    BY <1>1, <1>4, <2>1 DEF ManyInv, ManyFields
<1>6. Made' = Made
  BY <1>3 DEF Made
<1>7. ManyRooms'
  BY <1>1, <1>3, <1>4, <1>6 DEF ManyInv, ManyRooms
<1>8. Newcomers'
  <2>1. screen[s] # "login"
    BY <1>1 DEF ManyInv, Newcomers
  <2>2. \A t \in Sessions \ {s} : (\A i \in DOMAIN room : t \notin room[i].sessions) =>
                                     \A i \in DOMAIN room' : t \notin room'[i].sessions
    BY <1>3
  <2> QED
    BY <1>1, <1>4, <2>1, <2>2, Apart DEF ManyInv, Newcomers
<1>9. ASSUME OwnIds' PROVE Listing' /\ Hosted'
  <2>1. Listing /\ Hosted
    <3>1. OwnIds
      BY <1>3, <1>9 DEF OwnIds
    <3> QED
      BY <3>1 DEF ManyInv
  <2>2. \A t \in Sessions : pc'[Recv(t)] = "addRoom" <=> pc[Recv(t)] = "addRoom"
    BY <1>1, <1>4, Apart
  <2>3. \A t \in Sessions : pc[Recv(t)] = "addRoom" => room'[Made].hostId = playerName[t]
    <3>1. \A t \in Sessions : pc[Recv(t)] = "addRoom" => Made \in DOMAIN room
      BY <2>1, Apart DEF Listing, ManyInv, ManyRooms
    <3> QED
      BY <1>3, <2>1, <3>1 DEF Listing
  <2>4. Listing'
    BY <1>1, <1>3, <1>6, <2>1, <2>2, <2>3 DEF Listing
  <2>5. Hosted'
    <3>1. ASSUME NEW k \in DOMAIN rooms
          PROVE  \/ \E t \in room'[k + 1].sessions : playerName[t] = room'[k + 1].hostId
                 \/ \E t \in Sessions : /\ pc'[Recv(t)] = "add" /\ local[Recv(t)].room = k + 1
                                        /\ playerName[t] = room'[k + 1].hostId
                 \/ \E g \in Handlers : pc'[g] \in {"dismiss", "unlist"} /\ local[g].room = k + 1
      <4>1. k + 1 \in DOMAIN room
        BY <2>1 DEF Listing, ManyInv, ManyRooms
      <4>2. /\ room'[k + 1].hostId = room[k + 1].hostId
            /\ room[k + 1].sessions \subseteq room'[k + 1].sessions
            /\ k + 1 = r => s \in room'[k + 1].sessions
        BY <1>3, <4>1
      <4>3. \A t \in Sessions : pc[Recv(t)] = "add" => t = s \/ pc'[Recv(t)] = "add"
        BY <1>4, Apart
      <4>4. \A g \in Handlers : pc[g] \in {"dismiss", "unlist"} => pc'[g] = pc[g]
        BY <1>1, <1>4
      <4> QED
        BY <1>2, <2>1, <4>2, <4>3, <4>4 DEF Hosted
    <3> QED
      BY <1>1, <3>1 DEF Hosted
  <2> QED
    BY <2>4, <2>5
<1> QED
  BY <1>5, <1>7, <1>8, <1>9 DEF ManyInv

(* A player leaves a room, and the room may end. *)
LEMMA ManyRemove == ASSUME ManyInv, NEW h \in Handlers, Remove(h) PROVE ManyInv'
<1>1. /\ UNCHANGED <<registry, playerIdList, player, client, crash>> /\ pc[h] = "remove"
      /\ SetLocal(h, "snapshot", room[local[h].room].sessions \ {Of(h)})
  BY DEF Remove
<1>2. PICK r \in DOMAIN room : r = local[h].room
  BY <1>1 DEF ManyInv, ManyRooms
<1>3. /\ AllCounted' /\ DOMAIN room' = DOMAIN room
      /\ \A i \in DOMAIN room :
            /\ room'[i].id = room[i].id /\ room'[i].hostId = room[i].hostId
            /\ room'[i].sessions \subseteq room[i].sessions
            /\ i # r => room'[i].sessions = room[i].sessions
  BY <1>2, RemoveCounts DEF ManyInv, ManyRooms
<1>4. \/ Goto(h, "dismiss")
      \/ /\ Return(h) /\ playerName[Of(h)] # room[r].hostId
         /\ room'[r].sessions = room[r].sessions \ {Of(h)}
  BY <1>2, RemoveCounts DEF ManyInv, ManyRooms
<1>5. /\ pc' \in [Handlers -> Steps] /\ pc'[h] \in {"dismiss", "done", "exited", "clearRoom"}
      /\ \A g \in Handlers : g # h => pc'[g] = pc[g]
      /\ \/ pc'[h] = "dismiss"
         \/ playerName[Of(h)] # room[r].hostId /\ room'[r].sessions = room[r].sessions \ {Of(h)}
  <2>1. PICK l \in {"dismiss", "done", "exited", "clearRoom"} :
             /\ Goto(h, l)
             /\ l = "dismiss" \/ /\ playerName[Of(h)] # room[r].hostId
                                 /\ room'[r].sessions = room[r].sessions \ {Of(h)}
    <3>1. local[h].ret \in {"done", "exited", "clearRoom"}
      BY DEF ManyInv, ManyFields, Locals
    <3> QED
      BY <1>4, <3>1 DEF Return
  <2>2. l \in Steps
    BY DEF Steps
  <2> QED
    BY <2>1, <2>2, Went DEF ManyInv
<1>6. /\ local' \in [Handlers -> Locals] /\ local'[h].room = r
      /\ local'[h].snapshot = room[r].sessions \ {Of(h)}
      /\ \A g \in Handlers : g # h => local'[g] = local[g]
  <2>1. room[r].sessions \ {Of(h)} \in SUBSET Sessions
    BY DEF ManyInv, ManyRooms, AllCounted, Counted
  <2> QED
    BY <1>1, <1>2, <2>1, ManySnapshotSet DEF ManyInv
<1>7. ManyFields'
  BY <1>1, <1>5, <1>6 DEF ManyInv, ManyFields
<1>8. Made' = Made
  BY <1>3 DEF Made
<1>9. ManyRooms'
  <2>1. \A g \in Handlers : pc'[g] \in {"addRoom", "add", "remove", "dismiss", "unlist"} =>
                                local'[g].room \in DOMAIN room'
    BY <1>2, <1>3, <1>5, <1>6 DEF ManyInv, ManyRooms
  <2> QED
    BY <1>1, <1>3, <1>8, <2>1 DEF ManyInv, ManyRooms
<1>10. Newcomers'
  <2>1. \A t \in Sessions : screen[t] = "login" => \A g \in Handlers : t \notin local'[g].snapshot
    BY <1>2, <1>6 DEF ManyInv, Newcomers
  <2>2. \A t \in Sessions : screen[t] = "login" => \A i \in DOMAIN room' : t \notin room'[i].sessions
    BY <1>3 DEF ManyInv, Newcomers
  <2> QED
    BY <1>1, <1>5, <2>1, <2>2, Apart DEF ManyInv, Newcomers
<1>11. ASSUME OwnIds' PROVE Listing' /\ Hosted'
  <2>1. Listing /\ Hosted
    <3>1. OwnIds
      BY <1>3, <1>11 DEF OwnIds
    <3> QED
      BY <3>1 DEF ManyInv
  <2>2. \A t \in Sessions : /\ pc'[Recv(t)] = "addRoom" <=> pc[Recv(t)] = "addRoom"
                            /\ pc[Recv(t)] = "addRoom" => local'[Recv(t)].room = local[Recv(t)].room
    BY <1>1, <1>5, <1>6, Apart
  <2>3. \A t \in Sessions : pc[Recv(t)] = "addRoom" => room'[Made].hostId = playerName[t]
    <3>1. \A t \in Sessions : pc[Recv(t)] = "addRoom" => Made \in DOMAIN room
      BY <2>1, Apart DEF Listing, ManyInv, ManyRooms
    <3> QED
      BY <1>3, <2>1, <3>1 DEF Listing
  <2>4. Listing'
    BY <1>1, <1>3, <1>8, <2>1, <2>2, <2>3 DEF Listing
  <2>5. Hosted'
    <3>1. ASSUME NEW k \in DOMAIN rooms
          PROVE  \/ \E t \in room'[k + 1].sessions : playerName[t] = room'[k + 1].hostId
                 \/ \E t \in Sessions : /\ pc'[Recv(t)] = "add" /\ local'[Recv(t)].room = k + 1
                                        /\ playerName[t] = room'[k + 1].hostId
                 \/ \E g \in Handlers : pc'[g] \in {"dismiss", "unlist"} /\ local'[g].room = k + 1
      <4>1. k + 1 \in DOMAIN room
        BY <2>1 DEF Listing, ManyInv, ManyRooms
      <4>2. /\ room'[k + 1].hostId = room[k + 1].hostId
            /\ k + 1 # r => room'[k + 1].sessions = room[k + 1].sessions
        BY <1>3, <4>1
      <4>3. \A t \in Sessions : pc[Recv(t)] = "add" =>
                pc'[Recv(t)] = "add" /\ local'[Recv(t)].room = local[Recv(t)].room
        BY <1>1, <1>5, <1>6, Apart
      <4>4. \A g \in Handlers : pc[g] \in {"dismiss", "unlist"} =>
                pc'[g] = pc[g] /\ local'[g].room = local[g].room
        BY <1>1, <1>5, <1>6
      <4>5. CASE \E t \in room[k + 1].sessions : playerName[t] = room[k + 1].hostId
        BY <1>5, <1>6, <4>2, <4>5
      <4> QED
        BY <2>1, <4>2, <4>3, <4>4, <4>5 DEF Hosted
    <3> QED
      BY <1>1, <3>1 DEF Hosted
  <2> QED
    BY <2>4, <2>5
<1> QED
  BY <1>7, <1>9, <1>10, <1>11 DEF ManyInv

(* The rooms, the list and the handlers that are not h stay; h goes on     *)
(* with ending its room.                                                   *)
LEMMA ManyEnding ==
    ASSUME ManyInv, NEW h \in Handlers, UNCHANGED <<rooms, roomIdCount, room, playerName>>,
           pc[h] = "dismiss", pc'[h] \in {"dismiss", "unlist"}, local'[h].room = local[h].room,
           \A g \in Handlers : g # h => pc'[g] = pc[g] /\ local'[g] = local[g],
           ManyFields', Newcomers'
    PROVE  ManyInv'
<1>1. \A g \in Handlers : local'[g].room = local[g].room
  OBVIOUS
<1>2. ManyRooms'
  BY <1>1 DEF ManyInv, ManyRooms, Made, AllCounted, Counted
<1>3. OwnIds' => OwnIds
  BY DEF OwnIds
<1>4. \A s \in Sessions : /\ pc'[Recv(s)] = "addRoom" <=> pc[Recv(s)] = "addRoom"
                          /\ pc'[Recv(s)] = "add" <=> pc[Recv(s)] = "add"
                          /\ local'[Recv(s)].room = local[Recv(s)].room
  BY <1>1, Apart
<1>5. ASSUME Listing PROVE Listing'
  BY <1>4, <1>5 DEF Listing, Made
<1>6. ASSUME Hosted PROVE Hosted'
  <2>1. \A g \in Handlers : pc[g] \in {"dismiss", "unlist"} => pc'[g] \in {"dismiss", "unlist"}
    OBVIOUS
  <2> QED
    BY <1>1, <1>4, <1>6, <2>1 DEF Hosted
<1> QED
  BY <1>2, <1>3, <1>5, <1>6 DEF ManyInv

(* The players of a room that has ended are sent to the lobby. *)
LEMMA ManyDismiss == ASSUME ManyInv, NEW h \in Handlers, Dismiss(h) PROVE ManyInv'
<1>1. /\ UNCHANGED <<registry, playerIdList, room, playerName, online, request, crash>>
      /\ pc[h] = "dismiss"
  BY DEF Dismiss
<1>2. CASE Goto(h, "unlist") /\ UNCHANGED <<currentRoom, screen, local>>
  <2>1. /\ pc' \in [Handlers -> Steps] /\ pc'[h] = "unlist"
        /\ \A g \in Handlers : g # h => pc'[g] = pc[g]
    <3>1. "unlist" \in Steps
      BY DEF Steps
    <3> QED
      BY <1>2, <3>1, Went DEF ManyInv
  <2>2. ManyFields'
    BY <1>1, <1>2, <2>1 DEF ManyInv, ManyFields
  <2>3. Newcomers'
    BY <1>1, <1>2, <2>1, Apart DEF ManyInv, Newcomers
  <2> QED
    BY <1>1, <1>2, <2>1, <2>2, <2>3, ManyEnding
<1>3. ASSUME NEW s \in local[h].snapshot, currentRoom' = [currentRoom EXCEPT ![s] = NoRoom],
             screen' = [screen EXCEPT ![s] = "lobby"],
             SetLocal(h, "snapshot", local[h].snapshot \ {s}), UNCHANGED pc
      PROVE  ManyInv'
  <2>1. local[h].snapshot \subseteq Sessions /\ s \in Sessions /\ screen[s] # "login"
    BY DEF ManyInv, ManyFields, Locals, Newcomers
  <2>2. /\ local' \in [Handlers -> Locals] /\ local'[h].room = local[h].room
        /\ local'[h].snapshot = local[h].snapshot \ {s}
        /\ \A g \in Handlers : g # h => local'[g] = local[g]
    <3>1. local[h].snapshot \ {s} \in SUBSET Sessions
      BY <2>1
    <3> QED
      BY <1>3, <3>1, ManySnapshotSet DEF ManyInv
  <2>3. /\ screen' \in [Sessions -> {"login", "lobby", "room"}] /\ screen'[s] = "lobby"
        /\ \A t \in Sessions : t # s => screen'[t] = screen[t]
        /\ currentRoom' \in [Sessions -> Nat \cup {NoRoom}]
    BY <1>3, <2>1 DEF ManyInv, ManyFields
  <2>4. ManyFields'
    BY <1>1, <1>3, <2>2, <2>3 DEF ManyInv, ManyFields
  <2>5. Newcomers'
    <3>1. \A g \in Handlers : local'[g].snapshot \subseteq local[g].snapshot
      BY <2>2
    <3>2. \A t \in Sessions : screen'[t] = "login" <=> screen[t] = "login"
      BY <2>1, <2>3
    <3> QED
      BY <1>1, <1>3, <3>1, <3>2 DEF ManyInv, Newcomers
  <2> QED
    BY <1>1, <1>3, <2>2, <2>4, <2>5, ManyEnding
<1> QED
  BY <1>2, <1>3 DEF Dismiss

(* The room is taken from the list. *)
LEMMA ManyUnlist == ASSUME ManyInv, NEW h \in Handlers, Unlist(h) PROVE ManyInv'
<1>1. /\ UNCHANGED <<roomIdCount, playerIdList, room, player, client, local, crash>>
      /\ pc[h] = "unlist" /\ Return(h)
      /\ rooms' = [k \in DOMAIN rooms \ {room[local[h].room].id} |-> rooms[k]]
  BY DEF Unlist
<1>2. /\ pc' \in [Handlers -> Steps] /\ pc'[h] \in {"done", "exited", "clearRoom"}
      /\ \A g \in Handlers : g # h => pc'[g] = pc[g]
  <2>1. local[h].ret \in {"done", "exited", "clearRoom"}
    BY DEF ManyInv, ManyFields, Locals
  <2>2. local[h].ret \in Steps
    BY <2>1 DEF Steps
  <2> QED
    BY <1>1, <2>1, <2>2, Went DEF ManyInv, Return
<1>3. ManyFields'
  BY <1>1, <1>2 DEF ManyInv, ManyFields
<1>4. ManyRooms'
  BY <1>1, <1>2 DEF ManyInv, ManyRooms, Made, AllCounted, Counted
<1>5. Newcomers'
  BY <1>1, <1>2, Apart DEF ManyInv, Newcomers
<1>6. ASSUME OwnIds' PROVE Listing' /\ Hosted'
  <2>1. Listing /\ Hosted
    BY <1>1, <1>6 DEF ManyInv, OwnIds
  <2>2. \A t \in Sessions : /\ pc'[Recv(t)] = "addRoom" <=> pc[Recv(t)] = "addRoom"
                            /\ pc'[Recv(t)] = "add" <=> pc[Recv(t)] = "add"
    BY <1>1, <1>2, Apart
  <2>3. Listing'
    BY <1>1, <2>1, <2>2 DEF Listing, Made
  <2>4. \A k \in DOMAIN rooms' : k \in DOMAIN rooms /\ k \in Nat /\ local[h].room # k + 1
    <3>1. PICK r \in DOMAIN room : r = local[h].room
      BY <1>1 DEF ManyInv, ManyRooms
    <3>2. room[r].id = r - 1 /\ r \in Nat
      BY <2>1 DEF Listing, ManyInv, ManyRooms
    <3>3. \A k \in DOMAIN rooms' : k \in DOMAIN rooms /\ k # r - 1
      BY <1>1, <3>1, <3>2
    <3>4. \A k \in DOMAIN rooms : k \in Nat
      BY DEF ManyInv, ManyRooms
    <3> QED
      BY <3>1, <3>2, <3>3, <3>4
  <2>5. Hosted'
    BY <1>1, <1>2, <2>1, <2>2, <2>4 DEF Hosted
  <2> QED
    BY <2>3, <2>5
<1> QED
  BY <1>3, <1>4, <1>5, <1>6 DEF ManyInv

(* At the start there is no room. *)
LEMMA ManyInit == Init => ManyInv
<1> SUFFICES ASSUME Init PROVE ManyInv
  OBVIOUS
<1> USE DEF Init
<1>1. DOMAIN room = {} /\ DOMAIN rooms = {}
  OBVIOUS
<1>2. Made = 0
  BY <1>1, FS_EmptySet DEF Made
<1>3. ManyFields
  <2>1. NoLocal \in Locals /\ <<"none">> \in Asked /\ "idle" \in Steps
    BY DEF NoLocal, Locals, Asked, Steps
  <2> QED
    BY <2>1 DEF ManyFields
<1>4. ManyRooms
  <2>1. DOMAIN room = 1..0
    BY <1>1
  <2> QED
    BY <1>1, <1>2, <2>1 DEF ManyRooms, AllCounted
<1>5. Newcomers
  BY <1>1, Apart DEF Newcomers, NoLocal
<1>6. Listing
  BY <1>1, <1>2, Apart DEF Listing
<1>7. Hosted
  BY <1>1 DEF Hosted
<1> QED
  BY <1>3, <1>4, <1>5, <1>6, <1>7 DEF ManyInv

(* Every step keeps it, whatever the number of workers. *)
LEMMA ManyStep == ASSUME ManyInv, [Next]_vars PROVE ManyInv'
<1>1. CASE UNCHANGED vars
  <2>1. UNCHANGED <<registry, playerIdList, room, player, client, pc, local, crash>>
    BY <1>1 DEF vars
  <2>2. ManyFields' /\ ManyRooms' /\ Newcomers'
    BY <2>1 DEF ManyInv, ManyFields, ManyRooms, Made, AllCounted, Counted, Newcomers
  <2>3. OwnIds' => Listing' /\ Hosted'
    BY <2>1 DEF ManyInv, OwnIds, Listing, Made, Hosted
  <2> QED
    BY <2>2, <2>3 DEF ManyInv
<1>2. CASE \E s \in Sessions : Ask(s) \/ Receive(s) \/ Drop(s)
  BY <1>2, ManyAsk, ManyReceive, ManyDrop
<1>3. CASE \E s \in Sessions : RecvStep(s)
  <2>1. PICK s \in Sessions : RecvStep(s)
    BY <1>3
  <2>2. CASE Login(s) \/ LoginInsert(s)
    BY <2>2, ManyLogin, ManyLoginInsert
  <2>3. CASE Create(s) \/ AddRoom(s) \/ Join(s)
    BY <2>3, ManyCreate, ManyAddRoom, ManyJoin
  <2>4. CASE Add(s) \/ Answer(s)
    BY <2>4, ManyAdd, ManyAnswer
  <2>5. CASE Exit(s) \/ ExitGet(s) \/ Exited(s)
    BY <2>5, ManyExit, ManyGet, ManyExited
  <2> QED
    BY <2>1, <2>2, <2>3, <2>4, <2>5 DEF RecvStep
<1>4. CASE \E s \in Sessions : DiscStep(s)
  <2>1. PICK s \in Sessions : DiscStep(s)
    BY <1>4
  <2>2. CASE DiscGet(s) \/ SessionGet(s)
    BY <2>2, ManyGet
  <2>3. CASE Disconnected(s) \/ ClearRoom(s) \/ FreeName(s) \/ SessionRemove(s)
    BY <2>3, ManyDisc
  <2> QED
    BY <2>1, <2>2, <2>3 DEF DiscStep
<1>5. CASE \E h \in Handlers : RemoveStep(h)
  BY <1>5, ManyRemove, ManyDismiss, ManyUnlist DEF RemoveStep
<1> QED
  BY <1>1, <1>2, <1>3, <1>4, <1>5 DEF Next, HandlerStep, Over

(* However many workers there are, while no two rooms have got one id (the *)
(* race of LobbyIdRace is what breaks that): between handlers every listed *)
(* room has its host among its members.  Room::Remove ends a room with its *)
(* host, and nobody else ends it while the host is in.                     *)
THEOREM HostsKept == Spec => [](OwnIds => RoomHasHost)
<1>1. ASSUME ManyInv, OwnIds, Idle, NEW k \in DOMAIN rooms
      PROVE  \E s \in room[rooms[k]].sessions : playerName[s] = room[rooms[k]].hostId
  <2>1. \A h \in Handlers : pc[h] \in {"idle", "done"}
    BY <1>1 DEF Idle, Running
  <2>2. rooms[k] = k + 1 /\ Hosted
    BY <1>1 DEF ManyInv, Listing
  <2> QED
    BY <1>1, <2>1, <2>2, Apart DEF Hosted
<1>2. ManyInv => (OwnIds => RoomHasHost)
  BY <1>1 DEF RoomHasHost
<1> QED
  BY <1>2, ManyInit, ManyStep, PTL DEF Spec

-----------------------------------------------------------------------------
(***************************************************************************)
(* The count of the first room, for any number of workers, until a second  *)
(* room is made: a player of an open room cannot enter it again.           *)
(***************************************************************************)
(* Who makes or enters a room has asked for that. *)
Asking ==
    \A s \in Sessions :
       /\ pc[Recv(s)] = "create" => request[s] = <<"create">>
       /\ pc[Recv(s)] \in {"addRoom", "join", "add", "answer"} =>
             request[s][1] \in {"create", "join"}

(* Until a room has been listed nobody has one to enter or to leave. *)
Unopened ==
    roomIdCount = 0 =>
       /\ DOMAIN rooms = {}
       /\ \A r \in DOMAIN room : room[r].sessions = {} /\ room[r].playerCount = 0
       /\ \A h \in Handlers : pc[h] \notin {"add", "remove", "dismiss", "unlist"}

Ending == \E h \in Handlers : pc[h] \in {"dismiss", "unlist"}

(* A player of a room is not about to enter one. *)
Stays(s) == \/ pc[Recv(s)] = "answer"
            \/ /\ screen[s] = "room" /\ request[s][1] \notin {"create", "join"}
               /\ pc[Recv(s)] # "exited"

Exact(r) == /\ room[r].playerCount = Cardinality(room[r].sessions)
            /\ \A s \in room[r].sessions : Stays(s)

FirstRoom == \A k \in DOMAIN rooms : Ending \/ Exact(rooms[k])

OneInv == ManyInv /\ Asking /\ Unopened /\ (Made <= 1 => FirstRoom)

(* A step that neither makes, lists, enters nor leaves a room, and after   *)
(* which the players of an open room still are not about to enter one.     *)
LEMMA OnePasses ==
    ASSUME OneInv, NEW h \in Handlers, UNCHANGED <<rooms, roomIdCount, room>>,
           \A g \in Handlers : g # h => pc'[g] = pc[g],
           pc[h] \in {"dismiss", "unlist"} => pc'[h] \in {"dismiss", "unlist"},
           pc'[h] \in {"add", "remove", "dismiss", "unlist"} =>
              pc[h] \in {"add", "remove", "dismiss", "unlist"} \/ DOMAIN rooms # {},
           Ending \/ \A r \in DOMAIN room : \A s \in room[r].sessions : Stays(s) => Stays(s)',
           Asking', ManyInv'
    PROVE  OneInv'
<1>1. Unopened'
  BY DEF OneInv, Unopened
<1>2. Ending => Ending'
  BY DEF Ending
<1>3. Made' = Made
  BY DEF Made
<1>4. ASSUME FirstRoom PROVE FirstRoom'
  <2>1. \A k \in DOMAIN rooms : rooms[k] \in DOMAIN room
    BY DEF OneInv, ManyInv, ManyRooms
  <2>2. ASSUME NEW k \in DOMAIN rooms PROVE Ending' \/ Exact(rooms[k])'
    BY <1>2, <1>4, <2>1, <2>2 DEF FirstRoom, Exact
  <2> QED
    BY <2>2 DEF FirstRoom
<1> QED
  BY <1>1, <1>3, <1>4 DEF OneInv

(* A client asks for something: a player of a room, to leave it. *)
LEMMA OneAsk == ASSUME OneInv, NEW s \in Sessions, Ask(s) PROVE OneInv'
<1>1. /\ UNCHANGED <<registry, playerIdList, room, player, screen, pc, local, crash>>
      /\ pc[Recv(s)] = "idle"
  BY DEF Ask
<1>2. /\ \A t \in Sessions : t # s => request'[t] = request[t]
      /\ screen[s] = "room" => request'[s] = <<"exit">>
  BY DEF Ask, OneInv, ManyInv, ManyFields
<1>3. Asking'
  BY <1>1, <1>2 DEF OneInv, Asking
<1>4. \A t \in Sessions : Stays(t) => Stays(t)'
  BY <1>1, <1>2 DEF Stays
<1>5. \A r \in DOMAIN room : room[r].sessions \subseteq Sessions
  BY DEF OneInv, ManyInv, ManyRooms, AllCounted, Counted
<1> QED
  BY <1>1, <1>3, <1>4, <1>5, ManyAsk, OnePasses, Apart DEF OneInv

(* A worker takes a packet, or the end of a connection. *)
LEMMA OneStarts == ASSUME OneInv, NEW s \in Sessions, Receive(s) \/ Drop(s) PROVE OneInv'
<1>1. /\ UNCHANGED <<registry, playerIdList, room, player, client, local, crash>>
      /\ \A r \in DOMAIN room : room[r].sessions \subseteq Sessions
  BY DEF Receive, Drop, OneInv, ManyInv, ManyRooms, AllCounted, Counted
<1>2. CASE Receive(s)
  <2>1. /\ pc[Recv(s)] = "idle" /\ pc'[Recv(s)] = request[s][1] /\ request[s] # <<"none">>
        /\ \A g \in Handlers : g # Recv(s) => pc'[g] = pc[g]
    BY <1>2, Apart DEF Receive, Goto, OneInv, ManyInv, ManyFields
  <2>2. /\ request[s][1] \in {"login", "create", "join", "exit"}
        /\ request[s][1] = "create" => request[s] = <<"create">>
    BY <2>1 DEF OneInv, ManyInv, ManyFields, Asked
  <2>3. Asking'
    BY <1>1, <2>1, <2>2, Apart DEF OneInv, Asking
  <2>4. \A t \in Sessions : Stays(t) => Stays(t)'
    BY <1>1, <2>1, <2>2, Apart DEF Stays
  <2> QED
    BY <1>1, <1>2, <2>1, <2>2, <2>3, <2>4, ManyReceive, OnePasses, Apart DEF OneInv
<1>3. CASE Drop(s)
  <2>1. /\ pc[Disc(s)] = "idle" /\ pc'[Disc(s)] = "disconnected"
        /\ \A g \in Handlers : g # Disc(s) => pc'[g] = pc[g]
    BY <1>3, Apart DEF Drop, Goto, OneInv, ManyInv, ManyFields
  <2>2. \A t \in Sessions : pc'[Recv(t)] = pc[Recv(t)]
    BY <2>1, Apart
  <2>3. Asking' /\ \A t \in Sessions : Stays(t) => Stays(t)'
    BY <1>1, <2>2 DEF OneInv, Asking, Stays
  <2> QED
    BY <1>1, <1>3, <2>1, <2>3, ManyDrop, OnePasses, Apart DEF OneInv
<1> QED
  BY <1>2, <1>3

(* A receive handler ends: its session shows what it did, or its room. *)
LEMMA OneFinish ==
    ASSUME OneInv, NEW s \in Sessions, Finish(s), UNCHANGED <<rooms, roomIdCount, room>>,
           pc[Recv(s)] \notin {"dismiss", "unlist"},
           \A t \in Sessions : t # s => screen'[t] = screen[t],
           \/ screen'[s] = "room"
           \/ screen'[s] = screen[s] /\ pc[Recv(s)] # "answer"
           \/ \A r \in DOMAIN room : s \in room[r].sessions => ~Stays(s),
           ManyInv'
    PROVE  OneInv'
<1>1. /\ pc'[Recv(s)] = "idle" /\ request'[s] = <<"none">>
      /\ \A g \in Handlers : g # Recv(s) => pc'[g] = pc[g]
      /\ \A t \in Sessions : t # s => request'[t] = request[t]
  BY Ended DEF OneInv, ManyInv
<1>2. Asking'
  BY <1>1, Apart DEF OneInv, Asking
<1>3. \A r \in DOMAIN room : room[r].sessions \subseteq Sessions
  BY DEF OneInv, ManyInv, ManyRooms, AllCounted, Counted
<1>4. ASSUME NEW r \in DOMAIN room, NEW t \in room[r].sessions, Stays(t) PROVE Stays(t)'
  BY <1>1, <1>3, <1>4, Apart DEF Stays
<1> QED
  BY <1>1, <1>2, <1>4, OnePasses, Apart

(* A handler of s goes on, where it enters no room. *)
LEMMA OneGoes ==
    ASSUME OneInv, NEW h \in Handlers, NEW l \in Steps, Goto(h, l),
           UNCHANGED <<rooms, roomIdCount, room, client>>,
           pc[h] \notin {"dismiss", "unlist", "answer"},
           l \notin {"create", "addRoom", "join", "answer", "exited", "dismiss", "unlist"},
           l = "add" => pc[h] = "join",
           l \in {"add", "remove"} => DOMAIN rooms # {},
           ManyInv'
    PROVE  OneInv'
<1>1. /\ pc'[h] = l /\ \A g \in Handlers : g # h => pc'[g] = pc[g]
  BY Went DEF OneInv, ManyInv
<1>2. Asking'
  BY <1>1, Apart DEF OneInv, Asking
<1>3. \A r \in DOMAIN room : room[r].sessions \subseteq Sessions
  BY DEF OneInv, ManyInv, ManyRooms, AllCounted, Counted
<1>4. \A t \in Sessions : Stays(t) => Stays(t)'
  BY <1>1, Apart DEF Stays
<1> QED
  BY <1>1, <1>2, <1>3, <1>4, OnePasses

(* Logging in. *)
LEMMA OneLogin == ASSUME OneInv, NEW s \in Sessions, Login(s) \/ LoginInsert(s) PROVE OneInv'
<1>1. ManyInv'
  BY ManyLogin, ManyLoginInsert DEF OneInv
<1>2. \A r \in DOMAIN room : s \notin room[r].sessions
  BY DEF Login, LoginInsert, OneInv, ManyInv, Newcomers
<1>3. UNCHANGED <<rooms, roomIdCount, room>> /\ \A t \in Sessions : t # s => screen'[t] = screen[t]
  BY DEF Login, LoginInsert, OneInv, ManyInv, ManyFields
<1>4. CASE Finish(s)
  <2>1. pc[Recv(s)] \notin {"dismiss", "unlist"}
    BY DEF Login, LoginInsert
  <2> QED
    BY <1>1, <1>2, <1>3, <1>4, <2>1, OneFinish
<1>5. CASE Login(s) /\ Goto(Recv(s), "loginInsert") /\ UNCHANGED request
  <2>1. pc[Recv(s)] = "login" /\ UNCHANGED client
    BY <1>5 DEF Login
  <2>2. "loginInsert" \in Steps /\ Recv(s) \in Handlers
    BY Apart DEF Steps
  <2> QED
    BY <1>1, <1>3, <1>5, <2>1, <2>2, OneGoes
<1> QED
  BY <1>4, <1>5 DEF Login, LoginInsert

(* Joining, up to Room::Add, and its answer. *)
LEMMA OneJoin == ASSUME OneInv, NEW s \in Sessions, Join(s) \/ Answer(s) PROVE OneInv'
<1>1. ManyInv'
  BY ManyJoin, ManyAnswer DEF OneInv
<1>2. UNCHANGED <<rooms, roomIdCount, room>>
  BY DEF Join, Answer
<1>3. CASE Answer(s)
  <2>1. /\ pc[Recv(s)] = "answer" /\ Finish(s) /\ screen'[s] = "room"
        /\ \A t \in Sessions : t # s => screen'[t] = screen[t]
    BY <1>3 DEF Answer, OneInv, ManyInv, ManyFields
  <2> QED
    BY <1>1, <1>2, <2>1, OneFinish
<1>4. CASE Join(s)
  <2>1. pc[Recv(s)] = "join" /\ UNCHANGED screen
    BY <1>4 DEF Join
  <2>2. CASE UNCHANGED <<request, pc, local>>
    <3>1. Asking' /\ \A t \in Sessions : Stays(t) => Stays(t)'
      BY <2>1, <2>2 DEF OneInv, Asking, Stays
    <3>2. \A r \in DOMAIN room : room[r].sessions \subseteq Sessions
      BY DEF OneInv, ManyInv, ManyRooms, AllCounted, Counted
    <3> QED
      BY <1>1, <1>2, <2>1, <2>2, <3>1, <3>2, OnePasses, Apart
  <2>3. CASE Finish(s)
    BY <1>1, <1>2, <2>1, <2>3, OneFinish
  <2>4. CASE Goto(Recv(s), "add") /\ UNCHANGED request /\ DOMAIN rooms # {}
    <3>1. "add" \in Steps /\ Recv(s) \in Handlers
      BY Apart DEF Steps
    <3> QED
      BY <1>1, <1>2, <2>1, <2>4, <3>1, OneGoes
  <2> QED
    BY <1>4, <2>2, <2>3, <2>4 DEF Join
<1> QED
  BY <1>3, <1>4

(* Leaving, up to Room::Remove, and what follows it. *)
LEMMA OneExit ==
    ASSUME OneInv, NEW s \in Sessions, Exit(s) \/ ExitGet(s) \/ Exited(s)
    PROVE  OneInv'
<1>1. ManyInv'
  BY ManyExit, ManyGet, ManyExited DEF OneInv
<1>2. UNCHANGED <<rooms, roomIdCount, room>>
  BY DEF Exit, ExitGet, Exited
<1>3. CASE Exit(s)
  <2>1. pc[Recv(s)] = "exit" /\ UNCHANGED screen
    BY <1>3 DEF Exit
  <2>2. CASE Finish(s)
    BY <1>1, <1>2, <2>1, <2>2, OneFinish
  <2>3. CASE Goto(Recv(s), "exitGet") /\ UNCHANGED request
    <3>1. "exitGet" \in Steps /\ Recv(s) \in Handlers
      BY Apart DEF Steps
    <3> QED
      BY <1>1, <1>2, <2>1, <2>3, <3>1, OneGoes
  <2> QED
    BY <1>3, <2>2, <2>3 DEF Exit
<1>4. CASE ExitGet(s)
  <2>1. pc[Recv(s)] = "exitGet" /\ UNCHANGED client
    BY <1>4 DEF ExitGet
  <2>2. CASE UNCHANGED <<pc, local>>
    <3>1. Asking' /\ \A t \in Sessions : Stays(t) => Stays(t)'
      BY <2>1, <2>2 DEF OneInv, Asking, Stays
    <3>2. \A r \in DOMAIN room : room[r].sessions \subseteq Sessions
      BY DEF OneInv, ManyInv, ManyRooms, AllCounted, Counted
    <3> QED
      BY <1>1, <1>2, <2>1, <2>2, <3>1, <3>2, OnePasses, Apart
  <2>3. CASE Goto(Recv(s), "remove") /\ DOMAIN rooms # {}
    <3>1. "remove" \in Steps /\ Recv(s) \in Handlers
      BY Apart DEF Steps
    <3> QED
      BY <1>1, <1>2, <2>1, <2>3, <3>1, OneGoes
  <2> QED
    BY <1>4, <2>2, <2>3 DEF ExitGet
<1>5. CASE Exited(s)
  <2>1. /\ pc[Recv(s)] = "exited" /\ Finish(s)
        /\ \A t \in Sessions : t # s => screen'[t] = screen[t]
    BY <1>5 DEF Exited, OneInv, ManyInv, ManyFields
  <2>2. ~Stays(s)
    BY <2>1 DEF Stays
  <2> QED
    BY <1>1, <1>2, <2>1, <2>2, OneFinish
<1> QED
  BY <1>3, <1>4, <1>5

(* The steps of a disconnect before and after Room::Remove. *)
LEMMA OneDisc == ASSUME OneInv, NEW s \in Sessions, DiscStep(s) PROVE OneInv'
<1>1. ManyInv'
  BY ManyGet, ManyDisc DEF OneInv, DiscStep
<1>2. UNCHANGED <<rooms, roomIdCount, room, client>>
  BY DEF DiscStep, Disconnected, DiscGet, ClearRoom, FreeName, SessionRemove, SessionGet
<1>3. /\ pc[Disc(s)] \in {"disconnected", "discGet", "clearRoom", "freeName", "sessionRemove",
                          "sessionGet"}
      /\ \E l \in {"remove", "discGet", "clearRoom", "freeName", "sessionRemove", "sessionGet",
                   "done"} : Goto(Disc(s), l) /\ (l = "remove" => DOMAIN rooms # {})
  BY DEF DiscStep, Disconnected, DiscGet, ClearRoom, FreeName, SessionRemove, SessionGet, LeaveRoom
<1>4. PICK l \in {"remove", "discGet", "clearRoom", "freeName", "sessionRemove", "sessionGet",
                  "done"} : Goto(Disc(s), l) /\ (l = "remove" => DOMAIN rooms # {})
  BY <1>3
<1>5. l \in Steps /\ Disc(s) \in Handlers
  BY Apart DEF Steps
<1> QED
  BY <1>1, <1>2, <1>3, <1>4, <1>5, OneGoes

(* A room is made: the first, and not listed yet, or not the first. *)
LEMMA OneCreate == ASSUME OneInv, NEW s \in Sessions, Create(s) PROVE OneInv'
<1>1. ManyInv'
  BY ManyCreate DEF OneInv
<1>2. /\ UNCHANGED <<rooms, roomIdCount, request>> /\ pc[Recv(s)] = "create"
      /\ pc'[Recv(s)] = "addRoom" /\ \A g \in Handlers : g # Recv(s) => pc'[g] = pc[g]
  BY Apart DEF Create, Goto, OneInv, ManyInv, ManyFields
<1>3. PICK r \in Nat : r = Made + 1 /\ DOMAIN room = 1..Made /\ Made \in Nat /\ r \notin DOMAIN room
  BY DEF OneInv, ManyInv, ManyRooms
<1>4. /\ DOMAIN room' = DOMAIN room \cup {r}
      /\ \A i \in DOMAIN room : room'[i] = room[i]
      /\ room'[r] = [id |-> roomIdCount, hostId |-> playerName[s], sessions |-> {},
                     playerCount |-> 0]
  BY <1>3 DEF Create, Made
<1>5. Asking'
  BY <1>2, Apart DEF OneInv, Asking
<1>6. Unopened'
  BY <1>2, <1>4 DEF OneInv, Unopened
<1>7. ASSUME Made' <= 1 PROVE FirstRoom'
  <2>1. Made' = r
    <3>1. DOMAIN room' = 1..r
      BY <1>3, <1>4
    <3> QED
      BY <3>1, FS_Interval DEF Made
  <2>2. DOMAIN room = {}
    BY <1>3, <1>7, <2>1
  <2>3. DOMAIN rooms = {}
    BY <2>2 DEF OneInv, ManyInv, ManyRooms
  <2> QED
    BY <1>2, <2>3 DEF FirstRoom
<1> QED
  BY <1>1, <1>5, <1>6, <1>7 DEF OneInv

(* It is listed, empty. *)
LEMMA OneAddRoom == ASSUME OneInv, NEW s \in Sessions, AddRoom(s) PROVE OneInv'
<1>1. ManyInv'
  BY ManyAddRoom DEF OneInv
<1>2. /\ UNCHANGED <<room, request>> /\ pc[Recv(s)] = "addRoom" /\ roomIdCount' = roomIdCount + 1
      /\ pc'[Recv(s)] = "add" /\ \A g \in Handlers : g # Recv(s) => pc'[g] = pc[g]
  BY Apart DEF AddRoom, Goto, OneInv, ManyInv, ManyFields
<1>3. Asking'
  BY <1>2, Apart DEF OneInv, Asking
<1>4. Unopened'
  BY <1>2 DEF OneInv, ManyInv, ManyRooms, Unopened
<1>5. ASSUME Made' <= 1 PROVE FirstRoom'
  <2>1. DOMAIN room = 1..Made /\ Made \in Nat /\ Made <= 1
    BY <1>2, <1>5 DEF Made, OneInv, ManyInv, ManyRooms
  <2>2. OwnIds
    BY <2>1 DEF OwnIds
  <2>3. Listing /\ local[Recv(s)].room \in DOMAIN room
    BY <1>2, <2>2, Apart DEF OneInv, ManyInv, ManyRooms
  <2>4. Made = 1 /\ roomIdCount = 0
    BY <1>2, <2>1, <2>3 DEF Listing
  <2>5. \A q \in DOMAIN room : room[q].sessions = {} /\ room[q].playerCount = 0
    BY <2>4 DEF OneInv, Unopened
  <2>6. \A k \in DOMAIN rooms' : rooms'[k] \in DOMAIN room
    BY <1>1, <1>2 DEF ManyInv, ManyRooms
  <2>7. \A k \in DOMAIN rooms' : Exact(rooms[k])'
    BY <1>2, <2>5, <2>6, FS_EmptySet DEF Exact
  <2> QED
    BY <2>7 DEF FirstRoom
<1> QED
  BY <1>1, <1>3, <1>4, <1>5 DEF OneInv

(* Who enters a room that is open was not in it: one more, and one more    *)
(* counted.                                                                *)
LEMMA OneAdd == ASSUME OneInv, NEW s \in Sessions, Add(s) PROVE OneInv'
<1>1. ManyInv'
  BY ManyAdd DEF OneInv
<1>2. /\ UNCHANGED <<rooms, roomIdCount, client>> /\ pc[Recv(s)] = "add"
      /\ pc'[Recv(s)] = "answer" /\ \A g \in Handlers : g # Recv(s) => pc'[g] = pc[g]
  BY Apart DEF Add, Goto, OneInv, ManyInv, ManyFields
<1>3. PICK r \in DOMAIN room : r = local[Recv(s)].room
  BY <1>2, Apart DEF OneInv, ManyInv, ManyRooms
<1>4. /\ DOMAIN room' = DOMAIN room
      /\ \A i \in DOMAIN room :
            room'[i].sessions = IF i = r THEN room[i].sessions \cup {s} ELSE room[i].sessions
  BY <1>3, AddCounts DEF OneInv, ManyInv, ManyRooms
<1>5. room'[r].playerCount = room[r].playerCount + 1
  <2>1. PICK id, hostId, sessions, count :
           room[r] = [id |-> id, hostId |-> hostId, sessions |-> sessions, playerCount |-> count]
    BY DEF OneInv, ManyInv, ManyRooms, AllCounted, Counted
  <2>2. PICK new : new = [room[r] EXCEPT !.sessions = @ \cup {s}, !.playerCount = @ + 1]
    OBVIOUS
  <2>3. room' = [room EXCEPT ![r] = new]
    BY <1>3, <2>2 DEF Add
  <2>4. new.playerCount = room[r].playerCount + 1
    BY <2>1, <2>2
  <2> QED
    BY <2>3, <2>4
<1>6. Asking'
  BY <1>2, Apart DEF OneInv, Asking
<1>7. Unopened'
  BY <1>2, Apart DEF OneInv, Unopened
<1>8. ASSUME Made' <= 1 PROVE FirstRoom'
  <2>1. DOMAIN room = 1..Made /\ Made \in Nat /\ Made <= 1 /\ FirstRoom
    BY <1>4, <1>8 DEF Made, OneInv, ManyInv, ManyRooms
  <2>2. Ending => Ending'
    BY <1>2 DEF Ending
  <2>3. ASSUME NEW k \in DOMAIN rooms, ~Ending PROVE Exact(rooms[k])'
    <3>1. rooms[k] = r /\ Exact(r)
      <4>1. rooms[k] \in DOMAIN room
        BY DEF OneInv, ManyInv, ManyRooms
      <4>2. rooms[k] = r
        BY <2>1, <4>1
      <4> QED
        BY <2>1, <2>3, <4>2 DEF FirstRoom
    <3>2. s \notin room[r].sessions
      BY <1>2, <3>1 DEF Exact, Stays, OneInv, Asking
    <3>3. IsFiniteSet(room[r].sessions) /\ room[r].sessions \subseteq Sessions
      BY SessionsAssumption, FS_Subset DEF OneInv, ManyInv, ManyRooms, AllCounted, Counted
    <3>4. Cardinality(room[r].sessions \cup {s}) = Cardinality(room[r].sessions) + 1
      BY <3>2, <3>3, FS_AddElement
    <3>5. room'[r].playerCount = Cardinality(room'[r].sessions)
      BY <1>4, <1>5, <3>1, <3>4 DEF Exact
    <3>6. \A t \in room'[r].sessions : Stays(t)'
      <4>1. Stays(s)'
        BY <1>2 DEF Stays
      <4>2. ASSUME NEW t \in room[r].sessions, t # s PROVE Stays(t)'
        BY <1>2, <3>1, <3>3, <4>2, Apart DEF Exact, Stays
      <4> QED
        BY <1>4, <4>1, <4>2
    <3> QED
      BY <1>2, <3>1, <3>5, <3>6 DEF Exact
  <2> QED
    BY <1>2, <2>2, <2>3 DEF FirstRoom
<1> QED
  BY <1>1, <1>6, <1>7, <1>8 DEF OneInv

(* Who leaves a room that stays open is counted out if it was in. *)
LEMMA OneRemove == ASSUME OneInv, NEW h \in Handlers, Remove(h) PROVE OneInv'
<1>1. ManyInv'
  BY ManyRemove DEF OneInv
<1>2. UNCHANGED <<rooms, roomIdCount, client>> /\ pc[h] = "remove"
  BY DEF Remove
<1>3. PICK r \in DOMAIN room : r = local[h].room
  BY <1>2 DEF OneInv, ManyInv, ManyRooms
<1>4. PICK s \in Sessions : s = Of(h) /\ (h = Recv(s) \/ h = Disc(s))
  BY Apart
<1>5. PICK id, hostId, sessions, count :
         /\ room[r] = [id |-> id, hostId |-> hostId, sessions |-> sessions, playerCount |-> count]
         /\ sessions \subseteq Sessions /\ count \in Nat /\ IsFiniteSet(sessions)
  <2>1. Counted(room[r])
    BY DEF OneInv, ManyInv, ManyRooms, AllCounted
  <2> QED
    BY <2>1, SessionsAssumption, FS_Subset DEF Counted
<1>6. PICK l \in {"dismiss", "done", "exited", "clearRoom"} :
         /\ Goto(h, l)
         /\ l # "dismiss" =>
               room' = [room EXCEPT ![r].sessions = room[r].sessions \ {s},
                                    ![r].playerCount = IF s \in room[r].sessions
                                                       THEN room[r].playerCount - 1
                                                       ELSE room[r].playerCount]
  <2>1. local[h].ret \in {"done", "exited", "clearRoom"}
    BY DEF OneInv, ManyInv, ManyFields, Locals
  <2> QED
    BY <1>3, <1>4, <2>1 DEF Remove, Return
<1>7. /\ pc'[h] = l /\ \A g \in Handlers : g # h => pc'[g] = pc[g]
  BY <1>6 DEF Goto, OneInv, ManyInv, ManyFields
<1>8. Asking'
  BY <1>2, <1>7, Apart DEF OneInv, Asking
<1>9. Unopened'
  BY <1>2 DEF OneInv, Unopened
<1>10. ASSUME Made' <= 1, l # "dismiss" PROVE FirstRoom'
  <2>1. PICK new : new = [room[r] EXCEPT !.sessions = room[r].sessions \ {s},
                                         !.playerCount = IF s \in room[r].sessions
                                                         THEN room[r].playerCount - 1
                                                         ELSE room[r].playerCount]
    OBVIOUS
  <2>2. room' = [room EXCEPT ![r] = new]
    BY <1>6, <1>10, <2>1
  <2>3. DOMAIN room' = DOMAIN room /\ room'[r] = new
    BY <2>2
  <2>4. DOMAIN room = 1..Made /\ Made \in Nat /\ Made <= 1 /\ FirstRoom
    BY <1>10, <2>3 DEF Made, OneInv, ManyInv, ManyRooms
  <2>5. Ending => Ending'
    BY <1>2, <1>7 DEF Ending
  <2>6. ASSUME NEW k \in DOMAIN rooms, ~Ending PROVE Exact(rooms[k])'
    <3>1. rooms[k] = r /\ Exact(r)
      <4>1. rooms[k] \in DOMAIN room
        BY DEF OneInv, ManyInv, ManyRooms
      <4>2. rooms[k] = r
        BY <2>4, <4>1
      <4> QED
        BY <2>4, <2>6, <4>2 DEF FirstRoom
    <3>2. count = Cardinality(sessions) /\ \A t \in sessions : Stays(t)
      BY <1>5, <3>1 DEF Exact
    <3>3. new.playerCount = Cardinality(new.sessions)
      <4>1. CASE s \in sessions
        <5>1. Cardinality(sessions \ {s}) = Cardinality(sessions) - 1
          BY <1>5, <4>1, FS_RemoveElement
        <5> QED
          BY <1>5, <2>1, <3>2, <4>1, <5>1
      <4>2. CASE s \notin sessions
        <5>1. sessions \ {s} = sessions
          BY <4>2
        <5> QED
          BY <1>5, <2>1, <3>2, <4>2, <5>1
      <4> QED
        BY <4>1, <4>2
    <3>4. \A t \in sessions \ {s} : Stays(t)'
      BY <1>2, <1>4, <1>5, <1>7, <3>2, Apart DEF Stays
    <3>5. new.sessions = sessions \ {s}
      BY <1>5, <2>1
    <3> QED
      BY <1>2, <2>3, <3>1, <3>3, <3>4, <3>5 DEF Exact
  <2> QED
    BY <1>2, <2>5, <2>6 DEF FirstRoom
<1>11. CASE l = "dismiss"
  <2>1. Ending'
    BY <1>7, <1>11 DEF Ending
  <2> QED
    BY <1>1, <1>8, <1>9, <2>1 DEF OneInv, FirstRoom
<1> QED
  BY <1>1, <1>8, <1>9, <1>10, <1>11 DEF OneInv

(* A room that has ended goes from the list, and no other is in it. *)
LEMMA OneEnds == ASSUME OneInv, NEW h \in Handlers, Dismiss(h) \/ Unlist(h) PROVE OneInv'
<1>1. ManyInv'
  BY ManyDismiss, ManyUnlist DEF OneInv
<1>2. PICK l \in Steps :
         /\ Goto(h, l) \/ (l = pc[h] /\ UNCHANGED pc)
         /\ Dismiss(h) => l \in {"dismiss", "unlist"}
         /\ Unlist(h) => l \in {"done", "exited", "clearRoom"}
  <2>1. local[h].ret \in {"done", "exited", "clearRoom"}
    BY DEF OneInv, ManyInv, ManyFields, Locals
  <2>2. {"dismiss", "unlist", "done", "exited", "clearRoom"} \subseteq Steps
    BY DEF Steps
  <2>3. CASE Dismiss(h)
    BY <2>2, <2>3 DEF Dismiss, Unlist
  <2>4. CASE Unlist(h)
    BY <2>1, <2>2, <2>4 DEF Dismiss, Unlist, Return
  <2> QED
    BY <2>3, <2>4
<1>3. /\ UNCHANGED <<roomIdCount, room, request>> /\ pc[h] \in {"dismiss", "unlist"}
      /\ pc'[h] = l /\ \A g \in Handlers : g # h => pc'[g] = pc[g]
  BY <1>2, Went DEF Dismiss, Unlist, OneInv, ManyInv
<1>4. Asking'
  BY <1>2, <1>3, Apart DEF OneInv, Asking
<1>5. CASE Dismiss(h)
  <2>1. UNCHANGED rooms /\ Ending
    BY <1>3, <1>5 DEF Dismiss, Ending
  <2> QED
    BY <1>1, <1>2, <1>3, <1>4, <1>5, <2>1, OnePasses
<1>6. CASE Unlist(h)
  <2>1. rooms' = [k \in DOMAIN rooms \ {room[local[h].room].id} |-> rooms[k]]
    BY <1>6 DEF Unlist
  <2>2. Unopened'
    BY <1>3 DEF OneInv, Unopened
  <2>3. ASSUME Made' <= 1 PROVE DOMAIN rooms' = {}
    <3>1. DOMAIN room = 1..Made /\ Made \in Nat /\ Made <= 1
      BY <1>3, <2>3 DEF Made, OneInv, ManyInv, ManyRooms
    <3>2. Listing
      BY <3>1 DEF OwnIds, OneInv, ManyInv
    <3>3. local[h].room \in DOMAIN room
      BY <1>3 DEF OneInv, ManyInv, ManyRooms
    <3>4. room[local[h].room].id = 0
      BY <3>1, <3>2, <3>3 DEF Listing
    <3>5. \A k \in DOMAIN rooms : k \in Nat /\ rooms[k] = k + 1 /\ rooms[k] \in DOMAIN room
      BY <3>2 DEF Listing, OneInv, ManyInv, ManyRooms
    <3>6. \A k \in DOMAIN rooms : k = 0
      BY <3>1, <3>5
    <3> QED
      BY <2>1, <3>4, <3>6
  <2> QED
    BY <1>1, <1>4, <2>2, <2>3 DEF OneInv, FirstRoom
<1> QED
  BY <1>5, <1>6

(* Every step keeps it, whatever the number of workers. *)
LEMMA OneStep == ASSUME OneInv, [Next]_vars PROVE OneInv'
<1>1. CASE UNCHANGED vars
  <2>1. UNCHANGED <<registry, playerIdList, room, player, client, pc, local, crash>>
    BY <1>1 DEF vars
  <2>2. ManyInv'
    BY <1>1, ManyStep DEF OneInv
  <2>3. Asking' /\ Unopened' /\ (FirstRoom => FirstRoom') /\ Made' = Made
    BY <2>1 DEF OneInv, Asking, Unopened, FirstRoom, Ending, Exact, Stays, Made
  <2> QED
    BY <2>2, <2>3 DEF OneInv
<1>2. CASE \E s \in Sessions : Ask(s) \/ Receive(s) \/ Drop(s)
  BY <1>2, OneAsk, OneStarts
<1>3. CASE \E s \in Sessions : RecvStep(s) \/ DiscStep(s)
  BY <1>3, OneLogin, OneCreate, OneAddRoom, OneJoin, OneAdd, OneExit, OneDisc DEF RecvStep
<1>4. CASE \E h \in Handlers : RemoveStep(h)
  BY <1>4, OneRemove, OneEnds DEF RemoveStep
<1> QED
  BY <1>1, <1>2, <1>3, <1>4 DEF Next, HandlerStep, Over

(* At the start nothing is listed and nobody asks. *)
LEMMA OneInit == Init => OneInv
<1> SUFFICES ASSUME Init PROVE OneInv
  OBVIOUS
<1>1. ManyInv
  BY ManyInit
<1>2. DOMAIN room = {} /\ DOMAIN rooms = {} /\ \A h \in Handlers : pc[h] = "idle"
  BY DEF Init
<1> QED
  BY <1>1, <1>2, Apart DEF OneInv, Asking, Unopened, FirstRoom

(* However many workers there are, until a second room is made: the count  *)
(* of the room is never below its players, it is their number between      *)
(* handlers, and its host is one of them.  (With a second room a player    *)
(* may be sent away from the first while in the second, and enter that     *)
(* again: Room::Add counts without looking.)                               *)
THEOREM FirstRoomExact == Spec => [](Made <= 1 => RoomExact)
<1>1. ASSUME OneInv, Made <= 1 PROVE RoomExact
  <2>1. DOMAIN room = 1..Made /\ Made \in Nat
    BY <1>1 DEF OneInv, ManyInv, ManyRooms
  <2>2. Listing /\ Hosted
    BY <1>1, <2>1 DEF OwnIds, OneInv, ManyInv
  <2>3. CountCovers
    BY <1>1 DEF OneInv, ManyInv, ManyRooms, AllCounted, Counted, CountCovers
  <2>4. Idle => ~Ending
    BY DEF Idle, Running, Ending
  <2>5. CountExact
    BY <1>1, <2>4 DEF OneInv, FirstRoom, Exact, CountExact
  <2>6. RoomHasHost
    <3>1. Idle => \A h \in Handlers : pc[h] \in {"idle", "done"}
      BY DEF Idle, Running
    <3> QED
      BY <2>2, <3>1, Apart DEF Listing, Hosted, RoomHasHost
  <2> QED
    BY <2>3, <2>5, <2>6 DEF RoomExact
<1>2. OneInv => (Made <= 1 => RoomExact)
  BY <1>1
<1> QED
  BY <1>2, OneInit, OneStep, PTL DEF Spec

-----------------------------------------------------------------------------
(* What the bound on rooms bounds: a room made or asked for. *)
Counts == OneInv /\ Bounded

(* It is kept when no room is made and no client asks for one. *)
LEMMA StillBounded ==
    ASSUME Counts, DOMAIN room' = DOMAIN room, Creating' \subseteq Creating
    PROVE  Bounded'
<1>1. IsFiniteSet(Creating)
  BY SessionsAssumption, FS_Subset DEF Creating
<1>2. IsFiniteSet(Creating') /\ Cardinality(Creating') <= Cardinality(Creating)
  BY <1>1, FS_Subset
<1>3. Cardinality(Creating) \in Nat /\ Cardinality(Creating') \in Nat
  BY <1>1, <1>2, FS_CardinalityType
<1>4. Made' = Made /\ Made \in Nat /\ MaxRooms \in Nat
  BY RoomsAssumption DEF Made, Counts, OneInv, ManyInv, ManyRooms
<1> QED
  BY <1>2, <1>3, <1>4 DEF Bounded, Counts

(* A client may ask for a room while there is place for it. *)
LEMMA AskBounded == ASSUME Counts, NEW s \in Sessions, Ask(s) PROVE Bounded'
<1>1. /\ UNCHANGED <<room, pc>> /\ \A t \in Sessions : t # s => request'[t] = request[t]
      /\ request'[s] = <<"create">> => MayCreate
  BY DEF Ask, Counts, OneInv, ManyInv, ManyFields
<1>2. CASE request'[s] # <<"create">>
  <2>1. Creating' \subseteq Creating
    BY <1>1, <1>2 DEF Creating
  <2> QED
    BY <1>1, <2>1, StillBounded
<1>3. CASE request'[s] = <<"create">>
  <2>1. Creating' \subseteq Creating \cup {s}
    BY <1>1 DEF Creating
  <2>2. IsFiniteSet(Creating) /\ Cardinality(Creating) \in Nat
    BY SessionsAssumption, FS_Subset, FS_CardinalityType DEF Creating
  <2>3. /\ IsFiniteSet(Creating \cup {s})
        /\ Cardinality(Creating \cup {s}) \in {Cardinality(Creating), Cardinality(Creating) + 1}
    BY <2>2, FS_AddElement
  <2>4. Cardinality(Creating') \in Nat /\ Cardinality(Creating') <= Cardinality(Creating) + 1
    <3>1. IsFiniteSet(Creating') /\ Cardinality(Creating') <= Cardinality(Creating \cup {s})
      BY <2>1, <2>3, FS_Subset
    <3>2. Cardinality(Creating') \in Nat
      BY <3>1, FS_CardinalityType
    <3> QED
      BY <2>2, <2>3, <3>1, <3>2
  <2>5. Made + Cardinality(Creating) < MaxRooms
    BY <1>1, <1>3 DEF MayCreate, Made, Creating
  <2>6. Made' = Made /\ Made \in Nat /\ MaxRooms \in Nat
    BY <1>1, RoomsAssumption DEF Made, Counts, OneInv, ManyInv, ManyRooms
  <2> QED
    BY <2>2, <2>4, <2>5, <2>6 DEF Bounded
<1> QED
  BY <1>2, <1>3

(* A room that is made has been asked for. *)
LEMMA CreateBounded == ASSUME Counts, NEW s \in Sessions, Create(s) PROVE Bounded'
<1>1. /\ UNCHANGED request /\ pc[Recv(s)] = "create" /\ pc'[Recv(s)] = "addRoom"
      /\ \A g \in Handlers : g # Recv(s) => pc'[g] = pc[g]
  BY Apart DEF Create, Goto, Counts, OneInv, ManyInv, ManyFields
<1>2. s \in Creating
  BY <1>1 DEF Creating, Counts, OneInv, Asking
<1>3. Creating' = Creating \ {s}
  BY <1>1, Apart DEF Creating
<1>4. IsFiniteSet(Creating) /\ Cardinality(Creating) \in Nat
  BY SessionsAssumption, FS_Subset, FS_CardinalityType DEF Creating
<1>5. Cardinality(Creating') = Cardinality(Creating) - 1
  BY <1>2, <1>3, <1>4, FS_RemoveElement
<1>6. Made \in Nat /\ DOMAIN room = 1..Made
  BY DEF Counts, OneInv, ManyInv, ManyRooms
<1>7. DOMAIN room' = 1..(Made + 1)
  <2>1. DOMAIN room' = DOMAIN room \cup {Made + 1}
    BY DEF Create, Made
  <2> QED
    BY <1>6, <2>1
<1>8. Made' = Made + 1
  BY <1>6, <1>7, FS_Interval DEF Made
<1> QED
  BY <1>4, <1>5, <1>6, <1>8, RoomsAssumption DEF Bounded, Counts

(* Every other step leaves the rooms made and asks for none. *)
LEMMA BoundStep == ASSUME Counts, [Next]_vars PROVE Bounded'
<1>1. CASE UNCHANGED vars
  <2>1. UNCHANGED <<room, request, pc>>
    BY <1>1 DEF vars, client
  <2> QED
    BY <2>1 DEF Counts, Bounded, Made, Creating
<1>2. CASE \E s \in Sessions : Ask(s) \/ Create(s)
  BY <1>2, AskBounded, CreateBounded
<1>3. ASSUME NEW s \in Sessions, Receive(s) \/ Drop(s) PROVE Bounded'
  <2>1. UNCHANGED <<room, request>>
    BY <1>3 DEF Receive, Drop
  <2>2. \A t \in Sessions : pc'[Recv(t)] = "idle" => pc[Recv(t)] = "idle"
    BY <1>3, Apart DEF Receive, Drop, Goto, Counts, OneInv, ManyInv, ManyFields, Asked
  <2>3. \A t \in Sessions : pc'[Recv(t)] = "create" => pc[Recv(t)] \in {"idle", "create"}
    BY <1>3, Apart DEF Receive, Drop, Goto, Counts, OneInv, ManyInv, ManyFields
  <2>4. Creating' \subseteq Creating
    BY <2>1, <2>2, <2>3 DEF Creating
  <2> QED
    BY <2>1, <2>4, StillBounded
<1>4. ASSUME NEW h \in Handlers, NEW l \in Steps \ {"idle", "create"},
             Goto(h, l), UNCHANGED request, DOMAIN room' = DOMAIN room
      PROVE  Bounded'
  <2>1. Creating' \subseteq Creating
    BY <1>4, Apart, Went DEF Creating, Counts, OneInv, ManyInv
  <2> QED
    BY <1>4, <2>1, StillBounded
<1>5. ASSUME NEW s \in Sessions, Finish(s), UNCHANGED room PROVE Bounded'
  <2>1. Creating' \subseteq Creating
    BY <1>5, Apart, Ended DEF Creating, Counts, OneInv, ManyInv
  <2> QED
    BY <1>5, <2>1, StillBounded
<1>6. ASSUME UNCHANGED <<room, request, pc>> PROVE Bounded'
  BY <1>6 DEF Counts, Bounded, Made, Creating
<1>7. CASE \E s \in Sessions : RecvStep(s) /\ ~Create(s)
  <2>1. PICK s \in Sessions : RecvStep(s) /\ ~Create(s)
    BY <1>7
  <2>2. Recv(s) \in Handlers /\ {"loginInsert", "add", "answer", "exitGet", "remove"} \subseteq Steps
    BY Apart DEF Steps
  <2>3. CASE Add(s)
    <3>1. DOMAIN room' = DOMAIN room /\ UNCHANGED request
      BY <2>3, AddCounts DEF Add, Counts, OneInv, ManyInv, ManyRooms
    <3> QED
      BY <1>4, <2>2, <2>3, <3>1 DEF Add
  <2>4. CASE ~Add(s)
    <3>1. UNCHANGED room
      BY <2>1, <2>4 DEF RecvStep, Login, LoginInsert, AddRoom, Join, Answer, Exit, ExitGet, Exited
    <3>2. \/ Finish(s)
          \/ UNCHANGED <<request, pc>>
          \/ UNCHANGED request /\ \E l \in {"loginInsert", "add", "exitGet", "remove"} : Goto(Recv(s), l)
      BY <2>1, <2>4 DEF RecvStep, Login, LoginInsert, AddRoom, Join, Answer, Exit, ExitGet, Exited
    <3> QED
      BY <1>4, <1>5, <1>6, <2>2, <3>1, <3>2
  <2> QED
    BY <2>3, <2>4
<1>8. CASE \E s \in Sessions : DiscStep(s)
  <2>1. PICK s \in Sessions : DiscStep(s)
    BY <1>8
  <2>2. /\ UNCHANGED <<room, request>>
        /\ \E l \in {"remove", "discGet", "clearRoom", "freeName", "sessionRemove", "sessionGet",
                     "done"} : Goto(Disc(s), l)
    BY <2>1 DEF DiscStep, Disconnected, DiscGet, ClearRoom, FreeName, SessionRemove, SessionGet,
                LeaveRoom
  <2>3. /\ Disc(s) \in Handlers
        /\ {"remove", "discGet", "clearRoom", "freeName", "sessionRemove", "sessionGet", "done"}
              \subseteq Steps
    BY Apart DEF Steps
  <2> QED
    BY <1>4, <2>2, <2>3
<1>9. CASE \E h \in Handlers : RemoveStep(h)
  <2>1. PICK h \in Handlers : RemoveStep(h)
    BY <1>9
  <2>2. DOMAIN room' = DOMAIN room /\ UNCHANGED request
    BY <2>1, RemoveCounts DEF RemoveStep, Remove, Dismiss, Unlist, Counts, OneInv, ManyInv, ManyRooms
  <2>3. local[h].ret \in {"done", "exited", "clearRoom"}
    BY DEF Counts, OneInv, ManyInv, ManyFields, Locals
  <2>4. \/ UNCHANGED <<room, pc>>
        \/ \E l \in {"done", "exited", "clearRoom", "dismiss", "unlist"} : Goto(h, l)
    BY <2>1, <2>3 DEF RemoveStep, Remove, Dismiss, Unlist, Return
  <2>5. {"done", "exited", "clearRoom", "dismiss", "unlist"} \subseteq Steps
    BY DEF Steps
  <2> QED
    BY <1>4, <1>6, <2>2, <2>4, <2>5
<1> QED
  BY <1>1, <1>2, <1>3, <1>7, <1>8, <1>9 DEF Next, HandlerStep, Over

(* The same without the condition, in a server that makes one room. *)
THEOREM OneRoomExact == ASSUME MaxRooms = 1 PROVE Spec => []RoomExact
<1>1. Init => Counts
  <2> SUFFICES ASSUME Init PROVE Bounded
    BY OneInit DEF Counts
  <2>1. DOMAIN room = {} /\ Creating = {}
    BY DEF Init, Creating
  <2> QED
    BY <2>1, FS_EmptySet, RoomsAssumption DEF Bounded, Made
<1>2. Counts /\ [Next]_vars => Counts'
  BY OneStep, BoundStep DEF Counts
<1>3. Counts => Made <= 1
  <2> SUFFICES ASSUME Counts PROVE Made <= 1
    OBVIOUS
  <2>1. IsFiniteSet(Creating)
    BY SessionsAssumption, FS_Subset DEF Creating
  <2>2. Cardinality(Creating) \in Nat
    BY <2>1, FS_CardinalityType
  <2> QED
    BY <2>2 DEF Counts, Bounded, OneInv, ManyInv, ManyRooms
<1> QED
  BY <1>1, <1>2, <1>3, FirstRoomExact, PTL DEF Spec

=============================================================================
