-------------------------------- MODULE Lobby --------------------------------
(***************************************************************************)
(* The lobby of the game server: RoomManager, the membership of Room,      *)
(* GameSession, GameSessionManager and the handlers of ClientPacketHandler *)
(* that log in, create, join and leave rooms, as they interleave on the    *)
(* worker threads of the completion port.                                  *)
(*                                                                         *)
(* A session has at most one receive handler running, since a receive is   *)
(* registered again only when ProcessRecv is done, and one disconnect      *)
(* handler; both may run at once, on two of the Workers threads.  A step   *)
(* is what the code does between two points where another thread can act:  *)
(* a critical section of RoomManager or Room, or an access to the shared   *)
(* maps and fields that takes no lock.                                     *)
(*                                                                         *)
(* The client is the one of StarCraftClient: it logs in once, creates or   *)
(* joins a room from the lobby screen (a room it has seen in S_ROOM_DATA), *)
(* and leaves from the room screen.  What the server sends moves its       *)
(* screen at once; what it has asked for waits in request until a worker   *)
(* takes it, so a request may cross any message of the server.             *)
(***************************************************************************)
EXTENDS Naturals, FiniteSets

CONSTANTS Sessions,    \* the sessions that connect, once each
          Names,       \* the player ids clients log in with
          MaxRooms,    \* bound on the rooms ever created
          Workers,     \* threads that call IocpCore::Dispatch
          NoRoom,      \* INT_MAX, the room id of a session in no room
          NoName       \* the player id 0 of a session that is not logged in

ASSUME SessionsAssumption == IsFiniteSet(Sessions)
ASSUME RoomsAssumption == MaxRooms \in Nat /\ NoRoom \notin Nat
ASSUME NamesAssumption == NoName \notin Names
ASSUME WorkersAssumption == Workers \in Nat \ {0}

VARIABLES rooms,        \* RoomManager::rooms, key -> Room object
          roomIdCount,  \* RoomManager::roomIdCount
          playerIdList, \* RoomManager::playerIdList
          room,         \* the Room objects made so far
          currentRoom,  \* session -> GameSession::currentRoom
          playerName,   \* session -> GameSession::playerName
          online,       \* GameSessionManager::_sessions
          screen,       \* session -> what its client shows
          request,      \* session -> the packet waiting for its handler
          pc, local,    \* handler -> where it is, and its local variables
          crash         \* the handler that dereferenced a null Room, or "none"

registry == <<rooms, roomIdCount>>
player   == <<currentRoom, playerName, online>>
client   == <<screen, request>>
vars == <<registry, playerIdList, room, player, client, pc, local, crash>>

(* The handlers: ProcessRecv and ProcessDisconnect of each session. *)
Recv(s) == <<s, "recv">>
Disc(s) == <<s, "disc">>
Handlers == Sessions \X {"recv", "disc"}
Of(h) == h[1]

NoLocal == [room |-> 0, snapshot |-> {}, ret |-> "done"]

Init == /\ rooms = <<>>
        /\ roomIdCount = 0
        /\ playerIdList = {}
        /\ room = <<>>
        /\ currentRoom = [s \in Sessions |-> NoRoom]
        /\ playerName = [s \in Sessions |-> NoName]
        /\ online = Sessions
        /\ screen = [s \in Sessions |-> "login"]
        /\ request = [s \in Sessions |-> <<"none">>]
        /\ pc = [h \in Handlers |-> "idle"]
        /\ local = [h \in Handlers |-> NoLocal]
        /\ crash = "none"

Goto(h, l) == pc' = [pc EXCEPT ![h] = l]
SetLocal(h, f, v) == local' = [local EXCEPT ![h][f] = v]
Return(h) == Goto(h, local[h].ret)

Running(h) == pc[h] \notin {"idle", "done"}

-----------------------------------------------------------------------------
(* The bound on the rooms made and asked for. *)
MayCreate ==
    Cardinality(DOMAIN room) +
    Cardinality({s \in Sessions : request[s] = <<"create">> /\ pc[Recv(s)] \in {"idle", "create"}})
        < MaxRooms

(* The client sends a packet its screen allows; it then waits for the      *)
(* answer.  It knows of the rooms listed now.                              *)
Ask(s) ==
    /\ request[s] = <<"none">> /\ pc[Recv(s)] = "idle" /\ pc[Disc(s)] = "idle"
    /\ \/ /\ screen[s] = "login"
          /\ \E n \in Names : request' = [request EXCEPT ![s] = <<"login", n>>]
       \/ /\ screen[s] = "lobby"
          /\ MayCreate
          /\ request' = [request EXCEPT ![s] = <<"create">>]
       \/ /\ screen[s] = "lobby"
          /\ \E k \in DOMAIN rooms : request' = [request EXCEPT ![s] = <<"join", k>>]
       \/ /\ screen[s] = "room"
          /\ request' = [request EXCEPT ![s] = <<"exit">>]
    /\ UNCHANGED <<registry, playerIdList, room, player, screen, pc, local, crash>>

FreeWorker == Cardinality({h \in Handlers : Running(h)}) < Workers

(* A worker takes the packet of s: ClientPacketHandler::HandlePacket.      *)
Receive(s) ==
    /\ pc[Recv(s)] = "idle" /\ pc[Disc(s)] = "idle"
    /\ request[s] # <<"none">>
    /\ FreeWorker
    /\ Goto(Recv(s), request[s][1])
    /\ UNCHANGED <<registry, playerIdList, room, player, client, local, crash>>

(* The connection of s ends and a worker takes the disconnect event; a     *)
(* packet whose handler has started by then is still handled.              *)
Drop(s) ==
    /\ pc[Disc(s)] = "idle"
    /\ FreeWorker
    /\ Goto(Disc(s), "disconnected")
    /\ UNCHANGED <<registry, playerIdList, room, player, client, local, crash>>

(* A receive handler ends: the client may ask for something else. *)
Finish(s) == /\ Goto(Recv(s), "idle")
             /\ request' = [request EXCEPT ![s] = <<"none">>]

-----------------------------------------------------------------------------
(* Handle_C_LOGIN: the search, and the refusal of a name in use. *)
Login(s) ==
    /\ pc[Recv(s)] = "login"
    /\ \/ /\ request[s][2] \in playerIdList
          /\ Finish(s)
       \/ /\ request[s][2] \notin playerIdList
          /\ Goto(Recv(s), "loginInsert")
          /\ UNCHANGED request
    /\ UNCHANGED <<registry, playerIdList, room, player, screen, local, crash>>

(* Handle_C_LOGIN: the insertion and the acceptance. *)
LoginInsert(s) ==
    /\ pc[Recv(s)] = "loginInsert"
    /\ playerIdList' = playerIdList \cup {request[s][2]}
    /\ playerName' = [playerName EXCEPT ![s] = request[s][2]]
    /\ screen' = [screen EXCEPT ![s] = "lobby"]
    /\ Finish(s)
    /\ UNCHANGED <<registry, room, currentRoom, online, local, crash>>

(* Handle_C_ROOM_CREATE: the Room is made with the id read from            *)
(* roomIdCount without the lock, and the creator's player id.              *)
Create(s) ==
    LET r == Cardinality(DOMAIN room) + 1
    IN  /\ pc[Recv(s)] = "create"
        /\ room' = [i \in DOMAIN room \cup {r} |->
                       IF i = r THEN [id |-> roomIdCount, hostId |-> playerName[s],
                                      sessions |-> {}, playerCount |-> 0]
                                ELSE room[i]]
        /\ SetLocal(Recv(s), "room", r)
        /\ Goto(Recv(s), "addRoom")
        /\ UNCHANGED <<registry, playerIdList, player, client, crash>>

(* RoomManager::AddRoom: the key is roomIdCount as it is by now. *)
AddRoom(s) ==
    /\ pc[Recv(s)] = "addRoom"
    /\ rooms' = [k \in DOMAIN rooms \cup {roomIdCount} |->
                    IF k = roomIdCount THEN local[Recv(s)].room ELSE rooms[k]]
    /\ roomIdCount' = roomIdCount + 1
    /\ Goto(Recv(s), "add")
    /\ UNCHANGED <<playerIdList, room, player, client, local, crash>>

(* Handle_C_ROOM_REQUEST: rooms[code] without the lock, which is null for  *)
(* a code that is gone and is dereferenced for its password at once; the   *)
(* password is right or wrong.                                             *)
Join(s) ==
    LET k == request[s][2]
    IN  /\ pc[Recv(s)] = "join"
        /\ \/ /\ k \notin DOMAIN rooms
              /\ crash' = "ROOM_REQUEST"
              /\ UNCHANGED <<request, pc, local>>
           \/ /\ k \in DOMAIN rooms
              /\ SetLocal(Recv(s), "room", rooms[k])
              /\ Goto(Recv(s), "add")
              /\ UNCHANGED <<request, crash>>
           \/ /\ k \in DOMAIN rooms
              /\ Finish(s)
              /\ UNCHANGED <<local, crash>>
        /\ UNCHANGED <<registry, playerIdList, room, player, screen>>

(* Room::Add, for the creator and for whoever joins. *)
Add(s) ==
    LET r == local[Recv(s)].room
    IN  /\ pc[Recv(s)] = "add"
        /\ room' = [room EXCEPT ![r].sessions = @ \cup {s}, ![r].playerCount = @ + 1]
        /\ currentRoom' = [currentRoom EXCEPT ![s] = room[r].id]
        /\ Goto(Recv(s), "answer")
        /\ UNCHANGED <<registry, playerIdList, playerName, online, client, local, crash>>

(* The answer S_ROOM_LOBBY of both handlers. *)
Answer(s) ==
    /\ pc[Recv(s)] = "answer"
    /\ screen' = [screen EXCEPT ![s] = "room"]
    /\ Finish(s)
    /\ UNCHANGED <<registry, playerIdList, room, player, local, crash>>

(* Handle_C_EXIT_GAME: the early return, or the room id read. *)
Exit(s) ==
    /\ pc[Recv(s)] = "exit"
    /\ \/ /\ currentRoom[s] = NoRoom
          /\ Finish(s)
          /\ UNCHANGED local
       \/ /\ currentRoom[s] # NoRoom
          /\ SetLocal(Recv(s), "room", currentRoom[s])
          /\ Goto(Recv(s), "exitGet")
          /\ UNCHANGED request
    /\ UNCHANGED <<registry, playerIdList, room, player, screen, crash>>

(* Handle_C_EXIT_GAME: GetRoom, whose null is dereferenced by Remove. *)
ExitGet(s) ==
    LET k == local[Recv(s)].room
    IN  /\ pc[Recv(s)] = "exitGet"
        /\ \/ /\ k \notin DOMAIN rooms
              /\ crash' = "EXIT_GAME"
              /\ UNCHANGED <<pc, local>>
           \/ /\ k \in DOMAIN rooms
              /\ local' = [local EXCEPT ![Recv(s)] =
                              [room |-> rooms[k], snapshot |-> {}, ret |-> "exited"]]
              /\ Goto(Recv(s), "remove")
              /\ UNCHANGED crash
        /\ UNCHANGED <<registry, playerIdList, room, player, client>>

(* Handle_C_EXIT_GAME after Remove: SetRoomId and the answer S_ROOM_EXIT. *)
Exited(s) ==
    /\ pc[Recv(s)] = "exited"
    /\ currentRoom' = [currentRoom EXCEPT ![s] = NoRoom]
    /\ screen' = [screen EXCEPT ![s] = "lobby"]
    /\ Finish(s)
    /\ UNCHANGED <<registry, playerIdList, room, playerName, online, local, crash>>

-----------------------------------------------------------------------------
(* Does the room go when s leaves it with n players left?  It does when    *)
(* nobody is left, and when the host leaves.                               *)
Closes(r, s, n) == n = 0 \/ playerName[s] = room[r].hostId

(* Fault: RemoveGameSession counts down for a session that is not in the room. *)
RemoveAlwaysCounts(h) ==
    LET s == Of(h)
        r == local[h].room
        left == room[r].sessions \ {s}
        n == room[r].playerCount - 1
        closes == Closes(r, s, n)
    IN  /\ pc[h] = "remove"
        /\ room' = [room EXCEPT ![r].sessions = IF closes THEN {} ELSE left,
                                ![r].playerCount = IF closes THEN 0 ELSE n]
        /\ SetLocal(h, "snapshot", left)
        /\ IF closes THEN Goto(h, "dismiss") ELSE Return(h)
        /\ UNCHANGED <<registry, playerIdList, player, client, crash>>

(* Room::Remove, its critical section: RemoveGameSession, the snapshot of  *)
(* the players left, and the end of the room.                              *)
Remove(h) ==
    LET s == Of(h)
        r == local[h].room
        left == room[r].sessions \ {s}
        n == IF s \in room[r].sessions THEN room[r].playerCount - 1
                                       ELSE room[r].playerCount
        closes == Closes(r, s, n)
    IN  /\ pc[h] = "remove"
        /\ room' = [room EXCEPT ![r].sessions = IF closes THEN {} ELSE left,
                                ![r].playerCount = IF closes THEN 0 ELSE n]
        /\ SetLocal(h, "snapshot", left)
        /\ IF closes THEN Goto(h, "dismiss") ELSE Return(h)
        /\ UNCHANGED <<registry, playerIdList, player, client, crash>>

(* Fault: the players of a deleted room are told, and keep its id. *)
DismissKeepsRoomId(h) ==
    /\ pc[h] = "dismiss"
    /\ \/ /\ local[h].snapshot = {}
          /\ Goto(h, "unlist")
          /\ UNCHANGED <<screen, local>>
       \/ \E s \in local[h].snapshot :
             /\ screen' = [screen EXCEPT ![s] = "lobby"]
             /\ SetLocal(h, "snapshot", local[h].snapshot \ {s})
             /\ UNCHANGED pc
    /\ UNCHANGED <<registry, playerIdList, room, player, request, crash>>

(* Room::Remove: the players left are sent back to the lobby, one by one. *)
Dismiss(h) ==
    /\ pc[h] = "dismiss"
    /\ \/ /\ local[h].snapshot = {}
          /\ Goto(h, "unlist")
          /\ UNCHANGED <<currentRoom, screen, local>>
       \/ \E s \in local[h].snapshot :
             /\ currentRoom' = [currentRoom EXCEPT ![s] = NoRoom]
             /\ screen' = [screen EXCEPT ![s] = "lobby"]
             /\ SetLocal(h, "snapshot", local[h].snapshot \ {s})
             /\ UNCHANGED pc
    /\ UNCHANGED <<registry, playerIdList, room, playerName, online, request, crash>>

(* RoomManager::RemoveRoom: the key erased is the room's own id. *)
Unlist(h) ==
    /\ pc[h] = "unlist"
    /\ rooms' = [k \in DOMAIN rooms \ {room[local[h].room].id} |-> rooms[k]]
    /\ Return(h)
    /\ UNCHANGED <<roomIdCount, playerIdList, room, player, client, local, crash>>

-----------------------------------------------------------------------------
(* Fault: OnDisconnected forgets the room before it leaves it. *)
DisconnectedClearsFirst(s) ==
    /\ pc[Disc(s)] = "disconnected"
    /\ currentRoom' = [currentRoom EXCEPT ![s] = NoRoom]
    /\ Goto(Disc(s), "freeName")
    /\ UNCHANGED <<registry, playerIdList, room, playerName, online, client, local, crash>>

(* GameSession::OnDisconnected: is the session in a room? *)
Disconnected(s) ==
    /\ pc[Disc(s)] = "disconnected"
    /\ Goto(Disc(s), IF currentRoom[s] = NoRoom THEN "freeName" ELSE "discGet")
    /\ UNCHANGED <<registry, playerIdList, room, player, client, local, crash>>

(* GetRoom(currentRoom), then Remove unless it is null; ret is where the   *)
(* handler goes on afterwards.                                             *)
LeaveRoom(s, ret) ==
    \/ /\ currentRoom[s] \in DOMAIN rooms
       /\ local' = [local EXCEPT ![Disc(s)] =
                       [room |-> rooms[currentRoom[s]], snapshot |-> {}, ret |-> ret]]
       /\ Goto(Disc(s), "remove")
    \/ /\ currentRoom[s] \notin DOMAIN rooms
       /\ Goto(Disc(s), ret)
       /\ UNCHANGED local

DiscGet(s) ==
    /\ pc[Disc(s)] = "discGet"
    /\ LeaveRoom(s, "clearRoom")
    /\ UNCHANGED <<registry, playerIdList, room, player, client, crash>>

(* GameSession::OnDisconnected: currentRoom = INT_MAX. *)
ClearRoom(s) ==
    /\ pc[Disc(s)] = "clearRoom"
    /\ currentRoom' = [currentRoom EXCEPT ![s] = NoRoom]
    /\ Goto(Disc(s), "freeName")
    /\ UNCHANGED <<registry, playerIdList, room, playerName, online, client, local, crash>>

(* Fault: OnDisconnected keeps the player id in use. *)
FreeNameForgets(s) ==
    /\ pc[Disc(s)] = "freeName"
    /\ Goto(Disc(s), "sessionRemove")
    /\ UNCHANGED <<registry, playerIdList, room, player, client, local, crash>>

(* GameSession::OnDisconnected: the player id may be used again. *)
FreeName(s) ==
    /\ pc[Disc(s)] = "freeName"
    /\ playerIdList' = playerIdList \ {playerName[s]}
    /\ Goto(Disc(s), "sessionRemove")
    /\ UNCHANGED <<registry, room, player, client, local, crash>>

(* GameSessionManager::Remove: out of the set, and out of a room the       *)
(* session has entered since.                                              *)
SessionRemove(s) ==
    /\ pc[Disc(s)] = "sessionRemove"
    /\ online' = online \ {s}
    /\ Goto(Disc(s), IF currentRoom[s] = NoRoom THEN "done" ELSE "sessionGet")
    /\ UNCHANGED <<registry, playerIdList, room, currentRoom, playerName, client, local, crash>>

SessionGet(s) ==
    /\ pc[Disc(s)] = "sessionGet"
    /\ LeaveRoom(s, "done")
    /\ UNCHANGED <<registry, playerIdList, room, player, client, crash>>

-----------------------------------------------------------------------------
RecvStep(s) == \/ Login(s) \/ LoginInsert(s) \/ Create(s) \/ AddRoom(s)
               \/ Join(s) \/ Add(s) \/ Answer(s)
               \/ Exit(s) \/ ExitGet(s) \/ Exited(s)

DiscStep(s) == \/ Disconnected(s) \/ DiscGet(s) \/ ClearRoom(s)
               \/ FreeName(s) \/ SessionRemove(s) \/ SessionGet(s)

RemoveStep(h) == Remove(h) \/ Dismiss(h) \/ Unlist(h)

HandlerStep == \/ \E s \in Sessions : RecvStep(s) \/ DiscStep(s)
               \/ \E h \in Handlers : RemoveStep(h)

(* Everybody has disconnected, or the process is gone. *)
Over == /\ crash # "none" \/ \A s \in Sessions : pc[Disc(s)] = "done"
        /\ UNCHANGED vars

Next == \/ crash = "none" /\ ((\E s \in Sessions : Ask(s) \/ Receive(s) \/ Drop(s)) \/ HandlerStep)
        \/ Over

Spec == Init /\ [][Next]_vars

-----------------------------------------------------------------------------
(* Properties. *)

Steps == {"idle", "login", "loginInsert", "create", "addRoom", "join", "add", "answer",
          "exit", "exitGet", "exited", "remove", "dismiss", "unlist", "disconnected",
          "discGet", "clearRoom", "freeName", "sessionRemove", "sessionGet", "done"}

(* Every listed room and every room a handler works on exists; the rest of *)
(* the state has its type.                                                 *)
TypeOK ==
    /\ roomIdCount \in 0..MaxRooms
    /\ DOMAIN rooms \subseteq 0..MaxRooms - 1
    /\ DOMAIN room \in {1..n : n \in 0..MaxRooms}
    /\ \A k \in DOMAIN rooms : rooms[k] \in DOMAIN room
    /\ \A r \in DOMAIN room :
          /\ room[r].id \in 0..MaxRooms
          /\ room[r].hostId \in Names
          /\ room[r].sessions \subseteq Sessions
          /\ room[r].playerCount \in 0..Cardinality(Sessions)
    /\ playerIdList \subseteq Names
    /\ currentRoom \in [Sessions -> 0..MaxRooms \cup {NoRoom}]
    /\ playerName \in [Sessions -> Names \cup {NoName}]
    /\ online \subseteq Sessions
    /\ screen \in [Sessions -> {"login", "lobby", "room"}]
    /\ \A s \in Sessions : \/ request[s] \in {<<"none">>, <<"create">>, <<"exit">>}
                           \/ request[s] \in {"login"} \X Names
                           \/ request[s] \in {"join"} \X (0..MaxRooms - 1)
    /\ pc \in [Handlers -> Steps]
    /\ \A h \in Handlers :
          /\ local[h].snapshot \subseteq Sessions
          /\ local[h].ret \in Steps
          /\ pc[h] \in {"addRoom", "add", "remove", "dismiss", "unlist"} =>
                local[h].room \in DOMAIN room
    /\ crash \in {"none", "ROOM_REQUEST", "EXIT_GAME"}

Idle == \A h \in Handlers : ~Running(h)
Gone(s) == pc[Disc(s)] = "done"

(* playerCount is zero, where Room::Remove ends the room, only when nobody *)
(* is in it, though two handlers may remove the same session.              *)
CountCovers ==
    \A r \in DOMAIN room : room[r].playerCount >= Cardinality(room[r].sessions)

(* Between handlers it is the number of players of every listed room, which*)
(* is what S_ROOM_DATA shows.  Add counts without looking whether the      *)
(* session is in already: it is when the session has come back to a room   *)
(* that is closing, and is then sent away for its first stay.              *)
CountExact ==
    Idle => \A k \in DOMAIN rooms :
               room[rooms[k]].playerCount = Cardinality(room[rooms[k]].sessions)

(* Room::Remove deletes a room when its host leaves or nobody is left:     *)
(* between handlers, every listed room has its host among its members.     *)
RoomHasHost ==
    Idle => \A k \in DOMAIN rooms :
               \E s \in room[rooms[k]].sessions : playerName[s] = room[rooms[k]].hostId

(* What the lock of a room protects, however handlers overlap.             *)
RoomExact == CountCovers /\ CountExact /\ RoomHasHost

(* A room is deleted when its host leaves (the comment in Room::Remove):   *)
(* between handlers, the host of a listed room has not gone back to the    *)
(* lobby.                                                                  *)
HostStays ==
    Idle => \A k \in DOMAIN rooms :
               \E s \in Sessions : /\ playerName[s] = room[rooms[k]].hostId
                                  /\ currentRoom[s] # NoRoom

(* Every member of a room has that room as its current room, so that       *)
(* leaving and disconnecting find it.                                      *)
MembersPointBack ==
    \A r \in DOMAIN room : \A s \in room[r].sessions : currentRoom[s] = room[r].id

(* GameSession::OnDisconnected takes the session out of its room: between  *)
(* handlers no room has a member whose disconnect handler is done.         *)
OnlyLive ==
    Idle => \A r \in DOMAIN room : \A s \in room[r].sessions : ~Gone(s)

(* No two connected sessions are logged in under one player id, and the    *)
(* ids in use are theirs: none is lost for ever, none is free while in use.*)
NamesOfLive ==
    LET Live == {s \in Sessions : ~Gone(s)}
    IN  /\ \A s, t \in Live : s # t /\ playerName[s] = playerName[t] => playerName[s] = NoName
        /\ Idle => playerIdList = {playerName[s] : s \in Live} \ {NoName}

(* Nobody is left behind in a room that RoomManager no longer lists, or    *)
(* lists under another id than its own, the key that RemoveRoom erases and *)
(* the clients send back.                                                  *)
UnlistedEmpty ==
    Idle => \A r \in DOMAIN room :
               room[r].sessions # {} =>
                   \E k \in DOMAIN rooms : rooms[k] = r /\ room[r].id = k

(* Rooms, sessions and the list of rooms agree on who is in which room.    *)
Membership == TypeOK /\ HostStays /\ MembersPointBack /\ OnlyLive /\ UnlistedEmpty

(* Between handlers, a connected client shows its room exactly when the    *)
(* server has the session in one.                                          *)
Screens ==
    Idle => \A s \in Sessions :
               ~Gone(s) => (screen[s] = "room" <=> currentRoom[s] # NoRoom)

(* Handle_C_EXIT_GAME does not dereference the null that GetRoom returns   *)
(* for a room that is gone.  The code keeps this with one worker only.     *)
NoNullExit == crash # "EXIT_GAME"
=============================================================================
