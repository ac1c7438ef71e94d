------------------------------- MODULE Client -------------------------------
(***************************************************************************)
(* A Unity client: the receive callback that cuts the server's stream into *)
(* packets, the queue from which the main thread takes one packet a frame, *)
(* the scenes that packets load, and the units of a game.  S_OBJECT_SPAWN  *)
(* goes through a second queue that a component of the battle scene, the   *)
(* UnitManager, drains; S_MOVE and S_RTT_PONG create a UnitManager where   *)
(* the scene has none, one that knows no prefabs: its Awake throws on the  *)
(* list it was not given, and whether Updates are called on it after that  *)
(* is left open (bare and deaf).                                           *)
(*                                                                         *)
(* The server is what one client sees of it: requests are answered in      *)
(* their order (SessionLife!OneReceive), packets arrive in theirs          *)
(* (SessionSend!ImplementsPipe), and the handlers and ticks that send them *)
(* interleave as in Lobby and GameRoom.  A player's units, which StartGame *)
(* makes in one go, are one unit.  The k-th room that lets the client in   *)
(* is room k.                                                              *)
(*                                                                         *)
(* A packet is two pieces, its header and the rest: a receive ends between *)
(* any two.  The queues are whole objects: Queue<T> has no lock, and what  *)
(* two threads make of its counter is not modelled.                        *)
(***************************************************************************)
EXTENDS Integers, Sequences

CONSTANTS MaxRooms,  \* bound on the rooms that let the client in
          MaxUnits,  \* units, and players, of a game
          MaxMoves   \* bound on the S_MOVEs

ASSUME BoundsAssumption == MaxRooms \in Nat /\ MaxMoves \in Nat /\ MaxUnits \in Nat \ {0}

VARIABLES member,       \* the room that has the session, 0 for none
          rooms,        \* rooms that have let it in
          game,         \* how far the game of that room is
          moves,        \* S_MOVEs sent
          owed,         \* rooms left whose StartGame has yet to tell the client
          late,         \* whether one has
          toServer,     \* sendQueue and what is on its way
          wire,         \* pieces on their way to the client
          link,         \* "connecting" or "up"
          receiver,     \* what the receive callback is doing
          receiveQueue, \* PacketReceiver.receiveQueue
          recvQueue,    \* ServerConnect.recvQueue
          todo,         \* the Updates left of this frame
          scene,        \* the scene that is loaded
          loading,      \* the one LoadScene has been called for, or "none"
          manager,      \* UnitManager.Instance: "none", "scene", "bare", "deaf"
          units,        \* UnitManager.units: room and unit
          spawnQueue,   \* ServerConnect.spawnQueue: the same
          waiting,      \* whether a request of the player has no answer yet
          lost,         \* spawns that a bare UnitManager has made nothing of
          thrown        \* whether units.Add has found the id in use

serverVars == <<member, rooms, game, moves, owed, late>>
pumpVars == <<link, receiver, receiveQueue>>
unitVars == <<manager, units, spawnQueue, lost, thrown>>
sceneVars == <<scene, loading>>
mainVars == <<todo, sceneVars, unitVars>>
vars == <<serverVars, toServer, wire, pumpVars, recvQueue, mainVars, waiting>>

UnitIds == 1..MaxUnits

Packet(t, r, u) == [type |-> t, room |-> r, unit |-> u]
Pieces(p) == << <<p, "header">>, <<p, "rest">> >>

(* A room without a game.  toldAt is the unit after which StartGame sends  *)
(* the client its S_GAME_START.                                            *)
NoGame == [spawned |-> 0, toldAt |-> 0, told |-> FALSE]

Init ==
    /\ member = 0 /\ rooms = 0 /\ game = NoGame /\ moves = 0 /\ owed = 0 /\ late = FALSE
    /\ toServer = <<>> /\ wire = <<>>
    /\ link = "connecting" /\ receiver = "posted" /\ receiveQueue = <<>>
    /\ recvQueue = <<>>
    /\ todo = {} /\ scene = "Login" /\ loading = "none"
    /\ manager = "none" /\ units = {} /\ spawnQueue = <<>>
    /\ lost = {} /\ thrown = FALSE /\ waiting = FALSE

-----------------------------------------------------------------------------
(* The server. *)

(* A receive does not depend on what is sent after it, and what it cuts    *)
(* off can wait in recvQueue as well as on the wire: the server sends when *)
(* at most one piece is on its way.                                        *)
Send(p) == Len(wire) <= 1 /\ wire' = wire \o Pieces(p)

Took(request) == toServer # <<>> /\ Head(toServer) = request /\ toServer' = Tail(toServer)

Login == /\ Took("login")
         /\ Send(Packet("S_LOGIN", 0, 0))
         /\ UNCHANGED <<serverVars, pumpVars, recvQueue, mainVars, waiting>>

(* A room is created, or joined before or after its game has started: no   *)
(* handler looks.                                                          *)
Admit == /\ Took("room") /\ rooms < MaxRooms
         /\ rooms' = rooms + 1 /\ member' = rooms + 1
         /\ \E n \in {0, MaxUnits} : game' = [NoGame EXCEPT !.spawned = n]
         /\ UNCHANGED <<moves, owed, late>>
         /\ Send(Packet("S_ROOM_LOBBY", 0, 0))
         /\ UNCHANGED <<pumpVars, recvQueue, mainVars, waiting>>

(* The wrong password. *)
Refuse == /\ Took("room")
          /\ Send(Packet("S_ROOM_RESPONSE", 0, 0))
          /\ UNCHANGED <<serverVars, pumpVars, recvQueue, mainVars, waiting>>

Ping == /\ Took("ping")
        /\ Send(Packet("S_RTT_PONG", 0, 0))
        /\ UNCHANGED <<serverVars, pumpVars, recvQueue, mainVars, waiting>>

(* The client is sent away, on its own request or with its host.  From     *)
(* then on the room broadcasts to others; only StartGame still has the     *)
(* session in the list it goes through.                                    *)
Exit == /\ \/ Took("exit")
           \/ UNCHANGED toServer
        /\ member # 0 /\ member' = 0 /\ game' = NoGame
        /\ owed' = IF game.toldAt # 0 /\ ~game.told THEN owed + 1 ELSE owed
        /\ Send(Packet("S_ROOM_EXIT", 0, 0))
        /\ UNCHANGED <<rooms, moves, late, pumpVars, recvQueue, mainVars, waiting>>

(* An exit of a session that has no room any more. *)
ExitIgnored == /\ Took("exit") /\ member = 0
               /\ UNCHANGED <<serverVars, wire, pumpVars, recvQueue, mainVars, waiting>>

GameStep(progress) ==
    /\ member # 0 /\ game' = progress
    /\ UNCHANGED <<member, rooms, owed, late, toServer, pumpVars, recvQueue, mainVars, waiting>>

(* StartGame numbers the players and goes on to make their units. *)
StartGame ==
    /\ game.spawned = 0 /\ game.toldAt = 0
    /\ \E n \in UnitIds : GameStep([game EXCEPT !.toldAt = n])
    /\ UNCHANGED <<moves, wire>>

(* ObjectAdd broadcasts to the members. *)
ObjectAdd ==
    /\ game.toldAt # 0 /\ game.spawned < MaxUnits
    /\ game.spawned = game.toldAt => game.told
    /\ GameStep([game EXCEPT !.spawned = @ + 1])
    /\ Send(Packet("S_OBJECT_SPAWN", member, game.spawned + 1))
    /\ UNCHANGED moves

(* A player is told of the start after its own unit. *)
Tell ==
    /\ game.toldAt # 0 /\ game.spawned = game.toldAt /\ ~game.told
    /\ GameStep([game EXCEPT !.told = TRUE])
    /\ Send(Packet("S_GAME_START", 0, 0))
    /\ UNCHANGED moves

(* One that is a member no more is told too. *)
TellLate ==
    /\ owed > 0 /\ owed' = owed - 1 /\ late' = TRUE
    /\ Send(Packet("S_GAME_START", 0, 0))
    /\ UNCHANGED <<member, rooms, game, moves, toServer, pumpVars, recvQueue, mainVars, waiting>>

(* A tick moves a unit that some player, told of the start, has ordered:   *)
(* the client, one told before it, or all in a game it joined later.       *)
Move ==
    /\ moves < MaxMoves /\ moves' = moves + 1
    /\ game.spawned > 0 /\ (game.told \/ game.toldAt # 1)
    /\ GameStep(game)
    /\ Send(Packet("S_MOVE", 0, 0))

-----------------------------------------------------------------------------
(* The receive callback. *)

Connect == /\ link = "connecting" /\ link' = "up"
           /\ UNCHANGED <<serverVars, toServer, wire, receiver, receiveQueue, recvQueue,
                          mainVars, waiting>>

(* Fault: one packet of each receive. *)
CutOne(queue) == IF Len(queue) >= 2 THEN 1 ELSE 0

(* The packets that the loop of OnReceiveCompleted cuts off: all whole ones. *)
Whole(queue) == Len(queue) \div 2

(* Start() posts the first receive before the connection is made: what     *)
(* fails is tried again.                                                   *)
ReceiveFails == /\ receiver = "posted" /\ link = "connecting"
                /\ receiver' = "restart"
                /\ UNCHANGED <<serverVars, toServer, wire, link, receiveQueue, recvQueue,
                               mainVars, waiting>>

StartReceive == /\ receiver = "restart" /\ receiver' = "posted"
                /\ UNCHANGED <<serverVars, toServer, wire, link, receiveQueue, recvQueue,
                               mainVars, waiting>>

(* Bytes arrive, packets are cut off, and the next receive is posted. *)
Receive ==
    /\ receiver = "posted" /\ link = "up" /\ wire # <<>>
    /\ \E n \in {Len(wire) - 1, Len(wire)} \ {0} :
          LET queue == receiveQueue \o SubSeq(wire, 1, n)
              cut == Whole(queue)
          IN  /\ recvQueue' = recvQueue \o [i \in 1..cut |-> queue[2 * i][1]]
              /\ receiveQueue' = SubSeq(queue, 2 * cut + 1, Len(queue))
              /\ wire' = SubSeq(wire, n + 1, Len(wire))
    /\ UNCHANGED <<serverVars, toServer, link, receiver, mainVars, waiting>>

-----------------------------------------------------------------------------
(* The main thread. *)

(* Fault: the units survive their scene. *)
UnitsKept == units

(* The UnitManager of a scene goes with it. *)
UnitsAfterLoad == {}

(* Fault: the spawn queue goes with the scene. *)
SpawnsDropped == <<>>

(* ServerConnect, and its spawn queue, are never destroyed. *)
SpawnsAfterLoad == spawnQueue

(* The scene asked for in the last frame is there with the next: only the  *)
(* battle scene has a UnitManager, whose Awake sends a ping.               *)
LoadedScene ==
    IF loading = "none"
    THEN UNCHANGED <<sceneVars, unitVars, toServer>>
    ELSE /\ scene' = loading /\ loading' = "none"
         /\ manager' = IF loading = "Battle" THEN "scene" ELSE "none"
         /\ units' = UnitsAfterLoad /\ spawnQueue' = SpawnsAfterLoad
         /\ toServer' = IF loading = "Battle" THEN Append(toServer, "ping") ELSE toServer
         /\ UNCHANGED <<lost, thrown>>

Updates(m) == m \in {"scene", "bare"}

(* A frame that has nothing to do. *)
Idle == /\ loading = "none" /\ recvQueue = <<>>
        /\ Updates(manager) => spawnQueue = <<>>

StartFrame ==
    /\ todo = {} /\ ~Idle
    /\ LoadedScene
    /\ todo' = {"ServerConnect"} \cup IF Updates(manager') THEN {"UnitManager"} ELSE {}
    /\ UNCHANGED <<serverVars, wire, pumpVars, recvQueue, waiting>>

(* UnitManager.Instance; a new one, with no prefabs, pings from Awake. *)
Instance ==
    IF manager = "none"
    THEN manager' \in {"bare", "deaf"} /\ toServer' = Append(toServer, "ping")
    ELSE UNCHANGED <<manager, toServer>>

SceneOf == [S_LOGIN |-> "Matching", S_ROOM_LOBBY |-> "MatchMaking",
            S_GAME_START |-> "Battle", S_ROOM_EXIT |-> "Matching"]

(* Fault: the scene stays when the room is left. *)
ProcessNoExit(p) ==
    /\ IF p.type \in DOMAIN SceneOf \ {"S_ROOM_EXIT"}
       THEN loading' = SceneOf[p.type] ELSE UNCHANGED loading
    /\ IF p.type = "S_OBJECT_SPAWN"
       THEN spawnQueue' = Append(spawnQueue, <<p.room, p.unit>>)
       ELSE UNCHANGED spawnQueue
    /\ IF p.type \in {"S_MOVE", "S_RTT_PONG"}
       THEN Instance ELSE UNCHANGED <<manager, toServer>>
    /\ waiting' = (waiting /\ p.type \notin {"S_LOGIN", "S_ROOM_LOBBY", "S_ROOM_RESPONSE",
                                             "S_ROOM_EXIT"})

(* PacketManager.Process.  Where a unit moves to is left out. *)
Process(p) ==
    /\ IF p.type \in DOMAIN SceneOf
       THEN loading' = SceneOf[p.type] ELSE UNCHANGED loading
    /\ IF p.type = "S_OBJECT_SPAWN"
       THEN spawnQueue' = Append(spawnQueue, <<p.room, p.unit>>)
       ELSE UNCHANGED spawnQueue
    /\ IF p.type \in {"S_MOVE", "S_RTT_PONG"}
       THEN Instance ELSE UNCHANGED <<manager, toServer>>
    /\ waiting' = (waiting /\ p.type \notin {"S_LOGIN", "S_ROOM_LOBBY", "S_ROOM_RESPONSE",
                                             "S_ROOM_EXIT"})

(* ServerConnect.Update: one packet a frame. *)
ServerConnectUpdate ==
    /\ "ServerConnect" \in todo
    /\ todo' = todo \ {"ServerConnect"}
    /\ IF recvQueue # <<>>
       THEN Process(Head(recvQueue)) /\ recvQueue' = Tail(recvQueue)
       ELSE UNCHANGED <<loading, spawnQueue, manager, toServer, waiting, recvQueue>>
    /\ UNCHANGED <<serverVars, wire, pumpVars, scene, units, lost, thrown>>

InUse(id, done) ==
    \/ \E old \in units : old[2] = id
    \/ \E i \in 1..done : spawnQueue[i][2] = id

(* UnitManager.Update drains the spawn queue.  A manager without prefabs   *)
(* makes no units; units.Add throws, out of Update, when the id is in use. *)
UnitManagerUpdate ==
    /\ "UnitManager" \in todo
    /\ todo' = todo \ {"UnitManager"}
    /\ LET n == Len(spawnQueue)
           Twice(k) == manager = "scene" /\ InUse(spawnQueue[k][2], k - 1)
           end == IF \E k \in 1..n : Twice(k)
                  THEN CHOOSE k \in 1..n : Twice(k) /\ \A j \in 1..(k - 1) : ~Twice(j)
                  ELSE n + 1
           new == {spawnQueue[i] : i \in 1..(end - 1)}
       IN  /\ IF manager = "bare"
             THEN lost' = lost \cup new /\ UNCHANGED units
             ELSE units' = units \cup new /\ UNCHANGED lost
           /\ thrown' = (thrown \/ end <= n)
           /\ spawnQueue' = SubSeq(spawnQueue, end + 1, n)
    /\ UNCHANGED <<serverVars, toServer, wire, pumpVars, recvQueue, sceneVars, manager, waiting>>

(* The player logs in, asks for a room, leaves one: once at a time, and by *)
(* the buttons of the scene.                                               *)
Buttons == [Login |-> "login", Matching |-> "room", MatchMaking |-> "exit"]

Ask == /\ link = "up" /\ ~waiting /\ loading = "none"
       /\ scene \in DOMAIN Buttons
       /\ toServer' = Append(toServer, Buttons[scene])
       /\ waiting' = TRUE
       /\ UNCHANGED <<serverVars, wire, pumpVars, recvQueue, mainVars>>

-----------------------------------------------------------------------------
ServerAnswer == Login \/ Admit \/ Refuse \/ Ping \/ ExitIgnored
ServerStep == ServerAnswer \/ Exit \/ StartGame \/ ObjectAdd \/ Tell \/ TellLate \/ Move
ReceiverStep == ReceiveFails \/ StartReceive \/ Receive
MainStep == StartFrame \/ ServerConnectUpdate \/ UnitManagerUpdate

(* Frames that have nothing to do go by. *)
Rest == Idle /\ UNCHANGED vars

(* The Updates of a frame take from the front of recvQueue and add to the  *)
(* end of toServer, and no one else touches what they use: what happens    *)
(* while they run might as well happen before or after the frame.          *)
Between == todo = {} /\ (Connect \/ ServerStep \/ ReceiverStep \/ Ask \/ Rest)

Next == MainStep \/ Between

Spec == Init /\ [][Next]_vars

(* The connection is made, the callback goes on, and there are frames for  *)
(* ever.  Of the server nothing is assumed, nor of the player.             *)
Fairness == WF_vars(todo = {} /\ Connect) /\ WF_vars(MainStep)
            /\ WF_vars(todo = {} /\ (Receive \/ StartReceive))

FairSpec == Spec /\ Fairness

-----------------------------------------------------------------------------
(* Properties. *)

Handled == /\ wire = <<>> /\ receiveQueue = <<>> /\ recvQueue = <<>>
           /\ loading = "none" /\ todo = {}

Settled == Handled /\ toServer = <<>> /\ ~waiting

(* StartGame sends S_GAME_START to all it has numbered: no player has left *)
(* a room between.                                                         *)
NoneLate == ~late /\ owed = 0

Playing == game.told /\ game.spawned = MaxUnits

(* The client of a running game has all its units and no others, though    *)
(* they come in parts before and after the scene that shows them, are      *)
(* numbered anew in each room, and the player may have left other games.   *)
(* Only a unit that moves before the client is told of the start, or a     *)
(* start that comes after the exit, can break this.                        *)
UnitsComplete ==
    (Settled /\ member # 0 /\ spawnQueue = <<>>) =>
        (NoneLate /\ Playing => units = ({member} \X UnitIds) \ lost)

(* units.Add never meets an id it has: a spawn of one game is not left to  *)
(* the next.                                                               *)
NoUnitTwice == NoneLate => ~thrown

(* When all packets are handled the client shows what the server thinks it *)
(* is doing: in a game, in a room, or in neither.                          *)
SceneFollows ==
    (Settled /\ NoneLate) =>
        /\ scene \in {"Login", "Matching"} <=> member = 0
        /\ member # 0 => (scene = "Battle" <=> game.told)

(* The client catches up with the server: again and again every packet has *)
(* been cut out of the stream and handled, and no unit waits for a         *)
(* UnitManager that is there.                                              *)
CatchesUp == []<>(Handled /\ (Updates(manager) => spawnQueue = <<>>))
=============================================================================
