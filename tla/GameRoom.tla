------------------------------ MODULE GameRoom ------------------------------
(***************************************************************************)
(* A game in a room: the units of Room, their jobs, their walk and their   *)
(* place in the grid, as the main thread ticks the room while worker       *)
(* threads start the game, take orders and remove the room.                *)
(*                                                                         *)
(* The map is a corridor, one row of tiles between walls: A* has at most   *)
(* one path in it, and a unit's place is one number.  A tile is Tile units *)
(* long and starts at the point a path names it by; a tick moves a unit by *)
(* Step units.  (In the code a tile is 1, a probe's step 0.23.)            *)
(*                                                                         *)
(* The lock of the room is held by the main thread through a whole Update  *)
(* and by others just for a broadcast, a push or the change of membership, *)
(* each of them one step here.  All other accesses of the handlers to the  *)
(* room take no lock, and are steps of their own.                          *)
(***************************************************************************)
EXTENDS Integers, SequencesExt

CONSTANTS Sessions,  \* players' sessions
          Host,      \* the one whose player created the room
          PlayerOrder, \* the sessions in the order of the map of players
          Heights,   \* sequence of the heights of the tiles, 0 is a wall
          Starts,    \* set of the tiles of the start positions
          Offsets,   \* where StartGame puts units, from a start position
          Clicks,    \* places a client may send units to
          Tile,      \* length of a tile
          Step,      \* speed * 0.1
          CellSize,  \* length of a cell of the grid
          Cells,     \* number of cells in a row of the grid
          MaxStarts, \* bound on the number of C_START_GAME
          MaxOrders, \* bound on the number of C_MOVE
          None       \* no tile, no session

ASSUME SessionsAssumption == /\ IsFiniteSet(Sessions) /\ Host \in Sessions
                             /\ PlayerOrder \in SetToSeqs(Sessions)
ASSUME SizesAssumption == /\ Tile \in Nat \ {0} /\ CellSize \in Nat \ {0}
                          /\ Cells \in Nat \ {0}
                          /\ Step \in 1..(Tile - 1)
ASSUME MapAssumption == /\ Heights \in Seq(Nat) \ {<<>>}
                        /\ Offsets \in Seq(Int) /\ Starts \subseteq Nat
ASSUME ClicksAssumption == Clicks \subseteq Int
ASSUME NoneAssumption == None \notin Int /\ None \notin Sessions
ASSUME BoundsAssumption == MaxStarts \in Nat /\ MaxOrders \in Nat

Tiles == 0..(Len(Heights) - 1)
Height(t) == Heights[t + 1]

(* A map has a start position for each player, and room around it for      *)
(* the units.                                                              *)
ASSUME StartsAssumption ==
    /\ \A t \in Starts : \A i \in DOMAIN Offsets : t + Offsets[i] \in Tiles
    /\ \E f \in [Sessions -> Starts] : IsInjective(f)

VARIABLES listed,   \* whether RoomManager::rooms has the room
          members,  \* Room::_sessions, all of whom joined before
          hasMap,   \* whether mapSectionData has been set
          ingamePlayerIndex, \* session -> number of its player, from 0
          unit,     \* Room::objects, id -> unit
          idList,   \* Room::idList
          idCount,  \* Room::idCount
          jobs,     \* Room::jobQueue
          cell,     \* GridManager::grids, cell -> ids of its objects
          main,     \* where the main thread is in the room's Update
          cursor,   \* the unit its iterator stands on
          recv,     \* session -> where its receive handler is
          todo,     \* session -> what that handler has still to do
          read,     \* session -> position that Handle_C_MOVE has read
          leave,    \* session -> where its exit or disconnect handler is
          doomed,   \* ids that RemoveRoom has still to remove
          known,    \* session -> ids of the S_OBJECT_SPAWN sent to it
          ready,    \* sessions that were sent S_GAME_START
          starts, orders, \* C_START_GAME and C_MOVE so far
          crash     \* what the process has died of

roomVars == <<listed, members, hasMap, ingamePlayerIndex>>
unitVars == <<unit, idList, idCount>>
mainVars == <<main, cursor>>
recvVars == <<recv, todo, read>>
leaveVars == <<leave, doomed>>
clientVars == <<known, ready>>
packets == <<starts, orders>>
vars == <<roomVars, unitVars, jobs, cell, mainVars, recvVars, leaveVars,
          clientVars, packets, crash>>

MaxUnits == MaxStarts * (Cardinality(Sessions) * Len(Offsets))
Ids == 0..(MaxUnits - 1)

(* Room::_locks[0] outside the steps that take and release it: held by     *)
(* Update.                                                                 *)
Locked == main = "tick"

(* Nothing happens in a process that has crashed. *)
Alive == crash = "no"

(***************************************************************************)
(* The ground.                                                             *)
(***************************************************************************)
(* (int) position: towards zero. *)
Trunc(x, size) == IF x >= 0 THEN x \div size ELSE -((-x) \div size)
TileAt(x) == Trunc(x, Tile)

Apart(a, b) == IF a > b THEN a - b ELSE b - a

(* AStarMove::canMove along the corridor. *)
CanMove(a, b) == /\ b \in Tiles /\ Height(b) # 0
                 /\ Apart(Height(a), Height(b)) <= 1

(* The tiles from a to b, without a, in the order of a walk. *)
Walk(a, b) == [i \in 1..Apart(a, b) |-> IF b > a THEN a + i ELSE a - i]

(* What AStarMove::aStar finds in a corridor: the only way, if there is one. *)
HasPath(a, b) == \A i \in 1..Apart(a, b) :
                    CanMove(IF i = 1 THEN a ELSE Walk(a, b)[i - 1], Walk(a, b)[i])

(* GridManager::GetOverlappingCells of the bounds of a unit, which are a   *)
(* point.                                                                  *)
Overlap(x) == {c \in 0..(Cells - 1) : c = Trunc(x, CellSize)}

Unlist(grid, i, x) ==
    [c \in DOMAIN grid |-> IF c \in Overlap(x) THEN grid[c] \ {i} ELSE grid[c]]
List(grid, i, x) ==
    [c \in DOMAIN grid |-> IF c \in Overlap(x) THEN grid[c] \cup {i} ELSE grid[c]]

(* Fault: the unit is listed before it is removed. *)
MoveObjectSwapped(grid, i, x) == Unlist(List(grid, i, x), i, x)

(* GridManager::MoveObject, called with the unit's own bounds. *)
MoveObject(grid, i, x) == List(Unlist(grid, i, x), i, x)

(***************************************************************************)
(* Units.                                                                  *)
(***************************************************************************)
(* GameObject's constructor: idle, with bounds of zero wherever it is.     *)
(* goal and home are for the properties: the tile of the order it follows  *)
(* or has carried out, and the tile it was made on.                        *)
NewUnit(x) == [pos |-> x, bounds |-> 0, state |-> "IDLE", path |-> <<>>,
               goal |-> None, home |-> TileAt(x)]

(* GameObject::SetMove: the unit is put where the job says, and walks from *)
(* there if there is a way.                                                *)
SetMove(u, x, target) ==
    LET a == TileAt(x)
        b == TileAt(target)
    IN IF x # target /\ HasPath(a, b)
       THEN [u EXCEPT !.pos = x, !.state = "MOVE", !.path = Walk(a, b),
                      !.goal = IF a = b THEN None ELSE b]
       ELSE [u EXCEPT !.pos = x, !.state = "IDLE", !.path = <<>>, !.goal = None]

(* GameObject::move.  Reaching the next point does not end the step.       *)
Moved(u) ==
    LET next    == Head(u.path) * Tile
        reached == Step >= Apart(next, u.pos)
        way     == IF next > u.pos THEN Step ELSE -Step
        x       == (IF reached THEN next ELSE u.pos) + way
    IN [u EXCEPT !.pos = x, !.bounds = x,
                 !.path = IF reached THEN Tail(@) ELSE @]

(* Fault: a unit rests when one point is left. *)
UpdatedStopsEarly(u) == IF u.state # "MOVE" THEN u
                        ELSE IF Len(u.path) <= 1 THEN [u EXCEPT !.state = "IDLE"]
                        ELSE Moved(u)

(* Fault: a unit without a path goes on moving. *)
UpdatedNeverRests(u) == IF u.state # "MOVE" \/ u.path = <<>> THEN u ELSE Moved(u)

(* GameObject::Update. *)
Updated(u) == IF u.state # "MOVE" THEN u
              ELSE IF u.path = <<>> THEN [u EXCEPT !.state = "IDLE"]
              ELSE Moved(u)

Init == /\ listed = TRUE
        /\ members = Sessions
        /\ hasMap = FALSE
        /\ ingamePlayerIndex = <<>>
        /\ unit = <<>>
        /\ idList = {}
        /\ idCount = 0
        /\ jobs = <<>>
        /\ cell = [c \in 0..(Cells - 1) |-> {}]
        /\ main = "idle"
        /\ cursor = -1
        /\ recv = [s \in Sessions |-> "idle"]
        /\ todo = [s \in Sessions |-> <<>>]
        /\ read = [s \in Sessions |-> 0]
        /\ leave = [s \in Sessions |-> "no"]
        /\ doomed = {}
        /\ known = [s \in Sessions |-> {}]
        /\ ready = {}
        /\ starts = 0
        /\ orders = 0
        /\ crash = "no"

(***************************************************************************)
(* The main thread: RoomManager::Update, Room::Update.                     *)
(***************************************************************************)
(* RoomManager::Update comes to the room: a copy of the reference is made, *)
(* without the lock of RoomManager.  Without a room it has nothing to do.  *)
TakeRoom == /\ Alive /\ main = "idle" /\ listed
            /\ main' = "wait"
            /\ UNCHANGED <<roomVars, unitVars, jobs, cell, cursor, recvVars,
                           leaveVars, clientVars, packets, crash>>

NoRoomToTick == /\ Alive /\ main = "idle" /\ ~listed
                /\ UNCHANGED vars

(* Room::Update takes the lock. *)
LockRoom == /\ Alive /\ main = "wait"
            /\ main' = "tick"
            /\ UNCHANGED <<roomVars, unitVars, jobs, cell, cursor, recvVars,
                           leaveVars, clientVars, packets, crash>>

(* ProcessJob: objects[id] makes a null entry for a unit that is gone, and *)
(* the call on it crashes, as would the search without a map.              *)
ProcessJob ==
    /\ Alive /\ main = "tick" /\ jobs # <<>>
    /\ LET j == Head(jobs)
       IN IF j.id \in DOMAIN unit /\ hasMap
          THEN /\ unit' = [unit EXCEPT ![j.id] = SetMove(@, j.pos, j.target)]
               /\ UNCHANGED crash
          ELSE crash' = "null" /\ UNCHANGED unit
    /\ jobs' = Tail(jobs)
    /\ UNCHANGED <<roomVars, idList, idCount, cell, mainVars, recvVars,
                   leaveVars, clientVars, packets>>

(* The iterator of the loop stands on the unit of the last pass, which may *)
(* have been erased under it; then anything may come of going on.          *)
Lost == cursor # -1 /\ cursor \notin DOMAIN unit
Ahead == {i \in DOMAIN unit : i > cursor}

(* One pass of the loop that follows when there are no jobs (nor can there *)
(* be more, while the lock is held): Update of the unit, its place in the  *)
(* grid, and the S_MOVE, which all members get.                            *)
UpdateUnit ==
    /\ Alive /\ main = "tick" /\ jobs = <<>> /\ Ahead # {}
    /\ LET i == Min(Ahead)
           u == Updated(unit[i])
       IN /\ cursor' = i
          /\ unit' = [unit EXCEPT ![i] = u]
          /\ cell' = MoveObject(cell, i, u.bounds)
    /\ UNCHANGED <<roomVars, idList, idCount, jobs, main, recvVars, leaveVars,
                   clientVars, packets, crash>>

IteratorLost == /\ Alive /\ main = "tick" /\ Lost
                /\ crash' = "iterator"
                /\ UNCHANGED <<roomVars, unitVars, jobs, cell, mainVars, recvVars,
                               leaveVars, clientVars, packets>>

(* The end of Update; HandleCollisions finds nothing among points.  Then   *)
(* RoomManager::Update goes on from an entry that may be gone.             *)
UnlockRoom == /\ Alive /\ main = "tick" /\ jobs = <<>> /\ Ahead = {}
              /\ main' = "idle"
              /\ cursor' = -1
              /\ \/ UNCHANGED crash
                 \/ ~listed /\ crash' = "iterator"
              /\ UNCHANGED <<roomVars, unitVars, jobs, cell, recvVars, leaveVars,
                             clientVars, packets>>

(***************************************************************************)
(* Membership.                                                             *)
(***************************************************************************)
(* Fault: whoever leaves, the room goes. *)
LeaveRoomDeletes(s) ==
    /\ Alive /\ ~Locked /\ s \in members /\ leave[s] = "no"
    /\ members' = {} /\ leave' = [leave EXCEPT ![s] = "remove"]
    /\ UNCHANGED <<listed, hasMap, ingamePlayerIndex, unitVars, jobs, cell, mainVars, recvVars,
                   doomed, clientVars, packets, crash>>

(* Room::Remove, its section under the lock: from C_EXIT_GAME, or from the *)
(* loss of the connection, which may overlap the session's own packet.     *)
LeaveRoom(s) ==
    /\ Alive /\ ~Locked /\ s \in members /\ leave[s] = "no"
    /\ IF s = Host \/ members = {s}
       THEN members' = {} /\ leave' = [leave EXCEPT ![s] = "remove"]
       ELSE members' = members \ {s} /\ leave' = [leave EXCEPT ![s] = "gone"]
    /\ UNCHANGED <<listed, hasMap, ingamePlayerIndex, unitVars, jobs, cell, mainVars, recvVars,
                   doomed, clientVars, packets, crash>>

(* RoomManager::RemoveRoom, under RoomManager's lock: a list of the room's  *)
(* objects, ...                                                            *)
ListDoomed(s) == /\ Alive /\ leave[s] = "remove"
                 /\ \A t \in Sessions : leave[t] # "erase"
                 /\ doomed' = DOMAIN unit
                 /\ leave' = [leave EXCEPT ![s] = "erase"]
                 /\ UNCHANGED <<roomVars, unitVars, jobs, cell, mainVars, recvVars,
                                clientVars, packets, crash>>

(* ... ObjectRemove of each, ... *)
ObjectRemove(s) ==
    /\ Alive /\ leave[s] = "erase" /\ doomed # {}
    /\ LET i == Min(doomed)
       IN /\ doomed' = doomed \ {i}
          /\ idList' = idList \ {i}
          /\ unit' = Restrict(unit, DOMAIN unit \ {i})
          /\ cell' = Unlist(cell, i, unit[i].bounds)
    /\ UNCHANGED <<roomVars, idCount, jobs, mainVars, recvVars, leave, clientVars,
                   packets, crash>>

(* ... and the room leaves the map. *)
RemoveRoom(s) == /\ Alive /\ leave[s] = "erase" /\ doomed = {}
                 /\ listed' = FALSE
                 /\ leave' = [leave EXCEPT ![s] = "gone"]
                 /\ UNCHANGED <<members, hasMap, ingamePlayerIndex, unitVars, jobs,
                                cell, mainVars, recvVars, doomed, clientVars, packets, crash>>

(***************************************************************************)
(* Handle_C_START_GAME, of the host.                                       *)
(***************************************************************************)
(* t comes before s in the map of players. *)
Before(t, s) == \E j, k \in DOMAIN PlayerOrder :
                   j < k /\ PlayerOrder[j] = t /\ PlayerOrder[k] = s

(* The sequence of the players in that order, alone in a set. *)
InOrder(players) ==
    {order \in SetToSeqs(players) :
        \A j, k \in DOMAIN order : j < k => Before(order[j], order[k])}

(* The members are numbered anew; who has left keeps its number.          *)
Numbered(numbers, players) ==
    [s \in DOMAIN numbers \cup players |->
        IF s \in players THEN Cardinality({t \in players : Before(t, s)})
                         ELSE numbers[s]]

(* What StartGame has to do, one numbered player after the other, with     *)
(* every shuffle of the start positions: the player's units, and then its  *)
(* S_GAME_START.                                                           *)
Deals(numbers) ==
    {[k \in DOMAIN order |->
        [to |-> order[k],
         units |-> [i \in DOMAIN Offsets |-> (start[numbers[order[k]]] + Offsets[i]) * Tile]]] :
       order \in InOrder(DOMAIN numbers),
       start \in Injection(0..(Cardinality(Sessions) - 1), Starts)}

(* GetRoom, mapSectionData, and the players' indexes; with no room the     *)
(* handler writes through a null pointer.                                  *)
StartGame(s) ==
    /\ Alive /\ s = Host /\ recv[s] = "idle" /\ leave[s] = "no" /\ starts < MaxStarts
    /\ starts' = starts + 1
    /\ IF listed
       THEN /\ hasMap' = TRUE
            /\ ingamePlayerIndex' = Numbered(ingamePlayerIndex, members)
            /\ recv' = [recv EXCEPT ![s] = IF ingamePlayerIndex' = <<>> THEN "idle"
                                           ELSE "starting"]
            /\ \E deal \in Deals(ingamePlayerIndex') : todo' = [todo EXCEPT ![s] = deal]
            /\ UNCHANGED crash
       ELSE crash' = "null" /\ UNCHANGED <<hasMap, ingamePlayerIndex, recv, todo>>
    /\ UNCHANGED <<listed, members, unitVars, jobs, cell, mainVars, read, leaveVars,
                   clientVars, orders>>

(* ObjectAdd: the unit is made and entered, without the lock.              *)
ObjectAdd(s) ==
    /\ Alive /\ recv[s] = "starting" /\ Head(todo[s]).units # <<>>
    /\ unit' = [i \in DOMAIN unit \cup {idCount} |->
                   IF i = idCount THEN NewUnit(Head(Head(todo[s]).units)) ELSE unit[i]]
    /\ idList' = idList \cup {idCount}
    /\ recv' = [recv EXCEPT ![s] = "announcing"]
    /\ UNCHANGED <<roomVars, idCount, jobs, cell, mainVars, todo, read, leaveVars,
                   clientVars, packets, crash>>

(* Fault: the spawn goes to the player who starts the game only. *)
AnnounceToHost(s) ==
    /\ Alive /\ recv[s] = "announcing" /\ ~Locked
    /\ known' = [known EXCEPT ![s] = @ \cup {idCount}]
    /\ idCount' = Min({n \in idCount..(idCount + Cardinality(idList)) : n \notin idList})
    /\ recv' = [recv EXCEPT ![s] = "starting"]
    /\ todo' = [todo EXCEPT ![s][1].units = Tail(@)]
    /\ UNCHANGED <<roomVars, unit, idList, jobs, cell, mainVars, read, leaveVars,
                   ready, packets, crash>>

(* Fault: the id is not moved on. *)
AnnounceSameId(s) ==
    /\ Alive /\ recv[s] = "announcing" /\ ~Locked
    /\ known' = [t \in Sessions |-> IF t \in members THEN known[t] \cup {idCount}
                                                       ELSE known[t]]
    /\ recv' = [recv EXCEPT ![s] = "starting"]
    /\ todo' = [todo EXCEPT ![s][1].units = Tail(@)]
    /\ UNCHANGED <<roomVars, unitVars, jobs, cell, mainVars, read, leaveVars,
                   ready, packets, crash>>

(* Its Broadcast, which waits for the lock, and the next free id.          *)
Announce(s) ==
    /\ Alive /\ recv[s] = "announcing" /\ ~Locked
    /\ known' = [t \in Sessions |-> IF t \in members THEN known[t] \cup {idCount}
                                                       ELSE known[t]]
    /\ idCount' = Min({n \in idCount..(idCount + Cardinality(idList)) : n \notin idList})
    /\ recv' = [recv EXCEPT ![s] = "starting"]
    /\ todo' = [todo EXCEPT ![s][1].units = Tail(@)]
    /\ UNCHANGED <<roomVars, unit, idList, jobs, cell, mainVars, read, leaveVars,
                   ready, packets, crash>>

(* S_GAME_START to a player; after that of the last one it is done. *)
TellPlayer(s) ==
    /\ Alive /\ recv[s] = "starting" /\ Head(todo[s]).units = <<>>
    /\ ready' = ready \cup {Head(todo[s]).to}
    /\ todo' = [todo EXCEPT ![s] = Tail(@)]
    /\ recv' = IF Len(todo[s]) = 1 THEN [recv EXCEPT ![s] = "idle"] ELSE recv
    /\ UNCHANGED <<roomVars, unitVars, jobs, cell, mainVars, read, leaveVars,
                   known, packets, crash>>

(***************************************************************************)
(* Handle_C_MOVE.  A client in the game sends any units it knows anywhere. *)
(***************************************************************************)
Order(s) ==
    /\ Alive /\ s \in ready /\ recv[s] = "idle" /\ leave[s] = "no" /\ orders < MaxOrders
    /\ orders' = orders + 1
    /\ \E ids \in (SUBSET known[s]) \ {{}}, target \in Clicks :
         \E seq \in SetToSeqs(ids) :
            IF listed
            THEN /\ todo' = [todo EXCEPT ![s] = [k \in DOMAIN seq |-> [id |-> seq[k], target |-> target]]]
                 /\ recv' = [recv EXCEPT ![s] = "looking"]
                 /\ UNCHANGED crash
            ELSE crash' = "null" /\ UNCHANGED <<todo, recv>>
    /\ UNCHANGED <<roomVars, unitVars, jobs, cell, mainVars, read, leaveVars,
                   clientVars, starts>>

(* objects[id] and its position, read without the lock. *)
LookUp(s) ==
    /\ Alive /\ recv[s] = "looking"
    /\ LET i == Head(todo[s]).id
       IN IF i \in DOMAIN unit
          THEN /\ read' = [read EXCEPT ![s] = unit[i].pos]
               /\ recv' = [recv EXCEPT ![s] = "pushing"]
               /\ UNCHANGED crash
          ELSE crash' = "null" /\ UNCHANGED <<read, recv>>
    /\ UNCHANGED <<roomVars, unitVars, jobs, cell, mainVars, todo, leaveVars,
                   clientVars, packets>>

(* The job goes into the queue under the lock; the next unit, or the end.  *)
Push(s) ==
    /\ Alive /\ recv[s] = "pushing" /\ ~Locked
    /\ jobs' = Append(jobs, [id |-> Head(todo[s]).id, pos |-> read[s],
                             target |-> Head(todo[s]).target])
    /\ todo' = [todo EXCEPT ![s] = Tail(@)]
    /\ recv' = [recv EXCEPT ![s] = IF Len(todo[s]) = 1 THEN "idle" ELSE "looking"]
    /\ read' = [read EXCEPT ![s] = 0]
    /\ UNCHANGED <<roomVars, unitVars, cell, mainVars, leaveVars, clientVars,
                   packets, crash>>

(* The process is dead. *)
Crashed == ~Alive /\ UNCHANGED vars

MainStep == \/ TakeRoom \/ NoRoomToTick \/ LockRoom \/ ProcessJob
            \/ UpdateUnit \/ IteratorLost \/ UnlockRoom
LeaveStep(s) == ListDoomed(s) \/ ObjectRemove(s) \/ RemoveRoom(s)
RecvStep(s) == \/ ObjectAdd(s) \/ Announce(s) \/ TellPlayer(s)
               \/ LookUp(s) \/ Push(s)
ClientStep(s) == LeaveRoom(s) \/ StartGame(s) \/ Order(s)

Next == \/ MainStep
        \/ \E s \in Sessions : LeaveStep(s) \/ RecvStep(s) \/ ClientStep(s)
        \/ Crashed

Spec == Init /\ [][Next]_vars

(* The main thread ticks for ever, and a handler that a worker has begun   *)
(* goes on; it gets the room's lock, which Update holds for a while only.  *)
(* Nobody need send or leave.                                              *)
Fairness == /\ WF_vars(MainStep)
            /\ \A s \in Sessions : WF_vars(LeaveStep(s)) /\ SF_vars(RecvStep(s))

FairSpec == Spec /\ Fairness

(***************************************************************************)
(* Properties.                                                             *)
(***************************************************************************)
States == {"IDLE", "MOVE"}
Places == (-Tile)..(Tile * Len(Heights))

(* Types; there are no more ids than units that can have been made.        *)
TypeOK ==
    /\ listed \in BOOLEAN /\ hasMap \in BOOLEAN
    /\ members \subseteq Sessions /\ ready \subseteq Sessions
    /\ \A s \in DOMAIN ingamePlayerIndex :
          s \in Sessions /\ ingamePlayerIndex[s] \in 0..(Cardinality(Sessions) - 1)
    /\ DOMAIN unit \subseteq Ids
    /\ \A i \in DOMAIN unit :
          /\ unit[i].pos \in Places /\ unit[i].bounds \in Places
          /\ unit[i].state \in States
          /\ \A k \in DOMAIN unit[i].path : unit[i].path[k] \in Tiles
    /\ idList \subseteq Ids /\ doomed \subseteq Ids
    /\ idCount \in 0..MaxUnits
    /\ \A k \in DOMAIN jobs : jobs[k].id \in Ids /\ jobs[k].pos \in Places
    /\ \A c \in 0..(Cells - 1) : cell[c] \subseteq Ids
    /\ main \in {"idle", "wait", "tick"}
    /\ \A s \in Sessions :
          /\ recv[s] \in {"idle", "starting", "announcing", "looking", "pushing"}
          /\ leave[s] \in {"no", "remove", "erase", "gone"}
          /\ known[s] \subseteq Ids
    /\ crash \in {"no", "null", "iterator"}

(* As long as the host has not begun to leave, no handler and no job meets *)
(* a null room or a unit that is gone, though jobs are applied long after  *)
(* they were checked, and without the lock (Handle_C_MOVE, ProcessJob).    *)
NullOnlyAfterHost == crash = "null" => leave[Host] # "no"

(* Every player has been sent the S_OBJECT_SPAWN of every unit that may    *)
(* send it an S_MOVE: the broadcast of ObjectAdd and the tick that first   *)
(* moves a unit are in this order for every member, though StartGame runs  *)
(* beside the main thread.                                                 *)
SpawnBeforeMove ==
    \A i \in DOMAIN unit : unit[i].state = "MOVE" =>
        \A s \in members : i \in known[s]

(* The id that ObjectAdd takes is nobody's: a unit is never replaced by    *)
(* another, even if the game is started again.                             *)
NeverReplaced == [][\A i \in DOMAIN unit \cap DOMAIN unit' :
                        unit'[i].home = unit[i].home]_vars

(* The cells that a unit's bounds overlap list it, once it has moved, so   *)
(* that FindAllColliders sees it (MoveObject).                             *)
GridCovers == \A i \in DOMAIN unit : unit[i].bounds # 0 =>
                  \A c \in Overlap(unit[i].bounds) : i \in cell[c]

(* A unit's place, also one that a late job sets it back to, truncates to  *)
(* a tile of the map: aStar reads its height without a test.               *)
InMap == /\ \A i \in DOMAIN unit : TileAt(unit[i].pos) \in Tiles
         /\ \A k \in DOMAIN jobs : TileAt(jobs[k].pos) \in Tiles

(* A unit is never exactly at the point it walks to: move() divides by the *)
(* distance.                                                               *)
NoZeroStep == \A i \in DOMAIN unit :
                  unit[i].state = "MOVE" /\ unit[i].path # <<>> =>
                      unit[i].pos # Head(unit[i].path) * Tile

(* A unit that has carried out an order to another tile stands within a    *)
(* step of it.                                                             *)
ArrivesNear == \A i \in DOMAIN unit :
                  unit[i].state = "IDLE" /\ unit[i].goal # None =>
                      Apart(unit[i].pos, unit[i].goal * Tile) <= Step

(* What a walk computes with is defined, wherever overshooting and late    *)
(* jobs have put the unit, and it ends where it was to end.                *)
Walks == TypeOK /\ InMap /\ NoZeroStep /\ ArrivesNear

(* No unit walks for ever: again and again all units are at rest, or the   *)
(* process has died, or the room is gone.  (The orders have an end here.)  *)
Arrives == []<>(\/ ~Alive
                \/ \A i \in DOMAIN unit : unit[i].state # "MOVE")

(* The code does not keep the next two, by which the comments describe it. *)

(* A unit does not come to stand on ground that canMove does not connect   *)
(* with where it was made: height 0 is "impassable" (AStarMove.cpp:111).   *)
WallsHold == \A i \in DOMAIN unit :
                Height(TileAt(unit[i].pos)) # 0 =>
                    HasPath(unit[i].home, TileAt(unit[i].pos))

(* A unit that has been removed is in no cell: RemoveObject is to take it  *)
(* "out of all the cells of the grid" (Grid.cpp:73).                       *)
GridForgets == \A c \in 0..(Cells - 1) : cell[c] \subseteq DOMAIN unit
=============================================================================
