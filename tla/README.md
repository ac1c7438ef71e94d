# A TLA+ verification of the StarCraft IOCP server

The repository holds a Windows game server in C++ (`src/ServerExCode`: the
network library `ServerCore` and the program `GameServer`), its Unity client
(`src/StarCraftClient`) and a Unity map editor (`src/MapMakerUnity`). This
directory holds the TLA+ modules that model it, the TLC configurations that
check them on small instances, and proofs for TLAPS of the results that matter
most, for every value of the constants.

`PROJECT.json` lists the components, the runs, the source lines each definition
translates ("map"), one plausible bug per property that the run must catch
("mutants", written next to the action they alter under a comment that starts
with "Fault:"), the hazards of the code, the findings and the theorems.

To check a module: `tlc -workers 2 -config RWLock.cfg RWLock`; to check its
proofs: `tlapm RWLock_proofs.tla`.

## 1. The system

### Threads

`main` (GameServer.cpp) starts a `ServerService` and five worker threads that
loop on `IocpCore::Dispatch`; the main thread calls `RoomManager::Update` every
25 ms. So packet handlers and connection events run on any of five threads, the
simulation of all rooms on a sixth, and all of them send.

### Components, their state and what makes each correct

| component | state | operations | what makes it correct |
|---|---|---|---|
| spin lock (`Lock`) | one 32-bit word (writer id, read count), a plain depth counter | ReadLock, ReadUnlock, WriteLock, WriteUnlock, through scoped guards | writers exclude everybody, recursion counts right, the plain counter is never raced on, CRASH only on a nesting the caller got wrong |
| session, send path | queue, `_sendRegistered`, the one send event | Send, RegisterSend, ProcessSend, HandleError | one overlapped send at a time, owned while in flight, never empty, nothing queued is forgotten, order kept |
| session, life | `_connected`, the owner fields of its events, its place in the service | ProcessConnect, RegisterRecv, ProcessRecv, Disconnect, ProcessDisconnect | callbacks once each and in order, released once, alive while an operation is in flight and no longer, always listening while connected |
| listener | one accept event per expected session | RegisterAccept, ProcessAccept | never stops accepting |
| service | set of sessions, count | AddSession, ReleaseSession | knows the sessions that are connected; the assertion of ReleaseSession |
| completion port (`IocpCore`) | Windows' queue | Register, Dispatch | follows an owner that is there |
| receive buffer, framing | buffer, read and write cursor | OnWrite, OnRead, Clean, PacketSession::OnRecv | each packet once, whole, in order, however TCP cuts the stream; room for the next receive |
| lobby (`RoomManager`, membership of `Room`, `GameSession`, `GameSessionManager`, packet handlers) | map of rooms, id counter, player ids, members and host of a room, current room of a session | login, create, join, exit, disconnect | members, rooms and sessions agree; a room without its host goes; player ids are unique and freed |
| game room (`Room`) | objects by id, deferred jobs, players | StartGame, C_MOVE, C_ATTACK jobs, Update, ObjectAdd, ObjectRemove | a job applies to an object that is still there; ids are unique; clients hear of each object once |
| grid | cells with the objects that overlap them | UpdateBounds, MoveObject, RemoveObject | an object is listed where it is |
| path finding | open and closed nodes | AStarMove::aStar | a path if there is one, a shortest one, never through a corner |
| map files | sections of a binary file | the editor's writer, the server's and the client's reader | server and client have the map that was drawn |
| send buffers | chunk per thread, pool of chunks | Open, Close, release | buffers do not overlap; a chunk is not reused while a buffer of it is in use |
| deadlock profiler | graph of lock orders, stack per thread | PushLock, PopLock, CheckCycle | reports exactly when the graph gets a cycle, and so before threads wait for each other |
| memory pools | table from sizes to pools | Allocate, Release | every size has a pool that is large enough |
| client connection | socket, receive buffer, packet queue | connect, receive callback, Update | packets processed in order on the main thread, none left behind |
| client rooms, units, map | scene, units by id, spawn queue, tiles | one handler per packet, one Update per frame | the scene is the one the server has the player in; the units are those of its game |

Threads, reference counting, socket wrappers and the packet generator have no
state of their own that a property could be about.

### How they interact

* The kernel completes an operation; a worker gets the event in `Dispatch` and
  goes through `iocpEvent->owner` to the listener or the session. The owner
  field is the only reference that keeps a session alive while the kernel
  writes into it.
* `Session` calls the content (`GameSession`) back: OnConnected, OnRecv,
  OnSend, OnDisconnected. OnRecv runs a packet handler, which calls
  `RoomManager` and `Room`; these broadcast, and so call Send of *other*
  sessions, from the worker or from the main thread.
* Locks are taken in the order GameSessionManager, Room, Session; RoomManager's
  lock protects its map in AddRoom, RemoveRoom and GetRoom only. Many reads
  take no lock.
* C_MOVE and C_ATTACK leave jobs which the main thread applies at its next
  tick; every other handler acts at once.
* The client takes one packet a frame; those that change the scene call
  LoadScene, which takes effect with the next frame, and spawns wait in a queue of
  their own for the `UnitManager` of the battle scene.
* The editor's file is copied to the server and to every client; a room names
  its map by the hash at the front of it.

### What is hard here

* Threads of the port handle two completions of one session at once: a packet
  and a disconnect, or a send and a receive that both find the connection lost.
* State is checked under no lock, or under one that is released before it is
  used: `roomIdCount`, `rooms`, `playerIdList`, `currentRoom`, `_connected`,
  `_sendRegistered` on the error path.
* Overlapped operations fail at once, fail later, or complete with no bytes, and
  each way must leave the owner field and the flags right.
* The lock is hand-made, recursive, and crashes rather than wait for ever.
* Room jobs are applied later, to objects that may be gone.
* Locks nest in several classes; the profiler of the debug build knows them by
  name only.
* Objects of the client live as long as their scene, packets and queues longer.

"hazards" in `PROJECT.json` names each at its line with the properties that
would show it going wrong, or says why none covers it yet.

## 2. The modules

| module | models | sources |
|---|---|---|
| `RWLockAbs` | what a recursive readers-writer lock promises | |
| `RWLock` | the spin lock, one action per atomic operation | Lock.h, Lock.cpp |
| `RWLock_proofs` | invariants and refinement, proved | |
| `SendPipe` | what the send path promises: order, batches, losses by batch only | |
| `SessionSend` | the send path of a session under several threads | Session.cpp |
| `SessionSend_proofs` | invariants and refinement, proved | |
| `SessionLife` | listener, port, service, and the connect, receive and disconnect paths | Listener.cpp, IocpCore.cpp, Service.cpp, Session.cpp |
| `SessionLife_proofs` | invariants, proved | |
| `RecvStream` | the receive buffer and the loop that cuts packets | RecvBuffer.cpp, Session.cpp |
| `RecvStream_proofs` | invariants, proved | |
| `Lobby` | rooms, membership and login across handlers of the workers | GameServer/\*.cpp |
| `Lobby_proofs` | invariants, with one worker and with many, proved | |
| `MCLobby` | symmetry for TLC | |
| `GameRoom` | a game in a room: tick, orders, start, removal, walk and grid | Room.cpp, GameObject.cpp, Grid.cpp, RoomManager.cpp, AStarMove.cpp |
| `GameRoom_proofs` | invariants and an action property of `GameRoom`; the reading of maps and the path search of `GameMap`, `MapFile` and `AStarMove`: all proved | |
| `MCGameRoom` | two corridors for TLC | |
| `Client` | a client: connection, receive callback, packet pump, scenes, units, before the server as one client sees it | StarCraftClient: ServerConnect.cs, Packet/\*.cs, Unit/\*.cs; GameServer/\*.cpp for what it is sent |
| `Client_proofs` | invariants, proved | |
| `LockOrder` | what the profiler promises: threads that nest locks, and a report before the order gets a cycle | Lock.cpp, DeadLockProfiler.cpp |
| `LockOrder_proofs` | invariants, that the search implements `LockOrder`, and the ranking of the server's locks, proved | |
| `DeadLockProfiler` | the search as written, a turn of a loop a step, shown to implement `LockOrder` | DeadLockProfiler.cpp |
| `ServerLocks` | who nests which lock in the server, and any nesting of three of them | GameServer/\*.cpp, ServerCore/\*.cpp |
| `MapFile` | a map from the drawing through the file to server and client | MapMaker.cs, MapMaker.cpp, the client's map scripts |
| `AStarMove` | the path search, one turn of its loop a step | AStarMove.cpp |
| `GameMap` | both together: searches on the map that was read, beside the map that is shown | GameObject.cpp, Room.cpp |
| `MCGameMap` | the drawings for TLC | |

The modules cut the server at the interfaces the code has. `SessionLife` shows
that one thread at a time works on a receive buffer (`OneReceive`), which is
what `RecvStream`, a sequential module, assumes, and what `Lobby` assumes when it
gives each session one receive handler. `CallbacksInOrder` is what lets
`Lobby` give each session one disconnect handler. `SessionSend` assumes a lock
that excludes, which `RWLock` shows. `SessionLife` takes from the send path just
that a Send on any thread may find the connection lost. `Client` assumes of
the server what the others show: requests are answered in order (`OneReceive`), packets
arrive in order (`ImplementsPipe`). `ServerLocks` takes a lock as `RWLock` shows it
to be. `AStarMove`, on whole maps, is what `GameRoom` has in a corridor.

### RWLock

`flag` is `_lockFlag` as a record of its two halves (2^16 guards or threads are
out of reach, so the halves do not run into each other), `writeCount` is
`_writeCount`, `seen` the `expected` of ReadLock's loop, `held` the stack of
scoped guards of each thread. A step is one atomic operation: the load that
recognises the owner, the compare-exchange, the counter, the store. Scoped
guards mean that a thread unlocks in the reverse order of locking; nothing else
is assumed of callers, and with `AllowUpgrade` they may even ask for a write
guard while they only read. CRASH is a state (`crash`) that stops everything; the
ten-second timeout may strike whenever a compare-exchange fails.

### SessionSend

`Send` is cut at every point where another thread can act: the check of
`_connected`, the section under the lock, RegisterSend's check, the drain of the
queue, WSASend, HandleError, the clearing of the event, the clearing of
`_sendRegistered`. The kernel is `posted` (sends it has) and `wire` (what
reached the peer). A completion brings bytes or none. The lock matters only by
its owner, because ProcessSend holds it through a whole RegisterSend, whereas
Send calls RegisterSend outside it.

### SessionLife

Accept events, sessions, threads, and the kernel's operations are explicit. A
step is a critical section of `Service`, an exchange on `_connected`, a call that
posts an operation, or a callback. Owner fields are sets (`owner`), so that "who
refers to this session" can be asked (`Referenced`). The completion port is a
queue; two threads that take successive completions still interleave. Peers may
connect and give up before the accept is handled.

### RecvStream

A byte is its position in the peer's stream, so the buffer's content says
whether data was moved correctly. The peer sends packets of any legal size;
receives bring any number of bytes that fits. A header read in the wrong place
may say anything (`HeaderAt`), and a memcpy between overlapping areas may leave
junk (`Moved`): that neither happens is what is checked.

### Lobby

Room objects (`room`) and the map that lists them (`rooms`) are separate, as in
the code, where the handlers keep shared pointers. Each handler is cut at its
critical sections and at every unlocked access. `Workers` bounds the handlers
that run at once: 1 is the server without concurrency. The client is the one in
`src/StarCraftClient`: its screen decides what it may ask, it waits for the
answer of one request before the next, and its requests cross messages from the
server.

### GameRoom

The main thread is cut at the reference it copies from `rooms`, at the room's lock,
at each job and at each pass of the loop over `objects`, where the iterator
stands between two steps (`cursor`): if the unit under it is erased, the process may
die. Handlers are cut at each access that takes no lock: the lookup and the read of a
position in C_MOVE, the insertion in ObjectAdd and its broadcast, RemoveRoom's list
and each ObjectRemove. Data races on the map beyond that are whole accesses.

The map is a corridor, so that a path is the only one there is and a place one
number, in units of which a tile has `Tile` and a step `Step`; `(int)` truncates
towards zero, as it does at the edge of the map. All players are there before the
game starts (joining is in `Lobby`), and each leaves at most once. Clients send
the units they have been told of, and send them after their S_GAME_START.

### Client

One action of the receive callback cuts all whole packets off (`Receive`); a
packet is two pieces, its header and the rest, and a receive ends between any two.
The main thread is cut into the start of a frame, where a scene asked for
in the frame before is loaded (`StartFrame`), and the `Update` of each component in any
order. Nothing else touches what a frame reads, except to add at the ends of queues,
so the others act between frames (`Between`).

The rest of the module is the server as one client sees it, with the freedom that
`Lobby` and `GameRoom` have shown: the room may be left before, during or after its
start; StartGame goes on telling those it has numbered (`TellLate`); joining a game
that runs is possible.

Two reductions keep it small: a player's units are one unit, and the server sends when at
most one piece is on its way (what a receive cuts off can wait in `recvQueue` instead).
`UnitManager.Instance`, used where the scene has none, makes one without prefabs, whose
Awake throws: `bare` if Unity still calls its Updates, `deaf` if it does not; both are
checked. The screens that show rooms, and `Queue<T>` under two threads, are left out.

### LockOrder, DeadLockProfiler, ServerLocks

A lock has an identity, by which threads wait, and is taken under a name, by which the
profiler knows it: `typeid(this).name()`, so the class whose method takes it, or the handler
that takes a room's. `LockOrder` says that the process stops exactly with the nesting
that makes the order of names cyclic. `DeadLockProfiler` implements it with the depth-first
search: `calls` is the stack of the Dfs that run, each with what it has still to follow,
beside `_discoveredOrder`, `_discoveredCount` and `_finished`, and a step is a turn of the loop
of CheckCycle or of Dfs. The search is under the profiler's mutex (`Free`), so no other thread
pushes or pops a name, but one that waits for its lock may get it meanwhile. `Recorded` maps
it to `LockOrder`: the history without the nesting that is being searched for.

A program is a relation of which acquisition may be nested directly in which: `ServerNests` is
read off the server's code for any sets `Rooms` and `Sessions`; `AnyNests` is every nesting of
handlers, rooms and sessions.

### MapFile, AStarMove, GameMap

A file is a sequence of 16-bit words, which is how every field of it is made. The
editor's writer goes through the drawing row by row; one action of a reader is one
section. SHA-256 tells apart whatever differs: the hash is the checksum's input itself, as one
word. A drawing (`IsDrawing`) is a full rectangle of known tiles, without holes, and no
coordinate in it is beyond a short.

`AStarMove` keeps `openList` with its duplicates, `closedList` and `cameFrom`. A step costs 5 and
a diagonal 7 for 1 and 1.4, so that sums are exact; `openList`'s order leaves ties open, and
TLC tries each. `Neighbours` are the tiles that canMove lets a step go to. In `GameMap` any search may be asked for as soon as the client shows
its map.

## 3. The runs

| run | question | instance |
|---|---|---|
| `rwlock` | does the lock exclude, count and crash as it should, implement `RWLockAbs`, and does a writer always let go? | 2 threads, 3 guards deep, upgrades allowed |
| `session_send` | is the send path safe, faithful to `SendPipe`, and does it deliver? | 3 threads, 4 sends, both kinds of error |
| `session_life` | callbacks, ownership, accept and receive under every failure; is every lost connection released, is no session deaf? | 2 sessions, 1 accept event, 2 threads, both kinds of error, DisconnectEx may fail at once |
| `recv_stream` | is the stream cut into the peer's packets, and is there always room? | buffers of 4 bytes, 3 of them, headers of 2, 6 packets |
| `lobby_one_worker` | is the lobby consistent if handlers do not overlap? | 3 sessions, 2 rooms, 1 worker |
| `lobby_one_room` | what survives when they do? | 3 sessions, 1 room, 2 workers |
| `lobby_id_race` | violation: a room outlives its host | 2 sessions, 2 rooms, 2 workers |
| `game_room` | nulls, what clients hear, the grid and the walk, as handlers run beside the tick | 2 players with a unit each, 5 tiles, 4 cells, 1 start, 2 orders |
| `game_restart` | does a second start, beside a removal, ever replace a unit? | 2 starts, 2 units for each of 2 players, no orders |
| `client` | are the scene and the units those of the player's room, however packets, frames and scenes fall, and does the client catch up? | 2 rooms one after the other, 2 units, 1 move |
| `locks` | does the search implement the order's promise, does it come before a deadlock, and is the server's own nesting free of both? | 2 threads, 2 rooms, 1 session; the server's six names 4 deep, any nesting of three of them 3 deep |
| `maps` | is what is read what was drawn, is every path a shortest one and a walk on what the client shows, does the search end? | 64 maps of 3x3 ground and water, 243 of 2x3 heights, 2 pairs of files that differ; every start and goal |

### Why the bounds are enough

* **rwlock**: a race on the word needs two threads; three guards give
  write-read-write, the shortest nesting that crashes. The proofs lift both
  bounds.
* **session_send**: with four sends, one can be in flight, one drained, one queued
  and one on its way to the lock. Proved for any number of threads and sends,
  except delivery.
* **session_life**: two sessions let the listener go on to a second accept while
  the first session dies; two threads let any two of a connect, a failing send,
  a receive and a disconnect of one session overlap. The listener makes no more than `Sessions`
  session objects: when they are used up its event rests, the one place where
  the bound shows (`Listens` allows for it). One accept event is enough,
  since events do not touch each other.
* **recv_stream**: twelve bytes are filled by four to six packets, so that the
  data moves to the front by Clean with a half header, a half packet, or several
  packets left. Proved for any sizes with at least three buffers.
* **lobby**: three sessions give a host and two members, and, with two workers, a session
  that comes back to a room another is closing while a third looks on: it is counted twice,
  which two sessions never show. Rooms are limited by `MaxRooms` (creates beyond it are not
  asked for) because the code never reuses an id. Each session connects once; a client that
  reconnects is another session. With one worker no bound is left in the proofs.
* **game_room**: two orders are needed for a job that sets a walking unit back, and
  for one that meets a unit that has overshot; two players, for orders that overlap
  and for one who leaves; two units, for the loop to stand on one while the other
  goes. A tile is three units and a step two, so a unit has a tick between points,
  a tick at them and an overshoot of either sign. `Shore` has an edge of the map, a
  wall and ground nobody can reach; the cells are a tile long, so walks cross them.
  A second start comes into `game_restart`, without orders: with both the states
  are too many.

* **client**: two rooms, one left for the other, are what can mix units, scenes and
  spawns of two games; two units, what comes before and after the client's own
  S_GAME_START; one move, a `UnitManager` made by it in the wrong scene.
* **locks**: two threads make a circle of two locks, and a third name between them
  lies in `any`; the server's nesting is four deep at its deepest. Cycles of three
  names come about over time, since the order is never forgotten. Threads and rooms are
  interchangeable, and TLC is told so (`Symmetry`); names are not: the search goes by their
  numbers. Proved for any threads, rooms, sessions and names.
* **maps**: 3x3 has a tile with all eight neighbours, a wall around it and ways of
  unequal length; 2x3 is not square, and its corner is away from the origin, so that
  rows, columns and offsets cannot be mixed up unseen; heights 1 to 3 have a step
  that is too high.

The bounds are named: `MaxStarts`, `MaxOrders`, `MaxDepth`, `MaxSends`, `MaxPackets`, `MaxRooms`,
`MaxUnits`, `MaxMoves`, `MaxNest`, and the sets `Threads`, `Sessions`, `AcceptEvents`, `Names`, `Drawings`.

Deadlock is checked in every run but two: in `locks` a report stops the process for
good, and `maps` ends with the one search it makes, or with the process when the
server has no map of the hash. Elsewhere, where the system may rest, the modules say
when by a stuttering action of its own: `Quiet` (nothing in flight and every
thread idle), `Stopped` (the process has crashed), `Over` (all have left), `Rest` (frames
with nothing to do).

### Fairness

* `RWLock`: a thread inside the lock's code keeps running (weak fairness of its
  steps that cannot fail) and a scope ends (strong fairness of leaving it, since
  a thread may nest again and again). Winning a compare-exchange is *not* assumed:
  the spin lock promises it to nobody.
* `SessionSend`: a thread in the send path goes on; it gets the session's lock
  sooner or later (strong fairness: the lock is contended but held briefly); the
  workers loop on Dispatch for ever, so a completion is taken.
* `SessionLife`: the same for threads, and the system completes a receive on a
  dead connection and a DisconnectEx. Nobody need connect, send or close.
* `RecvStream`: sent bytes arrive (TCP) and the worker goes on. Peers need not send.
* `GameRoom`: the main thread ticks for ever (its loop in `main` has no end), and a
  handler that has begun goes on; it gets the room's lock sooner or later (strong
  fairness: Update holds it again and again). Nobody need send or leave.
* `Client`: the connection is made, the callback goes on, and Unity makes frames for
  ever. Nothing is assumed of the server or of the player.
* `GameMap`: the search is a loop in a job of the room, and goes on.
* `Lobby` and `LockOrder` have no liveness properties.

### What the runs say

The lock, the send path and the receive path hold up under everything the
models allow. Three limits of the code show up as conditions in properties that
hold:

* after a WSASend that fails with a code other than a reset, buffers queued
  meanwhile wait for the next Send (`NotStranded`, `Delivered`: `"other"`);
* after such a WSARecv the session stays connected and deaf (`NotDeaf`, in `Listens`, excepts
  sessions whose failed receive was only logged);
* after a DisconnectEx that fails at once a session is never released
  (`Released` excepts sessions whose failed disconnect was only logged).

A few properties are conjunctions of named parts that one run and one invariant
check together: `Membership` (the types, `HostStays`, `MembersPointBack`, `OnlyLive`,
`UnlistedEmpty`), `RoomExact` (`CountCovers`, `CountExact`,
`RoomHasHost`), `InService` (the types,
`CallbacksInOrder`, `ServiceKnows`), `Listens` (`KeepsAccepting`, `NotDeaf`) and `Walks` (the
types, `InMap`, `NoZeroStep`, `ArrivesNear`).

In a game (`game_room`) what hangs together under the lock does hold: every player
hears of a unit before it moves, ids are fresh (`game_restart`), jobs find their units until the
host leaves, units come to rest within a step of where they were sent. After the host has
left, orders on their way do meet null rooms and units; `NullOnlyAfterHost` says that
not before.

With one worker the lobby is consistent. With two it is not: two creates can share a
room id, so that a room stays listed without its host (`lobby_id_race`). Nor does
`OnlyLive` survive: a disconnect that overtakes a create or join leaves a dead session in a room.
What does survive is checked by `lobby_one_room`: the count of a room never falls below
its players (`CountCovers`), is exact between handlers while the room is listed (`CountExact`),
and a room goes with its host. The first holds for any number of rooms and workers, the
last for as long as no ids are shared, the second until a second room is made; all three are
proved, for any number of workers.

The client ends up with the units of its game and in the scene the server has it in
(`client`), although units come before and after the scene that shows them. Two
things bound that, and appear in the properties:

* a start that comes after the exit: StartGame sends S_GAME_START to all it has
  numbered, members or not, and pulls a player who has left into a battle (`NoneLate`);
* a game joined while it runs: its moves make a `UnitManager` in the lobby's scene
  that swallows the spawns it sees (`lost`). So can the pong of a game just left:
  the answer to the ping of one manager makes the next one, in another scene;

Spawns that wait while a game is left are drained or gone before the next game's: only a late start could
make two units collide (`NoUnitTwice`).

The profiler (`locks`) reports what it should and the server's nesting is clean.
`NoSilentDeadlock` says where it is blind: two locks of one name, such as two rooms or two
sessions taken in opposite orders, and one lock under two names, such as a room that a handler
and a method of Room lock. The server nests neither the wrong way (`ServerGetsOn`).

Maps (`maps`) arrive as drawn and A\* is right on them. The branch that opens a closed node
again never fires with exact costs (`FindsShortest`: closed tiles have their final
cost). Conditions that the properties carry:

* the checksum leaves out the size (MapMaker.cs:171 in the editor), so a 2x3 map and a
  3x2 map of the same words have one hash; `RouteOnShownMap` holds where the sizes agree;
* only tiles are counted from the corner of the drawing: start points and minerals keep
  the editor's coordinates, so off the origin they are not on the tile they were drawn on;
* a hash that the server does not have gives a null map, which StartGame dereferences;
* the number of players is typed in, and nothing compares it with the start points;
* the scale is read as four bytes where the file has two; what is beyond ends in padding.

### Stated, and not kept by the code

Three properties are in the modules and in no run, because the code does not keep them, and
one is checked only where the code keeps it. Each can be seen by adding it as an INVARIANT:

* `NoNullExit` (`Lobby`, with LobbyOneRoom.cfg): an exit that crosses the host's exit uses
  the null of GetRoom (ClientPacketHandler.cpp:268);
* `CountExact` (`Lobby`, with LobbyIdRace.cfg, in place of `HostStays`): with two rooms and two workers
  Room::Add counts a player twice, as when a member exits while the host closes the room, makes the
  next room, is sent out of it by the closing room's old list of players, and joins it again
  (Room.cpp:71): two are counted where one is. The
  count can go on growing, so runs of this kind do not end;
* `WallsHold` (`GameRoom`, with GameRoom.cfg and `Heights <- Walled`, `Starts = {0, 3}`,
  `Clicks = {0, 7}`): a unit goes a step beyond the point it reaches (GameObject.cpp:101),
  which can put it in a wall, from where the search leads it out on the other side;
* `GridForgets` (`GameRoom`, with GameRoom.cfg): a unit's bounds are moved before it is
  taken out of the grid (Grid.cpp:93), so the cells it leaves keep it, and with it the room,
  after both are removed.

## 4. The proofs

TLAPS proves, for every value of the constants and with no assumptions but the ASSUMEs of
each module (and those a theorem states itself):

* **RWLock_proofs** (any set of threads, any depth): `TypeCorrect`, `Exclusion`,
  `RaceFreedom`, `ReadCountExact`, `CrashCause`, and `Refinement`: the lock
  implements `RWLockAbs`. Exclusion alone is not inductive: a compare-exchange
  trusts the word, so the invariant says what the word means. `IInv` is `TypeOK`
  with: the read half counts the read guards (`ReadersCounted`); whoever has a
  write guard or is about to change what a writer changes is the thread the word
  names (`WritersNamed`, with `WriterActive` as its converse); the depth is the
  number of its guards (`DepthCounted`); nobody else reads (`WriterExcludes`);
  and an unlock in progress is of a write guard on top, with no readers
  (`Unlocking`). That a crash is the crashing thread's own nesting needs one more
  fact, `FirstIsWrite`: a thread with a write guard took one first, because a
  thread that only reads never wins the word.
* **SessionSend_proofs** (any threads, any number of sends): `TypeCorrect`,
  `OneSend` (with the lemma `NeverEmpty`), `KeptAlive`, `Unstranded`, and `Refinement`: the send
  path implements `SendPipe`. The key is `Token`: the permission that
  `_sendRegistered` stands for is with exactly one thread or with the kernel, and
  moves between them. `EventContent` says what its holder finds in the event and
  the queue, `FailureLogged` that a failed send that leaves the session connected
  was one that is only logged, `PostOwned` that the reference taken is there.
* **RecvStream_proofs** (any buffer size and header size, `BufferCount >= 3`, any
  number of packets): `TypeCorrect`, `InOrder`, `AlwaysRoom`,
  `CleanDefined`. `IInv` adds to the types: packets follow each other without a
  gap (`Chain`), the data in the buffer is the end of what has been received
  (`Content`), what is delivered is a prefix and parsing resumes where it ends
  (`Progress`), and a receive starts with less than a packet of data and a
  buffer's worth of room (`Room`). That Clean's memcpy never overlaps follows:
  it moves only when fewer than `BufferSize` bytes are free, so less than one
  buffer of data lies beyond two buffers of space already read. The code has
  `BUFFER_COUNT` 10; three is what the argument needs.

* **SessionLife_proofs** (any finite sets of sessions, accept events and threads):
  `AlwaysInService`, `AlwaysOneReceive`, `AlwaysOwned`, `AlwaysListens`. Each of a session's
  three operations is a token with one holder, the system, the port or one thread. The
  accept event has it until the session is announced (`AcceptsApart`, `NewSessions`,
  `EnteredAlone`, `AcceptHeld`): nobody else knows the session, which is why OnConnected comes first and
  AddSession needs no check. Then there is one receive (`ReceiveOnce`, `ReceiveOwned`); and the
  exchange of `_connected` that finds it set makes the one disconnect (`DisconnectOnce`,
  `DisconnectOwned`, `DisconnectCalled`). A session that stays connected has a receive
  somewhere, or one that was only logged (`HeardOf`); an accept event is never dropped
  (`AcceptsKept`).
* **LockOrder_proofs** (any threads, locks, names and nesting): first of `LockOrder`.
  `OrderKept`: every nesting that a thread is in is in the recorded
  order, of which nothing is forgotten. `NeverSilent`: with names and locks one to one, a
  circle of waiting threads would be a set of names each nested in another of the set; the
  order is acyclic (`Acyclic`) as long as the process has not been stopped. `OneOwner`: a lock is
  held by one thread. `GetsOn`: in a program that takes locks in a falling rank nobody
  waits in a circle and nothing is reported: among waiting threads one waits for a lock of
  least rank, and its holder waits for a lower one. The least-element arguments go
  through `Smallest`.

  Then of `DeadLockProfiler`: `ProfilerSound`, that the search implements `LockOrder`, so it stops
  the process at a nesting that closes a circle, whenever one does, and at no other. It rests on
  `ProfilerInvariant`, which holds at each turn of its loops. The running calls of Dfs are a path
  in the history (`Nesting`), in the order of discovery (`Rising`); what is finished leads
  only to what is finished (`Closed`) and has no circle in it (`NoCircle`); all else that has been
  discovered is on the path (`Open`). So an edge to what was discovered no later and
  is not finished leads to a call that runs, and closes a circle with the calls from there on
  (`BackIsCyclic`; it is also why the loop over `_parent` that prints the circle ends); and a
  search that comes to its end has finished all names, so that there is no circle
  (`EndIsAcyclic`). `NoCircle` is kept when a name is finished because all it leads to was
  finished before it (`Finishing`). Other threads go on to their locks during a search, which may be
  one that ends with a report: what they nest is known to the order without the nesting in question
  (`KnownSoFar`), which is acyclic (`AcyclicSoFar`). `ProfilerNeverSilent` follows from these two.
  `ServerNeverStuck` gives the server's locks a rank (GameSessionManager, rooms, Session,
  SendBufferManager), for any number of threads, rooms, sessions and any depth; its hypotheses are
  the names and programs of `ServerLocks`, the ones `ServerLocks.cfg` sets.
* **GameRoom_proofs** (any players, corridor, sizes of tile, step and cell, clicks and bounds):
  `NullOnlyThen`, `SpawnFirst`, `GridSound`, `WalksWell`, and the action property `IdsKept`.
  `IInv` says how far ids are counted, with what the deal in hand has yet to count
  (`IdsFree`, `IdsLeft`); that what one player has been told of all members have
  (`Told`), so that a unit that is ordered, has a job or moves is known to all; that the
  room and its units stay until the host begins to leave (`HostIn`); and that the next
  point of a walk is still ahead of the unit, which overshoots by less than a step
  (`OnItsWay`), so that it neither turns at a point nor divides by a distance of zero.

  The same module has the proofs about maps (any drawings, of any size, any start and goal):
  `MapLoaded` (`LoadedAsDrawn`), `WaysShortest` (`FindsShortest`), `RoutesOnShownMap` and
  `MapInvariant`. Files and paths are built by recursive functions. The induction theorems of the
  libraries take operators; `Induction`, at the front of the module, is induction over a *set* of
  naturals, from which `Recursion` and `RecursionAlong` derive that a function given by `f[n - 1]`
  exists and obeys its equation. They are what `Points`, `WayBack`, `Within` and `PathCost`
  are unfolded with.

  The invariant of a search, `SearchInv`: `cameFrom` leads from each tile seen to one with exactly
  a step's less cost, down to the start (`Rooted`); a tile that is not closed waits in `openList` with
  its best cost, and nothing there is better than what `cameFrom` says (`Waits`, `Offered`); closed
  tiles were taken in the order of f (`InTurn`) and have offered their cost to all neighbours
  (`Relaxed`). Since the heuristic falls by no more than a step costs, no tile left open can ever be
  better for a closed one. So nothing is closed twice, a closed tile's cost is the least of any
  way of any length, and when `openList` is empty the goal cannot be reached. That the way back is as
  long as it should be follows from costs that fall along it: a tile has no more tiles behind it than
  tiles are cheaper.

  The invariant of reading, `MapInv`, lists where each section of a file begins (`SectionEnds`) and
  what server and client know when they are there (`ServerKnows`, `ClientKnows`). A room has a
  map only if both checksums were equal (`Started`); equal checksums and equal sizes make equal
  tiles, because the tiles come first in the checksum. That is why a route on the server's heights is
  a walk on the tiles the client shows, once the sizes agree.
* **Lobby_proofs**, with one worker (any sessions, player ids and rooms): `MembershipKept`,
  `NamesKept`, `ScreensAgree`, `RoomsExact`. `Workers = 1` is their hypothesis, the server
  that TLC refutes with two (`lobby_id_race`). `IInv` says that the id, the key and the number
  of a room go together (`RoomsTyped`), that one handler at most is between its steps (`Alone`)
  and what it is about to do (`AtWork`, `Inside`), that members point back (`Entered`), that a
  listed room has its host, or a handler that enters the host or ends the room
  (`Hosted`), and that the names in use are those of the live (`Named`). With any number of
  workers: `NeverEndedEarly` (`CountCovers`), so Room::Remove does not end a room for want of
  players while it has one; and `HostsKept`, that a listed room has its host while
  no two rooms have one id. The hypothesis `OwnIds` of the second is part of what is
  proved, state by state: `ManyInv` carries it through every step, and shows that ids and keys
  agree exactly until a second room is made while one is on its way into the list (`Listing`).
  `FirstRoomExact` is all of `RoomExact`, with its exact count, until a second room is made, and
  `OneRoomExact` the same for a server of one room, the one `lobby_one_room` runs. `OneInv` adds to
  `ManyInv` why nobody enters an open room twice (`FirstRoom`, `Stays`): its players either wait for
  their answer or show the room, where a client only asks to leave. Once a handler ends the room
  its players are sent back and may come in again, which no longer matters: it leaves the list and no
  handler lists it again. `Unopened` says that nobody has the room before it is first listed.

* **Client_proofs** (any number of rooms, units and moves): `SceneTold`, `UnitsOnce`, `UnitsAll`.
  What has been sent and not yet processed is one stream: whole packets in the queue, then
  the pieces in the receive buffer and on the wire, of which there is never more than a
  packet and a half (`Cut`). To the rest of the client a step of the receive callback leaves the stream
  as it was, a send adds a packet at its end, and the pump takes one from its front, so
  everything else is said of the stream and not of its pieces. `IInv` is `FieldsTyped`, `Cut`, what ties
  screen, manager and units together (`Framed`), what ties a player's room and game
  (`GameKept`), and `Kept`, under `NoneLate`: no player has left a room between the numbering
  of a game's units and its start, which, once lost, stays lost. `Kept` says: where the player, the
  server and the requests and answers between them are (`Phase`, ten cases); each request is made
  once, an exit before the next room (`RequestsOnce`); what a room sends comes between its
  answer and the exit from it (`InOrder`, `Once`, `FromRooms`); a start is on its way or has been
  heard (`StartTold`); spawns are of the last room, none twice (`Spawns`); every unit numbered is
  on the map, in the spawn queue, in the stream, or lost (`Complete`); and the spawn queue
  is empty before the next game (`Drained`).

The types of these modules, and the exact read count of the lock (`WordCountsReaders`), are
left to the proofs where no run lists them; the runs check everything else the theorems
state as well, except `HostsKept`, `FirstRoomExact` and `OrderKept`, which strengthen it.

Some things came up in the proofs that no run had shown:

* `CountMatches`, a former part of `RoomExact` that said that a count is always exact, was
  not inductive, and not true: a third session shows a player counted twice (above). What Remove
  needs is `CountCovers`, and what clients see is `CountExact`.
* Dispatch chose its branch by CASE over the three kinds of operation, whose arms overlap
  when two names are one; they are disjuncts now, and the names are kept apart by
  `NoSessionAssumption`.
* The profiler's search was one step, a recursive definition that nothing can be proved about; as
  steps it can, and shows more: threads go on to their locks while it runs.
* That drawings are full rectangles, and that a coordinate fits a short, was in the drawings TLC was given
  and nowhere else; `LoadedAsDrawn` needs both, and `IsDrawing` says so now.
* The types of `GameRoom` bounded `jobs` by the orders in a way that its steps did not keep without
  more; types and the choice of the next id were put in a form that can be reasoned about.

So every invariant, action property and refinement that a passing run checks has its theorem. Two
kinds of thing stay with TLC: the liveness properties (`WriterLetsGo`,
`Delivered`, `Released`, `AllDelivered`, `Arrives`, `CatchesUp`, `SearchEnds`), which rest on fairness
and so on ENABLED, which TLAPS cannot treat; and the one run that expects a violation
(`lobby_id_race`), which shows a trace where a theorem could not.

## 5. What is not modelled, and why

* The C++ memory model: atomics are sequentially consistent (the code uses the
  default order), and races on plain containers (`playerIdList`, `rooms` during
  C_ROOM_DATA) are interleavings of whole accesses, not corruption.
* Failures of CreateIoCompletionPort, allocation and socket creation.
* `ClientService` and RegisterConnect, which the server does not use.
* Handlers that only read (C_ROOM_DATA, C_ROOM_PLAYER_LIST_REQUEST), and what the client's
  screens make of the answers; its callbacks may belong to a screen that is gone.
* The client's `Queue<T>` as two threads change it at once (PacketReceiver.cs:50): whole
  operations interleave, a torn counter is not modelled. Sending and the end of the
  connection on the client's side.
* Send buffers: a chunk is cut by one thread only and kept alive by counted
  references, so that buffers stay apart is the reference count's doing, and a model of
  it would restate it. The two hazards left (a packet beyond 6000 bytes; a chunk that
  returns on another thread) are listed with the reason. Memory pools are a table that is
  filled once and read afterwards.
* Map files that are cut short or not the editor's, and drawings with holes.
* Corners in the path search: a comment (AStarMove.cpp:136) says that a diagonal is
  barred when both corners are, the code (line 137) bars it for either. The model follows
  the code.
* A header that says less than its own size: the clients' PacketMaker never
  writes one.
* Attacks, spawns and deaths in a game: `g_spawners` makes no unit that shoots,
  nothing sets DEAD, and the client sends C_ATTACK from a prefab the game does not
  make. So HandleCollisions has nothing to do.
* The second dimension of a walk, and the torn read of a position of two floats.
* Floating point in movement and costs, Unity scenes and input, generated protobuf code,
  vendored libraries, and the parts the plan below still lists.

## 6. Plan

Done: the lock, the send path, the life of a session, the receive path, the lobby,
the game, the client, the profiler with the server's lock order, maps and the path search.

Proofs done: the lock, the send path, the receive path, the life of a session, the game, the
lock order and the profiler's search, the client, map files and the path search, the lobby with one
worker and, where it holds, with many.

Next, most important first:

1. `Lobby` with many workers and rooms: how far a count can be from the players, by the handlers that
   may still send a session out of a room it has left.
2. RegisterConnect in `SessionLife`, which the server does not use.
