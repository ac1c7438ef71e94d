---------------------------- MODULE ServerLocks ----------------------------
(***************************************************************************)
(* The locks of the server and who takes them inside which, for the        *)
(* profiler: the server's own nesting, and any nesting of a few of them.   *)
(***************************************************************************)
EXTENDS DeadLockProfiler, TLC

CONSTANTS Rooms, Sessions

(* The other locks have names of their own: one lock each. *)
ASSUME LocksAssumption == /\ Rooms \cap Sessions = {}
                          /\ (Rooms \cup Sessions) \cap {"chunks", "sessions", "rooms"} = {}

(* The numbers of the names.  A handler locks a room under its own.        *)
Handler == 0
Room == 1
Session == 2
SendBufferManager == 3
GameSessionManager == 4
RoomManager == 5

LocksNamed(n) ==
    CASE n \in {Handler, Room} -> Rooms
      [] n = Session -> Sessions
      [] n = SendBufferManager -> {"chunks"}
      [] n = GameSessionManager -> {"sessions"}
      [] n = RoomManager -> {"rooms"}

(* Fault: a send that fails disconnects in place, not by an event. *)
InsideSync ==
    { <<GameSessionManager, RoomManager>>, <<GameSessionManager, Room>>,
      <<GameSessionManager, Session>>, <<GameSessionManager, SendBufferManager>>,
      <<Room, Session>>, <<Room, SendBufferManager>>,
      <<Session, SendBufferManager>>, <<Room, GameSessionManager>> }

(* GameSessionManager::Remove goes through Room::Remove, which lets go of  *)
(* the room before it sends to the others and before RoomManager::         *)
(* RemoveRoom; Room::Broadcast, alone or from Update, sends; a send that   *)
(* fails, or is over, releases buffers, and with the last one a chunk.     *)
Inside ==
    { <<GameSessionManager, RoomManager>>, <<GameSessionManager, Room>>,
      <<GameSessionManager, Session>>, <<GameSessionManager, SendBufferManager>>,
      <<Room, Session>>, <<Room, SendBufferManager>>,
      <<Session, SendBufferManager>> }

(* Update broadcasts and ProcessSend registers a send: under a lock that   *)
(* the thread has, again.                                                  *)
Again == {Room, Session}

Of(names) == UNION {[lock : LocksNamed(n), name : {n}] : n \in names}

ServerNests ==
    LET all == Of(Names)
    IN  {p \in all \X all :
            \/ <<p[1].name, p[2].name>> \in Inside
            \/ p[1] = p[2] /\ p[1].name \in Again}

AnyNests == Of({Handler, Room, Session}) \X Of({Handler, Room, Session})

Symmetry == Permutations(Threads) \cup Permutations(Rooms)

ServerLockNames == 0..5
ServerLockSet == UNION {LocksNamed(n) : n \in ServerLockNames}
NestsOf == [server |-> ServerNests, any |-> AnyNests]
NestBounds == [server |-> 4, any |-> 3]

(* No thread of the server is ever reported or waits in a circle, not even *)
(* in the circles that the profiler cannot see.                            *)
ServerGetsOn ==
    program = "server" => /\ ~reported
                          /\ \A T \in SUBSET Threads : ~Deadlock(T)
=============================================================================
