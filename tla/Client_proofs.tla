---------------------------- MODULE Client_proofs ----------------------------
(***************************************************************************)
(* Proofs about Client, for any number of rooms, units and moves: the      *)
(* scene follows what the server thinks the client is doing, no unit of    *)
(* one game is left to the next, and a client in a game has all its units. *)
(***************************************************************************)
EXTENDS Client, SequenceTheorems, WellFoundedInduction, TLAPS

(***************************************************************************)
(* The stream: the packets that the client has yet to process, in their    *)
(* order, cut off already or still in pieces.                              *)
(***************************************************************************)
Kinds == {"S_LOGIN", "S_ROOM_LOBBY", "S_ROOM_RESPONSE", "S_ROOM_EXIT", "S_RTT_PONG",
          "S_GAME_START", "S_OBJECT_SPAWN", "S_MOVE"}

Packets == [type : Kinds, room : Nat, unit : Nat]

(* The pieces that have not been cut off, and the k-th of them. *)
Loose == Len(receiveQueue) + Len(wire)
Piece(k) == IF k <= Len(receiveQueue) THEN receiveQueue[k] ELSE wire[k - Len(receiveQueue)]

Total == Len(recvQueue) + Loose \div 2
Stream == [i \in 1..Total |-> IF i <= Len(recvQueue) THEN recvQueue[i]
                              ELSE Piece(2 * (i - Len(recvQueue)))[1]]

(* Never more than a packet and a half: a header with or without its rest. *)
Cut ==
    /\ <<Len(receiveQueue), Len(wire)>> \in {<<0, 0>>, <<1, 1>>, <<0, 2>>, <<1, 3>>}
    /\ \A k \in 1..Loose : /\ Piece(k) \in Packets \X {"header", "rest"}
                           /\ k % 2 = 1 => Piece(k)[2] = "header" /\ Piece(k + 1)[1] = Piece(k)[1]
                           /\ k % 2 = 0 => Piece(k)[2] = "rest"

(***************************************************************************)
(* The inductive invariant.                                                *)
(***************************************************************************)
Requests == {"login", "room", "exit", "ping"}
Scenes == {"Login", "Matching", "MatchMaking", "Battle"}

FieldsTyped ==
    /\ member \in Nat /\ rooms \in Nat /\ owed \in Nat /\ late \in BOOLEAN
    /\ game \in [spawned : 0..MaxUnits, toldAt : 0..MaxUnits, told : BOOLEAN]
    /\ toServer \in Seq(Requests)
    /\ recvQueue \in Seq(Packets)
    /\ wire \in Seq(Packets \X {"header", "rest"})
    /\ receiveQueue \in Seq(Packets \X {"header", "rest"})
    /\ todo \subseteq {"ServerConnect", "UnitManager"}
    /\ scene \in Scenes /\ loading \in (Scenes \ {"Login"}) \cup {"none"}
    /\ manager \in {"none", "scene", "bare", "deaf"}
    /\ units \subseteq Nat \X Nat /\ lost \subseteq Nat \X Nat
    /\ spawnQueue \in Seq(Nat \X Nat)
    /\ waiting \in BOOLEAN /\ thrown \in BOOLEAN

(* The frame: a scene that is asked for is loaded before the next packet.  *)
Framed ==
    /\ "ServerConnect" \in todo => loading = "none"
    /\ manager = "scene" <=> scene = "Battle"
    /\ units # {} => scene = "Battle"
    /\ "UnitManager" \in todo => Updates(manager)

(* The room of the session, and its game. *)
GameKept ==
    /\ member = 0 => game = NoGame
    /\ member # 0 => member = rooms
    /\ game.told => game.toldAt # 0

(* Where the client will be once it has done what it has been told so far. *)
Heading == IF loading = "none" THEN scene ELSE loading
InRoom == Heading \in {"MatchMaking", "Battle"}

(* What is on its way, in either direction. *)
Comes(t) == \E i \in 1..Total : Stream[i].type = t
Asked == {toServer[i] : i \in DOMAIN toServer} \ {"ping"}
AnswerKinds == {"S_LOGIN", "S_ROOM_LOBBY", "S_ROOM_RESPONSE", "S_ROOM_EXIT"}
Answers == {t \in AnswerKinds : Comes(t)}

(* The scene whose button asks for a room is there. *)
OnMatching == scene = "Matching" /\ loading = "none"

(* How far the player, the server and what is between them are.            *)
Phase ==
    \/ Heading = "Login" /\ member = 0 /\ ~waiting /\ Asked = {} /\ Answers = {}
    \/ Heading = "Login" /\ member = 0 /\ waiting /\ Asked = {"login"} /\ Answers = {}
    \/ Heading = "Login" /\ member = 0 /\ waiting /\ Asked = {} /\ Answers = {"S_LOGIN"}
    \/ Heading = "Matching" /\ member = 0 /\ ~waiting /\ Asked \subseteq {"exit"} /\ Answers = {}
    \/ OnMatching /\ member = 0 /\ waiting /\ Asked \in {{"room"}, {"exit", "room"}} /\ Answers = {}
    \/ OnMatching /\ member = 0 /\ waiting /\ Asked = {} /\ Answers = {"S_ROOM_RESPONSE"}
    \/ OnMatching /\ member # 0 /\ waiting /\ Asked = {} /\ Answers = {"S_ROOM_LOBBY"}
    \/ OnMatching /\ member = 0 /\ waiting /\ Asked = {} /\ Answers = {"S_ROOM_LOBBY", "S_ROOM_EXIT"}
    \/ InRoom /\ member # 0 /\ Asked = (IF waiting THEN {"exit"} ELSE {}) /\ Answers = {}
    \/ InRoom /\ member = 0 /\ Asked \subseteq (IF waiting THEN {"exit"} ELSE {})
              /\ Answers = {"S_ROOM_EXIT"}

(* Each request once, and an exit before the next room.                    *)
RequestsOnce ==
    \A i, j \in DOMAIN toServer :
       /\ toServer[i] = toServer[j] /\ toServer[i] # "ping" => i = j
       /\ toServer[i] = "exit" /\ toServer[j] = "room" => i < j

(* What a room sends comes between its answer and the exit from it; only   *)
(* spawns, moves and pongs come more than once.                            *)
Place == [S_ROOM_LOBBY |-> 1, S_GAME_START |-> 2, S_OBJECT_SPAWN |-> 2, S_ROOM_EXIT |-> 3]

InOrder ==
    \A i, j \in 1..Total :
       i < j /\ Stream[i].type \in DOMAIN Place /\ Stream[j].type \in DOMAIN Place =>
          Place[Stream[i].type] <= Place[Stream[j].type]

Often == {"S_OBJECT_SPAWN", "S_MOVE", "S_RTT_PONG"}

Once == \A i, j \in 1..Total :
           Stream[i].type = Stream[j].type /\ Stream[i].type \notin Often => i = j

FromRooms ==
    Comes("S_OBJECT_SPAWN") \/ Comes("S_GAME_START") => InRoom \/ "S_ROOM_LOBBY" \in Answers

(* The start of a game is told once: it is on its way or has been heard.   *)
StartTold ==
    /\ member # 0 => (game.told <=> Comes("S_GAME_START") \/ Heading = "Battle")
    /\ Heading = "Battle" => ~Comes("S_GAME_START")

(* The spawns that the client has not lost or made units of. *)
Queued == {spawnQueue[i] : i \in DOMAIN spawnQueue}
IsSpawn(p) == p.type = "S_OBJECT_SPAWN"
Spawned(p) == <<p.room, p.unit>>
Coming == {Spawned(Stream[i]) : i \in {j \in 1..Total : IsSpawn(Stream[j])}}

SpawnedOnce ==
    \A i, j \in 1..Total :
       IsSpawn(Stream[i]) /\ IsSpawn(Stream[j]) /\ Spawned(Stream[i]) = Spawned(Stream[j]) => i = j
QueuedOnce == \A i, j \in DOMAIN spawnQueue : spawnQueue[i] = spawnQueue[j] => i = j

(* They are of the last room, none is twice, and a game that has been left *)
(* has been told of before.                                                *)
Spawns ==
    /\ \A x \in units \cup Queued \cup Coming : x[1] = rooms
    /\ \A x \in lost : x[1] <= rooms
    /\ units \cap Queued = {} /\ units \cap Coming = {} /\ Queued \cap Coming = {}
    /\ lost \cap (units \cup Queued \cup Coming) = {}
    /\ QueuedOnce /\ SpawnedOnce
    /\ member = 0 /\ Queued \cup Coming # {} =>
          \/ Comes("S_GAME_START") \/ Heading = "Battle"
          \/ scene = "Battle" /\ loading = "Matching"

(* A game's units are somewhere, all that the client was sent. *)
Numbered == IF game.toldAt = 0 THEN {} ELSE 1..game.spawned

Complete ==
    member # 0 =>
       {x \in units \cup Queued \cup Coming \cup lost : x[1] = member} = {member} \X Numbered

(* The queue is drained before the next game. *)
Drained ==
    /\ scene = "Battle" /\ "UnitManager" \notin todo
          /\ ("ServerConnect" \in todo \/ loading = "Matching") => spawnQueue = <<>>
    /\ spawnQueue # <<>> => InRoom \/ scene = "Battle"
    /\ loading = "Matching" => scene # "Matching"
    /\ loading = "MatchMaking" => scene = "Matching"
    /\ loading = "Battle" => scene = "MatchMaking"

Kept == /\ Phase /\ RequestsOnce
        /\ InOrder /\ Once /\ FromRooms /\ StartTold
        /\ Spawns /\ Complete /\ Drained /\ ~thrown

IInv == FieldsTyped /\ Cut /\ Framed /\ GameKept /\ (NoneLate => Kept)

-----------------------------------------------------------------------------
(***************************************************************************)
(* The stream.                                                             *)
(***************************************************************************)
(* How many pieces are loose. *)
LEMMA Shapes ==
    ASSUME FieldsTyped, Cut
    PROVE  /\ Len(receiveQueue) \in Nat /\ Len(wire) \in Nat /\ Len(recvQueue) \in Nat
           /\ \/ Len(receiveQueue) = 0 /\ Len(wire) = 0 /\ Loose = 0 /\ Loose \div 2 = 0
              \/ Len(receiveQueue) = 1 /\ Len(wire) = 1 /\ Loose = 2 /\ Loose \div 2 = 1
              \/ Len(receiveQueue) = 0 /\ Len(wire) = 2 /\ Loose = 2 /\ Loose \div 2 = 1
              \/ Len(receiveQueue) = 1 /\ Len(wire) = 3 /\ Loose = 4 /\ Loose \div 2 = 2
           /\ Total \in Nat /\ Total >= Len(recvQueue)
<1>1. Len(receiveQueue) \in Nat /\ Len(wire) \in Nat /\ Len(recvQueue) \in Nat
  BY DEF FieldsTyped
<1>2. \/ Len(receiveQueue) = 0 /\ Len(wire) = 0
      \/ Len(receiveQueue) = 1 /\ Len(wire) = 1
      \/ Len(receiveQueue) = 0 /\ Len(wire) = 2
      \/ Len(receiveQueue) = 1 /\ Len(wire) = 3
  BY DEF Cut
<1>3. Loose = Len(receiveQueue) + Len(wire)
  BY DEF Loose
<1>4. 0 \div 2 = 0 /\ 2 \div 2 = 1 /\ 4 \div 2 = 2
  OBVIOUS
<1>5. CASE Len(receiveQueue) = 0 /\ Len(wire) = 0
  <2>1. Loose = 0
    BY <1>3, <1>5
  <2> QED
    BY <1>1, <1>4, <1>5, <2>1 DEF Total
<1>6. CASE Len(receiveQueue) = 1 /\ Len(wire) = 1
  <2>1. Loose = 2
    BY <1>3, <1>6
  <2> QED
    BY <1>1, <1>4, <1>6, <2>1 DEF Total
<1>7. CASE Len(receiveQueue) = 0 /\ Len(wire) = 2
  <2>1. Loose = 2
    BY <1>3, <1>7
  <2> QED
    BY <1>1, <1>4, <1>7, <2>1 DEF Total
<1>8. CASE Len(receiveQueue) = 1 /\ Len(wire) = 3
  <2>1. Loose = 4
    BY <1>3, <1>8
  <2> QED
    BY <1>1, <1>4, <1>8, <2>1 DEF Total
<1> QED
  BY <1>2, <1>5, <1>6, <1>7, <1>8

(* Nothing happens to it. *)
LEMMA StreamKept ==
    ASSUME FieldsTyped, Cut, UNCHANGED <<wire, receiveQueue, recvQueue>>
    PROVE  Cut' /\ Total' = Total /\ Stream' = Stream
  BY DEF Cut, Total, Stream, Loose, Piece

(* The server sends at its end. *)
LEMMA StreamSent ==
    ASSUME FieldsTyped, Cut, NEW p \in Packets, Send(p), UNCHANGED <<receiveQueue, recvQueue>>
    PROVE  /\ Cut' /\ wire' \in Seq(Packets \X {"header", "rest"})
           /\ Total' = Total + 1
           /\ \A i \in 1..Total : Stream'[i] = Stream[i]
           /\ Stream'[Total + 1] = p
<1> DEFINE P == Packets \X {"header", "rest"}
<1>1. wire \in Seq(P) /\ Pieces(p) \in Seq(P) /\ Len(Pieces(p)) = 2
      /\ Pieces(p)[1] = <<p, "header">> /\ Pieces(p)[2] = <<p, "rest">>
  BY DEF FieldsTyped, Pieces
<1>2. /\ wire' \in Seq(P) /\ Len(wire') = Len(wire) + 2
      /\ \A i \in 1..Len(wire) : wire'[i] = wire[i]
      /\ wire'[Len(wire) + 1] = <<p, "header">> /\ wire'[Len(wire) + 2] = <<p, "rest">>
  <2>1. wire' = wire \o Pieces(p)
    BY DEF Send
  <2>2. Len(wire) \in Nat
    BY Shapes
  <2> HIDE DEF P
  <2>3. /\ wire \o Pieces(p) \in Seq(P) /\ Len(wire \o Pieces(p)) = Len(wire) + Len(Pieces(p))
        /\ \A i \in 1..(Len(wire) + Len(Pieces(p))) :
              (wire \o Pieces(p))[i] = IF i <= Len(wire) THEN wire[i]
                                                        ELSE Pieces(p)[i - Len(wire)]
    BY <1>1, ConcatProperties
  <2>4. /\ wire' \in Seq(P) /\ Len(wire') = Len(wire) + 2
        /\ \A i \in 1..Len(wire) : wire'[i] = wire[i]
        /\ \A i \in 1..2 : wire'[Len(wire) + i] = Pieces(p)[i]
    BY <1>1, <2>1, <2>2, <2>3
  <2> QED
    BY <1>1, <2>2, <2>4
<1>3. Len(wire) <= 1
  BY DEF Send
<1>4. CASE Len(wire) = 0 /\ Len(receiveQueue) = 0
  <2>1. Loose = 0 /\ Loose' = 2 /\ 0 \div 2 = 0 /\ 2 \div 2 = 1
    BY <1>2, <1>4 DEF Loose
  <2>2. Piece(1)' = <<p, "header">> /\ Piece(2)' = <<p, "rest">>
    BY <1>2, <1>4 DEF Piece
  <2>3. Cut'
    BY <1>2, <1>4, <2>1, <2>2 DEF Cut
  <2> QED
    BY <1>2, <1>4, <2>1, <2>2, <2>3, Shapes DEF Total, Stream
<1>5. CASE Len(wire) = 1 /\ Len(receiveQueue) = 1
  <2>1. Loose = 2 /\ Loose' = 4 /\ 4 \div 2 = 2 /\ 2 \div 2 = 1
    BY <1>2, <1>5 DEF Loose
  <2>2. /\ Piece(1)' = Piece(1) /\ Piece(2)' = Piece(2)
        /\ Piece(3)' = <<p, "header">> /\ Piece(4)' = <<p, "rest">>
    BY <1>2, <1>5 DEF Piece
  <2>3. Cut'
    BY <1>2, <1>5, <2>1, <2>2 DEF Cut
  <2> QED
    BY <1>2, <1>5, <2>1, <2>2, <2>3, Shapes DEF Total, Stream
<1>6. \/ Len(wire) = 0 /\ Len(receiveQueue) = 0
      \/ Len(wire) = 1 /\ Len(receiveQueue) = 1
  BY <1>3, Shapes
<1> QED
  BY <1>2, <1>4, <1>5, <1>6
(***************************************************************************)
(* What happens to the stream: nothing, a packet more at its end, a packet *)
(* less at its front.                                                      *)
(***************************************************************************)
Same == Total' = Total /\ Stream' = Stream

Sent(p) ==
    /\ Total' = Total + 1 /\ Stream'[Total + 1] = p
    /\ \A i \in 1..Total : Stream'[i] = Stream[i]

Taken(p) ==
    /\ Total >= 1 /\ Total' = Total - 1 /\ Stream[1] = p
    /\ \A i \in 1..(Total - 1) : Stream'[i] = Stream[i + 1]

(* The main thread takes from its front. *)
LEMMA StreamTaken ==
    ASSUME FieldsTyped, Cut, recvQueue # <<>>, recvQueue' = Tail(recvQueue),
           UNCHANGED <<wire, receiveQueue>>
    PROVE  Cut' /\ recvQueue' \in Seq(Packets) /\ Taken(Head(recvQueue))
<1>1. Cut' /\ Loose' = Loose /\ \A k \in Int : Piece(k)' = Piece(k)
  BY DEF Cut, Loose, Piece
<1>2. /\ recvQueue' \in Seq(Packets) /\ Len(recvQueue) >= 1 /\ Len(recvQueue') = Len(recvQueue) - 1
      /\ Head(recvQueue) = recvQueue[1]
      /\ \A i \in 1..(Len(recvQueue) - 1) : recvQueue'[i] = recvQueue[i + 1]
  BY DEF FieldsTyped
<1>3. Total' = Total - 1 /\ Total >= 1
  BY <1>1, <1>2, Shapes DEF Total
<1>4. Stream[1] = Head(recvQueue)
  BY <1>2, <1>3, Shapes DEF Stream
<1>5. ASSUME NEW i \in 1..(Total - 1) PROVE Stream'[i] = Stream[i + 1]
  <2>1. Stream'[i] = IF i <= Len(recvQueue') THEN recvQueue'[i]
                     ELSE Piece(2 * (i - Len(recvQueue')))[1]
    BY <1>1, <1>3, Shapes DEF Stream
  <2>2. Stream[i + 1] = IF i + 1 <= Len(recvQueue) THEN recvQueue[i + 1]
                        ELSE Piece(2 * (i + 1 - Len(recvQueue)))[1]
    BY <1>3, Shapes DEF Stream
  <2>3. i - Len(recvQueue') = i + 1 - Len(recvQueue)
        /\ (i <= Len(recvQueue') <=> i + 1 <= Len(recvQueue))
        /\ (i <= Len(recvQueue') => i \in 1..(Len(recvQueue) - 1))
    BY <1>2, Shapes
  <2> QED
    BY <1>2, <2>1, <2>2, <2>3
<1> QED
  BY <1>1, <1>2, <1>3, <1>4, <1>5 DEF Taken

(* What of the loose pieces a receive leaves. *)
LEMMA Numbers ==
    ASSUME NEW a \in Nat, NEW b \in Nat, NEW n \in Int, NEW c \in Int, c = (a + n) \div 2,
           n # 0, n = b \/ n = b - 1,
           a \in 0..1, b = a \/ b = a + 2, b # 0
    PROVE  /\ n \in 1..b /\ c \in Nat /\ 2 * c <= a + n
           /\ a + n - 2 * c = b - n /\ b - n \in 0..1
           /\ a <= 2 * c \/ c = 0
           /\ (a + b - 2 * c) \div 2 = (a + b) \div 2 - c
           /\ (a + b) \div 2 \in Nat /\ 2 * ((a + b) \div 2) = a + b
<1>0. 1 \div 2 = 0 /\ 2 \div 2 = 1 /\ 3 \div 2 = 1 /\ 4 \div 2 = 2 /\ 0 \div 2 = 0
  OBVIOUS
<1>1. CASE a = 1 /\ b = 1 /\ n = 1
  <2>1. c = 1
    BY <1>0, <1>1
  <2> QED
    BY <1>0, <1>1, <2>1
<1>2. CASE a = 0 /\ b = 2 /\ n = 1
  <2>1. c = 0
    BY <1>0, <1>2
  <2> QED
    BY <1>0, <1>2, <2>1
<1>3. CASE a = 0 /\ b = 2 /\ n = 2
  <2>1. c = 1
    BY <1>0, <1>3
  <2> QED
    BY <1>0, <1>3, <2>1
<1>4. CASE a = 1 /\ b = 3 /\ n = 2
  <2>1. c = 1
    BY <1>0, <1>4
  <2> QED
    BY <1>0, <1>4, <2>1
<1>5. CASE a = 1 /\ b = 3 /\ n = 3
  <2>1. c = 2
    BY <1>0, <1>5
  <2> QED
    BY <1>0, <1>5, <2>1
<1>6. CASE a = 1 /\ b = 1
  BY <1>1, <1>6
<1>7. CASE a = 0 /\ b = 2
  <2>1. n = 1 \/ n = 2
    BY <1>7
  <2> QED
    BY <1>2, <1>3, <1>7, <2>1
<1>8. CASE a = 1 /\ b = 3
  <2>1. n = 2 \/ n = 3
    BY <1>8
  <2> QED
    BY <1>4, <1>5, <1>8, <2>1
<1>9. (a = 1 /\ b = 1) \/ (a = 0 /\ b = 2) \/ (a = 1 /\ b = 3)
  <2>1. a = 0 \/ a = 1
    OBVIOUS
  <2> QED
    BY <2>1
<1> QED
  BY <1>6, <1>7, <1>8, <1>9

(* What is received is cut off, and stays in its place. *)
LEMMA StreamReceived ==
    ASSUME FieldsTyped, Cut, Receive
    PROVE  /\ Cut' /\ Same /\ recvQueue' \in Seq(Packets)
           /\ wire' \in Seq(Packets \X {"header", "rest"})
           /\ receiveQueue' \in Seq(Packets \X {"header", "rest"})
<1> DEFINE P == Packets \X {"header", "rest"}
<1>1. PICK n \in {Len(wire) - 1, Len(wire)} \ {0} :
          LET queue == receiveQueue \o SubSeq(wire, 1, n)
              cut == Whole(queue)
          IN  /\ recvQueue' = recvQueue \o [i \in 1..cut |-> queue[2 * i][1]]
              /\ receiveQueue' = SubSeq(queue, 2 * cut + 1, Len(queue))
              /\ wire' = SubSeq(wire, n + 1, Len(wire))
  BY DEF Receive
<1>2. wire \in Seq(P) /\ receiveQueue \in Seq(P) /\ recvQueue \in Seq(Packets)
  BY DEF FieldsTyped
<1>3. wire # <<>>
  BY DEF Receive
<1>4. PICK a \in Nat : a = Len(receiveQueue)
  BY Shapes
<1>5. PICK b \in Nat : b = Len(wire)
  BY Shapes
<1>6. PICK d \in Nat : d = Len(recvQueue)
  BY Shapes
<1>7. n \in Int /\ n # 0 /\ (n = b \/ n = b - 1) /\ b # 0 /\ a \in 0..1 /\ (b = a \/ b = a + 2)
  <2>1. n \in Int /\ n # 0 /\ (n = b \/ n = b - 1)
    BY <1>1, <1>5
  <2>2. b # 0
    BY <1>2, <1>3, <1>5
  <2>3. a \in 0..1 /\ (b = a \/ b = a + 2)
    <3>1. \/ Len(receiveQueue) = 0 /\ Len(wire) = 0
          \/ Len(receiveQueue) = 1 /\ Len(wire) = 1
          \/ Len(receiveQueue) = 0 /\ Len(wire) = 2
          \/ Len(receiveQueue) = 1 /\ Len(wire) = 3
      BY Shapes
    <3>2. (a = 0 /\ b = 0) \/ (a = 1 /\ b = 1) \/ (a = 0 /\ b = 2) \/ (a = 1 /\ b = 3)
      BY <1>4, <1>5, <3>1
    <3> QED
      BY <3>2
  <2> QED
    BY <2>1, <2>2, <2>3
<1>8. PICK c \in Int : c = (a + n) \div 2
  BY <1>7
<1>9. /\ n \in 1..b /\ c \in Nat /\ 2 * c <= a + n
      /\ a + n - 2 * c = b - n /\ b - n \in 0..1
      /\ a <= 2 * c \/ c = 0
      /\ (a + b - 2 * c) \div 2 = (a + b) \div 2 - c
      /\ (a + b) \div 2 \in Nat /\ 2 * ((a + b) \div 2) = a + b
  <2>1. \A x \in Nat, y \in Nat, z \in Int, w \in Int :
           w = (x + z) \div 2 /\ z # 0 /\ (z = y \/ z = y - 1) /\ x \in 0..1
           /\ (y = x \/ y = x + 2) /\ y # 0 =>
              /\ z \in 1..y /\ w \in Nat /\ 2 * w <= x + z
              /\ x + z - 2 * w = y - z /\ y - z \in 0..1
              /\ x <= 2 * w \/ w = 0
              /\ (x + y - 2 * w) \div 2 = (x + y) \div 2 - w
              /\ (x + y) \div 2 \in Nat /\ 2 * ((x + y) \div 2) = x + y
    BY Numbers
  <2> QED
    BY <1>7, <1>8, <2>1
<1>10. PICK h \in Nat : h = (a + b) \div 2 /\ 2 * h = a + b /\ (a + b - 2 * c) \div 2 = h - c
  BY <1>9
<1>11. Loose = a + b
  BY <1>4, <1>5 DEF Loose
<1> DEFINE queue == receiveQueue \o SubSeq(wire, 1, n)
<1>12. /\ queue \in Seq(P) /\ Len(queue) = a + n
       /\ \A k \in 1..(a + n) : queue[k] = Piece(k)
  <2>1. /\ SubSeq(wire, 1, n) \in Seq(P) /\ Len(SubSeq(wire, 1, n)) = n
        /\ \A k \in 1..n : SubSeq(wire, 1, n)[k] = wire[k]
    BY <1>2, <1>5, <1>9
  <2> HIDE DEF P
  <2>2. /\ queue \in Seq(P) /\ Len(queue) = a + n
        /\ \A k \in 1..(a + n) : queue[k] = IF k <= a THEN receiveQueue[k]
                                            ELSE SubSeq(wire, 1, n)[k - a]
    <3> DEFINE t == SubSeq(wire, 1, n)
    <3> HIDE DEF t
    <3>1. t \in Seq(P) /\ Len(t) = n
      BY <2>1 DEF t
    <3>2. /\ receiveQueue \o t \in Seq(P) /\ Len(receiveQueue \o t) = a + n
          /\ \A k \in 1..(a + n) : (receiveQueue \o t)[k] = IF k <= a THEN receiveQueue[k]
                                                            ELSE t[k - a]
      BY <1>2, <1>4, <1>9, <3>1, ConcatProperties
    <3> QED
      BY <3>2 DEF t
  <2>3. ASSUME NEW k \in 1..(a + n) PROVE queue[k] = Piece(k)
    BY <1>4, <1>9, <2>1, <2>2 DEF Piece
  <2> QED
    BY <2>2, <2>3
<1>13. Whole(queue) = c
  BY <1>8, <1>12 DEF Whole
<1> HIDE DEF queue, P
<1>14. /\ recvQueue' = recvQueue \o [i \in 1..c |-> queue[2 * i][1]]
       /\ receiveQueue' = SubSeq(queue, 2 * c + 1, a + n)
       /\ wire' = SubSeq(wire, n + 1, b)
  BY <1>1, <1>5, <1>12, <1>13 DEF queue
<1>15. /\ wire' \in Seq(P) /\ Len(wire') = b - n
       /\ \A k \in 1..(b - n) : wire'[k] = wire[n + k]
  <2>1. n + 1 \in Int /\ b \in Int /\ \A k \in (n + 1)..b : wire[k] \in P
    BY <1>2, <1>5, <1>9
  <2>2. /\ SubSeq(wire, n + 1, b) \in Seq(P)
        /\ Len(SubSeq(wire, n + 1, b)) = IF n + 1 <= b THEN b - (n + 1) + 1 ELSE 0
        /\ \A k \in 1..(b - (n + 1) + 1) : SubSeq(wire, n + 1, b)[k] = wire[n + 1 + k - 1]
    BY <2>1, SubSeqProperties
  <2>3. b - (n + 1) + 1 = b - n /\ (~(n + 1 <= b) => b - n = 0)
        /\ \A k \in 1..(b - n) : n + 1 + k - 1 = n + k
    BY <1>9
  <2> QED
    BY <1>14, <2>2, <2>3
<1>16. /\ receiveQueue' \in Seq(P) /\ Len(receiveQueue') = b - n
       /\ \A k \in 1..(b - n) : receiveQueue'[k] = Piece(2 * c + k)
  <2>1. 2 * c + 1 \in Int /\ a + n \in Int /\ \A k \in (2 * c + 1)..(a + n) : queue[k] \in P
    <3>1. c \in Nat /\ n \in Nat
      BY <1>9
    <3>2. ASSUME NEW k \in (2 * c + 1)..(a + n) PROVE k \in 1..Len(queue)
      BY <1>12, <3>1
    <3>3. \A k \in 1..Len(queue) : queue[k] \in P
      BY <1>12
    <3> QED
      BY <3>1, <3>2, <3>3
  <2>2. /\ SubSeq(queue, 2 * c + 1, a + n) \in Seq(P)
        /\ Len(SubSeq(queue, 2 * c + 1, a + n))
              = IF 2 * c + 1 <= a + n THEN a + n - (2 * c + 1) + 1 ELSE 0
        /\ \A k \in 1..(a + n - (2 * c + 1) + 1) :
              SubSeq(queue, 2 * c + 1, a + n)[k] = queue[2 * c + 1 + k - 1]
    <3>1. \A l, r \in Int : (\A k \in l..r : queue[k] \in P) =>
             /\ SubSeq(queue, l, r) \in Seq(P)
             /\ Len(SubSeq(queue, l, r)) = IF l <= r THEN r - l + 1 ELSE 0
             /\ \A k \in 1..(r - l + 1) : SubSeq(queue, l, r)[k] = queue[l + k - 1]
      BY SubSeqProperties
    <3> QED
      BY <2>1, <3>1
  <2>3. /\ a + n - (2 * c + 1) + 1 = b - n
        /\ ~(2 * c + 1 <= a + n) => b - n = 0
        /\ \A k \in 1..(b - n) : /\ 2 * c + 1 + k - 1 = 2 * c + k
                                 /\ 2 * c + k \in 1..(a + n)
    BY <1>9
  <2> QED
    BY <1>12, <1>14, <2>2, <2>3
<1>17. /\ recvQueue' \in Seq(Packets) /\ Len(recvQueue') = d + c
       /\ \A i \in 1..d : recvQueue'[i] = recvQueue[i]
       /\ \A i \in 1..c : recvQueue'[d + i] = Piece(2 * i)[1]
  <2> DEFINE off == [i \in 1..c |-> queue[2 * i][1]]
  <2>1. \A i \in 1..c : 2 * i \in 1..(a + n) /\ 2 * i \in 1..(a + b)
    BY <1>9
  <2>2. \A i \in 1..c : off[i] = Piece(2 * i)[1] /\ Piece(2 * i)[1] \in Packets
    BY <1>11, <1>12, <2>1 DEF Cut
  <2>3. off \in [1..c -> Packets]
    BY <2>2
  <2> HIDE DEF off
  <2>4. off \in Seq(Packets) /\ Len(off) = c
    BY <1>9, <2>3
  <2>5. /\ recvQueue \o off \in Seq(Packets) /\ Len(recvQueue \o off) = d + c
        /\ \A k \in 1..(d + c) : (recvQueue \o off)[k] = IF k <= d THEN recvQueue[k] ELSE off[k - d]
    BY <1>2, <1>6, <2>4, ConcatProperties
  <2>6. recvQueue' = recvQueue \o off
    BY <1>14 DEF off
  <2>7. /\ \A i \in 1..d : i \in 1..(d + c) /\ i <= d
        /\ \A i \in 1..c : d + i \in 1..(d + c) /\ ~(d + i <= d) /\ d + i - d = i
    BY <1>9
  <2> QED
    <3>1. \A i \in 1..d : recvQueue'[i] = recvQueue[i]
      BY <2>5, <2>6, <2>7
    <3>2. \A i \in 1..c : recvQueue'[d + i] = off[i]
      BY <2>5, <2>6, <2>7
    <3> QED
      BY <2>2, <2>5, <2>6, <3>1, <3>2
<1> DEFINE New(k) == IF k <= Len(receiveQueue') THEN receiveQueue'[k]
                                                ELSE wire'[k - Len(receiveQueue')]
<1>18. Loose' = a + b - 2 * c /\ Loose' = (b - n) + (b - n)
  <2>1. Loose' = (b - n) + (b - n)
    BY <1>15, <1>16 DEF Loose
  <2> QED
    BY <1>9, <2>1
<1>19. ASSUME NEW k \in 1..(a + b - 2 * c) PROVE New(k) = Piece(2 * c + k)
  <2>1. CASE k <= b - n
    <3>1. New(k) = receiveQueue'[k]
      BY <1>16, <2>1
    <3>2. k \in 1..(b - n)
      BY <1>9, <2>1
    <3> QED
      BY <1>16, <3>1, <3>2
  <2>2. CASE ~(k <= b - n)
    <3>1. New(k) = wire'[k - (b - n)]
      BY <1>16, <2>2
    <3>2. k - (b - n) \in 1..(b - n)
      BY <1>9, <2>2
    <3>3. wire'[k - (b - n)] = wire[n + (k - (b - n))]
      BY <1>15, <3>2
    <3>4. ~(2 * c + k <= a) /\ 2 * c + k - a = n + (k - (b - n))
      <4>1. CASE a <= 2 * c
        BY <1>9, <4>1
      <4>2. CASE c = 0
        BY <1>9, <2>2, <4>2
      <4> QED
        BY <1>9, <4>1, <4>2
    <3>5. Piece(2 * c + k) = wire[2 * c + k - a]
      <4>1. ~(2 * c + k <= Len(receiveQueue))
        BY <1>4, <3>4
      <4> QED
        <5>1. Piece(2 * c + k) = wire[2 * c + k - Len(receiveQueue)]
          BY <4>1 DEF Piece
        <5> QED
          BY <1>4, <5>1
    <3> QED
      BY <3>1, <3>3, <3>4, <3>5
  <2> QED
    BY <2>1, <2>2
<1>20. Cut'
  <2>1. \/ Len(receiveQueue') = 0 /\ Len(wire') = 0
        \/ Len(receiveQueue') = 1 /\ Len(wire') = 1
    <3>1. b - n = 0 \/ b - n = 1
      BY <1>9
    <3>2. Len(receiveQueue') = b - n /\ Len(wire') = b - n
      BY <1>15, <1>16
    <3> QED
      BY <3>1, <3>2
  <2>2. <<Len(receiveQueue), Len(wire)>>' \in {<<0, 0>>, <<1, 1>>, <<0, 2>>, <<1, 3>>}
    BY <2>1
  <2>3. ASSUME NEW k \in 1..(a + b - 2 * c)
        PROVE  /\ New(k) \in P
               /\ k % 2 = 1 => New(k)[2] = "header" /\ New(k + 1)[1] = New(k)[1]
               /\ k % 2 = 0 => New(k)[2] = "rest"
    <3>1. 2 * c + k \in 1..(a + b) /\ c \in Nat
      BY <1>9
    <3>2. (2 * c + k) % 2 = k % 2
      BY <1>9
    <3>3. k % 2 = 1 => k + 1 \in 1..(a + b - 2 * c)
      <4>1. a + b - 2 * c = 0 \/ a + b - 2 * c = 2
        BY <1>9
      <4>2. k = 1 \/ k = 2
        BY <4>1
      <4> QED
        BY <4>1, <4>2
    <3>4. k % 2 = 1 => New(k + 1) = Piece((2 * c + k) + 1)
      <4>1. 2 * c + (k + 1) = (2 * c + k) + 1
        BY <1>9
      <4> HIDE DEF New
      <4> QED
        BY <1>19, <3>3, <4>1
    <3>5. New(k) = Piece(2 * c + k)
      BY <1>19
    <3> HIDE DEF New
    <3> QED
      BY <1>11, <3>1, <3>2, <3>4, <3>5 DEF Cut, P
  <2>4. ASSUME NEW k \in 1..Loose'
        PROVE  /\ Piece(k)' \in P
               /\ k % 2 = 1 => Piece(k)'[2] = "header" /\ Piece(k + 1)'[1] = Piece(k)'[1]
               /\ k % 2 = 0 => Piece(k)'[2] = "rest"
    BY <1>18, <2>3 DEF Piece
  <2> QED
    BY <2>2, <2>4 DEF Cut, P
<1>21. Total = d + h /\ Total' = d + h
  <2>1. Total = d + h
    BY <1>6, <1>10, <1>11 DEF Total
  <2>2. Total' = (d + c) + (h - c)
    BY <1>10, <1>17, <1>18 DEF Total
  <2> QED
    BY <1>9, <2>1, <2>2
<1>22. ASSUME NEW i \in 1..(d + h) PROVE Stream'[i] = Stream[i]
  <2>1. Stream'[i] = IF i <= d + c THEN recvQueue'[i] ELSE New(2 * (i - (d + c)))[1]
    BY <1>17, <1>21 DEF Stream, Piece
  <2>2. Stream[i] = IF i <= d THEN recvQueue[i] ELSE Piece(2 * (i - d))[1]
    BY <1>6, <1>21 DEF Stream
  <2>3. CASE i <= d
    BY <1>9, <1>17, <2>1, <2>2, <2>3
  <2>4. CASE ~(i <= d) /\ i <= d + c
    <3>1. i - d \in 1..c /\ d + (i - d) = i
      BY <1>9, <2>4
    <3>2. recvQueue'[d + (i - d)] = Piece(2 * (i - d))[1]
      BY <1>17, <3>1
    <3> QED
      BY <2>1, <2>2, <2>4, <3>1, <3>2
  <2>5. CASE ~(i <= d + c)
    <3>1. 2 * (i - (d + c)) \in 1..(a + b - 2 * c) /\ ~(i <= d)
      BY <1>9, <1>10, <2>5
    <3>2. 2 * c + 2 * (i - (d + c)) = 2 * (i - d)
      BY <1>9
    <3> HIDE DEF New
    <3>3. New(2 * (i - (d + c))) = Piece(2 * (i - d))
      BY <1>19, <3>1, <3>2
    <3> QED
      BY <2>1, <2>2, <2>5, <3>1, <3>3
  <2> QED
    BY <2>3, <2>4, <2>5
<1>23. Stream' = Stream
  <2>1. Stream = [i \in 1..(d + h) |-> Stream[i]] /\ Stream' = [i \in 1..(d + h) |-> Stream'[i]]
    BY <1>21 DEF Stream
  <2> QED
    BY <1>22, <2>1
<1> QED
  BY <1>15, <1>16, <1>17, <1>20, <1>21, <1>23 DEF Same, P

-----------------------------------------------------------------------------
(***************************************************************************)
(* What is told of the stream, after each of the three.                    *)
(***************************************************************************)
LEMMA SameTold ==
    ASSUME Same
    PROVE  /\ \A t : Comes(t)' <=> Comes(t)
           /\ Answers' = Answers /\ Coming' = Coming
           /\ InOrder' <=> InOrder
           /\ Once' <=> Once
           /\ SpawnedOnce' <=> SpawnedOnce
<1>1. /\ \A t : Comes(t)' <=> Comes(t)
      /\ Coming' = Coming
      /\ InOrder' <=> InOrder
      /\ Once' <=> Once
      /\ SpawnedOnce' <=> SpawnedOnce
  BY DEF Same, Comes, Coming, InOrder, Once, SpawnedOnce
<1> QED
  BY <1>1 DEF Answers

(* One more at the end. *)
LEMMA SentTold ==
    ASSUME Total \in Nat, NEW p, Sent(p)
    PROVE  /\ \A t : Comes(t)' <=> Comes(t) \/ p.type = t
           /\ Answers' = Answers \cup (AnswerKinds \cap {p.type})
           /\ Coming' = IF IsSpawn(p) THEN Coming \cup {Spawned(p)} ELSE Coming
           /\ InOrder /\ (p.type \in DOMAIN Place =>
                             \A t \in DOMAIN Place : Comes(t) => Place[t] <= Place[p.type])
                => InOrder'
           /\ Once /\ (p.type \notin Often => ~Comes(p.type)) => Once'
           /\ SpawnedOnce /\ (IsSpawn(p) => Spawned(p) \notin Coming) => SpawnedOnce'
<1>1. /\ Total' = Total + 1 /\ Stream'[Total + 1] = p /\ Total + 1 \in 1..Total'
      /\ \A i \in 1..Total : Stream'[i] = Stream[i] /\ i \in 1..Total'
      /\ \A i \in 1..Total' : i \in 1..Total \/ i = Total + 1
  BY DEF Sent
<1>2. ASSUME NEW t PROVE Comes(t)' <=> Comes(t) \/ p.type = t
  <2>1. Comes(t)' <=> \E i \in 1..Total' : Stream'[i].type = t
    BY DEF Comes
  <2> QED
    BY <1>1, <2>1 DEF Comes
<1>3. Answers' = Answers \cup (AnswerKinds \cap {p.type})
  BY <1>2 DEF Answers
<1>4. Coming' = IF IsSpawn(p) THEN Coming \cup {Spawned(p)} ELSE Coming
  <2>1. ASSUME NEW x PROVE x \in Coming' <=> x \in Coming \/ (IsSpawn(p) /\ x = Spawned(p))
    <3>1. x \in Coming' <=> \E i \in 1..Total' : IsSpawn(Stream'[i]) /\ x = Spawned(Stream'[i])
      BY DEF Coming, IsSpawn, Spawned
    <3>2. x \in Coming <=> \E i \in 1..Total : IsSpawn(Stream[i]) /\ x = Spawned(Stream[i])
      BY DEF Coming
    <3> QED
      BY <1>1, <3>1, <3>2
  <2> QED
    BY <2>1
<1>5. ASSUME InOrder, p.type \in DOMAIN Place =>
                         \A t \in DOMAIN Place : Comes(t) => Place[t] <= Place[p.type]
      PROVE  InOrder'
  <2> SUFFICES ASSUME NEW i \in 1..Total', NEW j \in 1..Total', i < j,
                      Stream'[i].type \in DOMAIN Place, Stream'[j].type \in DOMAIN Place
               PROVE  Place[Stream'[i].type] <= Place[Stream'[j].type]
    BY DEF InOrder, Place
  <2>1. i \in 1..Total
    BY <1>1
  <2>2. CASE j \in 1..Total
    BY <1>1, <1>5, <2>1, <2>2 DEF InOrder
  <2>3. CASE j = Total + 1
    <3>1. Comes(Stream[i].type) /\ Stream'[i] = Stream[i] /\ Stream'[j] = p
      BY <1>1, <2>1, <2>3 DEF Comes
    <3> QED
      BY <1>5, <3>1
  <2> QED
    BY <1>1, <2>2, <2>3
<1>6. ASSUME Once, p.type \notin Often => ~Comes(p.type) PROVE Once'
  <2> SUFFICES ASSUME NEW i \in 1..Total', NEW j \in 1..Total',
                      Stream'[i].type = Stream'[j].type, Stream'[i].type \notin Often
               PROVE  i = j
    BY DEF Once, Often
  <2>1. ASSUME NEW k \in 1..Total PROVE Comes(Stream[k].type)
    BY DEF Comes
  <2>2. CASE i \in 1..Total /\ j \in 1..Total
    BY <1>1, <1>6, <2>2 DEF Once
  <2>3. CASE i \in 1..Total /\ j = Total + 1
    BY <1>1, <1>6, <2>1, <2>3
  <2>4. CASE i = Total + 1 /\ j \in 1..Total
    BY <1>1, <1>6, <2>1, <2>4
  <2> QED
    BY <1>1, <2>2, <2>3, <2>4
<1>7. ASSUME SpawnedOnce, IsSpawn(p) => Spawned(p) \notin Coming PROVE SpawnedOnce'
  <2> SUFFICES ASSUME NEW i \in 1..Total', NEW j \in 1..Total',
                      IsSpawn(Stream'[i]), IsSpawn(Stream'[j]),
                      Spawned(Stream'[i]) = Spawned(Stream'[j])
               PROVE  i = j
    BY DEF SpawnedOnce, IsSpawn, Spawned
  <2>1. ASSUME NEW k \in 1..Total, IsSpawn(Stream[k]) PROVE Spawned(Stream[k]) \in Coming
    BY <2>1 DEF Coming
  <2>2. CASE i \in 1..Total /\ j \in 1..Total
    BY <1>1, <1>7, <2>2 DEF SpawnedOnce
  <2>3. CASE i \in 1..Total /\ j = Total + 1
    BY <1>1, <1>7, <2>1, <2>3
  <2>4. CASE i = Total + 1 /\ j \in 1..Total
    BY <1>1, <1>7, <2>1, <2>4
  <2> QED
    BY <1>1, <2>2, <2>3, <2>4
<1> QED
  BY <1>2, <1>3, <1>4, <1>5, <1>6, <1>7

(* One less at the front. *)
LEMMA TakenTold ==
    ASSUME Total \in Nat, NEW p, Taken(p)
    PROVE  /\ Comes(p.type)
           /\ \A t : Comes(t)' => Comes(t)
           /\ \A t : p.type # t => (Comes(t)' <=> Comes(t))
           /\ Once => /\ Once'
                      /\ p.type \notin Often => ~Comes(p.type)'
                      /\ Answers' = Answers \ {p.type}
           /\ Coming = IF IsSpawn(p) THEN Coming' \cup {Spawned(p)} ELSE Coming'
           /\ SpawnedOnce => SpawnedOnce' /\ (IsSpawn(p) => Spawned(p) \notin Coming')
           /\ InOrder => /\ InOrder'
                         /\ p.type \in DOMAIN Place =>
                               \A t \in DOMAIN Place : Comes(t) => Place[p.type] <= Place[t]
<1>1. /\ Total' = Total - 1 /\ Stream[1] = p /\ 1 \in 1..Total
      /\ \A i \in 1..Total' : Stream'[i] = Stream[i + 1] /\ i + 1 \in 1..Total
      /\ \A i \in 1..Total : i = 1 \/ (i - 1 \in 1..Total' /\ (i - 1) + 1 = i)
  BY DEF Taken
<1>2. ASSUME NEW t PROVE Comes(t) <=> Comes(t)' \/ p.type = t
  <2>1. Comes(t)' <=> \E i \in 1..Total' : Stream'[i].type = t
    BY DEF Comes
  <2>2. ASSUME Comes(t) PROVE Comes(t)' \/ p.type = t
    <3>1. PICK i \in 1..Total : Stream[i].type = t
      BY <2>2 DEF Comes
    <3> QED
      BY <1>1, <2>1, <3>1
  <2> QED
    BY <1>1, <2>1, <2>2 DEF Comes
<1>3. ASSUME Once
      PROVE  Once' /\ (p.type \notin Often => ~Comes(p.type)') /\ Answers' = Answers \ {p.type}
  <2>1. Once'
    <3> SUFFICES ASSUME NEW i \in 1..Total', NEW j \in 1..Total',
                        Stream'[i].type = Stream'[j].type, Stream'[i].type \notin Often
                 PROVE  i = j
      BY DEF Once, Often
    <3>1. i + 1 = j + 1
      BY <1>1, <1>3 DEF Once
    <3> QED
      BY <1>1, <3>1
  <2>2. ASSUME p.type \notin Often PROVE ~Comes(p.type)'
    <3>1. SUFFICES ASSUME NEW i \in 1..Total', Stream'[i].type = p.type PROVE FALSE
      BY DEF Comes
    <3>2. i + 1 = 1
      BY <1>1, <1>3, <2>2, <3>1 DEF Once
    <3> QED
      BY <1>1, <3>2
  <2>3. AnswerKinds \cap Often = {}
    BY DEF AnswerKinds, Often
  <2>4. Answers' = Answers \ {p.type}
    BY <1>2, <2>2, <2>3 DEF Answers
  <2> QED
    BY <2>1, <2>2, <2>4
<1>4. Coming = IF IsSpawn(p) THEN Coming' \cup {Spawned(p)} ELSE Coming'
  <2>1. ASSUME NEW x PROVE x \in Coming <=> x \in Coming' \/ (IsSpawn(p) /\ x = Spawned(p))
    <3>1. x \in Coming' <=> \E i \in 1..Total' : IsSpawn(Stream'[i]) /\ x = Spawned(Stream'[i])
      BY DEF Coming, IsSpawn, Spawned
    <3>2. x \in Coming <=> \E i \in 1..Total : IsSpawn(Stream[i]) /\ x = Spawned(Stream[i])
      BY DEF Coming
    <3>3. ASSUME x \in Coming PROVE x \in Coming' \/ (IsSpawn(p) /\ x = Spawned(p))
      <4>1. PICK i \in 1..Total : IsSpawn(Stream[i]) /\ x = Spawned(Stream[i])
        BY <3>2, <3>3
      <4> QED
        BY <1>1, <3>1, <4>1
    <3> QED
      BY <1>1, <3>1, <3>2, <3>3
  <2> QED
    BY <2>1
<1>5. ASSUME SpawnedOnce PROVE SpawnedOnce' /\ (IsSpawn(p) => Spawned(p) \notin Coming')
  <2>1. SpawnedOnce'
    <3> SUFFICES ASSUME NEW i \in 1..Total', NEW j \in 1..Total',
                        IsSpawn(Stream'[i]), IsSpawn(Stream'[j]),
                        Spawned(Stream'[i]) = Spawned(Stream'[j])
                 PROVE  i = j
      BY DEF SpawnedOnce, IsSpawn, Spawned
    <3>1. i + 1 = j + 1
      BY <1>1, <1>5 DEF SpawnedOnce
    <3> QED
      BY <1>1, <3>1
  <2>2. ASSUME IsSpawn(p), Spawned(p) \in Coming' PROVE FALSE
    <3>1. PICK i \in 1..Total' : IsSpawn(Stream'[i]) /\ Spawned(p) = Spawned(Stream'[i])
      BY <2>2 DEF Coming, IsSpawn, Spawned
    <3>2. i + 1 = 1
      BY <1>1, <1>5, <2>2, <3>1 DEF SpawnedOnce
    <3> QED
      BY <1>1, <3>2
  <2> QED
    BY <2>1, <2>2
<1>6. ASSUME InOrder
      PROVE  InOrder' /\ (p.type \in DOMAIN Place =>
                             \A t \in DOMAIN Place : Comes(t) => Place[p.type] <= Place[t])
  <2>1. InOrder'
    <3> SUFFICES ASSUME NEW i \in 1..Total', NEW j \in 1..Total', i < j,
                        Stream'[i].type \in DOMAIN Place, Stream'[j].type \in DOMAIN Place
                 PROVE  Place[Stream'[i].type] <= Place[Stream'[j].type]
      BY DEF InOrder, Place
    <3>1. i + 1 < j + 1
      BY <1>1
    <3> QED
      BY <1>1, <1>6, <3>1 DEF InOrder
  <2>2. ASSUME p.type \in DOMAIN Place, NEW t \in DOMAIN Place, Comes(t)
        PROVE  Place[p.type] <= Place[t]
    <3>1. PICK i \in 1..Total : Stream[i].type = t
      BY <2>2 DEF Comes
    <3>2. CASE i = 1
      <4>1. Place[t] \in Nat /\ p.type = t
        BY <1>1, <3>1, <3>2 DEF Place
      <4> QED
        BY <4>1
    <3>3. CASE 1 < i
      BY <1>1, <1>6, <2>2, <3>1, <3>3 DEF InOrder
    <3> QED
      BY <1>1, <3>2, <3>3
  <2> QED
    BY <2>1, <2>2
<1> QED
  BY <1>1, <1>2, <1>3, <1>4, <1>5, <1>6

-----------------------------------------------------------------------------
(***************************************************************************)
(* The requests.                                                           *)
(***************************************************************************)
(* One more. *)
LEMMA RequestAdded ==
    ASSUME toServer \in Seq(Requests), NEW q \in Requests, toServer' = Append(toServer, q)
    PROVE  /\ toServer' \in Seq(Requests)
           /\ Asked' = Asked \cup ({q} \ {"ping"})
           /\ RequestsOnce /\ q \notin Asked /\ (q = "exit" => "room" \notin Asked) => RequestsOnce'
<1>1. PICK n \in Nat : n = Len(toServer)
  OBVIOUS
<1>2. /\ toServer' \in Seq(Requests) /\ Len(toServer') = n + 1 /\ toServer'[n + 1] = q
      /\ \A i \in 1..n : toServer'[i] = toServer[i]
      /\ DOMAIN toServer = 1..n /\ DOMAIN toServer' = 1..(n + 1)
  BY <1>1
<1>3. \A i \in 1..(n + 1) : i \in 1..n \/ i = n + 1
  OBVIOUS
<1>4. Asked' = Asked \cup ({q} \ {"ping"})
  <2>1. ASSUME NEW x
        PROVE  x \in Asked' <=> x # "ping" /\ \E i \in 1..(n + 1) : toServer'[i] = x
    BY <1>2 DEF Asked
  <2>2. ASSUME NEW x PROVE x \in Asked <=> x # "ping" /\ \E i \in 1..n : toServer[i] = x
    BY <1>2 DEF Asked
  <2>3. n + 1 \in 1..(n + 1) /\ \A i \in 1..n : i \in 1..(n + 1)
    OBVIOUS
  <2>4. ASSUME NEW x
        PROVE  (\E i \in 1..(n + 1) : toServer'[i] = x) <=> (\E i \in 1..n : toServer[i] = x) \/ x = q
    BY <1>2, <1>3, <2>3
  <2> QED
    BY <2>1, <2>2, <2>4
<1>5. ASSUME RequestsOnce, q \notin Asked, q = "exit" => "room" \notin Asked PROVE RequestsOnce'
  <2> SUFFICES ASSUME NEW i \in 1..(n + 1), NEW j \in 1..(n + 1)
               PROVE  /\ toServer'[i] = toServer'[j] /\ toServer'[i] # "ping" => i = j
                      /\ toServer'[i] = "exit" /\ toServer'[j] = "room" => i < j
    BY <1>2 DEF RequestsOnce
  <2>1. \A k \in 1..n : toServer[k] # "ping" => toServer[k] \in Asked
    BY <1>2 DEF Asked
  <2>2. CASE i \in 1..n /\ j \in 1..n
    BY <1>2, <1>5, <2>2 DEF RequestsOnce
  <2>3. CASE i \in 1..n /\ j = n + 1
    BY <1>2, <1>5, <2>1, <2>3
  <2>4. CASE i = n + 1 /\ j \in 1..n
    BY <1>2, <1>5, <2>1, <2>4
  <2>5. CASE i = n + 1 /\ j = n + 1
    BY <1>2, <2>5
  <2> QED
    BY <1>3, <2>2, <2>3, <2>4, <2>5
<1> QED
  BY <1>2, <1>4, <1>5

(* The one that has been waiting longest is taken. *)
LEMMA RequestTaken ==
    ASSUME toServer \in Seq(Requests), NEW q, Took(q)
    PROVE  /\ toServer' \in Seq(Requests) /\ q \in Requests
           /\ q # "ping" => q \in Asked
           /\ q = "ping" => Asked' = Asked
           /\ RequestsOnce => /\ RequestsOnce'
                              /\ q # "ping" => Asked' = Asked \ {q}
                              /\ q = "room" => "exit" \notin Asked
<1>1. PICK n \in Nat : n = Len(toServer)
  OBVIOUS
<1>2. /\ n >= 1 /\ toServer' \in Seq(Requests) /\ Len(toServer') = n - 1 /\ toServer[1] = q
      /\ \A i \in 1..(n - 1) : toServer'[i] = toServer[i + 1]
      /\ DOMAIN toServer = 1..n /\ DOMAIN toServer' = 1..(n - 1)
  BY <1>1 DEF Took
<1>3. /\ 1 \in 1..n /\ \A i \in 1..(n - 1) : i + 1 \in 1..n
      /\ \A i \in 1..n : i = 1 \/ (i - 1 \in 1..(n - 1) /\ (i - 1) + 1 = i)
  BY <1>2
<1>4. ASSUME NEW x
      PROVE  /\ x \in Asked' <=> x # "ping" /\ \E i \in 1..(n - 1) : toServer'[i] = x
             /\ x \in Asked <=> x # "ping" /\ \E i \in 1..n : toServer[i] = x
  BY <1>2 DEF Asked
<1>5. ASSUME NEW x
      PROVE  (\E i \in 1..n : toServer[i] = x) <=> (\E i \in 1..(n - 1) : toServer'[i] = x) \/ x = q
  <2>1. ASSUME NEW i \in 1..n, toServer[i] = x
        PROVE  (\E j \in 1..(n - 1) : toServer'[j] = x) \/ x = q
    <3>1. CASE i = 1
      BY <1>2, <2>1, <3>1
    <3>2. CASE i - 1 \in 1..(n - 1) /\ (i - 1) + 1 = i
      BY <1>2, <2>1, <3>2
    <3> QED
      BY <1>3, <3>1, <3>2
  <2>2. ASSUME NEW j \in 1..(n - 1), toServer'[j] = x PROVE \E i \in 1..n : toServer[i] = x
    BY <1>2, <1>3, <2>2
  <2>3. x = q => \E i \in 1..n : toServer[i] = x
    BY <1>2, <1>3
  <2> QED
    BY <2>1, <2>2, <2>3
<1>6. q # "ping" => q \in Asked
  BY <1>4, <1>5
<1>7. q = "ping" => Asked' = Asked
  BY <1>4, <1>5
<1>8. ASSUME RequestsOnce
      PROVE  RequestsOnce' /\ (q # "ping" => Asked' = Asked \ {q}) /\ (q = "room" => "exit" \notin Asked)
  <2>1. RequestsOnce'
    <3> SUFFICES ASSUME NEW i \in 1..(n - 1), NEW j \in 1..(n - 1)
                 PROVE  /\ toServer'[i] = toServer'[j] /\ toServer'[i] # "ping" => i = j
                        /\ toServer'[i] = "exit" /\ toServer'[j] = "room" => i < j
      BY <1>2 DEF RequestsOnce
    <3>1. /\ toServer[i + 1] = toServer[j + 1] /\ toServer[i + 1] # "ping" => i + 1 = j + 1
          /\ toServer[i + 1] = "exit" /\ toServer[j + 1] = "room" => i + 1 < j + 1
      BY <1>2, <1>3, <1>8 DEF RequestsOnce
    <3> QED
      BY <1>2, <3>1
  <2>2. ASSUME q # "ping" PROVE q \notin Asked'
    <3> SUFFICES ASSUME NEW i \in 1..(n - 1), toServer'[i] = q PROVE FALSE
      BY <1>4
    <3>1. i + 1 = 1
      BY <1>2, <1>3, <1>8, <2>2 DEF RequestsOnce
    <3> QED
      BY <3>1
  <2>3. ASSUME q = "room", "exit" \in Asked PROVE FALSE
    <3>1. PICK i \in 1..n : toServer[i] = "exit"
      BY <1>4, <2>3
    <3>2. i < 1
      BY <1>2, <1>3, <1>8, <2>3, <3>1 DEF RequestsOnce
    <3> QED
      BY <3>2
  <2> QED
    BY <1>4, <1>5, <2>1, <2>2, <2>3
<1> QED
  BY <1>2, <1>3, <1>6, <1>7, <1>8

(***************************************************************************)
(* The spawn queue.                                                        *)
(***************************************************************************)
LEMMA SpawnAdded ==
    ASSUME spawnQueue \in Seq(Nat \X Nat), NEW x \in Nat \X Nat,
           spawnQueue' = Append(spawnQueue, x)
    PROVE  /\ spawnQueue' \in Seq(Nat \X Nat) /\ Queued' = Queued \cup {x}
           /\ QueuedOnce /\ x \notin Queued => QueuedOnce'
<1>1. PICK n \in Nat : n = Len(spawnQueue)
  OBVIOUS
<1>2. /\ spawnQueue' \in Seq(Nat \X Nat) /\ Len(spawnQueue') = n + 1 /\ spawnQueue'[n + 1] = x
      /\ \A i \in 1..n : spawnQueue'[i] = spawnQueue[i]
      /\ DOMAIN spawnQueue = 1..n /\ DOMAIN spawnQueue' = 1..(n + 1)
  BY <1>1
<1>3. /\ \A i \in 1..(n + 1) : i \in 1..n \/ i = n + 1
      /\ n + 1 \in 1..(n + 1) /\ \A i \in 1..n : i \in 1..(n + 1)
  OBVIOUS
<1>4. ASSUME NEW y
      PROVE  /\ y \in Queued' <=> \E i \in 1..(n + 1) : y = spawnQueue'[i]
             /\ y \in Queued <=> \E i \in 1..n : y = spawnQueue[i]
  BY <1>2 DEF Queued
<1>5. ASSUME NEW y PROVE y \in Queued' <=> y \in Queued \/ y = x
  BY <1>2, <1>3, <1>4
<1>6. ASSUME QueuedOnce, x \notin Queued PROVE QueuedOnce'
  <2> SUFFICES ASSUME NEW i \in 1..(n + 1), NEW j \in 1..(n + 1), spawnQueue'[i] = spawnQueue'[j]
               PROVE  i = j
    BY <1>2 DEF QueuedOnce
  <2>1. \A k \in 1..n : spawnQueue[k] \in Queued
    BY <1>4
  <2>2. CASE i \in 1..n /\ j \in 1..n
    BY <1>2, <1>6, <2>2 DEF QueuedOnce
  <2>3. CASE i \in 1..n /\ j = n + 1
    BY <1>2, <1>6, <2>1, <2>3
  <2>4. CASE i = n + 1 /\ j \in 1..n
    BY <1>2, <1>6, <2>1, <2>4
  <2> QED
    BY <1>3, <2>2, <2>3, <2>4
<1> QED
  BY <1>2, <1>5, <1>6

(* The queue and what is in it. *)
LEMMA NothingQueued == ASSUME spawnQueue \in Seq(Nat \X Nat) PROVE spawnQueue = <<>> <=> Queued = {}
<1>1. spawnQueue = <<>> => Queued = {}
  BY DEF Queued
<1>2. spawnQueue # <<>> => 1 \in DOMAIN spawnQueue
  OBVIOUS
<1> QED
  BY <1>1, <1>2 DEF Queued

-----------------------------------------------------------------------------
(***************************************************************************)
(* The steps.                                                              *)
(***************************************************************************)
(* The stream stays, and with it what the rooms have sent. *)
LEMMA SameKeeps ==
    ASSUME Kept, Same, UNCHANGED <<member, rooms, game, mainVars>>
    PROVE  /\ Answers' = Answers /\ InRoom' = InRoom /\ OnMatching' = OnMatching /\ Heading' = Heading
           /\ InOrder' /\ Once' /\ FromRooms' /\ StartTold'
           /\ Spawns' /\ Complete' /\ Drained' /\ ~thrown'
<1>1. /\ \A t : Comes(t)' <=> Comes(t)
      /\ Answers' = Answers /\ Coming' = Coming
      /\ InOrder' /\ Once' /\ SpawnedOnce'
  BY SameTold DEF Kept, Spawns
<1>2. UNCHANGED <<todo, scene, loading, manager, units, spawnQueue, lost, thrown>>
  BY DEF mainVars, sceneVars, unitVars
<1>3. Heading' = Heading /\ InRoom' = InRoom /\ OnMatching' = OnMatching /\ Queued' = Queued
  BY <1>2 DEF Heading, InRoom, OnMatching, Queued
<1>4. FromRooms' /\ StartTold'
  BY <1>1, <1>3 DEF Kept, FromRooms, StartTold
<1>5. Spawns'
  BY <1>1, <1>2, <1>3 DEF Kept, Spawns, QueuedOnce
<1>6. Complete'
  BY <1>1, <1>2, <1>3 DEF Kept, Complete, Numbered
<1>7. Drained' /\ ~thrown'
  BY <1>2, <1>3 DEF Kept, Drained
<1> QED
  BY <1>1, <1>3, <1>4, <1>5, <1>6, <1>7

(* The server sends a packet. *)
LEMMA PacketSent ==
    ASSUME FieldsTyped, Cut, NEW t \in Kinds, NEW r \in Nat, NEW u \in Nat,
           Send(Packet(t, r, u)), UNCHANGED <<receiveQueue, recvQueue>>
    PROVE  /\ Cut' /\ wire' \in Seq(Packets \X {"header", "rest"})
           /\ \A k : Comes(k)' <=> Comes(k) \/ t = k
           /\ Answers' = Answers \cup (AnswerKinds \cap {t})
           /\ t # "S_OBJECT_SPAWN" => Coming' = Coming
           /\ t = "S_OBJECT_SPAWN" => Coming' = Coming \cup {<<r, u>>}
           /\ InOrder /\ (t \in DOMAIN Place =>
                             \A k \in DOMAIN Place : Comes(k) => Place[k] <= Place[t]) => InOrder'
           /\ Once /\ (t \notin Often => ~Comes(t)) => Once'
           /\ SpawnedOnce /\ (t = "S_OBJECT_SPAWN" => <<r, u>> \notin Coming) => SpawnedOnce'
<1> DEFINE p == Packet(t, r, u)
<1>1. p \in Packets /\ p.type = t /\ Spawned(p) = <<r, u>> /\ (IsSpawn(p) <=> t = "S_OBJECT_SPAWN")
  BY DEF Packet, Packets, IsSpawn, Spawned
<1> HIDE DEF p
<1>2. Send(p)
  BY DEF p
<1>3. Cut' /\ wire' \in Seq(Packets \X {"header", "rest"}) /\ Sent(p)
  BY <1>1, <1>2, StreamSent DEF Sent
<1>4. Total \in Nat
  BY Shapes
<1> QED
  BY <1>1, <1>3, <1>4, SentTold

(* One that no room's game has sent. *)
LEMMA SentKeeps ==
    ASSUME FieldsTyped, Cut, Kept, NEW t \in {"S_LOGIN", "S_ROOM_RESPONSE", "S_RTT_PONG", "S_MOVE"},
           Send(Packet(t, 0, 0)), t \notin Often => ~Comes(t),
           UNCHANGED <<member, rooms, game, receiveQueue, recvQueue, mainVars>>
    PROVE  /\ InRoom' = InRoom /\ OnMatching' = OnMatching /\ Heading' = Heading
           /\ Answers' = Answers \cup (AnswerKinds \cap {t})
           /\ InOrder' /\ Once' /\ FromRooms' /\ StartTold'
           /\ Spawns' /\ Complete' /\ Drained' /\ ~thrown'
<1>1. /\ \A k : Comes(k)' <=> Comes(k) \/ t = k
      /\ Answers' = Answers \cup (AnswerKinds \cap {t}) /\ Coming' = Coming
      /\ InOrder' /\ Once' /\ SpawnedOnce'
  <2>1. t \in Kinds /\ t # "S_OBJECT_SPAWN" /\ t \notin DOMAIN Place
    BY DEF Kinds, Place
  <2> QED
    BY <2>1, PacketSent DEF Kept, Spawns
<1>2. UNCHANGED <<todo, scene, loading, manager, units, spawnQueue, lost, thrown>>
  BY DEF mainVars, sceneVars, unitVars
<1>3. Heading' = Heading /\ InRoom' = InRoom /\ OnMatching' = OnMatching /\ Queued' = Queued
  BY <1>2 DEF Heading, InRoom, OnMatching, Queued
<1>4. FromRooms' /\ StartTold'
  BY <1>1, <1>3 DEF Kept, FromRooms, StartTold
<1>5. Spawns'
  BY <1>1, <1>2, <1>3 DEF Kept, Spawns, QueuedOnce
<1>6. Complete'
  BY <1>1, <1>2, <1>3 DEF Kept, Complete, Numbered
<1>7. Drained' /\ ~thrown'
  BY <1>2, <1>3 DEF Kept, Drained
<1> QED
  BY <1>1, <1>3, <1>4, <1>5, <1>6, <1>7

(* The client that has a room is in it, or about to be told. *)
LEMMA OfMember ==
    ASSUME Phase, member # 0
    PROVE  /\ Answers \subseteq {"S_ROOM_LOBBY"}
           /\ InRoom \/ "S_ROOM_LOBBY" \in Answers
           /\ \/ InRoom /\ Asked = (IF waiting THEN {"exit"} ELSE {}) /\ Answers = {}
              \/ OnMatching /\ waiting /\ Asked = {} /\ Answers = {"S_ROOM_LOBBY"}
  BY DEF Phase

(* How many units a game has. *)
LEMMA UnitCount ==
    /\ MaxUnits \in Nat /\ 0 \in 0..MaxUnits /\ MaxUnits \in 0..MaxUnits
    /\ UnitIds \subseteq 0..MaxUnits /\ 0 \notin UnitIds
    /\ \A n \in 0..MaxUnits : n \in Nat /\ (n < MaxUnits => n + 1 \in 0..MaxUnits)
<1>1. MaxUnits \in Nat
  BY BoundsAssumption
<1> QED
  BY <1>1 DEF UnitIds

(* An answer that is not among the answers is not on its way. *)
LEMMA NotAnswered ==
    ASSUME NEW t \in AnswerKinds, t \notin Answers
    PROVE  ~Comes(t)
  BY DEF Answers

(* Login. *)
LEMMA LoginStep == ASSUME IInv, Login PROVE IInv'
<1>1. /\ Took("login") /\ Send(Packet("S_LOGIN", 0, 0))
      /\ UNCHANGED <<serverVars, pumpVars, recvQueue, mainVars, waiting>>
      /\ UNCHANGED <<receiveQueue, recvQueue, todo, scene, loading, manager, units, spawnQueue,
                     lost, thrown, member, rooms, game, owed, late>>
      /\ FieldsTyped /\ Cut /\ Framed /\ GameKept /\ toServer \in Seq(Requests)
  BY DEF IInv, Login, serverVars, pumpVars, mainVars, sceneVars, unitVars, FieldsTyped
<1>2. Cut' /\ wire' \in Seq(Packets \X {"header", "rest"}) /\ toServer' \in Seq(Requests)
  BY <1>1, PacketSent, RequestTaken DEF Kinds
<1>3. FieldsTyped' /\ Framed' /\ GameKept'
  BY <1>1, <1>2 DEF FieldsTyped, Framed, GameKept, Updates
<1>4. ASSUME NoneLate' PROVE Kept'
  <2>1. Kept
    BY <1>1, <1>4 DEF IInv, NoneLate
  <2>2. /\ "login" \in Asked /\ RequestsOnce' /\ Asked' = Asked \ {"login"}
    BY <1>1, <2>1, RequestTaken DEF Kept
  <2>3. Heading = "Login" /\ member = 0 /\ waiting /\ Asked = {"login"} /\ Answers = {}
    BY <2>1, <2>2 DEF Kept, Phase
  <2>4. /\ InRoom' = InRoom /\ OnMatching' = OnMatching /\ Heading' = Heading
        /\ Answers' = Answers \cup (AnswerKinds \cap {"S_LOGIN"})
        /\ InOrder' /\ Once' /\ FromRooms' /\ StartTold'
        /\ Spawns' /\ Complete' /\ Drained' /\ ~thrown'
    BY <1>1, <2>1, <2>3, NotAnswered, SentKeeps DEF AnswerKinds
  <2>5. Phase'
    BY <1>1, <2>2, <2>3, <2>4 DEF Phase, AnswerKinds
  <2> QED
    BY <2>2, <2>4, <2>5 DEF Kept
<1> QED
  BY <1>2, <1>3, <1>4 DEF IInv

(* The wrong password. *)
LEMMA RefuseStep == ASSUME IInv, Refuse PROVE IInv'
<1>1. /\ Took("room") /\ Send(Packet("S_ROOM_RESPONSE", 0, 0))
      /\ UNCHANGED <<serverVars, pumpVars, recvQueue, mainVars, waiting>>
      /\ UNCHANGED <<receiveQueue, recvQueue, todo, scene, loading, manager, units, spawnQueue,
                     lost, thrown, member, rooms, game, owed, late>>
      /\ FieldsTyped /\ Cut /\ Framed /\ GameKept /\ toServer \in Seq(Requests)
  BY DEF IInv, Refuse, serverVars, pumpVars, mainVars, sceneVars, unitVars, FieldsTyped
<1>2. Cut' /\ wire' \in Seq(Packets \X {"header", "rest"}) /\ toServer' \in Seq(Requests)
  BY <1>1, PacketSent, RequestTaken DEF Kinds
<1>3. FieldsTyped' /\ Framed' /\ GameKept'
  BY <1>1, <1>2 DEF FieldsTyped, Framed, GameKept, Updates
<1>4. ASSUME NoneLate' PROVE Kept'
  <2>1. Kept
    BY <1>1, <1>4 DEF IInv, NoneLate
  <2>2. /\ "room" \in Asked /\ "exit" \notin Asked /\ RequestsOnce' /\ Asked' = Asked \ {"room"}
    BY <1>1, <2>1, RequestTaken DEF Kept
  <2>3. OnMatching /\ member = 0 /\ waiting /\ Asked = {"room"} /\ Answers = {}
    BY <2>1, <2>2 DEF Kept, Phase
  <2>4. /\ InRoom' = InRoom /\ OnMatching' = OnMatching /\ Heading' = Heading
        /\ Answers' = Answers \cup (AnswerKinds \cap {"S_ROOM_RESPONSE"})
        /\ InOrder' /\ Once' /\ FromRooms' /\ StartTold'
        /\ Spawns' /\ Complete' /\ Drained' /\ ~thrown'
    BY <1>1, <2>1, <2>3, NotAnswered, SentKeeps DEF AnswerKinds
  <2>5. Phase'
    BY <1>1, <2>2, <2>3, <2>4 DEF Phase, AnswerKinds
  <2> QED
    BY <2>2, <2>4, <2>5 DEF Kept
<1> QED
  BY <1>2, <1>3, <1>4 DEF IInv

(* A ping. *)
LEMMA PingStep == ASSUME IInv, Ping PROVE IInv'
<1>1. /\ Took("ping") /\ Send(Packet("S_RTT_PONG", 0, 0))
      /\ UNCHANGED <<serverVars, pumpVars, recvQueue, mainVars, waiting>>
      /\ UNCHANGED <<receiveQueue, recvQueue, todo, scene, loading, manager, units, spawnQueue,
                     lost, thrown, member, rooms, game, owed, late>>
      /\ FieldsTyped /\ Cut /\ Framed /\ GameKept /\ toServer \in Seq(Requests)
  BY DEF IInv, Ping, serverVars, pumpVars, mainVars, sceneVars, unitVars, FieldsTyped
<1>2. Cut' /\ wire' \in Seq(Packets \X {"header", "rest"}) /\ toServer' \in Seq(Requests)
  BY <1>1, PacketSent, RequestTaken DEF Kinds
<1>3. FieldsTyped' /\ Framed' /\ GameKept'
  BY <1>1, <1>2 DEF FieldsTyped, Framed, GameKept, Updates
<1>4. ASSUME NoneLate' PROVE Kept'
  <2>1. Kept
    BY <1>1, <1>4 DEF IInv, NoneLate
  <2>2. RequestsOnce' /\ Asked' = Asked
    BY <1>1, <2>1, RequestTaken DEF Kept
  <2>3. /\ InRoom' = InRoom /\ OnMatching' = OnMatching /\ Heading' = Heading
        /\ Answers' = Answers \cup (AnswerKinds \cap {"S_RTT_PONG"})
        /\ InOrder' /\ Once' /\ FromRooms' /\ StartTold'
        /\ Spawns' /\ Complete' /\ Drained' /\ ~thrown'
    BY <1>1, <2>1, SentKeeps DEF Often
  <2>4. Answers' = Answers
    BY <2>3 DEF AnswerKinds
  <2>5. Phase'
    BY <1>1, <2>1, <2>2, <2>3, <2>4 DEF Kept, Phase
  <2> QED
    BY <2>2, <2>3, <2>5 DEF Kept
<1> QED
  BY <1>2, <1>3, <1>4 DEF IInv

(* A unit moves. *)
LEMMA MoveStep == ASSUME IInv, Move PROVE IInv'
<1>1. /\ Send(Packet("S_MOVE", 0, 0))
      /\ UNCHANGED <<toServer, member, rooms, game, pumpVars, recvQueue, mainVars, waiting>>
      /\ UNCHANGED <<receiveQueue, recvQueue, todo, scene, loading, manager, units, spawnQueue,
                     lost, thrown, member, rooms, game, owed, late>>
      /\ FieldsTyped /\ Cut /\ Framed /\ GameKept /\ toServer \in Seq(Requests)
  BY DEF IInv, Move, GameStep, serverVars, pumpVars, mainVars, sceneVars, unitVars, FieldsTyped
<1>2. Cut' /\ wire' \in Seq(Packets \X {"header", "rest"})
  BY <1>1, PacketSent DEF Kinds
<1>3. FieldsTyped' /\ Framed' /\ GameKept'
  BY <1>1, <1>2 DEF FieldsTyped, Framed, GameKept, Updates
<1>4. ASSUME NoneLate' PROVE Kept'
  <2>1. Kept
    BY <1>1, <1>4 DEF IInv, NoneLate
  <2>2. RequestsOnce' /\ Asked' = Asked
    BY <1>1, <2>1 DEF Kept, RequestsOnce, Asked
  <2>3. /\ InRoom' = InRoom /\ OnMatching' = OnMatching /\ Heading' = Heading
        /\ Answers' = Answers \cup (AnswerKinds \cap {"S_MOVE"})
        /\ InOrder' /\ Once' /\ FromRooms' /\ StartTold'
        /\ Spawns' /\ Complete' /\ Drained' /\ ~thrown'
    BY <1>1, <2>1, SentKeeps DEF Often
  <2>4. Answers' = Answers
    BY <2>3 DEF AnswerKinds
  <2>5. Phase'
    BY <1>1, <2>1, <2>2, <2>3, <2>4 DEF Kept, Phase
  <2> QED
    BY <2>2, <2>3, <2>5 DEF Kept
<1> QED
  BY <1>2, <1>3, <1>4 DEF IInv

(* A start that comes too late leaves nothing to keep but the types. *)
LEMMA TellLateStep == ASSUME IInv, TellLate PROVE IInv'
<1>1. /\ Send(Packet("S_GAME_START", 0, 0)) /\ late' = TRUE /\ owed > 0 /\ owed' = owed - 1
      /\ UNCHANGED <<receiveQueue, recvQueue, todo, scene, loading, manager, units, spawnQueue,
                     lost, thrown, member, rooms, game, toServer, waiting>>
      /\ FieldsTyped /\ Cut /\ Framed /\ GameKept
  BY DEF IInv, TellLate, pumpVars, mainVars, sceneVars, unitVars
<1>2. Cut' /\ wire' \in Seq(Packets \X {"header", "rest"})
  BY <1>1, PacketSent DEF Kinds
<1>3. owed' \in Nat
  BY <1>1 DEF FieldsTyped
<1>4. FieldsTyped' /\ Framed' /\ GameKept'
  BY <1>1, <1>2, <1>3 DEF FieldsTyped, Framed, GameKept, Updates
<1> QED
  BY <1>1, <1>2, <1>4 DEF IInv, NoneLate

(* An exit from nowhere. *)
LEMMA ExitIgnoredStep == ASSUME IInv, ExitIgnored PROVE IInv'
<1>1. /\ Took("exit") /\ member = 0 /\ UNCHANGED <<member, rooms, game, mainVars>>
      /\ UNCHANGED <<wire, receiveQueue, recvQueue, todo, scene, loading, manager, units, spawnQueue,
                     lost, thrown, member, rooms, game, owed, late, waiting>>
      /\ FieldsTyped /\ Cut /\ Framed /\ GameKept /\ toServer \in Seq(Requests)
  BY DEF IInv, ExitIgnored, serverVars, pumpVars, mainVars, sceneVars, unitVars, FieldsTyped
<1>2. Cut' /\ Same /\ toServer' \in Seq(Requests)
  BY <1>1, StreamKept, RequestTaken DEF Same
<1>3. FieldsTyped' /\ Framed' /\ GameKept'
  BY <1>1, <1>2 DEF FieldsTyped, Framed, GameKept, Updates
<1>4. ASSUME NoneLate' PROVE Kept'
  <2>1. Kept
    BY <1>1, <1>4 DEF IInv, NoneLate
  <2>2. "exit" \in Asked /\ RequestsOnce' /\ Asked' = Asked \ {"exit"}
    BY <1>1, <2>1, RequestTaken DEF Kept
  <2>3. /\ Answers' = Answers /\ InRoom' = InRoom /\ OnMatching' = OnMatching /\ Heading' = Heading
        /\ InOrder' /\ Once' /\ FromRooms' /\ StartTold'
        /\ Spawns' /\ Complete' /\ Drained' /\ ~thrown'
    BY <1>1, <1>2, <2>1, SameKeeps
  <2>4. \/ Heading = "Matching" /\ ~waiting /\ Asked = {"exit"} /\ Answers = {}
        \/ OnMatching /\ waiting /\ Asked = {"exit", "room"} /\ Answers = {}
        \/ InRoom /\ Asked = {"exit"} /\ Answers = {"S_ROOM_EXIT"}
    BY <1>1, <2>1, <2>2 DEF Kept, Phase
  <2>5. Phase'
    BY <1>1, <2>2, <2>3, <2>4 DEF Phase
  <2> QED
    BY <2>2, <2>3, <2>5 DEF Kept
<1> QED
  BY <1>2, <1>3, <1>4 DEF IInv

(* A room lets the client in: nothing is left of any other. *)
LEMMA AdmitStep == ASSUME IInv, Admit, todo = {} PROVE IInv'
<1>1. /\ Took("room") /\ Send(Packet("S_ROOM_LOBBY", 0, 0))
      /\ rooms' = rooms + 1 /\ member' = rooms + 1
      /\ \E n \in {0, MaxUnits} : game' = [NoGame EXCEPT !.spawned = n]
      /\ UNCHANGED <<receiveQueue, recvQueue, todo, scene, loading, manager, units, spawnQueue,
                     lost, thrown, owed, late, waiting>>
      /\ FieldsTyped /\ Cut /\ Framed /\ GameKept /\ toServer \in Seq(Requests) /\ rooms \in Nat
  BY DEF IInv, Admit, pumpVars, mainVars, sceneVars, unitVars, FieldsTyped
<1>2. Cut' /\ wire' \in Seq(Packets \X {"header", "rest"}) /\ toServer' \in Seq(Requests)
  BY <1>1, PacketSent, RequestTaken DEF Kinds
<1>3. /\ game' \in [spawned : 0..MaxUnits, toldAt : 0..MaxUnits, told : BOOLEAN]
      /\ game'.toldAt = 0 /\ ~game'.told
  <2>1. PICK n \in {0, MaxUnits} : game' = [NoGame EXCEPT !.spawned = n]
    BY <1>1
  <2>2. game' = [spawned |-> n, toldAt |-> 0, told |-> FALSE]
    BY <2>1 DEF NoGame
  <2>3. n \in 0..MaxUnits
    BY UnitCount
  <2> QED
    BY <2>2, <2>3, UnitCount
<1>4. rooms' \in Nat /\ member' \in Nat /\ member' = rooms' /\ member' # 0
  BY <1>1
<1>5. FieldsTyped' /\ Framed' /\ GameKept'
  BY <1>1, <1>2, <1>3, <1>4 DEF FieldsTyped, Framed, GameKept, Updates
<1>6. ASSUME NoneLate' PROVE Kept'
  <2>1. Kept
    BY <1>1, <1>6 DEF IInv, NoneLate
  <2>2. "room" \in Asked /\ "exit" \notin Asked /\ RequestsOnce' /\ Asked' = Asked \ {"room"}
    BY <1>1, <2>1, RequestTaken DEF Kept
  <2>3. OnMatching /\ member = 0 /\ waiting /\ Asked = {"room"} /\ Answers = {} /\ ~InRoom
        /\ Heading = "Matching"
    BY <2>1, <2>2 DEF Kept, Phase, OnMatching, InRoom, Heading
  <2>4. ~Comes("S_OBJECT_SPAWN") /\ ~Comes("S_GAME_START") /\ ~Comes("S_ROOM_LOBBY")
        /\ ~Comes("S_ROOM_EXIT")
    BY <2>1, <2>3 DEF Kept, FromRooms, Answers, AnswerKinds
  <2>5. Coming = {}
    BY <2>4 DEF Coming, Comes, IsSpawn
  <2>6. units = {} /\ Queued = {}
    <3>1. scene = "Matching"
      BY <2>3 DEF OnMatching
    <3>2. units = {} /\ spawnQueue = <<>>
      BY <1>1, <2>1, <2>3, <3>1 DEF Kept, Framed, Drained
    <3> QED
      BY <3>2 DEF Queued
  <2>7. /\ \A k : Comes(k)' <=> Comes(k) \/ "S_ROOM_LOBBY" = k
        /\ Answers' = {"S_ROOM_LOBBY"} /\ Coming' = {}
        /\ InOrder' /\ Once' /\ SpawnedOnce'
    <3>1. \A k \in DOMAIN Place : Comes(k) => Place[k] <= Place["S_ROOM_LOBBY"]
      BY <2>4 DEF Place
    <3>2. "S_ROOM_LOBBY" \in Kinds /\ "S_ROOM_LOBBY" \in AnswerKinds
      BY DEF Kinds, AnswerKinds
    <3> QED
      BY <1>1, <2>1, <2>3, <2>4, <2>5, <3>1, <3>2, PacketSent DEF Kept, Spawns
  <2>8. Heading' = Heading /\ InRoom' = InRoom /\ OnMatching' = OnMatching /\ Queued' = Queued
    BY <1>1 DEF Heading, InRoom, OnMatching, Queued
  <2>9. Phase'
    BY <1>1, <1>4, <2>2, <2>3, <2>7, <2>8 DEF Phase
  <2>10. FromRooms' /\ StartTold'
    BY <1>3, <2>3, <2>4, <2>7, <2>8 DEF FromRooms, StartTold
  <2>11. Spawns'
    <3>1. \A x \in lost : x[1] \in Nat /\ x[1] <= rooms
      BY <1>1, <2>1 DEF Kept, Spawns, FieldsTyped
    <3>2. \A x \in lost' : x[1] <= rooms'
      BY <1>1, <3>1
    <3>3. QueuedOnce'
      BY <1>1, <2>1 DEF Kept, Spawns, QueuedOnce
    <3> QED
      BY <1>1, <1>4, <2>6, <2>7, <2>8, <3>2, <3>3 DEF Spawns
  <2>12. Complete'
    <3>1. \A x \in lost : x[1] # rooms + 1
      BY <1>1, <2>1 DEF Kept, Spawns, FieldsTyped
    <3>2. {x \in units \cup Queued \cup Coming \cup lost : x[1] = member}' = {}
      BY <1>1, <2>6, <2>7, <2>8, <3>1
    <3> QED
      BY <1>3, <3>2 DEF Complete, Numbered
  <2>13. Drained' /\ ~thrown'
    BY <1>1, <2>1, <2>8 DEF Kept, Drained
  <2> QED
    BY <2>2, <2>7, <2>9, <2>10, <2>11, <2>12, <2>13 DEF Kept
<1> QED
  BY <1>2, <1>5, <1>6 DEF IInv

(* The client is sent away.  Its game has told it of the start, or has not *)
(* begun to make its units.                                                *)
LEMMA ExitStep == ASSUME IInv, Exit PROVE IInv'
<1>1. /\ Took("exit") \/ UNCHANGED toServer
      /\ Send(Packet("S_ROOM_EXIT", 0, 0))
      /\ member # 0 /\ member' = 0 /\ game' = NoGame
      /\ owed' = IF game.toldAt # 0 /\ ~game.told THEN owed + 1 ELSE owed
      /\ UNCHANGED <<receiveQueue, recvQueue, todo, scene, loading, manager, units, spawnQueue,
                     lost, thrown, rooms, late, waiting>>
      /\ FieldsTyped /\ Cut /\ Framed /\ GameKept /\ toServer \in Seq(Requests) /\ owed \in Nat
  BY DEF IInv, Exit, pumpVars, mainVars, sceneVars, unitVars, FieldsTyped
<1>2. Cut' /\ wire' \in Seq(Packets \X {"header", "rest"}) /\ toServer' \in Seq(Requests)
  BY <1>1, PacketSent, RequestTaken DEF Kinds
<1>3. game' \in [spawned : 0..MaxUnits, toldAt : 0..MaxUnits, told : BOOLEAN]
  BY <1>1, UnitCount DEF NoGame
<1>4. FieldsTyped' /\ Framed' /\ GameKept'
  BY <1>1, <1>2, <1>3 DEF FieldsTyped, Framed, GameKept, Updates, NoGame
<1>5. ASSUME NoneLate' PROVE Kept'
  <2>1. NoneLate /\ (game.toldAt = 0 \/ game.told)
    BY <1>1, <1>5 DEF NoneLate
  <2>2. Kept
    BY <2>1 DEF IInv
  <2>3. /\ Answers \subseteq {"S_ROOM_LOBBY"}
        /\ InRoom \/ "S_ROOM_LOBBY" \in Answers
        /\ \/ InRoom /\ Asked = (IF waiting THEN {"exit"} ELSE {}) /\ Answers = {}
           \/ OnMatching /\ waiting /\ Asked = {} /\ Answers = {"S_ROOM_LOBBY"}
    BY <1>1, <2>2, OfMember DEF Kept
  <2>4. RequestsOnce' /\ (Asked' = Asked \/ ("exit" \in Asked /\ Asked' = Asked \ {"exit"}))
    <3>1. CASE Took("exit")
      BY <1>1, <2>2, <3>1, RequestTaken DEF Kept
    <3>2. CASE UNCHANGED toServer
      BY <2>2, <3>2 DEF Kept, RequestsOnce, Asked
    <3> QED
      BY <1>1, <3>1, <3>2
  <2>5. /\ \A k : Comes(k)' <=> Comes(k) \/ "S_ROOM_EXIT" = k
        /\ Answers' = Answers \cup {"S_ROOM_EXIT"} /\ Coming' = Coming
        /\ InOrder' /\ Once' /\ SpawnedOnce'
    <3>1. \A k \in DOMAIN Place : Place[k] <= Place["S_ROOM_EXIT"]
      BY DEF Place
    <3>2. "S_ROOM_EXIT" \in Kinds /\ AnswerKinds \cap {"S_ROOM_EXIT"} = {"S_ROOM_EXIT"}
      BY DEF Kinds, AnswerKinds
    <3>3. ~Comes("S_ROOM_EXIT")
      BY <2>3 DEF Answers, AnswerKinds
    <3> QED
      BY <1>1, <2>2, <3>1, <3>2, <3>3, PacketSent DEF Kept, Spawns
  <2>6. Heading' = Heading /\ InRoom' = InRoom /\ OnMatching' = OnMatching /\ Queued' = Queued
    BY <1>1 DEF Heading, InRoom, OnMatching, Queued
  <2>7. Phase'
    BY <1>1, <2>3, <2>4, <2>5, <2>6 DEF Phase
  <2>8. FromRooms' /\ StartTold'
    BY <1>1, <2>2, <2>5, <2>6 DEF Kept, FromRooms, StartTold
  <2>9. Spawns'
    <3>1. CASE game.told
      <4>1. Comes("S_GAME_START")' \/ Heading' = "Battle"
        BY <1>1, <2>2, <2>5, <2>6, <3>1 DEF Kept, StartTold
      <4> QED
        BY <1>1, <2>2, <2>5, <2>6, <4>1 DEF Kept, Spawns, QueuedOnce
    <3>2. CASE game.toldAt = 0
      <4>1. {x \in units \cup Queued \cup Coming \cup lost : x[1] = member} = {}
        BY <1>1, <2>2, <3>2 DEF Kept, Complete, Numbered
      <4>2. member = rooms /\ \A x \in Queued \cup Coming : x[1] = rooms
        BY <1>1, <2>2 DEF Kept, Spawns, GameKept
      <4>3. Queued \cup Coming = {}
        BY <4>1, <4>2
      <4> QED
        BY <1>1, <2>2, <2>5, <2>6, <4>3 DEF Kept, Spawns, QueuedOnce
    <3> QED
      BY <2>1, <3>1, <3>2
  <2>10. Complete'
    BY <1>1 DEF Complete
  <2>11. Drained' /\ ~thrown'
    BY <1>1, <2>2, <2>6 DEF Kept, Drained
  <2> QED
    BY <2>4, <2>5, <2>7, <2>8, <2>9, <2>10, <2>11 DEF Kept
<1> QED
  BY <1>2, <1>4, <1>5 DEF IInv

(* The host starts the game: no unit is made yet. *)
LEMMA StartGameStep == ASSUME IInv, StartGame PROVE IInv'
<1>1. /\ \E n \in UnitIds : game' = [game EXCEPT !.toldAt = n]
      /\ game.spawned = 0 /\ game.toldAt = 0 /\ member # 0
      /\ UNCHANGED <<wire, receiveQueue, recvQueue, todo, scene, loading, manager, units, spawnQueue,
                     lost, thrown, member, rooms, owed, late, toServer, waiting>>
      /\ FieldsTyped /\ Cut /\ Framed /\ GameKept
  BY DEF IInv, StartGame, GameStep, pumpVars, mainVars, sceneVars, unitVars
<1>2. Cut' /\ Same
  BY <1>1, StreamKept DEF Same
<1>3. /\ game' \in [spawned : 0..MaxUnits, toldAt : 0..MaxUnits, told : BOOLEAN]
      /\ game'.spawned = 0 /\ game'.told = game.told /\ game'.toldAt # 0
  <2>1. PICK n \in UnitIds : game' = [game EXCEPT !.toldAt = n]
    BY <1>1
  <2>2. n \in 0..MaxUnits /\ n # 0
    BY UnitCount
  <2> QED
    BY <1>1, <2>1, <2>2 DEF FieldsTyped
<1>4. FieldsTyped' /\ Framed' /\ GameKept'
  BY <1>1, <1>2, <1>3 DEF FieldsTyped, Framed, GameKept, Updates
<1>5. ASSUME NoneLate' PROVE Kept'
  <2>1. Kept
    BY <1>1, <1>5 DEF IInv, NoneLate
  <2>2. /\ \A t : Comes(t)' <=> Comes(t)
        /\ Answers' = Answers /\ Coming' = Coming
        /\ InOrder' /\ Once' /\ SpawnedOnce'
    BY <1>2, <2>1, SameTold DEF Kept, Spawns
  <2>3. Heading' = Heading /\ InRoom' = InRoom /\ OnMatching' = OnMatching /\ Queued' = Queued
    BY <1>1 DEF Heading, InRoom, OnMatching, Queued
  <2>4. RequestsOnce' /\ Asked' = Asked
    BY <1>1, <2>1 DEF Kept, RequestsOnce, Asked
  <2>5. Phase'
    BY <1>1, <2>1, <2>2, <2>3, <2>4 DEF Kept, Phase
  <2>6. FromRooms' /\ StartTold'
    BY <1>1, <1>3, <2>1, <2>2, <2>3 DEF Kept, FromRooms, StartTold
  <2>7. Spawns'
    BY <1>1, <2>1, <2>2, <2>3 DEF Kept, Spawns, QueuedOnce
  <2>8. Complete'
    <3>1. {x \in units \cup Queued \cup Coming \cup lost : x[1] = member}' = {}
      BY <1>1, <2>1, <2>2, <2>3 DEF Kept, Complete, Numbered
    <3>2. 1..game'.spawned = {}
      BY <1>3
    <3> QED
      BY <1>3, <3>1, <3>2 DEF Complete, Numbered
  <2>9. Drained' /\ ~thrown'
    BY <1>1, <2>1, <2>3 DEF Kept, Drained
  <2> QED
    BY <2>2, <2>4, <2>5, <2>6, <2>7, <2>8, <2>9 DEF Kept
<1> QED
  BY <1>2, <1>4, <1>5 DEF IInv

(* The client is told of the start. *)
LEMMA TellStep == ASSUME IInv, Tell PROVE IInv'
<1>1. /\ Send(Packet("S_GAME_START", 0, 0))
      /\ game.toldAt # 0 /\ ~game.told /\ game' = [game EXCEPT !.told = TRUE] /\ member # 0
      /\ UNCHANGED <<receiveQueue, recvQueue, todo, scene, loading, manager, units, spawnQueue,
                     lost, thrown, member, rooms, owed, late, toServer, waiting>>
      /\ FieldsTyped /\ Cut /\ Framed /\ GameKept
  BY DEF IInv, Tell, GameStep, pumpVars, mainVars, sceneVars, unitVars
<1>2. Cut' /\ wire' \in Seq(Packets \X {"header", "rest"})
  BY <1>1, PacketSent DEF Kinds
<1>3. /\ game' \in [spawned : 0..MaxUnits, toldAt : 0..MaxUnits, told : BOOLEAN]
      /\ game'.spawned = game.spawned /\ game'.told /\ game'.toldAt = game.toldAt
  BY <1>1 DEF FieldsTyped
<1>4. FieldsTyped' /\ Framed' /\ GameKept'
  BY <1>1, <1>2, <1>3 DEF FieldsTyped, Framed, GameKept, Updates
<1>5. ASSUME NoneLate' PROVE Kept'
  <2>1. Kept
    BY <1>1, <1>5 DEF IInv, NoneLate
  <2>2. Answers \subseteq {"S_ROOM_LOBBY"} /\ (InRoom \/ "S_ROOM_LOBBY" \in Answers)
    BY <1>1, <2>1, OfMember DEF Kept
  <2>3. ~Comes("S_GAME_START") /\ Heading # "Battle"
    BY <1>1, <2>1 DEF Kept, StartTold
  <2>4. /\ \A k : Comes(k)' <=> Comes(k) \/ "S_GAME_START" = k
        /\ Answers' = Answers /\ Coming' = Coming
        /\ InOrder' /\ Once' /\ SpawnedOnce'
    <3>1. ~Comes("S_ROOM_EXIT")
      BY <2>2 DEF Answers, AnswerKinds
    <3>2. \A k \in DOMAIN Place : Comes(k) => Place[k] <= Place["S_GAME_START"]
      BY <3>1 DEF Place
    <3>3. "S_GAME_START" \in Kinds /\ AnswerKinds \cap {"S_GAME_START"} = {}
      BY DEF Kinds, AnswerKinds
    <3> QED
      BY <1>1, <2>1, <2>3, <3>2, <3>3, PacketSent DEF Kept, Spawns
  <2>5. Heading' = Heading /\ InRoom' = InRoom /\ OnMatching' = OnMatching /\ Queued' = Queued
    BY <1>1 DEF Heading, InRoom, OnMatching, Queued
  <2>6. RequestsOnce' /\ Asked' = Asked
    BY <1>1, <2>1 DEF Kept, RequestsOnce, Asked
  <2>7. Phase'
    BY <1>1, <2>1, <2>4, <2>5, <2>6 DEF Kept, Phase
  <2>8. FromRooms' /\ StartTold'
    BY <1>1, <1>3, <2>2, <2>3, <2>4, <2>5 DEF FromRooms, StartTold
  <2>9. Spawns'
    BY <1>1, <2>1, <2>4, <2>5 DEF Kept, Spawns, QueuedOnce
  <2>10. Complete'
    BY <1>1, <1>3, <2>1, <2>4, <2>5 DEF Kept, Complete, Numbered
  <2>11. Drained' /\ ~thrown'
    BY <1>1, <2>1, <2>5 DEF Kept, Drained
  <2> QED
    BY <2>4, <2>6, <2>7, <2>8, <2>9, <2>10, <2>11 DEF Kept
<1> QED
  BY <1>2, <1>4, <1>5 DEF IInv

(* A unit is made: its number is the next. *)
LEMMA ObjectAddStep == ASSUME IInv, ObjectAdd PROVE IInv'
<1>1. /\ Send(Packet("S_OBJECT_SPAWN", member, game.spawned + 1))
      /\ game.toldAt # 0 /\ game.spawned < MaxUnits
      /\ game' = [game EXCEPT !.spawned = @ + 1] /\ member # 0
      /\ UNCHANGED <<receiveQueue, recvQueue, todo, scene, loading, manager, units, spawnQueue,
                     lost, thrown, member, rooms, owed, late, toServer, waiting>>
      /\ FieldsTyped /\ Cut /\ Framed /\ GameKept
      /\ member \in Nat /\ game.spawned \in Nat /\ game.spawned + 1 \in 0..MaxUnits
  <2>1. game.spawned \in 0..MaxUnits
    BY DEF IInv, FieldsTyped
  <2> QED
    BY <2>1, UnitCount DEF IInv, ObjectAdd, GameStep, pumpVars, mainVars, sceneVars, unitVars, FieldsTyped
<1>2. Cut' /\ wire' \in Seq(Packets \X {"header", "rest"})
  <2>1. "S_OBJECT_SPAWN" \in Kinds /\ game.spawned + 1 \in Nat
    BY <1>1 DEF Kinds
  <2> QED
    BY <1>1, <2>1, PacketSent
<1>3. /\ game' \in [spawned : 0..MaxUnits, toldAt : 0..MaxUnits, told : BOOLEAN]
      /\ game'.spawned = game.spawned + 1 /\ game'.told = game.told /\ game'.toldAt = game.toldAt
  BY <1>1 DEF FieldsTyped
<1>4. FieldsTyped' /\ Framed' /\ GameKept'
  BY <1>1, <1>2, <1>3 DEF FieldsTyped, Framed, GameKept, Updates
<1>5. ASSUME NoneLate' PROVE Kept'
  <2>1. Kept
    BY <1>1, <1>5 DEF IInv, NoneLate
  <2>2. Answers \subseteq {"S_ROOM_LOBBY"} /\ (InRoom \/ "S_ROOM_LOBBY" \in Answers)
    BY <1>1, <2>1, OfMember DEF Kept
  <2> DEFINE new == <<member, game.spawned + 1>>
  <2>3. /\ new \notin units /\ new \notin Queued /\ new \notin Coming /\ new \notin lost
        /\ new[1] = rooms
    <3>1. {x \in units \cup Queued \cup Coming \cup lost : x[1] = member} = {member} \X (1..game.spawned)
      BY <1>1, <2>1 DEF Kept, Complete, Numbered
    <3>2. new[1] = member /\ new \notin {member} \X (1..game.spawned)
      <4>1. game.spawned + 1 \notin 1..game.spawned
        BY <1>1
      <4> QED
        BY <4>1
    <3>3. member = rooms
      BY <1>1 DEF GameKept
    <3> HIDE DEF new
    <3> QED
      BY <3>1, <3>2, <3>3
  <2>4. /\ \A k : Comes(k)' <=> Comes(k) \/ "S_OBJECT_SPAWN" = k
        /\ Answers' = Answers /\ Coming' = Coming \cup {new}
        /\ InOrder' /\ Once' /\ SpawnedOnce'
    <3>1. ~Comes("S_ROOM_EXIT")
      BY <2>2 DEF Answers, AnswerKinds
    <3>2. \A k \in DOMAIN Place : Comes(k) => Place[k] <= Place["S_OBJECT_SPAWN"]
      BY <3>1 DEF Place
    <3>3. "S_OBJECT_SPAWN" \in Kinds /\ AnswerKinds \cap {"S_OBJECT_SPAWN"} = {}
          /\ "S_OBJECT_SPAWN" \in Often
      BY DEF Kinds, AnswerKinds, Often
    <3>4. game.spawned + 1 \in Nat
      BY <1>1
    <3>5. InOrder /\ Once /\ SpawnedOnce
      BY <2>1 DEF Kept, Spawns
    <3>6. member \in Nat
      BY <1>1
    <3>7. "S_OBJECT_SPAWN" # "S_OBJECT_SPAWN" => Coming' = Coming
      OBVIOUS
    <3>8. /\ \A k : Comes(k)' <=> Comes(k) \/ "S_OBJECT_SPAWN" = k
          /\ Answers' = Answers \cup (AnswerKinds \cap {"S_OBJECT_SPAWN"})
          /\ Coming' = Coming \cup {new}
          /\ InOrder' /\ Once' /\ SpawnedOnce'
      BY <1>1, <2>3, <3>2, <3>3, <3>4, <3>5, <3>6, PacketSent
    <3> QED
      BY <3>3, <3>8
  <2>5. Heading' = Heading /\ InRoom' = InRoom /\ OnMatching' = OnMatching /\ Queued' = Queued
    BY <1>1 DEF Heading, InRoom, OnMatching, Queued
  <2>6. RequestsOnce' /\ Asked' = Asked
    BY <1>1, <2>1 DEF Kept, RequestsOnce, Asked
  <2>7. Phase'
    BY <1>1, <2>1, <2>4, <2>5, <2>6 DEF Kept, Phase
  <2>8. FromRooms' /\ StartTold'
    BY <1>1, <1>3, <2>1, <2>2, <2>4, <2>5 DEF Kept, FromRooms, StartTold
  <2>9. Spawns'
    <3> HIDE DEF new
    <3> QED
      BY <1>1, <2>1, <2>3, <2>4, <2>5 DEF Kept, Spawns, QueuedOnce
  <2>10. Complete'
    <3> DEFINE Here == units \cup Queued \cup Coming \cup lost
    <3>1. {x \in Here : x[1] = member} = {member} \X Numbered
      BY <1>1, <2>1 DEF Kept, Complete
    <3>2. Numbered' = Numbered \cup {game.spawned + 1}
      <4>1. 1..(game.spawned + 1) = (1..game.spawned) \cup {game.spawned + 1}
        BY <1>1
      <4> QED
        BY <1>1, <1>3, <4>1 DEF Numbered
    <3>3. {member} \X Numbered' = ({member} \X Numbered) \cup {new}
      BY <3>2
    <3>4. Here' = Here \cup {new} /\ member' = member
      BY <1>1, <2>4, <2>5
    <3>5. new[1] = member
      OBVIOUS
    <3> HIDE DEF new, Here
    <3>6. {x \in Here \cup {new} : x[1] = member} = {x \in Here : x[1] = member} \cup {new}
      BY <3>5
    <3>7. {x \in Here' : x[1] = member'} = {member'} \X Numbered'
      BY <3>1, <3>3, <3>4, <3>6
    <3> QED
      BY <3>7 DEF Complete, Here
  <2>11. Drained' /\ ~thrown'
    BY <1>1, <2>1, <2>5 DEF Kept, Drained
  <2> QED
    BY <2>4, <2>6, <2>7, <2>8, <2>9, <2>10, <2>11 DEF Kept
<1> QED
  BY <1>2, <1>4, <1>5 DEF IInv

(* Steps of the receive callback, and frames with nothing to do: what is   *)
(* cut off stays in its place.                                             *)
LEMMA QuietStep ==
    ASSUME IInv, Cut', Same, wire' \in Seq(Packets \X {"header", "rest"}),
           receiveQueue' \in Seq(Packets \X {"header", "rest"}), recvQueue' \in Seq(Packets),
           UNCHANGED <<serverVars, toServer, mainVars, waiting>>
    PROVE  IInv'
<1>1. /\ UNCHANGED <<todo, scene, loading, manager, units, spawnQueue, lost, thrown, member, rooms,
                     game, owed, late, toServer, waiting>>
      /\ UNCHANGED <<member, rooms, game, mainVars>>
      /\ FieldsTyped /\ Framed /\ GameKept
  BY DEF IInv, serverVars, mainVars, sceneVars, unitVars
<1>2. FieldsTyped' /\ Framed' /\ GameKept'
  BY <1>1 DEF FieldsTyped, Framed, GameKept, Updates
<1>3. ASSUME NoneLate' PROVE Kept'
  <2>1. Kept
    BY <1>1, <1>3 DEF IInv, NoneLate
  <2>2. /\ Answers' = Answers /\ InRoom' = InRoom /\ OnMatching' = OnMatching /\ Heading' = Heading
        /\ InOrder' /\ Once' /\ FromRooms' /\ StartTold'
        /\ Spawns' /\ Complete' /\ Drained' /\ ~thrown'
    BY <1>1, <2>1, SameKeeps
  <2>3. RequestsOnce' /\ Asked' = Asked
    BY <1>1, <2>1 DEF Kept, RequestsOnce, Asked
  <2>4. Phase'
    BY <1>1, <2>1, <2>2, <2>3 DEF Kept, Phase
  <2> QED
    BY <2>2, <2>3, <2>4 DEF Kept
<1> QED
  BY <1>2, <1>3 DEF IInv

(* The steps of the callback. *)
LEMMA ReceiverSteps == ASSUME IInv, Connect \/ ReceiverStep \/ Rest PROVE IInv'
<1>1. FieldsTyped /\ Cut
  BY DEF IInv
<1>2. CASE Receive
  BY <1>1, <1>2, StreamReceived, QuietStep DEF Receive
<1>3. CASE Connect \/ ReceiveFails \/ StartReceive \/ Rest
  <2>1. /\ UNCHANGED <<wire, receiveQueue, recvQueue>>
        /\ UNCHANGED <<serverVars, toServer, mainVars, waiting>>
    BY <1>3 DEF Connect, ReceiveFails, StartReceive, Rest, vars, pumpVars
  <2>2. /\ wire \in Seq(Packets \X {"header", "rest"}) /\ recvQueue \in Seq(Packets)
        /\ receiveQueue \in Seq(Packets \X {"header", "rest"})
    BY <1>1 DEF FieldsTyped
  <2>3. Cut' /\ Same
    BY <1>1, <2>1, StreamKept DEF Same
  <2> QED
    BY <2>1, <2>2, <2>3, QuietStep
<1> QED
  BY <1>2, <1>3 DEF ReceiverStep

(* The player asks for something: for a room when there may be an exit to  *)
(* answer yet, for an exit when there is nothing.                          *)
LEMMA AskStep == ASSUME IInv, Ask PROVE IInv'
<1>1. /\ ~waiting /\ loading = "none" /\ scene \in DOMAIN Buttons
      /\ toServer' = Append(toServer, Buttons[scene]) /\ waiting' = TRUE
      /\ UNCHANGED <<wire, receiveQueue, recvQueue, todo, scene, loading, manager, units, spawnQueue,
                     lost, thrown, member, rooms, game, owed, late>>
      /\ UNCHANGED <<member, rooms, game, mainVars>>
      /\ FieldsTyped /\ Cut /\ Framed /\ GameKept /\ toServer \in Seq(Requests)
  BY DEF IInv, Ask, serverVars, pumpVars, mainVars, sceneVars, unitVars, FieldsTyped
<1> DEFINE q == Buttons[scene]
<1>2. /\ q \in Requests /\ q # "ping"
      /\ \/ scene = "Login" /\ q = "login"
         \/ scene = "Matching" /\ q = "room"
         \/ scene = "MatchMaking" /\ q = "exit"
  BY <1>1 DEF Buttons, Requests
<1> HIDE DEF q
<1>3. /\ toServer' \in Seq(Requests) /\ Asked' = Asked \cup {q}
      /\ RequestsOnce /\ q \notin Asked /\ (q = "exit" => "room" \notin Asked) => RequestsOnce'
  BY <1>1, <1>2, RequestAdded DEF q
<1>4. Cut' /\ Same
  BY <1>1, StreamKept DEF Same
<1>5. FieldsTyped' /\ Framed' /\ GameKept'
  BY <1>1, <1>3, <1>4 DEF FieldsTyped, Framed, GameKept, Updates
<1>6. ASSUME NoneLate' PROVE Kept'
  <2>1. Kept
    BY <1>1, <1>6 DEF IInv, NoneLate
  <2>2. /\ Answers' = Answers /\ InRoom' = InRoom /\ OnMatching' = OnMatching /\ Heading' = Heading
        /\ InOrder' /\ Once' /\ FromRooms' /\ StartTold'
        /\ Spawns' /\ Complete' /\ Drained' /\ ~thrown'
    BY <1>1, <1>4, <2>1, SameKeeps
  <2>3. Heading = scene /\ (InRoom <=> scene \in {"MatchMaking", "Battle"})
        /\ (OnMatching <=> scene = "Matching")
    BY <1>1 DEF Heading, InRoom, OnMatching
  <2>4. \/ /\ scene = "Login" /\ member = 0 /\ Asked = {} /\ Answers = {}
        \/ /\ scene = "Matching" /\ member = 0 /\ Asked \subseteq {"exit"} /\ Answers = {}
        \/ /\ scene = "MatchMaking" /\ member # 0 /\ Asked = {} /\ Answers = {}
        \/ /\ scene = "MatchMaking" /\ member = 0 /\ Asked = {} /\ Answers = {"S_ROOM_EXIT"}
    BY <1>1, <1>2, <2>1, <2>3 DEF Kept, Phase
  <2>5. RequestsOnce'
    BY <1>2, <1>3, <2>1, <2>4 DEF Kept
  <2>6. Phase'
    <3>1. CASE scene = "Login"
      BY <1>1, <1>2, <1>3, <2>2, <2>3, <2>4, <3>1 DEF Phase
    <3>2. CASE scene = "Matching"
      <4>1. Asked' = {"room"} \/ Asked' = {"exit", "room"}
        BY <1>2, <1>3, <2>4, <3>2
      <4> QED
        BY <1>1, <2>2, <2>3, <2>4, <3>2, <4>1 DEF Phase
    <3>3. CASE scene = "MatchMaking"
      BY <1>1, <1>2, <1>3, <2>2, <2>3, <2>4, <3>3 DEF Phase
    <3> QED
      BY <1>2, <3>1, <3>2, <3>3
  <2> QED
    BY <2>2, <2>5, <2>6 DEF Kept
<1> QED
  BY <1>4, <1>5, <1>6 DEF IInv

(* A ping goes out, or nothing. *)
LEMMA MaybePing ==
    ASSUME toServer \in Seq(Requests),
           toServer' = Append(toServer, "ping") \/ toServer' = toServer
    PROVE  /\ toServer' \in Seq(Requests) /\ Asked' = Asked
           /\ RequestsOnce => RequestsOnce'
<1>1. CASE toServer' = toServer
  BY <1>1 DEF Asked, RequestsOnce
<1>2. CASE toServer' = Append(toServer, "ping")
  <2>1. "ping" \in Requests /\ "ping" \notin Asked
    BY DEF Requests, Asked
  <2> QED
    BY <1>2, <2>1, RequestAdded
<1> QED
  BY <1>1, <1>2

(* The units of a scene are in no game that the next scene is about. *)
LEMMA StartFrameStep == ASSUME IInv, StartFrame PROVE IInv'
<1>1. /\ todo = {} /\ LoadedScene
      /\ todo' = {"ServerConnect"} \cup IF Updates(manager') THEN {"UnitManager"} ELSE {}
      /\ UNCHANGED <<wire, receiveQueue, recvQueue, member, rooms, game, owed, late, waiting>>
      /\ FieldsTyped /\ Cut /\ Framed /\ GameKept /\ toServer \in Seq(Requests)
  BY DEF IInv, StartFrame, serverVars, pumpVars, FieldsTyped
<1>2. /\ toServer' = Append(toServer, "ping") \/ toServer' = toServer
      /\ UNCHANGED <<spawnQueue, lost, thrown>> /\ loading' = "none"
      /\ loading = "none" => UNCHANGED <<scene, manager, units>>
      /\ loading # "none" => /\ scene' = loading /\ units' = {}
                             /\ manager' = IF loading = "Battle" THEN "scene" ELSE "none"
  BY <1>1 DEF LoadedScene, sceneVars, unitVars, UnitsAfterLoad, SpawnsAfterLoad
<1>3. Cut' /\ Same
  BY <1>1, StreamKept DEF Same
<1>4. toServer' \in Seq(Requests) /\ Asked' = Asked /\ (RequestsOnce => RequestsOnce')
  BY <1>1, <1>2, MaybePing
<1>5. /\ Heading' = Heading /\ (InRoom' <=> InRoom) /\ Queued' = Queued /\ scene' = Heading
      /\ units' \subseteq units
  BY <1>2 DEF Heading, InRoom, Queued
<1>6. FieldsTyped' /\ Framed' /\ GameKept'
  <2>1. FieldsTyped'
    <3>1. scene' \in Scenes /\ units' \subseteq Nat \X Nat /\ manager' \in {"none", "scene", "bare", "deaf"}
      BY <1>1, <1>2, <1>5 DEF FieldsTyped, Scenes
    <3>2. todo' \subseteq {"ServerConnect", "UnitManager"}
      BY <1>1
    <3> QED
      BY <1>1, <1>2, <1>4, <3>1, <3>2 DEF FieldsTyped
  <2>2. Framed'
    BY <1>1, <1>2 DEF Framed, Updates
  <2>3. GameKept'
    BY <1>1 DEF GameKept
  <2> QED
    BY <2>1, <2>2, <2>3
<1>7. ASSUME NoneLate' PROVE Kept'
  <2>1. Kept
    BY <1>1, <1>7 DEF IInv, NoneLate
  <2>2. /\ \A t : Comes(t)' <=> Comes(t)
        /\ Answers' = Answers /\ Coming' = Coming
        /\ InOrder' /\ Once' /\ SpawnedOnce'
    BY <1>3, <2>1, SameTold DEF Kept, Spawns
  <2>3. OnMatching => OnMatching'
    BY <1>2 DEF OnMatching
  <2>4. Phase'
    BY <1>1, <1>4, <1>5, <2>1, <2>2, <2>3 DEF Kept, Phase
  <2>5. FromRooms' /\ StartTold'
    BY <1>1, <1>5, <2>1, <2>2 DEF Kept, FromRooms, StartTold
  <2>6. ASSUME loading # "none" PROVE units = {} \/ (scene = "Battle" /\ loading = "Matching")
    <3>1. loading \in {"Matching", "MatchMaking", "Battle"}
      BY <1>1, <2>6 DEF FieldsTyped, Scenes
    <3>2. CASE loading = "Matching"
      BY <1>1, <3>2 DEF Framed
    <3>3. CASE loading = "MatchMaking"
      BY <1>1, <2>1, <3>3 DEF Kept, Drained, Framed
    <3>4. CASE loading = "Battle"
      BY <1>1, <2>1, <3>4 DEF Kept, Drained, Framed
    <3> QED
      BY <3>1, <3>2, <3>3, <3>4
  <2>7. ASSUME scene = "Battle", loading = "Matching"
        PROVE  member = 0 /\ spawnQueue = <<>> /\ Queued = {} /\ Coming = {}
    <3>1. Heading = "Matching" /\ ~InRoom /\ ~OnMatching
      BY <2>7 DEF Heading, InRoom, OnMatching
    <3>2. member = 0 /\ Answers = {}
      BY <2>1, <3>1 DEF Kept, Phase
    <3>3. Coming = {}
      <4>1. ~Comes("S_OBJECT_SPAWN")
        BY <2>1, <3>1, <3>2 DEF Kept, FromRooms
      <4> QED
        BY <4>1 DEF Coming, Comes, IsSpawn
    <3>4. spawnQueue = <<>>
      BY <1>1, <2>1, <2>7 DEF Kept, Drained
    <3> QED
      BY <3>2, <3>3, <3>4 DEF Queued
  <2>8. Spawns'
    <3>1. QueuedOnce'
      BY <1>2, <2>1 DEF Kept, Spawns, QueuedOnce
    <3>2. member = 0 /\ Queued \cup Coming # {} => Comes("S_GAME_START") \/ Heading = "Battle"
      BY <2>1, <2>7 DEF Kept, Spawns
    <3>3. units' \cap Queued = {} /\ units' \cap Coming = {} /\ lost \cap (units' \cup Queued \cup Coming) = {}
          /\ \A x \in units' \cup Queued \cup Coming : x[1] = rooms
      BY <1>5, <2>1 DEF Kept, Spawns
    <3>4. Queued \cap Coming = {} /\ \A x \in lost : x[1] <= rooms
      BY <2>1 DEF Kept, Spawns
    <3> QED
      BY <1>1, <1>2, <1>5, <2>2, <3>1, <3>2, <3>3, <3>4 DEF Spawns
  <2>9. Complete'
    <3> SUFFICES ASSUME member' # 0 PROVE Complete'
      BY DEF Complete
    <3>1. units' = units
      BY <1>1, <1>2, <2>6, <2>7
    <3> QED
      BY <1>1, <1>2, <1>5, <2>1, <2>2, <3>1 DEF Kept, Complete, Numbered
  <2>10. Drained'
    <3>1. scene' = "Battle" => "UnitManager" \in todo'
      <4>1. scene' = "Battle" => manager' = "scene"
        BY <1>6 DEF Framed
      <4> QED
        BY <1>1, <4>1 DEF Updates
    <3>2. spawnQueue # <<>> => InRoom
      <4>1. ASSUME spawnQueue # <<>>, scene = "Battle" PROVE InRoom
        <5>1. loading \in {"none", "Battle", "MatchMaking"}
          BY <1>1, <2>7, <4>1 DEF FieldsTyped, Scenes
        <5> QED
          BY <4>1, <5>1 DEF InRoom, Heading
      <4> QED
        BY <2>1, <4>1 DEF Kept, Drained
    <3> QED
      BY <1>2, <1>5, <3>1, <3>2 DEF Drained
  <2>11. ~thrown'
    BY <1>2, <2>1 DEF Kept
  <2> QED
    BY <1>4, <2>1, <2>2, <2>4, <2>5, <2>8, <2>9, <2>10, <2>11 DEF Kept
<1> QED
  BY <1>3, <1>6, <1>7 DEF IInv

(* Every set of naturals has a least one. *)
LEMMA SmallestOf == ASSUME NEW S \in SUBSET Nat, S # {}
                    PROVE  \E x \in S : \A y \in S : x <= y
<1> DEFINE R == {p \in Nat \X Nat : p[1] < p[2]}
<1>1. IsWellFoundedOn(R, Nat)
  BY NatLessThanWellFounded DEF OpToRel
<1>2. PICK x \in S : \A y \in S : <<y, x>> \notin R
  BY <1>1, WFMin
<1>3. ASSUME NEW y \in S PROVE x <= y
  <2>1. x \in Nat /\ y \in Nat
    OBVIOUS
  <2>2. <<y, x>> \in Nat \X Nat
    BY <2>1
  <2>3. ~(y < x)
    BY <1>2, <2>2
  <2> QED
    BY <2>1, <2>3
<1> QED
  BY <1>3

(* The UnitManager makes units of all that is queued: no id is in use. *)
LEMMA UnitManagerStep == ASSUME IInv, UnitManagerUpdate PROVE IInv'
<1> DEFINE n == Len(spawnQueue)
           Twice(k) == manager = "scene" /\ InUse(spawnQueue[k][2], k - 1)
           end == IF \E k \in 1..n : Twice(k)
                  THEN CHOOSE k \in 1..n : Twice(k) /\ \A j \in 1..(k - 1) : ~Twice(j)
                  ELSE n + 1
           new == {spawnQueue[i] : i \in 1..(end - 1)}
<1>1. /\ "UnitManager" \in todo /\ todo' = todo \ {"UnitManager"}
      /\ UNCHANGED <<wire, receiveQueue, recvQueue, toServer, member, rooms, game, owed, late,
                     waiting, scene, loading, manager>>
      /\ FieldsTyped /\ Cut /\ Framed /\ GameKept
  BY DEF IInv, UnitManagerUpdate, serverVars, pumpVars, sceneVars
<1>2. /\ IF manager = "bare"
         THEN lost' = lost \cup new /\ UNCHANGED units
         ELSE units' = units \cup new /\ UNCHANGED lost
      /\ thrown' = (thrown \/ end <= n)
      /\ spawnQueue' = SubSeq(spawnQueue, end + 1, n)
  BY Zenon DEF UnitManagerUpdate
<1>3. n \in Nat /\ spawnQueue \in Seq(Nat \X Nat) /\ DOMAIN spawnQueue = 1..n
  BY <1>1 DEF FieldsTyped
<1>4. /\ "UnitManager" \in todo /\ todo' = todo \ {"UnitManager"}
      /\ IF manager = "bare"
         THEN lost' = lost \cup new /\ UNCHANGED units
         ELSE units' = units \cup new /\ UNCHANGED lost
      /\ thrown' = (thrown \/ end <= n)
      /\ spawnQueue' = SubSeq(spawnQueue, end + 1, n)
      /\ UNCHANGED <<wire, receiveQueue, recvQueue, toServer, member, rooms, game, owed, late,
                     waiting, scene, loading, manager>>
      /\ FieldsTyped /\ Cut /\ Framed /\ GameKept
      /\ spawnQueue \in Seq(Nat \X Nat) /\ n \in Nat
  BY <1>1, <1>2, <1>3
<1>5. Cut' /\ Same
  BY <1>4, StreamKept DEF Same
<1>6. end \in 1..(n + 1)
  <2>1. CASE \A k \in 1..n : ~Twice(k)
    BY <1>4, <2>1
  <2>2. CASE \E k \in 1..n : Twice(k)
    <3>1. PICK f \in 1..n : Twice(f) /\ \A j \in 1..(f - 1) : ~Twice(j)
      <4> DEFINE S == {k \in 1..n : Twice(k)}
      <4> HIDE DEF Twice, n
      <4>1. S # {} /\ S \subseteq Nat /\ \A k \in S : k \in 1..n /\ Twice(k)
        BY <2>2
      <4>2. \E f \in S : \A j \in S : f <= j
        BY <4>1, SmallestOf
      <4> QED
        BY <1>4, <4>1, <4>2
    <3> HIDE DEF Twice, n
    <3>2. (CHOOSE k \in 1..n : Twice(k) /\ \A j \in 1..(k - 1) : ~Twice(j)) \in 1..n
      BY <3>1
    <3> QED
      BY <1>4, <2>2, <3>2
  <2> QED
    BY <2>1, <2>2
<1>7. new \subseteq Queued /\ Queued \subseteq Nat \X Nat /\ spawnQueue' \in Seq(Nat \X Nat)
  <2> HIDE DEF end
  <2>1. \A i \in 1..(end - 1) : i \in 1..n
    BY <1>4, <1>6
  <2>2. \A i \in 1..n : spawnQueue[i] \in Nat \X Nat /\ i \in DOMAIN spawnQueue
    BY <1>4
  <2>3. new \subseteq Queued
    BY <2>1, <2>2 DEF Queued
  <2>4. Queued \subseteq Nat \X Nat
    BY <1>4 DEF Queued
  <2>5. end + 1 \in Int /\ n \in Int /\ \A i \in (end + 1)..n : spawnQueue[i] \in Nat \X Nat
    BY <1>4, <1>6, <2>2
  <2>6. SubSeq(spawnQueue, end + 1, n) \in Seq(Nat \X Nat)
    <3> HIDE DEF n
    <3> QED
      BY <2>5, SubSeqProperties
  <2> QED
    BY <1>4, <2>3, <2>4, <2>6
<1>8. FieldsTyped' /\ Framed' /\ GameKept'
  <2> HIDE DEF new, end, n
  <2>1. units' \subseteq Nat \X Nat /\ lost' \subseteq Nat \X Nat /\ thrown' \in BOOLEAN
    BY <1>4, <1>7 DEF FieldsTyped
  <2>2. FieldsTyped'
    BY <1>4, <1>7, <2>1 DEF FieldsTyped
  <2>3. Framed'
    BY <1>4 DEF Framed, Updates
  <2> QED
    BY <1>4, <2>2, <2>3 DEF GameKept
<1>9. ASSUME NoneLate' PROVE Kept'
  <2>1. Kept
    BY <1>4, <1>9 DEF IInv, NoneLate
  <2>2. \A k \in 1..n : ~Twice(k)
    <3> SUFFICES ASSUME NEW k \in 1..n, InUse(spawnQueue[k][2], k - 1) PROVE FALSE
      OBVIOUS
    <3>1. \A x \in units \cup Queued : x \in Nat \X Nat /\ x[1] = rooms
      BY <1>4, <1>7, <2>1 DEF Kept, Spawns, FieldsTyped
    <3>2. \A i \in 1..n : spawnQueue[i] \in Queued /\ i \in DOMAIN spawnQueue
      BY <1>3 DEF Queued
    <3>3. \A x, y \in Nat \X Nat : x[1] = y[1] /\ x[2] = y[2] => x = y
      OBVIOUS
    <3>4. CASE \E old \in units : old[2] = spawnQueue[k][2]
      <4>1. PICK old \in units : old[2] = spawnQueue[k][2]
        BY <3>4
      <4>2. old = spawnQueue[k]
        BY <3>1, <3>2, <3>3, <4>1
      <4> QED
        BY <2>1, <3>2, <4>2 DEF Kept, Spawns
    <3>5. CASE \E i \in 1..(k - 1) : spawnQueue[i][2] = spawnQueue[k][2]
      <4>1. PICK i \in 1..(k - 1) : spawnQueue[i][2] = spawnQueue[k][2]
        BY <3>5
      <4>2. i \in 1..n /\ i # k
        <5> HIDE DEF n
        <5> QED
          BY <1>3
      <4>3. spawnQueue[i] = spawnQueue[k]
        BY <3>1, <3>2, <3>3, <4>1, <4>2
      <4> QED
        BY <2>1, <3>2, <4>2, <4>3 DEF Kept, Spawns, QueuedOnce
    <3> QED
      BY <3>4, <3>5 DEF InUse
  <2>3. end = n + 1
    BY <2>2
  <2>4. new = Queued /\ spawnQueue' = <<>> /\ thrown' = thrown
    <3> HIDE DEF end
    <3>1. end - 1 = n /\ ~(end <= n) /\ DOMAIN spawnQueue = 1..n
      BY <1>4, <2>3
    <3>2. new = Queued
      BY <3>1 DEF Queued
    <3>3. SubSeq(spawnQueue, end + 1, n) = <<>>
      <4>1. end + 1 \in Int /\ n \in Int /\ n < end + 1
        BY <1>4, <2>3
      <4> HIDE DEF n
      <4> QED
        BY <4>1, SubSeqEmpty
    <3>4. thrown' = thrown
      <4>1. thrown \in BOOLEAN
        BY <1>4 DEF FieldsTyped
      <4> QED
        BY <1>2, <3>1, <4>1
    <3> QED
      BY <1>2, <3>2, <3>3, <3>4
  <2> HIDE DEF new, end, n
  <2>5. Queued' = {}
    BY <2>4 DEF Queued
  <2>6. \/ lost' = lost \cup Queued /\ units' = units
        \/ units' = units \cup Queued /\ lost' = lost
    BY <1>4, <2>4
  <2>7. /\ \A t : Comes(t)' <=> Comes(t)
        /\ Answers' = Answers /\ Coming' = Coming
        /\ InOrder' /\ Once' /\ SpawnedOnce'
    BY <1>5, <2>1, SameTold DEF Kept, Spawns
  <2>8. Heading' = Heading /\ (InRoom' <=> InRoom) /\ (OnMatching' <=> OnMatching)
    BY <1>4 DEF Heading, InRoom, OnMatching
  <2>9. RequestsOnce' /\ Asked' = Asked
    BY <1>4, <2>1 DEF Kept, RequestsOnce, Asked
  <2>10. Phase'
    BY <1>4, <2>1, <2>7, <2>8, <2>9 DEF Kept, Phase
  <2>11. FromRooms' /\ StartTold'
    BY <1>4, <2>1, <2>7, <2>8 DEF Kept, FromRooms, StartTold
  <2>12. Spawns'
    <3>1. QueuedOnce'
      BY <2>4 DEF QueuedOnce
    <3>2. /\ \A x \in units \cup Queued \cup Coming : x[1] = rooms
          /\ \A x \in lost : x[1] <= rooms
          /\ units \cap Queued = {} /\ units \cap Coming = {} /\ Queued \cap Coming = {}
          /\ lost \cap (units \cup Queued \cup Coming) = {}
          /\ member = 0 /\ Queued \cup Coming # {} =>
                \/ Comes("S_GAME_START") \/ Heading = "Battle"
                \/ scene = "Battle" /\ loading = "Matching"
      BY <2>1 DEF Kept, Spawns
    <3>3. rooms \in Nat
      BY <1>4 DEF FieldsTyped
    <3>4. \A x \in Queued : x[1] <= rooms
      BY <3>2, <3>3
    <3>5. /\ \A x \in units' \cup Queued' \cup Coming' : x[1] = rooms'
          /\ \A x \in lost' : x[1] <= rooms'
      BY <1>4, <2>5, <2>6, <2>7, <3>2, <3>4
    <3>6. /\ units' \cap Queued' = {} /\ units' \cap Coming' = {} /\ Queued' \cap Coming' = {}
          /\ lost' \cap (units' \cup Queued' \cup Coming') = {}
      BY <2>5, <2>6, <2>7, <3>2
    <3> QED
      BY <1>4, <2>5, <2>7, <2>8, <3>1, <3>2, <3>5, <3>6 DEF Spawns
  <2>13. Complete'
    <3>1. (units \cup Queued \cup Coming \cup lost)' = units \cup Queued \cup Coming \cup lost
      BY <2>5, <2>6, <2>7
    <3>2. member' = member /\ Numbered' = Numbered
      BY <1>4 DEF Numbered
    <3> QED
      BY <2>1, <3>1, <3>2 DEF Kept, Complete
  <2>14. Drained' /\ ~thrown'
    BY <1>4, <2>1, <2>4, <2>8 DEF Kept, Drained
  <2> QED
    BY <2>7, <2>9, <2>10, <2>11, <2>12, <2>13, <2>14 DEF Kept
<1> QED
  BY <1>5, <1>8, <1>9 DEF IInv

(* The main thread takes a packet.  What follows from any but a spawn: the *)
(* units stay as they are.                                                 *)
LEMMA TakenKeeps ==
    ASSUME Kept, Total \in Nat, NEW p, Taken(p), ~IsSpawn(p),
           UNCHANGED <<units, lost, spawnQueue, rooms, member, game, scene, thrown>>,
           member = 0 /\ Queued \cup Coming # {} =>
              \/ Comes("S_GAME_START")' \/ Heading' = "Battle"
              \/ scene = "Battle" /\ loading' = "Matching"
    PROVE  /\ InOrder' /\ Once' /\ Spawns' /\ Complete' /\ ~thrown'
           /\ Coming' = Coming /\ Queued' = Queued
<1>1. InOrder' /\ Once' /\ SpawnedOnce' /\ Coming' = Coming
  BY TakenTold DEF Kept, Spawns
<1>2. Queued' = Queued
  BY DEF Queued
<1>3. Spawns'
  BY <1>1, <1>2 DEF Kept, Spawns, QueuedOnce
<1>4. Complete' /\ ~thrown'
  BY <1>1, <1>2 DEF Kept, Complete, Numbered
<1> QED
  BY <1>1, <1>2, <1>3, <1>4

(* No packet of a room is on its way to where it does not belong. *)
LEMMA NoneComing ==
    ASSUME FromRooms, ~InRoom, "S_ROOM_LOBBY" \notin Answers
    PROVE  Coming = {} /\ ~Comes("S_OBJECT_SPAWN") /\ ~Comes("S_GAME_START")
<1>1. ~Comes("S_OBJECT_SPAWN") /\ ~Comes("S_GAME_START")
  BY DEF FromRooms
<1> QED
  BY <1>1 DEF Coming, Comes, IsSpawn

(* What Update does with a packet, as far as every packet goes. *)
Update(p) ==
    /\ Kept /\ FieldsTyped /\ Cut /\ Framed /\ GameKept
    /\ "ServerConnect" \in todo /\ todo' = todo \ {"ServerConnect"} /\ loading = "none"
    /\ Heading = scene /\ p \in Packets /\ Total \in Nat /\ Taken(p)
    /\ UNCHANGED <<scene, units, lost, thrown, member, rooms, game>>
    /\ Process(p) /\ Asked' = Asked /\ RequestsOnce'

(* Whether the player still waits. *)
LEMMA StillWaiting ==
    ASSUME NEW p, Process(p), waiting \in BOOLEAN
    PROVE  /\ waiting' \in BOOLEAN
           /\ p.type \in AnswerKinds => ~waiting'
           /\ p.type \notin AnswerKinds => waiting' = waiting
<1>1. waiting' = (waiting /\ p.type \notin AnswerKinds)
  BY DEF Process, AnswerKinds
<1>2. CASE p.type \in AnswerKinds
  <2>1. (waiting /\ p.type \notin AnswerKinds) = FALSE
    BY <1>2
  <2> QED
    BY <1>1, <1>2, <2>1
<1>3. CASE p.type \notin AnswerKinds
  BY <1>1, <1>3
<1> QED
  BY <1>2, <1>3

(* The answer to the login. *)
LEMMA TakeLogin == ASSUME NEW p, Update(p), p.type = "S_LOGIN" PROVE Kept'
<1>1. "S_LOGIN" \in Answers /\ Answers' = Answers \ {"S_LOGIN"}
  BY TakenTold DEF Update, Kept, Answers, AnswerKinds
<1>2. Heading = "Login" /\ member = 0 /\ waiting /\ Asked = {} /\ Answers = {"S_LOGIN"}
  BY <1>1 DEF Update, Kept, Phase
<1>3. loading' = "Matching" /\ spawnQueue' = spawnQueue /\ ~waiting'
  <2>1. loading' = "Matching" /\ spawnQueue' = spawnQueue
    BY DEF Update, Process, SceneOf
  <2>2. ~waiting'
    BY StillWaiting DEF Update, AnswerKinds, FieldsTyped
  <2> QED
    BY <2>1, <2>2
<1>4. ~InRoom /\ Coming = {} /\ ~Comes("S_OBJECT_SPAWN") /\ ~Comes("S_GAME_START")
  BY <1>2, NoneComing DEF Update, Kept, InRoom
<1>5. spawnQueue = <<>> /\ Queued = {}
  BY <1>2, <1>4 DEF Update, Kept, Drained, Queued
<1>6. /\ InOrder' /\ Once' /\ Spawns' /\ Complete' /\ ~thrown'
  BY <1>3, <1>4, <1>5, TakenKeeps DEF Update, IsSpawn
<1>7. Heading' = "Matching" /\ scene' = "Login"
  BY <1>2, <1>3 DEF Update, Heading
<1>8. Phase'
  BY <1>1, <1>2, <1>3, <1>7 DEF Update, Phase
<1>9. FromRooms' /\ StartTold'
  <2>1. ~Comes("S_OBJECT_SPAWN")' /\ ~Comes("S_GAME_START")'
    BY <1>4, TakenTold DEF Update
  <2> QED
    BY <1>2, <1>7, <2>1 DEF Update, FromRooms, StartTold
<1>10. Drained'
  BY <1>3, <1>5, <1>7 DEF Drained
<1> QED
  BY <1>6, <1>8, <1>9, <1>10 DEF Update, Kept

(* The wrong password. *)
LEMMA TakeResponse == ASSUME NEW p, Update(p), p.type = "S_ROOM_RESPONSE" PROVE Kept'
<1>1. "S_ROOM_RESPONSE" \in Answers /\ Answers' = Answers \ {"S_ROOM_RESPONSE"}
  BY TakenTold DEF Update, Kept, Answers, AnswerKinds
<1>2. OnMatching /\ member = 0 /\ waiting /\ Asked = {} /\ Answers = {"S_ROOM_RESPONSE"}
  BY <1>1 DEF Update, Kept, Phase
<1>3. loading' = "none" /\ spawnQueue' = spawnQueue /\ ~waiting'
  <2>1. loading' = "none" /\ spawnQueue' = spawnQueue
    BY DEF Update, Process, SceneOf
  <2>2. ~waiting'
    BY StillWaiting DEF Update, AnswerKinds, FieldsTyped
  <2> QED
    BY <2>1, <2>2
<1>4. Heading = "Matching" /\ scene = "Matching" /\ ~InRoom
  BY <1>2 DEF OnMatching, InRoom, Heading
<1>5. Coming = {} /\ ~Comes("S_OBJECT_SPAWN") /\ ~Comes("S_GAME_START")
  BY <1>2, <1>4, NoneComing DEF Update, Kept
<1>6. spawnQueue = <<>> /\ Queued = {}
  BY <1>4 DEF Update, Kept, Drained, Queued
<1>7. /\ InOrder' /\ Once' /\ Spawns' /\ Complete' /\ ~thrown'
  BY <1>3, <1>5, <1>6, TakenKeeps DEF Update, IsSpawn
<1>8. Heading' = "Matching" /\ scene' = "Matching"
  BY <1>3, <1>4 DEF Update, Heading
<1>9. Phase'
  BY <1>1, <1>2, <1>3, <1>8 DEF Update, Phase
<1>10. FromRooms' /\ StartTold'
  <2>1. ~Comes("S_OBJECT_SPAWN")' /\ ~Comes("S_GAME_START")'
    BY <1>5, TakenTold DEF Update
  <2> QED
    BY <1>2, <1>8, <2>1 DEF Update, FromRooms, StartTold
<1>11. Drained'
  BY <1>3, <1>6, <1>8 DEF Drained
<1> QED
  BY <1>7, <1>9, <1>10, <1>11 DEF Update, Kept

(* The client has a room. *)
LEMMA TakeLobby == ASSUME NEW p, Update(p), p.type = "S_ROOM_LOBBY" PROVE Kept'
<1>1. "S_ROOM_LOBBY" \in Answers /\ Answers' = Answers \ {"S_ROOM_LOBBY"}
  BY TakenTold DEF Update, Kept, Answers, AnswerKinds
<1>2. /\ OnMatching /\ waiting /\ Asked = {}
      /\ \/ member # 0 /\ Answers = {"S_ROOM_LOBBY"}
         \/ member = 0 /\ Answers = {"S_ROOM_LOBBY", "S_ROOM_EXIT"}
  BY <1>1 DEF Update, Kept, Phase
<1>3. loading' = "MatchMaking" /\ spawnQueue' = spawnQueue /\ ~waiting'
  <2>1. loading' = "MatchMaking" /\ spawnQueue' = spawnQueue
    BY DEF Update, Process, SceneOf
  <2>2. ~waiting'
    BY StillWaiting DEF Update, AnswerKinds, FieldsTyped
  <2> QED
    BY <2>1, <2>2
<1>4. Heading = "Matching" /\ scene = "Matching" /\ ~InRoom
  BY <1>2 DEF OnMatching, InRoom, Heading
<1>5. Heading' = "MatchMaking" /\ InRoom' /\ scene' = "Matching"
  BY <1>3, <1>4 DEF Update, Heading, InRoom
<1>6. spawnQueue = <<>> /\ Queued = {}
  BY <1>4 DEF Update, Kept, Drained, Queued
<1>7. Comes("S_GAME_START")' <=> Comes("S_GAME_START")
  BY TakenTold DEF Update
<1>8. /\ InOrder' /\ Once' /\ Spawns' /\ Complete' /\ ~thrown'
  <2>1. member = 0 /\ Queued \cup Coming # {} => Comes("S_GAME_START")'
    BY <1>4, <1>7 DEF Update, Kept, Spawns
  <2> QED
    BY <1>3, <2>1, TakenKeeps DEF Update, IsSpawn
<1>9. Phase'
  BY <1>1, <1>2, <1>3, <1>5 DEF Update, Phase
<1>10. FromRooms' /\ StartTold'
  BY <1>4, <1>5, <1>7 DEF Update, Kept, FromRooms, StartTold
<1>11. Drained'
  BY <1>3, <1>5, <1>6 DEF Drained
<1> QED
  BY <1>8, <1>9, <1>10, <1>11 DEF Update, Kept

(* The client has none any more: if units of its game are queued, the      *)
(* battle scene is there to make them yet.                                 *)
LEMMA TakeExit == ASSUME NEW p, Update(p), p.type = "S_ROOM_EXIT" PROVE Kept'
<1>1. "S_ROOM_EXIT" \in Answers /\ Answers' = Answers \ {"S_ROOM_EXIT"}
  BY TakenTold DEF Update, Kept, Answers, AnswerKinds
<1>2. ~Comes("S_ROOM_LOBBY") /\ ~Comes("S_OBJECT_SPAWN") /\ ~Comes("S_GAME_START")
  <2>1. \A t \in DOMAIN Place : Comes(t) => Place["S_ROOM_EXIT"] <= Place[t]
    BY TakenTold DEF Update, Kept, Place
  <2> QED
    BY <2>1 DEF Place
<1>3. "S_ROOM_LOBBY" \notin Answers
  BY <1>2 DEF Answers
<1>4. InRoom /\ member = 0 /\ Asked \subseteq {"exit"} /\ Answers = {"S_ROOM_EXIT"}
  BY <1>1, <1>3 DEF Update, Kept, Phase
<1>5. loading' = "Matching" /\ spawnQueue' = spawnQueue /\ ~waiting'
  <2>1. loading' = "Matching" /\ spawnQueue' = spawnQueue
    BY DEF Update, Process, SceneOf
  <2>2. ~waiting'
    BY StillWaiting DEF Update, AnswerKinds, FieldsTyped
  <2> QED
    BY <2>1, <2>2
<1>6. Heading' = "Matching" /\ scene' = scene /\ scene \in {"MatchMaking", "Battle"} /\ ~InRoom'
  BY <1>4, <1>5 DEF Update, Heading, InRoom
<1>7. ~Comes("S_OBJECT_SPAWN")' /\ ~Comes("S_GAME_START")' /\ Coming = {}
  <2>1. Coming = {}
    BY <1>2 DEF Coming, Comes, IsSpawn
  <2> QED
    BY <1>2, <2>1, TakenTold DEF Update
<1>8. spawnQueue # <<>> => scene = "Battle"
  <2>1. ASSUME spawnQueue # <<>> PROVE Queued # {}
    BY <2>1, NothingQueued DEF Update, FieldsTyped
  <2> QED
    BY <1>2, <1>4, <2>1 DEF Update, Kept, Spawns
<1>9. /\ InOrder' /\ Once' /\ Spawns' /\ Complete' /\ ~thrown'
  <2>1. Queued \cup Coming # {} => scene = "Battle"
    BY <1>7, <1>8 DEF Queued
  <2> QED
    BY <1>5, <2>1, TakenKeeps DEF Update, IsSpawn
<1>10. Phase'
  BY <1>1, <1>4, <1>5, <1>6 DEF Update, Phase
<1>11. FromRooms' /\ StartTold'
  BY <1>4, <1>6, <1>7 DEF Update, FromRooms, StartTold
<1>12. Drained'
  BY <1>5, <1>6, <1>8 DEF Update, Kept, Drained
<1> QED
  BY <1>9, <1>10, <1>11, <1>12 DEF Update, Kept

(* The game has started. *)
LEMMA TakeStart == ASSUME NEW p, Update(p), p.type = "S_GAME_START" PROVE Kept'
<1>1. Comes("S_GAME_START") /\ ~Comes("S_GAME_START")'
  BY TakenTold DEF Update, Kept, Often
<1>2. Answers' = Answers
  BY TakenTold DEF Update, Kept, Answers, AnswerKinds
<1>3. "S_ROOM_LOBBY" \notin Answers
  <2>1. \A t \in DOMAIN Place : Comes(t) => Place["S_GAME_START"] <= Place[t]
    BY TakenTold DEF Update, Kept, Place
  <2> QED
    BY <2>1 DEF Place, Answers
<1>4. InRoom /\ Heading = "MatchMaking" /\ scene = "MatchMaking"
  BY <1>1, <1>3 DEF Update, Kept, FromRooms, StartTold, InRoom
<1>5. loading' = "Battle" /\ spawnQueue' = spawnQueue /\ waiting' = waiting
  BY DEF Update, Process, SceneOf, FieldsTyped
<1>6. Heading' = "Battle" /\ InRoom' /\ scene' = "MatchMaking"
  BY <1>4, <1>5 DEF Update, Heading, InRoom
<1>7. /\ InOrder' /\ Once' /\ Spawns' /\ Complete' /\ ~thrown'
  BY <1>5, <1>6, TakenKeeps DEF Update, IsSpawn
<1>8. Phase'
  <2>1. Heading # "Login" /\ Heading # "Matching" /\ ~OnMatching
    BY <1>4 DEF OnMatching
  <2> QED
    BY <1>2, <1>4, <1>5, <1>6, <2>1 DEF Update, Kept, Phase
<1>9. FromRooms' /\ StartTold'
  BY <1>1, <1>6 DEF Update, Kept, FromRooms, StartTold
<1>10. Drained'
  BY <1>5, <1>6 DEF Drained
<1> QED
  BY <1>7, <1>8, <1>9, <1>10 DEF Update, Kept

(* A unit has been made. *)
LEMMA TakeSpawn == ASSUME NEW p, Update(p), p.type = "S_OBJECT_SPAWN" PROVE Kept'
<1> DEFINE x == Spawned(p)
<1>1. /\ Coming = Coming' \cup {x} /\ x \notin Coming' /\ Comes("S_OBJECT_SPAWN")
      /\ InOrder' /\ Once' /\ SpawnedOnce'
      /\ Comes("S_GAME_START")' <=> Comes("S_GAME_START")
  BY TakenTold DEF Update, Kept, Spawns, IsSpawn
<1>2. Answers' = Answers
  BY TakenTold DEF Update, Kept, Answers, AnswerKinds
<1>3. "S_ROOM_LOBBY" \notin Answers
  <2>1. \A t \in DOMAIN Place : Comes(t) => Place["S_OBJECT_SPAWN"] <= Place[t]
    BY TakenTold DEF Update, Kept, Place
  <2> QED
    BY <2>1 DEF Place, Answers
<1>4. InRoom
  BY <1>1, <1>3 DEF Update, Kept, FromRooms
<1>5. loading' = "none" /\ spawnQueue' = Append(spawnQueue, x) /\ waiting' = waiting
  BY DEF Update, Process, SceneOf, FieldsTyped, Spawned
<1>6. Heading' = Heading /\ InRoom' /\ (OnMatching' <=> OnMatching) /\ scene' = scene
  BY <1>4, <1>5 DEF Update, Heading, InRoom, OnMatching
<1>7. Queued' = Queued \cup {x} /\ QueuedOnce'
  <2>1. x \in Nat \X Nat /\ spawnQueue \in Seq(Nat \X Nat)
    BY DEF Update, Packets, Spawned, FieldsTyped
  <2>2. x \notin Queued /\ QueuedOnce
    BY <1>1 DEF Update, Kept, Spawns
  <2> HIDE DEF x
  <2> QED
    BY <1>5, <2>1, <2>2, SpawnAdded
<1> HIDE DEF x
<1>8. Phase'
  BY <1>2, <1>5, <1>6, <1>4 DEF Update, Kept, Phase
<1>9. FromRooms' /\ StartTold'
  BY <1>1, <1>6 DEF Update, Kept, FromRooms, StartTold
<1>10. Spawns'
  <2>1. /\ \A y \in units \cup Queued \cup Coming : y[1] = rooms
        /\ \A y \in lost : y[1] <= rooms
        /\ units \cap Queued = {} /\ units \cap Coming = {} /\ Queued \cap Coming = {}
        /\ lost \cap (units \cup Queued \cup Coming) = {}
        /\ member = 0 /\ Queued \cup Coming # {} =>
              \/ Comes("S_GAME_START") \/ Heading = "Battle"
              \/ scene = "Battle" /\ loading = "Matching"
    BY DEF Update, Kept, Spawns
  <2>2. Queued' \cup Coming' = Queued \cup Coming /\ Queued' \cap Coming' = {}
    BY <1>1, <1>7, <2>1
  <2>3. UNCHANGED <<units, lost, rooms, member, scene>> /\ loading = "none"
    BY DEF Update
  <2>4. /\ \A y \in units' \cup Queued' \cup Coming' : y[1] = rooms'
        /\ \A y \in lost' : y[1] <= rooms'
        /\ lost' \cap (units' \cup Queued' \cup Coming') = {}
    BY <2>1, <2>2, <2>3
  <2>5. units' \cap Queued' = {} /\ units' \cap Coming' = {}
    BY <2>1, <2>2, <2>3
  <2>6. member' = 0 /\ Queued' \cup Coming' # {} =>
              \/ Comes("S_GAME_START")' \/ Heading' = "Battle"
              \/ scene' = "Battle" /\ loading' = "Matching"
    BY <1>1, <1>6, <2>1, <2>2, <2>3
  <2> QED
    BY <1>1, <1>7, <2>2, <2>4, <2>5, <2>6 DEF Spawns
<1>11. Complete'
  <2>1. (units \cup Queued \cup Coming \cup lost)' = units \cup Queued \cup Coming \cup lost
    BY <1>1, <1>7 DEF Update
  <2>2. member' = member /\ Numbered' = Numbered
    BY DEF Update, Numbered
  <2> QED
    BY <2>1, <2>2 DEF Update, Kept, Complete
<1>12. Drained'
  BY <1>5, <1>6 DEF Update, Drained
<1>13. ~thrown'
  BY DEF Update, Kept
<1> QED
  BY <1>1, <1>8, <1>9, <1>10, <1>11, <1>12, <1>13 DEF Update, Kept

(* A move, or a pong: neither scene nor queue change. *)
LEMMA TakeOther == ASSUME NEW p, Update(p), p.type \in {"S_MOVE", "S_RTT_PONG"} PROVE Kept'
<1>1. Answers' = Answers
  BY TakenTold DEF Update, Kept, Answers, AnswerKinds
<1>2. loading' = "none" /\ spawnQueue' = spawnQueue /\ waiting' = waiting
  BY DEF Update, Process, SceneOf, FieldsTyped
<1>3. Heading' = Heading /\ (InRoom' <=> InRoom) /\ (OnMatching' <=> OnMatching) /\ scene' = scene
  BY <1>2 DEF Update, Heading, InRoom, OnMatching
<1>4. /\ Comes("S_GAME_START")' <=> Comes("S_GAME_START")
      /\ Comes("S_OBJECT_SPAWN")' <=> Comes("S_OBJECT_SPAWN")
  BY TakenTold DEF Update
<1>5. /\ InOrder' /\ Once' /\ Spawns' /\ Complete' /\ ~thrown'
  <2>1. member = 0 /\ Queued \cup Coming # {} => Comes("S_GAME_START")' \/ Heading' = "Battle"
    BY <1>3, <1>4 DEF Update, Kept, Spawns
  <2> QED
    BY <1>2, <2>1, TakenKeeps DEF Update, IsSpawn
<1>6. Phase'
  BY <1>1, <1>2, <1>3 DEF Update, Kept, Phase
<1>7. FromRooms' /\ StartTold'
  BY <1>1, <1>3, <1>4 DEF Update, Kept, FromRooms, StartTold
<1>8. Drained'
  BY <1>2, <1>3 DEF Update, Kept, Drained
<1> QED
  BY <1>5, <1>6, <1>7, <1>8 DEF Update, Kept

(* One packet a frame. *)
LEMMA ServerConnectStep == ASSUME IInv, ServerConnectUpdate PROVE IInv'
<1>1. /\ "ServerConnect" \in todo /\ todo' = todo \ {"ServerConnect"} /\ loading = "none"
      /\ IF recvQueue # <<>>
         THEN Process(Head(recvQueue)) /\ recvQueue' = Tail(recvQueue)
         ELSE UNCHANGED <<loading, spawnQueue, manager, toServer, waiting, recvQueue>>
      /\ UNCHANGED <<wire, receiveQueue, scene, units, lost, thrown, member, rooms, game, owed, late>>
      /\ FieldsTyped /\ Cut /\ Framed /\ GameKept /\ toServer \in Seq(Requests)
      /\ waiting \in BOOLEAN /\ recvQueue \in Seq(Packets)
  BY DEF IInv, ServerConnectUpdate, serverVars, pumpVars, Framed, FieldsTyped
<1>2. CASE recvQueue = <<>>
  <2>1. UNCHANGED <<loading, spawnQueue, manager, toServer, waiting, recvQueue>>
    BY <1>1, <1>2
  <2>2. Cut' /\ Same
    BY <1>1, <2>1, StreamKept DEF Same
  <2>3. FieldsTyped' /\ Framed' /\ GameKept'
    BY <1>1, <2>1, <2>2 DEF FieldsTyped, Framed, GameKept, Updates
  <2>4. ASSUME NoneLate' PROVE Kept'
    <3>1. Kept
      BY <1>1, <2>4 DEF IInv, NoneLate
    <3>2. /\ \A t : Comes(t)' <=> Comes(t)
          /\ Answers' = Answers /\ Coming' = Coming
          /\ InOrder' /\ Once' /\ SpawnedOnce'
      BY <2>2, <3>1, SameTold DEF Kept, Spawns
    <3>3. /\ Heading' = Heading /\ (InRoom' <=> InRoom) /\ (OnMatching' <=> OnMatching)
          /\ Queued' = Queued
      BY <1>1, <2>1 DEF Heading, InRoom, OnMatching, Queued
    <3>4. RequestsOnce' /\ Asked' = Asked
      BY <2>1, <3>1 DEF Kept, RequestsOnce, Asked
    <3>5. Phase'
      BY <1>1, <2>1, <3>1, <3>2, <3>3, <3>4 DEF Kept, Phase
    <3>6. FromRooms' /\ StartTold'
      BY <1>1, <3>1, <3>2, <3>3 DEF Kept, FromRooms, StartTold
    <3>7. Spawns'
      BY <1>1, <2>1, <3>1, <3>2, <3>3 DEF Kept, Spawns, QueuedOnce
    <3>8. Complete'
      BY <1>1, <3>1, <3>2, <3>3 DEF Kept, Complete, Numbered
    <3>9. Drained' /\ ~thrown'
      BY <1>1, <2>1, <3>1, <3>3 DEF Kept, Drained
    <3> QED
      BY <3>2, <3>4, <3>5, <3>6, <3>7, <3>8, <3>9 DEF Kept
  <2> QED
    BY <2>2, <2>3, <2>4 DEF IInv
<1>3. CASE recvQueue # <<>>
  <2> DEFINE p == Head(recvQueue)
  <2>1. p \in Packets /\ Total \in Nat
    BY <1>1, <1>3, Shapes
  <2>2. Cut' /\ recvQueue' \in Seq(Packets) /\ Taken(p)
    BY <1>1, <1>3, StreamTaken
  <2>3. Process(p)
    BY <1>1, <1>3
  <2> HIDE DEF p
  <2>4. /\ toServer' = Append(toServer, "ping") \/ toServer' = toServer
        /\ manager' # manager => manager = "none" /\ manager' \in {"bare", "deaf"}
    BY <2>3 DEF Process, Instance
  <2>5. toServer' \in Seq(Requests) /\ Asked' = Asked /\ (RequestsOnce => RequestsOnce')
    BY <1>1, <2>4, MaybePing
  <2>6. FieldsTyped'
    <3>1. loading' \in (Scenes \ {"Login"}) \cup {"none"}
      BY <1>1, <2>3 DEF Process, SceneOf, Scenes
    <3>2. spawnQueue' \in Seq(Nat \X Nat)
      <4>1. <<p.room, p.unit>> \in Nat \X Nat /\ spawnQueue \in Seq(Nat \X Nat)
        BY <1>1, <2>1 DEF Packets, FieldsTyped
      <4>2. spawnQueue' = Append(spawnQueue, <<p.room, p.unit>>) \/ spawnQueue' = spawnQueue
        BY <2>3 DEF Process
      <4> QED
        BY <4>1, <4>2, SpawnAdded
    <3>3. waiting' \in BOOLEAN
      BY <1>1, <2>3, StillWaiting
    <3>4. manager' \in {"none", "scene", "bare", "deaf"}
      BY <1>1, <2>4 DEF FieldsTyped
    <3> QED
      BY <1>1, <2>2, <2>5, <3>1, <3>2, <3>3, <3>4 DEF FieldsTyped
  <2>7. Framed' /\ GameKept'
    BY <1>1, <2>4 DEF Framed, GameKept, Updates
  <2>8. ASSUME NoneLate' PROVE Kept'
    <3>1. Kept
      BY <1>1, <2>8 DEF IInv, NoneLate
    <3>2. Update(p)
      BY <1>1, <2>1, <2>2, <2>3, <2>5, <3>1 DEF Update, Heading, Kept
    <3>3. p.type \in Kinds
      BY <2>1 DEF Packets
    <3> QED
      BY <3>2, <3>3, TakeLogin, TakeResponse, TakeLobby, TakeExit, TakeStart, TakeSpawn, TakeOther
         DEF Kinds
  <2> QED
    BY <2>2, <2>6, <2>7, <2>8 DEF IInv
<1> QED
  BY <1>2, <1>3

-----------------------------------------------------------------------------
(* At first nothing is on its way. *)
LEMMA Initially == Init => IInv
<1> SUFFICES ASSUME Init PROVE IInv
  OBVIOUS
<1>1. /\ toServer = <<>> /\ wire = <<>> /\ receiveQueue = <<>> /\ recvQueue = <<>>
      /\ spawnQueue = <<>> /\ units = {} /\ lost = {} /\ todo = {}
      /\ member = 0 /\ rooms = 0 /\ game = NoGame /\ owed = 0 /\ late = FALSE
      /\ scene = "Login" /\ loading = "none" /\ manager = "none"
      /\ thrown = FALSE /\ waiting = FALSE
  BY DEF Init
<1>2. game \in [spawned : 0..MaxUnits, toldAt : 0..MaxUnits, told : BOOLEAN]
  BY <1>1, UnitCount DEF NoGame
<1>3. FieldsTyped
  <2>1. \A S : <<>> \in Seq(S)
    OBVIOUS
  <2>2. "Login" \in Scenes /\ "none" \in (Scenes \ {"Login"}) \cup {"none"}
    BY DEF Scenes
  <2> QED
    BY <1>1, <1>2, <2>1, <2>2 DEF FieldsTyped
<1>4. Len(wire) = 0 /\ Len(receiveQueue) = 0 /\ Len(recvQueue) = 0
  BY <1>1
<1>5. Loose = 0 /\ 0 \div 2 = 0
  BY <1>4 DEF Loose
<1>6. Cut
  BY <1>4, <1>5 DEF Cut
<1>7. Total = 0
  BY <1>4, <1>5 DEF Total
<1>8. Framed /\ GameKept
  BY <1>1 DEF Framed, GameKept, Updates, NoGame
<1>9. Heading = "Login" /\ ~InRoom
  BY <1>1 DEF Heading, InRoom
<1>10. (\A t : ~Comes(t)) /\ Answers = {} /\ Coming = {} /\ Queued = {} /\ Asked = {}
  <2>1. \A t : ~Comes(t)
    BY <1>7 DEF Comes
  <2>2. Coming = {} /\ Queued = {} /\ Asked = {}
    BY <1>1, <1>7 DEF Coming, Queued, Asked
  <2> QED
    BY <2>1, <2>2 DEF Answers
<1>11. RequestsOnce /\ InOrder /\ Once /\ SpawnedOnce /\ QueuedOnce
  BY <1>1, <1>7 DEF RequestsOnce, InOrder, Once, SpawnedOnce, QueuedOnce
<1>12. Phase /\ FromRooms /\ StartTold
  BY <1>1, <1>9, <1>10 DEF Phase, FromRooms, StartTold
<1>13. Spawns /\ Complete /\ Drained
  BY <1>1, <1>10, <1>11 DEF Spawns, Complete, Drained
<1> QED
  BY <1>1, <1>3, <1>6, <1>8, <1>11, <1>12, <1>13 DEF IInv, Kept

(* What stutters changes nothing. *)
LEMMA Stutters == ASSUME IInv, UNCHANGED vars PROVE IInv'
<1>1. FieldsTyped /\ Cut
  BY DEF IInv
<1>2. /\ UNCHANGED <<wire, receiveQueue, recvQueue>>
      /\ UNCHANGED <<serverVars, toServer, mainVars, waiting>>
  BY DEF vars, pumpVars
<1>3. Cut' /\ Same
  BY <1>1, <1>2, StreamKept DEF Same
<1> QED
  BY <1>1, <1>2, <1>3, QuietStep DEF FieldsTyped

(* The inductive invariant holds: no step of the server, of the receive    *)
(* callback or of a frame breaks it.                                       *)
THEOREM Invariant == Spec => []IInv
<1>1. ASSUME IInv, [Next]_vars PROVE IInv'
  <2>1. CASE StartFrame
    BY <1>1, <2>1, StartFrameStep
  <2>2. CASE ServerConnectUpdate
    BY <1>1, <2>2, ServerConnectStep
  <2>3. CASE UnitManagerUpdate
    BY <1>1, <2>3, UnitManagerStep
  <2>4. CASE Connect \/ ReceiverStep \/ Rest
    BY <1>1, <2>4, ReceiverSteps
  <2>5. CASE Ask
    BY <1>1, <2>5, AskStep
  <2>6. CASE ServerAnswer /\ todo = {}
    BY <1>1, <2>6, LoginStep, AdmitStep, RefuseStep, PingStep, ExitIgnoredStep DEF ServerAnswer
  <2>7. CASE Exit \/ StartGame \/ ObjectAdd \/ Tell \/ TellLate \/ Move
    BY <1>1, <2>7, ExitStep, StartGameStep, ObjectAddStep, TellStep, TellLateStep, MoveStep
  <2>8. CASE UNCHANGED vars
    BY <1>1, <2>8, Stutters
  <2> QED
    BY <1>1, <2>1, <2>2, <2>3, <2>4, <2>5, <2>6, <2>7, <2>8
       DEF Next, MainStep, Between, ServerStep
<1> QED
  BY <1>1, Initially, PTL DEF Spec

(* When all packets are handled nothing is on its way. *)
LEMMA AllHandled ==
    ASSUME IInv, Handled
    PROVE  /\ Total = 0 /\ (\A t : ~Comes(t)) /\ Answers = {} /\ Coming = {}
           /\ loading = "none" /\ Heading = scene /\ FieldsTyped /\ GameKept
<1>1. /\ Len(wire) = 0 /\ Len(receiveQueue) = 0 /\ Len(recvQueue) = 0
      /\ loading = "none" /\ FieldsTyped /\ GameKept
  BY DEF Handled, IInv
<1>2. Loose = 0 /\ 0 \div 2 = 0
  BY <1>1 DEF Loose
<1>3. Total = 0
  BY <1>1, <1>2 DEF Total
<1>4. \A t : ~Comes(t)
  BY <1>3 DEF Comes
<1>5. Coming = {}
  BY <1>3 DEF Coming
<1> QED
  BY <1>1, <1>3, <1>4, <1>5 DEF Heading, Answers

(* SceneFollows: LoadScene is only called by packets, one a frame, and yet *)
(* when all are handled the scene is that of what the server thinks the    *)
(* client is doing, unless a start has been sent after an exit.            *)
THEOREM SceneTold == Spec => []SceneFollows
<1>1. ASSUME IInv PROVE SceneFollows
  <2> SUFFICES ASSUME Settled, NoneLate
               PROVE  /\ scene \in {"Login", "Matching"} <=> member = 0
                      /\ member # 0 => (scene = "Battle" <=> game.told)
    BY DEF SceneFollows
  <2>1. /\ \A t : ~Comes(t) /\ Answers = {} /\ Heading = scene /\ FieldsTyped
    BY <1>1, AllHandled DEF Settled
  <2>2. Kept /\ ~waiting
    BY <1>1 DEF IInv, Settled
  <2>3. \/ scene = "Login" /\ member = 0
        \/ scene = "Matching" /\ member = 0
        \/ InRoom /\ member # 0
    BY <2>1, <2>2 DEF Kept, Phase
  <2>4. InRoom <=> scene \in {"MatchMaking", "Battle"}
    BY <2>1 DEF InRoom
  <2>5. member # 0 => (scene = "Battle" <=> game.told)
    <3>1. ~Comes("S_GAME_START")
      BY <2>1
    <3>2. game.told \in BOOLEAN
      BY <2>1 DEF FieldsTyped
    <3> QED
      BY <2>1, <2>2, <3>1, <3>2 DEF Kept, StartTold
  <2> QED
    BY <2>3, <2>4, <2>5
<1> QED
  BY <1>1, Invariant, PTL

(* NoUnitTwice: units.Add never throws on an id in use, though spawnQueue  *)
(* outlives the scene: it is drained before the next game's first spawn.   *)
THEOREM UnitsOnce == Spec => []NoUnitTwice
<1>1. ASSUME IInv PROVE NoUnitTwice
  BY <1>1 DEF IInv, Kept, NoUnitTwice
<1> QED
  BY <1>1, Invariant, PTL

(* UnitsComplete: the client of a running game has all its units and no    *)
(* others, but for the spawns that a UnitManager without prefabs has had.  *)
THEOREM UnitsAll == Spec => []UnitsComplete
<1>1. ASSUME IInv PROVE UnitsComplete
  <2> SUFFICES ASSUME Settled, member # 0, spawnQueue = <<>>, NoneLate, Playing
               PROVE  units = ({member} \X UnitIds) \ lost
    BY DEF UnitsComplete
  <2>1. Coming = {} /\ FieldsTyped /\ GameKept
    BY <1>1, AllHandled DEF Settled
  <2>2. Kept
    BY <1>1 DEF IInv
  <2>3. Queued = {}
    BY DEF Queued
  <2>4. Numbered = UnitIds
    BY <2>1 DEF GameKept, Playing, Numbered, UnitIds
  <2>5. {x \in units \cup lost : x[1] = member} = {member} \X UnitIds
    BY <2>1, <2>2, <2>3, <2>4 DEF Kept, Complete
  <2>6. (\A x \in units : x[1] = member) /\ units \cap lost = {}
    BY <2>1, <2>2 DEF Kept, Spawns, GameKept
  <2> QED
    BY <2>5, <2>6
<1> QED
  BY <1>1, Invariant, PTL
=============================================================================
