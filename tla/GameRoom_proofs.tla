-------------------------- MODULE GameRoom_proofs --------------------------
(***************************************************************************)
(* Proofs about GameRoom, for every set of players, every map and every    *)
(* size of tile, step and cell: the walks stay on the map and come to      *)
(* their ends, the grid keeps what it covers, an id names one unit, and    *)
(* what was checked of a room and a unit still holds when a job is done,   *)
(* until the host begins to leave.                                         *)
(*                                                                         *)
(* And about GameMap, the map such a room is played on, for every pair of  *)
(* drawings: what was drawn is what the server loads, a search finds a     *)
(* shortest way whenever there is one, and the way is one on the tiles     *)
(* that the player sees.                                                   *)
(***************************************************************************)
EXTENDS GameRoom, GameMap, FiniteSetTheorems, SequenceTheorems, WellFoundedInduction, TLAPS

(***************************************************************************)
(* Induction, and definitions by recursion, over the naturals.             *)
(***************************************************************************)
(* Every set of naturals has a least one. *)
LEMMA LeastNatural == ASSUME NEW S \in SUBSET Nat, S # {}
                      PROVE  \E x \in S : \A y \in S : x <= y
<1> DEFINE R == {p \in Nat \X Nat : p[1] < p[2]}
<1>1. IsWellFoundedOn(R, Nat)
  BY NatLessThanWellFounded DEF OpToRel
<1>2. PICK x \in S : \A y \in S : <<y, x>> \notin R
  BY <1>1, WFMin
<1>3. ASSUME NEW y \in S PROVE x <= y
  <2>1. x \in Nat /\ y \in Nat /\ <<y, x>> \in Nat \X Nat
    OBVIOUS
  <2> QED
    BY <1>2, <2>1
<1> QED
  BY <1>3

(* Induction, for a set in place of a predicate. *)
LEMMA Induction ==
    ASSUME NEW P \in SUBSET Nat, 0 \in P, \A k \in P : k + 1 \in P
    PROVE  P = Nat
<1> SUFFICES ASSUME Nat \ P # {} PROVE FALSE
  OBVIOUS
<1>1. PICK x \in Nat \ P : \A y \in Nat \ P : x <= y
  BY LeastNatural
<1>2. x # 0 /\ x - 1 \in Nat /\ ~(x <= x - 1)
  OBVIOUS
<1>3. x - 1 \in P
  BY <1>1, <1>2
<1> QED
  BY <1>2, <1>3

(* A step repeated from a start defines a function of the naturals. *)
LEMMA Recursion ==
    ASSUME NEW S, NEW a \in S, NEW H \in [S -> S]
    PROVE  \E f \in [Nat -> S] : f[0] = a /\ \A k \in Nat : f[k + 1] = H[f[k]]
<1> DEFINE Upto(n) == {g \in [0..n -> S] : g[0] = a /\ \A k \in 0..(n - 1) : g[k + 1] = H[g[k]]}
<1>1. \A n \in Nat : Upto(n) # {}
  <2> DEFINE P == {n \in Nat : Upto(n) # {}}
  <2>1. 0 \in P
    <3>1. [k \in 0..0 |-> a] \in Upto(0)
      OBVIOUS
    <3> QED
      BY <3>1
  <2>2. ASSUME NEW n \in P PROVE n + 1 \in P
    <3>1. PICK g \in Upto(n) : TRUE
      OBVIOUS
    <3> DEFINE e == [k \in 0..(n + 1) |-> IF k = n + 1 THEN H[g[n]] ELSE g[k]]
    <3>2. e \in [0..(n + 1) -> S]
      OBVIOUS
    <3>3. e[0] = a
      OBVIOUS
    <3>4. ASSUME NEW k \in 0..((n + 1) - 1) PROVE e[k + 1] = H[e[k]]
      <4>1. k \in 0..n /\ e[k] = g[k]
        OBVIOUS
      <4>2. CASE k = n
        BY <4>1, <4>2
      <4>3. CASE k # n
        <5>1. k \in 0..(n - 1) /\ e[k + 1] = g[k + 1]
          BY <4>1, <4>3
        <5> QED
          BY <4>1, <5>1
      <4> QED
        BY <4>2, <4>3
    <3>5. e \in Upto(n + 1)
      BY <3>2, <3>3, <3>4
    <3> HIDE DEF e, Upto
    <3> QED
      BY <3>5
  <2> HIDE DEF P
  <2>3. P = Nat
    <3>1. P \in SUBSET Nat
      BY DEF P
    <3> QED
      BY <3>1, <2>1, <2>2, Induction
  <2> QED
    BY <2>3 DEF P
<1>2. ASSUME NEW m \in Nat, NEW n \in Nat, NEW g \in Upto(m), NEW e \in Upto(n)
      PROVE  \A k \in Nat : k <= m /\ k <= n => g[k] = e[k]
  <2> DEFINE P == {k \in Nat : k <= m /\ k <= n => g[k] = e[k]}
  <2>1. 0 \in P
    OBVIOUS
  <2>2. ASSUME NEW k \in P PROVE k + 1 \in P
    <3> SUFFICES ASSUME k + 1 <= m, k + 1 <= n PROVE g[k + 1] = e[k + 1]
      OBVIOUS
    <3>1. k \in 0..(m - 1) /\ k \in 0..(n - 1) /\ g[k] = e[k]
      OBVIOUS
    <3> QED
      BY <3>1
  <2> HIDE DEF P
  <2>3. P = Nat
    <3>1. P \in SUBSET Nat
      BY DEF P
    <3> QED
      BY <3>1, <2>1, <2>2, Induction
  <2> QED
    BY <2>3 DEF P
<1> DEFINE first(n) == CHOOSE x \in Upto(n) : TRUE
           f == [k \in Nat |-> first(k)[k]]
<1>3. \A n \in Nat : first(n) \in Upto(n)
  <2> HIDE DEF Upto
  <2> QED
    BY <1>1
<1> HIDE DEF first
<1>4. f \in [Nat -> S] /\ f[0] = a
  <2>1. \A n \in Nat : first(n) \in [0..n -> S] /\ n \in 0..n /\ first(n)[0] = a
    BY <1>3
  <2> QED
    BY <2>1
<1>5. ASSUME NEW k \in Nat PROVE f[k + 1] = H[f[k]]
  <2>1. k + 1 \in Nat /\ k <= k /\ k <= k + 1 /\ k \in 0..((k + 1) - 1)
    OBVIOUS
  <2>2. first(k) \in Upto(k) /\ first(k + 1) \in Upto(k + 1)
    BY <1>3, <2>1
  <2>3. first(k)[k] = first(k + 1)[k]
    <3> HIDE DEF Upto
    <3> QED
      BY <1>2, <2>1, <2>2
  <2>4. first(k + 1)[k + 1] = H[first(k + 1)[k]]
    BY <2>1, <2>2
  <2> QED
    BY <2>1, <2>3, <2>4
<1> HIDE DEF f
<1> QED
  BY <1>4, <1>5

(* ... and a step may depend on how far it is. *)
LEMMA RecursionAlong ==
    ASSUME NEW S, NEW a, a \in S, NEW H, H \in [Nat \X S -> S]
    PROVE  \E f \in [Nat -> S] : f[0] = a /\ \A k \in Nat : f[k + 1] = H[<<k, f[k]>>]
<1> DEFINE T == Nat \X S
           start == <<0, a>>
           J == [u \in T |-> <<u[1] + 1, H[u]>>]
<1>1. start \in T
  OBVIOUS
<1>2. \A u \in T : u[1] \in Nat /\ H[u] \in S /\ u = <<u[1], u[2]>> /\ u[2] \in S
  OBVIOUS
<1>3. J \in [T -> T]
  BY <1>2
<1>4. PICK f \in [Nat -> T] : f[0] = start /\ \A k \in Nat : f[k + 1] = J[f[k]]
  <2> HIDE DEF T, start, J
  <2> QED
    BY ONLY <1>1, <1>3, Recursion
<1>5. \A k \in Nat : f[k] \in T
  OBVIOUS
<1>6. \A k \in Nat : f[k + 1] = <<f[k][1] + 1, H[f[k]]>>
  BY <1>4, <1>5
<1> HIDE DEF T, J
<1> DEFINE P == {k \in Nat : f[k][1] = k}
<1>7. 0 \in P
  BY <1>4
<1>8. ASSUME NEW k \in P PROVE k + 1 \in P
  <2>1. k \in Nat /\ k + 1 \in Nat /\ f[k][1] = k
    OBVIOUS
  <2> HIDE DEF P
  <2>2. f[k + 1] = <<f[k][1] + 1, H[f[k]]>>
    BY <1>6, <2>1
  <2>3. f[k + 1][1] = f[k][1] + 1
    BY ONLY <2>2
  <2> QED
    BY <2>1, <2>3 DEF P
<1> HIDE DEF P
<1>9. P = Nat
  <2>1. P \in SUBSET Nat
    BY DEF P
  <2> QED
    BY <1>7, <1>8, <2>1, Induction
<1>10. \A k \in Nat : f[k][1] = k
  BY <1>9 DEF P
<1> DEFINE e == [k \in Nat |-> f[k][2]]
<1>11. e \in [Nat -> S]
  BY <1>2, <1>5
<1>12. e[0] = a
  BY <1>4
<1>13. ASSUME NEW k \in Nat PROVE e[k + 1] = H[<<k, e[k]>>]
  <2>1. f[k + 1] = <<f[k][1] + 1, H[f[k]]>>
    BY <1>6
  <2>2. f[k + 1][2] = H[f[k]]
    BY ONLY <2>1
  <2>3. f[k] = <<k, f[k][2]>>
    BY <1>2, <1>5, <1>10
  <2>4. k + 1 \in Nat
    OBVIOUS
  <2> HIDE DEF start
  <2> QED
    BY <2>2, <2>3, <2>4
<1> QED
  BY <1>11, <1>12, <1>13

(***************************************************************************)
(* Where units stand, and their walks.                                     *)
(***************************************************************************)
(* The places that truncate to a tile of the map. *)
Spots == {x \in Int : -Tile < x /\ x < Tile * Len(Heights)}

Unit == [pos : Spots, bounds : Spots \cup {0}, state : States, path : Seq(Tiles),
         goal : Tiles \cup {None}, home : Int]

(* The path goes on one tile at a time, and its first point is ahead: the  *)
(* unit has not passed it, though it has overshot the one before.          *)
Rightward(u) == /\ u.pos < u.path[1] * Tile
                /\ \A k \in 1..(Len(u.path) - 1) : u.path[k + 1] = u.path[k] + 1
Leftward(u) == /\ u.pos > u.path[1] * Tile
               /\ \A k \in 1..(Len(u.path) - 1) : u.path[k + 1] = u.path[k] - 1

OnItsWay(u) ==
    /\ u.path # <<>> => /\ (Rightward(u) \/ Leftward(u))
                        /\ u.state = "MOVE"
                        /\ u.goal = u.path[Len(u.path)]
    /\ (u.path = <<>> /\ u.goal # None) => Apart(u.pos, u.goal * Tile) <= Step

(***************************************************************************)
(* The inductive invariant.                                                *)
(***************************************************************************)
Ordered == [id : Ids, target : Clicks]
Job == [id : Ids, pos : Spots, target : Clicks]
Dealt == [to : Sessions, units : Seq(Spots)]

Starting(s) == recv[s] \in {"starting", "announcing"}
Ordering(s) == recv[s] \in {"looking", "pushing"}

RoomTyped ==
    /\ listed \in BOOLEAN /\ hasMap \in BOOLEAN
    /\ members \subseteq Sessions /\ ready \subseteq Sessions
    /\ \A s \in DOMAIN ingamePlayerIndex :
          s \in Sessions /\ ingamePlayerIndex[s] \in 0..(Cardinality(Sessions) - 1)
    /\ leave \in [Sessions -> {"no", "remove", "erase", "gone"}]
    /\ main \in {"idle", "wait", "tick"} /\ cursor \in Nat \cup {-1}
    /\ crash \in {"no", "null", "iterator"}

(* A handler that is running has something to do, of the kind it is for;   *)
(* only the host's starts games.                                           *)
HandlersTyped ==
    /\ recv \in [Sessions -> {"idle", "starting", "announcing", "looking", "pushing"}]
    /\ read \in [Sessions -> Spots \cup {0}]
    /\ known \in [Sessions -> SUBSET Ids]
    /\ DOMAIN todo = Sessions
    /\ \A s \in Sessions :
          /\ recv[s] # "idle" => todo[s] # <<>>
          /\ Starting(s) => s = Host /\ todo[s] \in Seq(Dealt)
          /\ Ordering(s) => todo[s] \in Seq(Ordered)
          /\ recv[s] = "pushing" => read[s] \in Spots
          /\ recv[s] = "announcing" => todo[s][1].units # <<>>

JobsTyped == jobs \in Seq(Job)

UnitsTyped == \A i \in DOMAIN unit : unit[i] \in Unit /\ OnItsWay(unit[i])

(* idCount runs ahead of the ids in use, except that ObjectAdd has used it *)
(* until its broadcast is sent.                                            *)
IdsFree ==
    /\ idCount \in Nat /\ DOMAIN unit = idList /\ idList \subseteq 0..idCount
    /\ doomed \subseteq idList
    /\ recv[Host] # "announcing" => idCount \notin idList

(* The ids counted so far, and those that the deal in hand has yet to      *)
(* count, are no more than the players of every start have units.          *)
PerStart == Cardinality(Sessions) * Len(Offsets)

Left == Len(todo[Host][1].units) + (Len(todo[Host]) - 1) * Len(Offsets)

IdsLeft ==
    /\ starts \in 0..MaxStarts
    /\ ~Starting(Host) => idCount <= starts * PerStart
    /\ Starting(Host) =>
         /\ \A k \in 2..Len(todo[Host]) : Len(todo[Host][k].units) = Len(Offsets)
         /\ idCount + Left <= starts * PerStart

Grid == /\ DOMAIN cell = 0..(Cells - 1)
        /\ \A c \in 0..(Cells - 1) : cell[c] \subseteq Ids
        /\ GridCovers

(* What one player knows all members know; only such units are ordered,    *)
(* have jobs and move.                                                     *)
Told == /\ \A s \in Sessions, m \in members : known[s] \subseteq known[m]
        /\ \A s \in Sessions : Ordering(s) => \A k \in 1..Len(todo[s]) : todo[s][k].id \in known[s]
        /\ \A k \in 1..Len(jobs) : \E s \in Sessions : jobs[k].id \in known[s]
        /\ \A i \in DOMAIN unit : unit[i].state = "MOVE" => \E s \in Sessions : i \in known[s]

(* Until the host begins to leave the room stays, with all its units.      *)
HostIn ==
    /\ NullOnlyAfterHost
    /\ Starting(Host) => hasMap
    /\ \A s \in Sessions : known[s] # {} => hasMap
    /\ leave[Host] = "no" =>
         /\ Host \in members /\ listed
         /\ \A s \in Sessions : leave[s] \in {"no", "gone"}
         /\ \A s \in Sessions : known[s] \subseteq idList
         /\ recv[Host] = "announcing" => idCount \in idList

IInv == /\ RoomTyped /\ HandlersTyped /\ JobsTyped /\ UnitsTyped /\ IdsFree /\ IdsLeft
        /\ Grid /\ Told /\ HostIn

USE DEF roomVars, unitVars, mainVars, recvVars, leaveVars, clientVars, packets
(* Multiplication by the length of a tile, as the solver needs to be told. *)
LEMMA Times ==
    ASSUME NEW a \in Int, NEW b \in Int, NEW c \in Nat \ {0}
    PROVE  /\ a * c \in Int /\ b * c \in Int
           /\ (a + 1) * c = a * c + c /\ (a - 1) * c = a * c - c
           /\ a < b => a * c + c <= b * c
           /\ a * c < b * c => a < b
  OBVIOUS

(* The quotient and the remainder of a division by a positive number. *)
LEMMA Division ==
    ASSUME NEW x \in Nat, NEW d \in Nat \ {0}
    PROVE  /\ x \div d \in Nat
           /\ (x \div d) * d <= x /\ x < (x \div d + 1) * d
  OBVIOUS

(* What the assumptions say of the sizes. *)
LEMMA Sizes == /\ Tile \in Nat \ {0} /\ Step \in Nat \ {0} /\ Step < Tile
               /\ Len(Heights) \in Nat \ {0} /\ Tiles \subseteq Nat
               /\ Tile * Len(Heights) = Len(Heights) * Tile
  BY SizesAssumption, MapAssumption DEF Tiles

(* A point of a path is a place on the map. *)
LEMMA SpotOfTile == ASSUME NEW t \in Tiles PROVE t * Tile \in Spots /\ t * Tile >= 0
<1>1. t \in Int /\ t >= 0 /\ t < Len(Heights)
  BY Sizes DEF Tiles
<1>2. t * Tile + Tile <= Len(Heights) * Tile /\ t * Tile \in Int
  BY <1>1, Times, Sizes
<1>3. t * Tile >= 0
  BY <1>1, Sizes
<1> QED
  BY <1>2, <1>3, Sizes DEF Spots

(* A place that truncates to a tile is in it, or left of the map by less   *)
(* than a tile.                                                            *)
LEMMA TileOfSpot ==
    ASSUME NEW x \in Spots
    PROVE  /\ TileAt(x) \in Tiles /\ x < (TileAt(x) + 1) * Tile
           /\ TileAt(x) > 0 => TileAt(x) * Tile <= x
<1> DEFINE q == x \div Tile
<1>0. x \in Int /\ -Tile < x /\ x < Len(Heights) * Tile
  BY Sizes DEF Spots
<1>1. CASE x >= 0
  <2>1. q \in Nat /\ q * Tile <= x /\ x < (q + 1) * Tile
    BY <1>0, <1>1, Division, Sizes
  <2>2. q < Len(Heights)
    BY <1>0, <2>1, Times, Sizes
  <2>3. TileAt(x) = q
    BY <1>1 DEF TileAt, Trunc
  <2> QED
    BY <2>1, <2>2, <2>3, Sizes DEF Tiles
<1>2. CASE x < 0
  <2> DEFINE p == (-x) \div Tile
  <2>1. p \in Nat /\ p * Tile <= -x /\ -x < Tile
    BY <1>0, <1>2, Division, Sizes
  <2>2. p = 0
    BY <1>0, <2>1, Times, Sizes
  <2>3. TileAt(x) = 0
    BY <1>0, <1>2, <2>2 DEF TileAt, Trunc
  <2> QED
    BY <1>0, <1>2, <2>3, Sizes DEF Tiles
<1> QED
  BY <1>0, <1>1, <1>2

(* A job puts a unit on a way that begins ahead of where it puts it. *)
LEMMA SetMoveOnItsWay ==
    ASSUME NEW u \in Unit, NEW x \in Spots, NEW target \in Clicks,
           NEW w, w = SetMove(u, x, target)
    PROVE  w \in Unit /\ OnItsWay(w) /\ w.home = u.home /\ w.bounds = u.bounds
<1>1. PICK a : a = TileAt(x)
  OBVIOUS
<1>2. PICK b : b = TileAt(target)
  OBVIOUS
<1>3. a \in Tiles /\ a \in Nat /\ x \in Int /\ x < (a + 1) * Tile /\ (a > 0 => a * Tile <= x)
  BY <1>1, TileOfSpot, Sizes DEF Spots
<1>4. b \in Int
  BY <1>2, ClicksAssumption, Division, Sizes DEF TileAt, Trunc
<1>5. CASE x # target /\ HasPath(a, b) /\ a # b
  <2>1. PICK p : p = Walk(a, b)
    OBVIOUS
  <2>2. PICK n : n = Apart(a, b)
    OBVIOUS
  <2>3. n \in Nat \ {0}
    BY <1>3, <1>4, <1>5, <2>2 DEF Apart
  <2>4. \A k \in 1..n : p[k] \in Tiles /\ p[k] = IF b > a THEN a + k ELSE a - k
    BY <1>5, <2>1, <2>2 DEF HasPath, CanMove, Walk
  <2>5. p \in Seq(Tiles) /\ Len(p) = n /\ p # <<>>
    BY <2>1, <2>2, <2>3, <2>4 DEF Walk
  <2>6. p[n] = b
    BY <1>3, <1>4, <2>2, <2>3, <2>4 DEF Apart
  <2>7. b \in Tiles /\ b \in Nat
    <3>1. n \in 1..n
      BY <2>3
    <3> QED
      BY <2>4, <2>6, <3>1, Sizes
  <2>8. w = [u EXCEPT !.pos = x, !.state = "MOVE", !.path = p, !.goal = b]
    BY <1>1, <1>2, <1>5, <2>1 DEF SetMove
  <2>9. w \in Unit /\ w.pos = x /\ w.state = "MOVE" /\ w.path = p /\ w.goal = b
        /\ w.home = u.home /\ w.bounds = u.bounds
    BY <2>5, <2>7, <2>8 DEF Unit, States
  <2>10. CASE b > a
    <3>1. p[1] = a + 1 /\ \A k \in 1..(n - 1) : p[k + 1] = p[k] + 1
      BY <1>3, <2>3, <2>4, <2>10
    <3>2. Rightward(w)
      BY <1>3, <2>5, <2>9, <3>1 DEF Rightward
    <3> QED
      BY <2>5, <2>6, <2>9, <3>2 DEF OnItsWay
  <2>11. CASE b < a
    <3>1. p[1] = a - 1 /\ \A k \in 1..(n - 1) : p[k + 1] = p[k] - 1
      BY <1>3, <1>4, <2>3, <2>4, <2>11
    <3>2. a > 0 /\ a * Tile \in Int /\ (a - 1) * Tile = a * Tile - Tile
      BY <1>3, <2>7, <2>11, Times, Sizes
    <3>3. w.pos > w.path[1] * Tile
      BY <1>3, <2>9, <3>1, <3>2, Sizes
    <3>4. Leftward(w)
      BY <2>5, <2>9, <3>1, <3>3 DEF Leftward
    <3> QED
      BY <2>5, <2>6, <2>9, <3>4 DEF OnItsWay
  <2> QED
    BY <1>3, <1>4, <1>5, <2>9, <2>10, <2>11
<1>6. CASE ~(x # target /\ HasPath(a, b) /\ a # b)
  <2>1. PICK st \in States : w = [u EXCEPT !.pos = x, !.state = st, !.path = <<>>, !.goal = None]
    <3>1. CASE x # target /\ HasPath(a, b)
      <4>1. a = b /\ Walk(a, b) = <<>>
        BY <1>3, <1>6, <3>1 DEF Walk, Apart
      <4> QED
        BY <1>1, <1>2, <3>1, <4>1 DEF SetMove, States
    <3>2. CASE ~(x # target /\ HasPath(a, b))
      BY <1>1, <1>2, <3>2 DEF SetMove, States
    <3> QED
      BY <3>1, <3>2
  <2>2. <<>> \in Seq(Tiles)
    OBVIOUS
  <2>3. w \in Unit /\ w.path = <<>> /\ w.goal = None /\ w.home = u.home /\ w.bounds = u.bounds
    BY <2>1, <2>2 DEF Unit
  <2> QED
    BY <2>3 DEF OnItsWay
<1> QED
  BY <1>5, <1>6

(* When a step overshoots a point of the path the next one is still ahead, *)
(* for a step is shorter than a tile.                                      *)
LEMMA MovedOnItsWay ==
    ASSUME NEW u \in Unit, OnItsWay(u), u.path # <<>>, NEW w, w = Moved(u)
    PROVE  w \in Unit /\ OnItsWay(w) /\ w.home = u.home
<1>0. PICK p \in Seq(Tiles) : p = u.path
  BY DEF Unit
<1>1. PICK n : n = p[1]
  OBVIOUS
<1>2. PICK next : next = n * Tile
  OBVIOUS
<1>4. /\ u.pos \in Int /\ -Tile < u.pos /\ u.pos < Len(Heights) * Tile
      /\ p \in Seq(Tiles) /\ Len(p) \in Nat \ {0} /\ Head(p) = n /\ n \in Tiles
  <2>1. u.pos \in Spots /\ p # <<>>
    BY <1>0 DEF Unit
  <2>2. Len(p) \in Nat \ {0} /\ Head(p) = n /\ n \in Tiles
    BY <1>1, <2>1
  <2> QED
    BY <2>1, <2>2, Sizes DEF Spots
<1>3. /\ n \in Int /\ next \in Int /\ next >= 0 /\ next + Tile <= Len(Heights) * Tile
      /\ (n + 1) * Tile = next + Tile /\ (n - 1) * Tile = next - Tile
  <2>1. n \in Int /\ n < Len(Heights)
    BY <1>4, Sizes DEF Tiles
  <2>2. n * Tile >= 0
    BY <1>4, SpotOfTile
  <2>3. n * Tile \in Int /\ n * Tile + Tile <= Len(Heights) * Tile
    BY <2>1, Times, Sizes
  <2>4. (n + 1) * Tile = n * Tile + Tile /\ (n - 1) * Tile = n * Tile - Tile
    BY <2>1, Times, Sizes
  <2> QED
    BY <1>2, <2>1, <2>2, <2>3, <2>4
<1>5. /\ Tail(p) \in Seq(Tiles) /\ Len(Tail(p)) = Len(p) - 1
      /\ \A k \in 1..(Len(p) - 1) : Tail(p)[k] = p[k + 1]
      /\ Len(p) <= 1 => Len(p) = 1 /\ Tail(p) = <<>>
  <2>1. /\ Tail(p) \in Seq(Tiles) /\ Len(Tail(p)) = Len(p) - 1
        /\ \A k \in 1..(Len(p) - 1) : Tail(p)[k] = p[k + 1]
    BY <1>4
  <2>2. \A q \in Seq(Tiles) : q # <<>> => Len(q) # 0
    BY EmptySeq
  <2>3. Len(p) <= 1 => Len(p) = 1 /\ Len(Tail(p)) = 0
    BY <1>4, <2>1
  <2> QED
    BY <2>1, <2>2, <2>3
<1>9. p \in Seq(Tiles) /\ Len(p) \in Nat \ {0} /\ Head(p) = n
  BY <1>4
<1>10. u.pos \in Int
  BY <1>4
<1>11. next \in Int /\ Step \in Nat /\ Tile \in Nat /\ Step < Tile
  BY <1>3, Sizes
<1>12. \A x \in Int : ((u.pos <= x /\ x <= next) \/ (next <= x /\ x <= u.pos)) => x \in Spots
  BY <1>3, <1>4, Sizes DEF Spots
<1>6. u.state = "MOVE" /\ u.goal = p[Len(p)]
  BY <1>0 DEF OnItsWay
<1>7. CASE Rightward(u)
  <2>1. u.pos < next /\ \A k \in 1..(Len(p) - 1) : p[k + 1] = p[k] + 1
    BY <1>0, <1>1, <1>2, <1>7 DEF Rightward
  <2>4. next > u.pos
    BY <1>10, <1>11, <2>1
  <2>2. CASE Step >= Apart(next, u.pos)
    <3>1. next + Step \in Spots
      BY <1>3, Sizes DEF Spots
    <3>2. w = [u EXCEPT !.pos = next + Step, !.bounds = next + Step, !.path = Tail(p)]
      BY <1>0, <1>2, <1>9, <2>2, <2>4 DEF Moved
    <3>3. w \in Unit /\ w.pos = next + Step /\ w.path = Tail(p)
          /\ w.home = u.home /\ w.state = u.state /\ w.goal = u.goal
      BY <1>5, <3>1, <3>2 DEF Unit
    <3>4. CASE Len(p) <= 1
      <4>1. w.path = <<>> /\ w.goal = n
        BY <1>1, <1>4, <1>5, <1>6, <3>3, <3>4
      <4>2. Apart(w.pos, w.goal * Tile) <= Step
        BY <1>2, <1>3, <3>3, <4>1, Sizes DEF Apart
      <4> QED
        BY <1>6, <3>3, <4>1, <4>2 DEF OnItsWay
    <3>5. CASE Len(p) > 1
      <4>1. /\ Len(w.path) = Len(p) - 1 /\ w.path # <<>>
            /\ w.path[1] = n + 1 /\ w.path[Len(w.path)] = w.goal
            /\ \A k \in 1..(Len(w.path) - 1) : w.path[k + 1] = w.path[k] + 1
        <5>1. /\ Len(p) - 1 \in 1..(Len(p) - 1)
              /\ 1 \in 1..(Len(p) - 1) /\ 1 \in 1..Len(p)
          BY <1>9, <3>5
        <5>2. Len(w.path) = Len(p) - 1 /\ w.path[1] = n + 1
          BY <1>1, <1>5, <2>1, <3>3, <5>1
        <5>3. w.path[Len(w.path)] = w.goal
          BY <1>4, <1>5, <1>6, <3>3, <5>1
        <5>4. \A k \in 1..(Len(w.path) - 1) : w.path[k + 1] = w.path[k] + 1
          BY <1>4, <1>5, <2>1, <3>3, <5>2
        <5>5. w.path # <<>>
          BY <1>9, <3>5, <5>2
        <5> QED
          BY <5>2, <5>3, <5>4, <5>5
      <4>2. w.path[1] * Tile = next + Tile
        BY <1>3, <4>1
      <4>3. Rightward(w)
        <5>1. next + Step < next + Tile
          BY <1>11
        <5>2. w.pos < w.path[1] * Tile
          BY <3>3, <4>2, <5>1, Zenon
        <5> QED
          BY <4>1, <5>2 DEF Rightward
      <4> QED
        BY <1>6, <3>3, <4>1, <4>3 DEF OnItsWay
    <3>6. Len(p) <= 1 \/ Len(p) > 1
      BY <1>9
    <3> QED
      BY <3>4, <3>5, <3>6
  <2>3. CASE ~(Step >= Apart(next, u.pos))
    <3>1. u.pos + Step < next /\ u.pos + Step \in Spots
      BY <1>10, <1>11, <1>12, <2>1, <2>3 DEF Apart
    <3>2. w = [u EXCEPT !.pos = u.pos + Step, !.bounds = u.pos + Step, !.path = p]
      BY <1>0, <1>2, <1>9, <2>3, <2>4 DEF Moved
    <3>3. w \in Unit /\ w.pos = u.pos + Step /\ w.path = p
          /\ w.home = u.home /\ w.state = u.state /\ w.goal = u.goal
      BY <1>9, <3>1, <3>2 DEF Unit
    <3>4. Rightward(w)
      BY <1>1, <1>2, <2>1, <3>1, <3>3 DEF Rightward
    <3> QED
      BY <1>0, <1>6, <3>3, <3>4 DEF OnItsWay
  <2> QED
    BY <2>2, <2>3
<1>8. CASE Leftward(u)
  <2>1. u.pos > next /\ \A k \in 1..(Len(p) - 1) : p[k + 1] = p[k] - 1
    BY <1>0, <1>1, <1>2, <1>8 DEF Leftward
  <2>4. ~(next > u.pos)
    BY <1>10, <1>11, <2>1
  <2>2. CASE Step >= Apart(next, u.pos)
    <3>1. next + -Step \in Spots
      BY <1>3, Sizes DEF Spots
    <3>2. w = [u EXCEPT !.pos = next + -Step, !.bounds = next + -Step, !.path = Tail(p)]
      BY <1>0, <1>2, <1>9, <2>2, <2>4 DEF Moved
    <3>3. w \in Unit /\ w.pos = next + -Step /\ w.path = Tail(p)
          /\ w.home = u.home /\ w.state = u.state /\ w.goal = u.goal
      BY <1>5, <3>1, <3>2 DEF Unit
    <3>4. CASE Len(p) <= 1
      <4>1. w.path = <<>> /\ w.goal = n
        BY <1>1, <1>4, <1>5, <1>6, <3>3, <3>4
      <4>2. Apart(w.pos, w.goal * Tile) <= Step
        BY <1>2, <1>3, <3>3, <4>1, Sizes DEF Apart
      <4> QED
        BY <1>6, <3>3, <4>1, <4>2 DEF OnItsWay
    <3>5. CASE Len(p) > 1
      <4>1. /\ Len(w.path) = Len(p) - 1 /\ w.path # <<>>
            /\ w.path[1] = n - 1 /\ w.path[Len(w.path)] = w.goal
            /\ \A k \in 1..(Len(w.path) - 1) : w.path[k + 1] = w.path[k] - 1
        <5>1. /\ Len(p) - 1 \in 1..(Len(p) - 1)
              /\ 1 \in 1..(Len(p) - 1) /\ 1 \in 1..Len(p)
          BY <1>9, <3>5
        <5>2. Len(w.path) = Len(p) - 1 /\ w.path[1] = n - 1
          BY <1>1, <1>5, <2>1, <3>3, <5>1
        <5>3. w.path[Len(w.path)] = w.goal
          BY <1>4, <1>5, <1>6, <3>3, <5>1
        <5>4. \A k \in 1..(Len(w.path) - 1) : w.path[k + 1] = w.path[k] - 1
          BY <1>4, <1>5, <2>1, <3>3, <5>2
        <5>5. w.path # <<>>
          BY <1>9, <3>5, <5>2
        <5> QED
          BY <5>2, <5>3, <5>4, <5>5
      <4>2. w.path[1] * Tile = next - Tile
        BY <1>3, <4>1
      <4>3. Leftward(w)
        <5>1. next + -Step > next - Tile
          BY <1>11
        <5>2. w.pos > w.path[1] * Tile
          BY <3>3, <4>2, <5>1, Zenon
        <5> QED
          BY <4>1, <5>2 DEF Leftward
      <4> QED
        BY <1>6, <3>3, <4>1, <4>3 DEF OnItsWay
    <3>6. Len(p) <= 1 \/ Len(p) > 1
      BY <1>9
    <3> QED
      BY <3>4, <3>5, <3>6
  <2>3. CASE ~(Step >= Apart(next, u.pos))
    <3>1. u.pos + -Step > next /\ u.pos + -Step \in Spots
      BY <1>10, <1>11, <1>12, <2>1, <2>3 DEF Apart
    <3>2. w = [u EXCEPT !.pos = u.pos + -Step, !.bounds = u.pos + -Step, !.path = p]
      BY <1>0, <1>2, <1>9, <2>3, <2>4 DEF Moved
    <3>3. w \in Unit /\ w.pos = u.pos + -Step /\ w.path = p
          /\ w.home = u.home /\ w.state = u.state /\ w.goal = u.goal
      BY <1>9, <3>1, <3>2 DEF Unit
    <3>4. Leftward(w)
      BY <1>1, <1>2, <2>1, <3>1, <3>3 DEF Leftward
    <3> QED
      BY <1>0, <1>6, <3>3, <3>4 DEF OnItsWay
  <2> QED
    BY <2>2, <2>3
<1> QED
  BY <1>7, <1>8 DEF OnItsWay

(* A tick of a unit, whether or not it walks. *)
LEMMA UpdatedOnItsWay ==
    ASSUME NEW u \in Unit, OnItsWay(u), NEW w, w = Updated(u)
    PROVE  /\ w \in Unit /\ OnItsWay(w) /\ w.home = u.home
           /\ w.state = "MOVE" => u.state = "MOVE"
<1>1. CASE u.state # "MOVE"
  BY <1>1 DEF Updated
<1>2. CASE u.state = "MOVE" /\ u.path = <<>>
  BY <1>2 DEF Updated, Unit, OnItsWay, States
<1>3. CASE u.state = "MOVE" /\ u.path # <<>>
  BY <1>3, MovedOnItsWay DEF Updated
<1> QED
  BY <1>1, <1>2, <1>3

(* Min picks the least of some naturals. *)
LEMMA MinLeast == ASSUME NEW S \in SUBSET Nat, S # {}
                  PROVE  Min(S) \in S /\ \A y \in S : Min(S) <= y
  BY LeastNatural DEF Min

(* What the assumptions say of the numbers. *)
LEMMA Numbers ==
    /\ Cardinality(Sessions) \in Nat /\ Len(Offsets) \in Nat /\ PerStart \in Nat
    /\ MaxStarts \in Nat /\ MaxUnits = MaxStarts * PerStart /\ MaxUnits \in Nat
    /\ Ids \subseteq Nat
<1>1. Cardinality(Sessions) \in Nat /\ Len(Offsets) \in Nat /\ MaxStarts \in Nat
  BY SessionsAssumption, MapAssumption, BoundsAssumption, FS_CardinalityType
<1>2. PerStart \in Nat
  BY <1>1 DEF PerStart
<1> QED
  BY <1>1, <1>2 DEF PerStart, MaxUnits, Ids

(* A product grows with its factor, and one factor at a time. *)
LEMMA Product == ASSUME NEW a \in Nat, NEW b \in Nat, NEW c \in Nat, a <= b
                 PROVE  a * c \in Nat /\ a * c <= b * c /\ (a + 1) * c = a * c + c
  OBVIOUS

(* All ids in use are below the bound. *)
LEMMA IdsBound ==
    ASSUME HandlersTyped, IdsFree, IdsLeft
    PROVE  /\ idCount \in 0..MaxUnits /\ idList \subseteq Ids /\ doomed \subseteq Ids
           /\ recv[Host] = "announcing" => idCount \in Ids
<1>1. starts * PerStart \in Nat /\ starts * PerStart <= MaxUnits
  BY Numbers, Product DEF IdsLeft
<1>2. idCount \in Nat /\ idList \subseteq 0..idCount /\ (recv[Host] # "announcing" => idCount \notin idList)
  BY DEF IdsFree
<1>3. CASE ~Starting(Host)
  <2>1. idCount <= MaxUnits
    BY <1>1, <1>2, <1>3, Numbers DEF IdsLeft
  <2>2. recv[Host] # "announcing"
    BY <1>3 DEF Starting
  <2> QED
    BY <1>2, <2>1, <2>2, Numbers DEF Ids, IdsFree
<1>4. CASE Starting(Host)
  <2>1. PICK deal \in Seq(Dealt) : deal = todo[Host] /\ deal # <<>>
    BY <1>4, SessionsAssumption DEF HandlersTyped, Starting
  <2>2. Len(deal) \in Nat /\ Len(deal) >= 1 /\ deal[1] \in Dealt
    BY <2>1
  <2>3. Len(deal[1].units) \in Nat /\ (deal[1].units # <<>> => Len(deal[1].units) > 0)
    BY <2>2 DEF Dealt
  <2>4. (Len(deal) - 1) * Len(Offsets) \in Nat
    BY <2>2, Numbers, Product
  <2>5. idCount + (Len(deal[1].units) + (Len(deal) - 1) * Len(Offsets)) <= starts * PerStart
    BY <1>4, <2>1 DEF IdsLeft, Left
  <2>6. recv[Host] = "announcing" => deal[1].units # <<>>
    BY <2>1, SessionsAssumption DEF HandlersTyped
  <2>7. idCount + Len(deal[1].units) <= MaxUnits
    <3>1. PICK x \in Nat, y \in Nat : x = Len(deal[1].units) /\ y = (Len(deal) - 1) * Len(Offsets)
      BY <2>3, <2>4
    <3>2. PICK z \in Nat : z = starts * PerStart /\ z <= MaxUnits
      BY <1>1
    <3>3. idCount + (x + y) <= z
      BY <2>5, <3>1, <3>2, Zenon
    <3>4. MaxUnits \in Nat
      BY Numbers
    <3>5. idCount + x <= MaxUnits
      BY <1>2, <3>2, <3>3, <3>4
    <3> QED
      BY <3>1, <3>5
  <2>8. idCount <= MaxUnits /\ (recv[Host] = "announcing" => idCount < MaxUnits)
    BY <1>2, <2>3, <2>6, <2>7, Numbers
  <2> QED
    BY <1>2, <2>8, Numbers DEF Ids, IdsFree
<1> QED
  BY <1>3, <1>4

(* The next free id. *)
LEMMA NextId ==
    ASSUME NEW a \in Nat, NEW L \in SUBSET (0..a)
    PROVE  Min({n \in a..(a + Cardinality(L)) : n \notin L}) = IF a \in L THEN a + 1 ELSE a
<1> DEFINE S == {n \in a..(a + Cardinality(L)) : n \notin L}
<1>1. IsFiniteSet(L) /\ Cardinality(L) \in Nat
  <2>1. IsFiniteSet(0..a)
    BY FS_Interval
  <2> QED
    BY <2>1, FS_Subset, FS_CardinalityType
<1>2. S \in SUBSET Nat
  BY <1>1
<1>3. CASE a \in L
  <2>1. Cardinality(L) >= 1
    BY <1>1, <1>3, FS_EmptySet
  <2>2. a + 1 \in S /\ \A n \in S : n >= a + 1
    BY <1>1, <1>3, <2>1
  <2> QED
    BY <1>2, <1>3, <2>2, MinLeast
<1>4. CASE a \notin L
  <2>1. a \in S /\ \A n \in S : n >= a
    BY <1>1, <1>4
  <2> QED
    BY <1>2, <1>4, <2>1, MinLeast
<1> QED
  BY <1>3, <1>4

(***************************************************************************)
(* Deals.                                                                  *)
(***************************************************************************)
LEMMA NumberedTyped ==
    ASSUME RoomTyped
    PROVE  LET numbers == Numbered(ingamePlayerIndex, members)
           IN  /\ DOMAIN numbers = DOMAIN ingamePlayerIndex \cup members
               /\ \A s \in DOMAIN numbers :
                     s \in Sessions /\ numbers[s] \in 0..(Cardinality(Sessions) - 1)
<1> DEFINE Under(s) == {t \in members : Before(t, s)}
<1>1. ASSUME NEW s \in members PROVE Cardinality(Under(s)) \in 0..(Cardinality(Sessions) - 1)
  <2>1. s \in Sessions /\ Under(s) \subseteq Sessions
    BY DEF RoomTyped
  <2>2. s \notin Under(s)
    BY SessionsAssumption DEF Before, SetToSeqs
  <2>3. IsFiniteSet(Under(s)) /\ Cardinality(Under(s)) \in Nat
    BY <2>1, SessionsAssumption, FS_Subset, FS_CardinalityType
  <2>4. Cardinality(Under(s)) <= Cardinality(Sessions) /\ Cardinality(Under(s)) # Cardinality(Sessions)
    BY <2>1, <2>2, SessionsAssumption, FS_Subset
  <2> QED
    BY <2>3, <2>4, Numbers
<1> QED
  BY <1>1 DEF Numbered, RoomTyped

(* Room::StartGame deals to each player as many units as there are offsets. *)
LEMMA DealTyped ==
    ASSUME NEW numbers, DOMAIN numbers \subseteq Sessions, DOMAIN numbers # {},
           \A s \in DOMAIN numbers : numbers[s] \in 0..(Cardinality(Sessions) - 1),
           NEW deal \in Deals(numbers)
    PROVE  /\ deal \in Seq(Dealt) /\ deal # <<>> /\ Len(deal) \in 1..Cardinality(Sessions)
           /\ \A k \in 1..Len(deal) : Len(deal[k].units) = Len(Offsets)
<1>1. PICK order \in InOrder(DOMAIN numbers), start \in Injection(0..(Cardinality(Sessions) - 1), Starts) :
         deal = [k \in DOMAIN order |->
                   [to |-> order[k],
                    units |-> [i \in DOMAIN Offsets |-> (start[numbers[order[k]]] + Offsets[i]) * Tile]]]
  BY DEF Deals
<1>2. PICK n : n = Cardinality(DOMAIN numbers)
  OBVIOUS
<1>3. n \in 1..Cardinality(Sessions)
  BY <1>2, SessionsAssumption, FS_Subset, FS_CardinalityType, FS_EmptySet, Numbers
<1>4. order \in [1..n -> DOMAIN numbers]
  BY <1>1, <1>2 DEF InOrder, SetToSeqs
<1>5. ASSUME NEW k \in 1..n
      PROVE  deal[k] \in Dealt /\ Len(deal[k].units) = Len(Offsets)
  <2>1. PICK t \in Starts : t = start[numbers[order[k]]]
    BY <1>4 DEF Injection
  <2>2. \A i \in DOMAIN Offsets : (t + Offsets[i]) * Tile \in Spots
    BY StartsAssumption, SpotOfTile
  <2>3. PICK us : us = [i \in DOMAIN Offsets |-> (t + Offsets[i]) * Tile]
    OBVIOUS
  <2>4. us \in Seq(Spots) /\ Len(us) = Len(Offsets)
    BY <2>2, <2>3, MapAssumption
  <2>5. deal[k] = [to |-> order[k], units |-> us]
    BY <1>1, <1>4, <2>1, <2>3
  <2> QED
    BY <1>4, <2>4, <2>5 DEF Dealt
<1>6. DOMAIN deal = 1..n /\ deal \in [1..n -> Dealt]
  BY <1>1, <1>4, <1>5
<1>7. deal \in Seq(Dealt) /\ Len(deal) = n
  BY <1>3, <1>6
<1>8. deal # <<>>
  BY <1>3, <1>7
<1> QED
  BY <1>3, <1>5, <1>7, <1>8

(***************************************************************************)
(* The main thread.                                                        *)
(***************************************************************************)
LEMMA MainKeeps ==
    ASSUME IInv, TakeRoom \/ NoRoomToTick \/ LockRoom \/ IteratorLost \/ UnlockRoom \/ UNCHANGED vars
    PROVE  IInv'
<1>1. /\ UNCHANGED <<roomVars, unitVars, jobs, cell, recvVars, leaveVars, clientVars, packets>>
      /\ crash' \in {crash, "iterator"}
  BY DEF TakeRoom, NoRoomToTick, LockRoom, IteratorLost, UnlockRoom, vars
<1>2. main' \in {"idle", "wait", "tick"} /\ cursor' \in Nat \cup {-1}
  BY DEF IInv, RoomTyped, TakeRoom, NoRoomToTick, LockRoom, IteratorLost, UnlockRoom, vars
<1>3. RoomTyped'
  BY <1>1, <1>2 DEF IInv, RoomTyped
<1>4. HandlersTyped' /\ JobsTyped' /\ UnitsTyped'
  BY <1>1 DEF IInv, HandlersTyped, JobsTyped, UnitsTyped, Starting, Ordering
<1>5. IdsFree' /\ IdsLeft'
  BY <1>1 DEF IInv, IdsFree, IdsLeft, Left, Starting
<1>6. Grid' /\ Told' /\ HostIn'
  BY <1>1 DEF IInv, Grid, GridCovers, Told, HostIn, NullOnlyAfterHost, Starting, Ordering
<1> QED
  BY <1>3, <1>4, <1>5, <1>6 DEF IInv

(* The job of a unit that all members know finds the unit, as long as the  *)
(* host has not left.                                                      *)
LEMMA ProcessJobKeeps == ASSUME IInv, ProcessJob PROVE IInv'
<1>1. /\ UNCHANGED <<roomVars, idList, idCount, cell, mainVars, recvVars, leaveVars, clientVars, packets>>
      /\ jobs # <<>> /\ jobs' = Tail(jobs)
  BY DEF ProcessJob
<1>2. PICK j \in Job : j = Head(jobs) /\ j = jobs[1]
  BY <1>1 DEF IInv, JobsTyped
<1>3. PICK s \in Sessions : j.id \in known[s]
  BY <1>1, <1>2 DEF IInv, JobsTyped, Told
<1>4. JobsTyped'
  BY <1>1 DEF IInv, JobsTyped
<1>5. \A k \in 1..Len(jobs') : \E r \in Sessions : jobs'[k].id \in known[r]
  BY <1>1 DEF IInv, JobsTyped, Told
<1>6. HandlersTyped' /\ IdsLeft'
  BY <1>1 DEF IInv, HandlersTyped, IdsLeft, Left, Starting, Ordering
<1>7. CASE j.id \in DOMAIN unit /\ hasMap
  <2>1. PICK w : w = SetMove(unit[j.id], j.pos, j.target)
    OBVIOUS
  <2>2. unit' = [unit EXCEPT ![j.id] = w] /\ crash' = crash
    BY <1>2, <1>7, <2>1 DEF ProcessJob
  <2>3. w \in Unit /\ OnItsWay(w) /\ w.bounds = unit[j.id].bounds
    BY <1>2, <1>7, <2>1, SetMoveOnItsWay DEF IInv, UnitsTyped, Job
  <2>4. UnitsTyped'
    BY <2>2, <2>3 DEF IInv, UnitsTyped
  <2>5. DOMAIN unit' = DOMAIN unit /\ \A i \in DOMAIN unit : unit'[i].bounds = unit[i].bounds
    BY <2>2, <2>3
  <2>6. IdsFree' /\ Grid'
    BY <1>1, <2>5 DEF IInv, IdsFree, Grid, GridCovers
  <2>7. \A i \in DOMAIN unit' : unit'[i].state = "MOVE" => \E r \in Sessions : i \in known[r]
    BY <1>3, <2>2 DEF IInv, Told
  <2>8. Told'
    BY <1>1, <1>5, <2>7 DEF IInv, Told, Ordering
  <2>9. RoomTyped' /\ HostIn'
    BY <1>1, <2>2 DEF IInv, RoomTyped, HostIn, NullOnlyAfterHost, Starting
  <2> QED
    BY <1>4, <1>6, <2>4, <2>6, <2>8, <2>9 DEF IInv
<1>8. CASE ~(j.id \in DOMAIN unit /\ hasMap)
  <2>1. unit' = unit /\ crash' = "null"
    BY <1>2, <1>8 DEF ProcessJob
  <2>2. leave[Host] # "no"
    BY <1>3, <1>8 DEF IInv, HostIn, IdsFree
  <2>3. RoomTyped' /\ HostIn'
    BY <1>1, <2>1, <2>2 DEF IInv, RoomTyped, HostIn, NullOnlyAfterHost, Starting
  <2>4. UnitsTyped' /\ IdsFree' /\ Grid'
    BY <1>1, <2>1 DEF IInv, UnitsTyped, IdsFree, Grid, GridCovers
  <2>5. Told'
    BY <1>1, <1>5, <2>1 DEF IInv, Told, Ordering
  <2> QED
    BY <1>4, <1>6, <2>3, <2>4, <2>5 DEF IInv
<1> QED
  BY <1>7, <1>8

(* MoveObject leaves a unit in each cell that it covers now. *)
LEMMA MoveObjectLists ==
    ASSUME NEW grid, NEW i, NEW x, NEW c \in DOMAIN grid
    PROVE  /\ MoveObject(grid, i, x)[c] \subseteq grid[c] \cup {i}
           /\ grid[c] \ {i} \subseteq MoveObject(grid, i, x)[c]
           /\ c \in Overlap(x) => i \in MoveObject(grid, i, x)[c]
           /\ DOMAIN MoveObject(grid, i, x) = DOMAIN grid
  BY DEF MoveObject, List, Unlist

(* Room::Update: the tick of one unit. *)
LEMMA UpdateUnitKeeps == ASSUME IInv, UpdateUnit PROVE IInv'
<1>1. /\ UNCHANGED <<roomVars, idList, idCount, jobs, main, recvVars, leaveVars, clientVars, packets, crash>>
      /\ Ahead # {}
  BY DEF UpdateUnit
<1>2. PICK i \in DOMAIN unit : i = Min(Ahead) /\ i \in Ids /\ i \in Nat
  <2>1. DOMAIN unit \subseteq Ids
    BY IdsBound DEF IInv, IdsFree
  <2>2. Ahead \in SUBSET Nat
    BY <2>1, Numbers DEF Ahead
  <2> QED
    BY <1>1, <2>1, <2>2, MinLeast DEF Ahead
<1>3. PICK w : w = Updated(unit[i])
  OBVIOUS
<1>4. /\ cursor' = i /\ unit' = [unit EXCEPT ![i] = w]
      /\ cell' = MoveObject(cell, i, w.bounds)
  BY <1>2, <1>3 DEF UpdateUnit
<1>5. w \in Unit /\ OnItsWay(w) /\ (w.state = "MOVE" => unit[i].state = "MOVE")
  BY <1>3, UpdatedOnItsWay DEF IInv, UnitsTyped
<1>6. RoomTyped'
  BY <1>1, <1>2, <1>4 DEF IInv, RoomTyped
<1>7. HandlersTyped' /\ JobsTyped' /\ IdsLeft'
  BY <1>1 DEF IInv, HandlersTyped, JobsTyped, IdsLeft, Left, Starting, Ordering
<1>8. UnitsTyped' /\ IdsFree'
  BY <1>1, <1>4, <1>5 DEF IInv, UnitsTyped, IdsFree
<1>9. Grid'
  <2>1. \A c \in DOMAIN cell : /\ cell'[c] \subseteq cell[c] \cup {i}
                               /\ cell[c] \ {i} \subseteq cell'[c]
                               /\ c \in Overlap(w.bounds) => i \in cell'[c]
    BY <1>4, MoveObjectLists
  <2>2. DOMAIN cell' = 0..(Cells - 1) /\ DOMAIN cell = 0..(Cells - 1)
    BY <1>4 DEF IInv, Grid, MoveObject, List, Unlist
  <2>3. \A c \in 0..(Cells - 1) : cell'[c] \subseteq Ids
    BY <1>2, <2>1, <2>2 DEF IInv, Grid
  <2>4. \A x : Overlap(x) \subseteq 0..(Cells - 1)
    BY DEF Overlap
  <2>5. ASSUME NEW k \in DOMAIN unit', unit'[k].bounds # 0, NEW c \in Overlap(unit'[k].bounds)
        PROVE  k \in cell'[c]
    <3>1. c \in DOMAIN cell
      BY <2>2, <2>4, <2>5
    <3>2. CASE k = i
      BY <1>4, <2>1, <2>5, <3>1, <3>2
    <3>3. CASE k # i
      <4>1. k \in DOMAIN unit /\ unit'[k] = unit[k]
        BY <1>4, <2>5, <3>3
      <4>2. k \in cell[c]
        BY <2>5, <4>1 DEF IInv, Grid, GridCovers
      <4> QED
        BY <2>1, <3>1, <3>3, <4>2
    <3> QED
      BY <3>2, <3>3
  <2> QED
    BY <2>2, <2>3, <2>5 DEF Grid, GridCovers
<1>10. Told'
  BY <1>1, <1>4, <1>5 DEF IInv, Told, Ordering
<1>11. HostIn'
  BY <1>1 DEF IInv, HostIn, NullOnlyAfterHost, Starting
<1> QED
  BY <1>6, <1>7, <1>8, <1>9, <1>10, <1>11 DEF IInv

(***************************************************************************)
(* Membership.                                                             *)
(***************************************************************************)
LEMMA LeaveRoomKeeps == ASSUME IInv, NEW s \in Sessions, LeaveRoom(s) PROVE IInv'
<1>1. /\ UNCHANGED <<listed, hasMap, ingamePlayerIndex, unitVars, jobs, cell, mainVars, recvVars,
                     doomed, clientVars, packets, crash>>
      /\ members' \subseteq members /\ leave[s] = "no"
      /\ \/ members' = {} /\ leave' = [leave EXCEPT ![s] = "remove"] /\ (s = Host \/ members = {s})
         \/ members' = members \ {s} /\ leave' = [leave EXCEPT ![s] = "gone"] /\ s # Host
  BY DEF LeaveRoom
<1>2. RoomTyped'
  BY <1>1 DEF IInv, RoomTyped
<1>3. HandlersTyped' /\ JobsTyped' /\ UnitsTyped'
  BY <1>1 DEF IInv, HandlersTyped, JobsTyped, UnitsTyped, Starting, Ordering
<1>4. IdsFree' /\ IdsLeft' /\ Grid'
  BY <1>1 DEF IInv, IdsFree, IdsLeft, Left, Starting, Grid, GridCovers
<1>5. Told'
  BY <1>1 DEF IInv, Told, Ordering
<1>6. leave'[Host] = "no" => leave[Host] = "no" /\ s # Host
  BY <1>1, SessionsAssumption DEF IInv, RoomTyped
<1>7. leave'[Host] = "no" => /\ Host \in members' /\ listed'
                             /\ \A r \in Sessions : leave'[r] \in {"no", "gone"}
  BY <1>1, <1>6 DEF IInv, HostIn, RoomTyped
<1>8. HostIn'
  BY <1>1, <1>6, <1>7 DEF IInv, HostIn, NullOnlyAfterHost, Starting
<1> QED
  BY <1>2, <1>3, <1>4, <1>5, <1>8 DEF IInv

(* RoomManager::RemoveRoom lists the objects of the room. *)
LEMMA ListDoomedKeeps == ASSUME IInv, NEW s \in Sessions, ListDoomed(s) PROVE IInv'
<1>1. /\ UNCHANGED <<roomVars, unitVars, jobs, cell, mainVars, recvVars, clientVars, packets, crash>>
      /\ leave[s] = "remove" /\ leave' = [leave EXCEPT ![s] = "erase"] /\ doomed' = DOMAIN unit
  BY DEF ListDoomed
<1>2. leave[Host] # "no" /\ leave'[Host] # "no"
  BY <1>1, SessionsAssumption DEF IInv, HostIn, RoomTyped
<1>3. RoomTyped' /\ IdsFree' /\ HostIn'
  BY <1>1, <1>2 DEF IInv, RoomTyped, IdsFree, HostIn, NullOnlyAfterHost, Starting
<1>4. HandlersTyped' /\ JobsTyped' /\ UnitsTyped'
  BY <1>1 DEF IInv, HandlersTyped, JobsTyped, UnitsTyped, Starting, Ordering
<1>5. IdsLeft' /\ Grid' /\ Told'
  BY <1>1 DEF IInv, IdsLeft, Left, Starting, Grid, GridCovers, Told, Ordering
<1> QED
  BY <1>3, <1>4, <1>5 DEF IInv

(* Room::ObjectRemove: a unit goes from the units, the ids and the grid. *)
LEMMA ObjectRemoveKeeps == ASSUME IInv, NEW s \in Sessions, ObjectRemove(s) PROVE IInv'
<1>1. /\ UNCHANGED <<roomVars, idCount, jobs, mainVars, recvVars, leave, clientVars, packets, crash>>
      /\ leave[s] = "erase" /\ doomed # {}
  BY DEF ObjectRemove
<1>2. PICK i \in doomed : i = Min(doomed)
  <2>1. doomed \in SUBSET Nat
    BY IdsBound, Numbers DEF IInv
  <2> QED
    BY <1>1, <2>1, MinLeast
<1>3. /\ doomed' = doomed \ {i} /\ idList' = idList \ {i}
      /\ unit' = Restrict(unit, DOMAIN unit \ {i})
      /\ cell' = Unlist(cell, i, unit[i].bounds)
  BY <1>2 DEF ObjectRemove
<1>4. DOMAIN unit' = DOMAIN unit \ {i} /\ \A k \in DOMAIN unit' : unit'[k] = unit[k]
  BY <1>3 DEF Restrict
<1>5. /\ DOMAIN cell' = DOMAIN cell
      /\ \A c \in DOMAIN cell : cell'[c] \subseteq cell[c] /\ cell[c] \ {i} \subseteq cell'[c]
  BY <1>3 DEF Unlist
<1>6. leave[Host] # "no"
  BY <1>1 DEF IInv, HostIn
<1>7. RoomTyped' /\ HostIn'
  BY <1>1, <1>6 DEF IInv, RoomTyped, HostIn, NullOnlyAfterHost, Starting
<1>8. HandlersTyped' /\ JobsTyped' /\ IdsLeft'
  BY <1>1 DEF IInv, HandlersTyped, JobsTyped, IdsLeft, Left, Starting, Ordering
<1>9. UnitsTyped' /\ IdsFree'
  BY <1>1, <1>3, <1>4 DEF IInv, UnitsTyped, IdsFree
<1>10. Grid'
  BY <1>4, <1>5 DEF IInv, Grid, GridCovers, Overlap
<1>11. Told'
  BY <1>1, <1>4 DEF IInv, Told, Ordering
<1> QED
  BY <1>7, <1>8, <1>9, <1>10, <1>11 DEF IInv

(* RoomManager::RemoveRoom: the room leaves the map. *)
LEMMA RemoveRoomKeeps == ASSUME IInv, NEW s \in Sessions, RemoveRoom(s) PROVE IInv'
<1>1. /\ UNCHANGED <<members, hasMap, ingamePlayerIndex, unitVars, jobs, cell, mainVars, recvVars,
                     doomed, clientVars, packets, crash>>
      /\ leave[s] = "erase" /\ leave' = [leave EXCEPT ![s] = "gone"] /\ listed' = FALSE
  BY DEF RemoveRoom
<1>2. leave[Host] # "no" /\ leave'[Host] # "no"
  BY <1>1, SessionsAssumption DEF IInv, HostIn, RoomTyped
<1>3. RoomTyped' /\ IdsFree' /\ HostIn'
  BY <1>1, <1>2 DEF IInv, RoomTyped, IdsFree, HostIn, NullOnlyAfterHost, Starting
<1>4. HandlersTyped' /\ JobsTyped' /\ UnitsTyped'
  BY <1>1 DEF IInv, HandlersTyped, JobsTyped, UnitsTyped, Starting, Ordering
<1>5. IdsLeft' /\ Grid' /\ Told'
  BY <1>1 DEF IInv, IdsLeft, Left, Starting, Grid, GridCovers, Told, Ordering
<1> QED
  BY <1>3, <1>4, <1>5 DEF IInv

(***************************************************************************)
(* Starting games.                                                         *)
(***************************************************************************)
LEMMA StartGameKeeps == ASSUME IInv, NEW s \in Sessions, StartGame(s) PROVE IInv'
<1>1. /\ UNCHANGED <<listed, members, unitVars, jobs, cell, mainVars, read, leaveVars, clientVars, orders>>
      /\ s = Host /\ recv[s] = "idle" /\ leave[s] = "no" /\ starts < MaxStarts /\ starts' = starts + 1
  BY DEF StartGame
<1>2. listed /\ Host \in members
  BY <1>1 DEF IInv, HostIn
<1>3. PICK numbers : numbers = Numbered(ingamePlayerIndex, members)
  OBVIOUS
<1>4. PICK deal \in Deals(numbers) :
         /\ hasMap' = TRUE /\ ingamePlayerIndex' = numbers /\ crash' = crash
         /\ recv' = [recv EXCEPT ![s] = IF numbers = <<>> THEN "idle" ELSE "starting"]
         /\ todo' = [todo EXCEPT ![s] = deal]
  BY <1>2, <1>3 DEF StartGame
<1>5. /\ DOMAIN numbers \subseteq Sessions /\ DOMAIN numbers # {}
      /\ \A r \in DOMAIN numbers : numbers[r] \in 0..(Cardinality(Sessions) - 1)
  BY <1>2, <1>3, NumberedTyped DEF IInv
<1>6. /\ deal \in Seq(Dealt) /\ deal # <<>> /\ Len(deal) \in 1..Cardinality(Sessions)
      /\ \A k \in 1..Len(deal) : Len(deal[k].units) = Len(Offsets)
  BY <1>5, DealTyped
<1>7. recv'[s] \in {"idle", "starting"} /\ todo'[s] = deal
      /\ \A r \in Sessions \ {s} : recv'[r] = recv[r] /\ todo'[r] = todo[r]
  BY <1>4 DEF IInv, HandlersTyped
<1>8. RoomTyped'
  BY <1>1, <1>4, <1>5 DEF IInv, RoomTyped
<1>9. HandlersTyped'
  BY <1>1, <1>4, <1>6, <1>7 DEF IInv, HandlersTyped, Starting, Ordering
<1>10. JobsTyped' /\ UnitsTyped' /\ Grid'
  BY <1>1 DEF IInv, JobsTyped, UnitsTyped, Grid, GridCovers
<1>11. IdsFree'
  BY <1>1, <1>7 DEF IInv, IdsFree
<1>12. IdsLeft'
  <2>1. PICK made \in Nat : made = starts * PerStart /\ starts' * PerStart = made + PerStart
    <3>1. starts \in Nat /\ PerStart \in Nat
      BY Numbers DEF IInv, IdsLeft
    <3>2. starts * PerStart \in Nat /\ (starts + 1) * PerStart = starts * PerStart + PerStart
      BY <3>1, Product
    <3> QED
      BY <1>1, <3>2
  <2>2. idCount \in Nat /\ idCount <= made
    BY <1>1, <2>1 DEF IInv, IdsFree, IdsLeft, Starting
  <2>3. PICK left \in Nat : left = Left' /\ left <= PerStart
    <3>1. PICK n \in Nat : n = Len(deal) - 1 /\ n + 1 <= Cardinality(Sessions)
      BY <1>6
    <3>2. PICK k \in Nat : k = Len(Offsets)
      BY Numbers
    <3>3. (n + 1) * k = n * k + k /\ n * k \in Nat /\ (n + 1) * k <= Cardinality(Sessions) * k
      BY <3>1, <3>2, Product, Numbers
    <3>4. 1 \in 1..Len(deal)
      BY <1>6
    <3>5. Left' = k + n * k
      BY <1>1, <1>6, <1>7, <3>1, <3>2, <3>4 DEF Left
    <3>6. Left' <= PerStart
      BY <3>2, <3>3, <3>5 DEF PerStart
    <3>7. k + n * k \in Nat
      BY <3>2, <3>3
    <3> QED
      BY <3>5, <3>6, <3>7
  <2>5. idCount' = idCount /\ starts' \in 0..MaxStarts
    BY <1>1, Numbers DEF IInv, IdsLeft
  <2>6. \A k \in 2..Len(deal) : k \in 1..Len(deal)
    BY <1>6
  <2>7. PICK p \in Nat : p = PerStart
    BY Numbers
  <2>8. idCount + left <= made + PerStart /\ idCount <= made + PerStart
    <3>1. left <= p
      BY <2>3, <2>7
    <3>2. idCount + left <= made + p /\ idCount <= made + p
      BY <2>2, <3>1
    <3> QED
      BY <2>7, <3>2
  <2> QED
    BY <1>1, <1>6, <1>7, <2>1, <2>3, <2>5, <2>6, <2>8 DEF IdsLeft
<1>13. Told'
  BY <1>1, <1>7 DEF IInv, Told, Ordering
<1>14. HostIn'
  BY <1>1, <1>4, <1>7 DEF IInv, HostIn, NullOnlyAfterHost
<1> QED
  BY <1>8, <1>9, <1>10, <1>11, <1>12, <1>13, <1>14 DEF IInv

(* The host's handler, while it starts a game, has a deal in hand. *)
LEMMA Dealing ==
    ASSUME IInv, NEW s \in Sessions, Starting(s)
    PROVE  /\ s = Host /\ todo[s] \in Seq(Dealt) /\ todo[s] # <<>>
           /\ Len(todo[s]) \in Nat /\ Len(todo[s]) >= 1 /\ Head(todo[s]) = todo[s][1]
           /\ todo[s][1] \in Dealt /\ todo[s][1].units \in Seq(Spots)
           /\ hasMap
<1>1. s = Host /\ todo[s] \in Seq(Dealt) /\ todo[s] # <<>> /\ hasMap
  BY DEF IInv, HandlersTyped, HostIn, Starting
<1>2. /\ Len(todo[s]) \in Nat /\ Len(todo[s]) >= 1 /\ Head(todo[s]) = todo[s][1]
      /\ todo[s][1] \in Dealt
  BY <1>1
<1> QED
  BY <1>1, <1>2 DEF Dealt

(* Room::ObjectAdd: a unit enters under the id that IdsFree keeps free. *)
LEMMA ObjectAddKeeps == ASSUME IInv, NEW s \in Sessions, ObjectAdd(s) PROVE IInv'
<1>1. /\ UNCHANGED <<roomVars, idCount, jobs, cell, mainVars, todo, read, leaveVars, clientVars, packets, crash>>
      /\ recv[s] = "starting" /\ recv' = [recv EXCEPT ![s] = "announcing"]
      /\ Head(todo[s]).units # <<>> /\ idList' = idList \cup {idCount}
  BY DEF ObjectAdd
<1>2. /\ s = Host /\ Head(todo[s]) = todo[s][1] /\ todo[s][1].units \in Seq(Spots)
  BY <1>1, Dealing DEF Starting
<1>3. PICK u : u = NewUnit(Head(Head(todo[s]).units))
  OBVIOUS
<1>4. u \in Unit /\ OnItsWay(u) /\ u.bounds = 0 /\ u.state = "IDLE"
  <2>1. PICK x \in Spots : x = Head(Head(todo[s]).units)
    BY <1>1, <1>2
  <2>2. TileAt(x) \in Int
    <3>1. TileAt(x) \in Tiles
      BY TileOfSpot
    <3>2. Tiles \subseteq Int
      BY DEF Tiles
    <3> QED
      BY <3>1, <3>2
  <2>3. <<>> \in Seq(Tiles)
    OBVIOUS
  <2> QED
    BY <1>3, <2>1, <2>2, <2>3 DEF NewUnit, Unit, OnItsWay, States
<1>5. idCount \notin DOMAIN unit
  BY <1>1, <1>2 DEF IInv, IdsFree
<1>6. /\ DOMAIN unit' = DOMAIN unit \cup {idCount} /\ unit'[idCount] = u
      /\ \A i \in DOMAIN unit : unit'[i] = unit[i]
  BY <1>3, <1>5 DEF ObjectAdd
<1>7. recv'[s] = "announcing" /\ \A r \in Sessions \ {s} : recv'[r] = recv[r]
  BY <1>1 DEF IInv, HandlersTyped
<1>8. RoomTyped' /\ JobsTyped'
  BY <1>1 DEF IInv, RoomTyped, JobsTyped
<1>9. HandlersTyped'
  BY <1>1, <1>2, <1>7 DEF IInv, HandlersTyped, Starting, Ordering
<1>10. UnitsTyped'
  BY <1>4, <1>6 DEF IInv, UnitsTyped
<1>11. IdsFree'
  BY <1>1, <1>2, <1>6, <1>7 DEF IInv, IdsFree
<1>12. IdsLeft'
  BY <1>1, <1>2, <1>7 DEF IInv, IdsLeft, Left, Starting
<1>13. Grid'
  BY <1>1, <1>4, <1>6 DEF IInv, Grid, GridCovers
<1>14. Told'
  BY <1>1, <1>4, <1>6, <1>7 DEF IInv, Told, Ordering
<1>15. HostIn'
  BY <1>1, <1>2, <1>7 DEF IInv, HostIn, NullOnlyAfterHost, Starting
<1> QED
  BY <1>8, <1>9, <1>10, <1>11, <1>12, <1>13, <1>14, <1>15 DEF IInv

(* ObjectAdd's Broadcast: the players know the unit, and the id moves on. *)
LEMMA AnnounceKeeps == ASSUME IInv, NEW s \in Sessions, Announce(s) PROVE IInv'
<1>1. /\ UNCHANGED <<roomVars, unit, idList, jobs, cell, mainVars, read, leaveVars, ready, packets, crash>>
      /\ recv[s] = "announcing" /\ recv' = [recv EXCEPT ![s] = "starting"]
      /\ todo' = [todo EXCEPT ![s][1].units = Tail(@)]
  BY DEF Announce
<1>2. known' = [t \in Sessions |-> IF t \in members THEN known[t] \cup {idCount} ELSE known[t]]
  BY DEF Announce
<1>3. PICK deal \in Seq(Dealt) : deal = todo[s] /\ deal # <<>>
  BY <1>1, Dealing DEF Starting
<1>4. s = Host /\ hasMap
  BY <1>1, Dealing DEF Starting
<1>5. PICK us \in Seq(Spots) : us = deal[1].units /\ us # <<>>
  BY <1>1, <1>3, Dealing DEF Starting, IInv, HandlersTyped
<1>6. PICK rest : rest = [deal EXCEPT ![1].units = Tail(us)]
  OBVIOUS
<1>7. /\ rest \in Seq(Dealt) /\ rest # <<>> /\ Len(rest) = Len(deal) /\ rest[1].units = Tail(us)
      /\ \A k \in 2..Len(deal) : rest[k] = deal[k]
  <2>1. Len(deal) \in Nat /\ Len(deal) >= 1 /\ deal[1] \in Dealt /\ DOMAIN deal = 1..Len(deal)
    BY <1>3
  <2>2. PICK first : first = [deal[1] EXCEPT !.units = Tail(us)]
    OBVIOUS
  <2>3. first \in Dealt /\ first.units = Tail(us)
    <3>1. Tail(us) \in Seq(Spots)
      BY <1>5
    <3> QED
      BY <2>1, <2>2, <3>1 DEF Dealt
  <2>4. rest = [deal EXCEPT ![1] = first]
    BY <1>6, <2>2
  <2> QED
    BY <1>3, <2>1, <2>3, <2>4
<1>8. todo'[s] = rest /\ \A r \in Sessions \ {s} : todo'[r] = todo[r]
  BY <1>1, <1>3, <1>5, <1>6 DEF IInv, HandlersTyped
<1>9. recv'[s] = "starting" /\ \A r \in Sessions \ {s} : recv'[r] = recv[r]
  BY <1>1 DEF IInv, HandlersTyped
<1>10. idCount \in Ids /\ idCount \in Nat
  BY <1>1, <1>4, IdsBound, Numbers DEF IInv
<1>11. idCount' = IF idCount \in idList THEN idCount + 1 ELSE idCount
  <2>1. idList \in SUBSET (0..idCount)
    BY DEF IInv, IdsFree
  <2> QED
    BY <1>10, <2>1, NextId DEF Announce
<1>12. RoomTyped' /\ JobsTyped' /\ UnitsTyped' /\ Grid'
  BY <1>1 DEF IInv, RoomTyped, JobsTyped, UnitsTyped, Grid, GridCovers
<1>13. HandlersTyped'
  <2>1. known' \in [Sessions -> SUBSET Ids]
    BY <1>2, <1>10 DEF IInv, HandlersTyped
  <2>2. DOMAIN todo' = Sessions /\ recv' \in [Sessions -> {"idle", "starting", "announcing", "looking", "pushing"}]
    BY <1>1 DEF IInv, HandlersTyped
  <2> QED
    BY <1>1, <1>4, <1>7, <1>8, <1>9, <2>1, <2>2 DEF IInv, HandlersTyped, Starting, Ordering
<1>14. IdsFree'
  BY <1>1, <1>9, <1>10, <1>11 DEF IInv, IdsFree
<1>15. IdsLeft'
  <2>1. PICK n \in Nat, m \in Nat : /\ n = Len(us) /\ Len(Tail(us)) = n - 1 /\ n >= 1
                                    /\ m = (Len(deal) - 1) * Len(Offsets)
    BY <1>3, <1>5, Numbers, Product
  <2>2. Left = n + m /\ Left' = (n - 1) + m
    BY <1>3, <1>4, <1>5, <1>7, <1>8, <2>1 DEF Left
  <2>3. PICK made \in Nat : made = starts * PerStart
    BY Numbers, Product DEF IInv, IdsLeft
  <2>4. idCount + (n + m) <= made
    BY <1>1, <1>4, <2>2, <2>3 DEF IInv, IdsLeft, Starting
  <2>5. idCount' + ((n - 1) + m) <= made
    BY <1>10, <1>11, <2>1, <2>4
  <2>6. \A k \in 2..Len(rest) : Len(rest[k].units) = Len(Offsets)
    BY <1>1, <1>3, <1>4, <1>7 DEF IInv, IdsLeft, Starting
  <2>7. starts' = starts /\ starts \in 0..MaxStarts
    BY <1>1 DEF IInv, IdsLeft
  <2> QED
    BY <1>4, <1>8, <1>9, <2>2, <2>3, <2>5, <2>6, <2>7 DEF IdsLeft, Starting
<1>16. Told'
  <2>1. \A r \in Sessions : known[r] \subseteq known'[r]
    BY <1>2
  <2>2. \A r \in Sessions, m \in members : known'[r] \subseteq known'[m]
    BY <1>2 DEF IInv, Told, RoomTyped
  <2> QED
    BY <1>1, <1>8, <1>9, <2>1, <2>2 DEF IInv, Told, Ordering
<1>17. HostIn'
  BY <1>1, <1>2, <1>4, <1>9 DEF IInv, HostIn, NullOnlyAfterHost
<1> QED
  BY <1>12, <1>13, <1>14, <1>15, <1>16, <1>17 DEF IInv

(* S_GAME_START to a player whose units are all announced. *)
LEMMA TellPlayerKeeps == ASSUME IInv, NEW s \in Sessions, TellPlayer(s) PROVE IInv'
<1>1. /\ UNCHANGED <<roomVars, unitVars, jobs, cell, mainVars, read, leaveVars, known, packets, crash>>
      /\ recv[s] = "starting" /\ Head(todo[s]).units = <<>>
      /\ ready' = ready \cup {Head(todo[s]).to} /\ todo' = [todo EXCEPT ![s] = Tail(@)]
      /\ recv' = IF Len(todo[s]) = 1 THEN [recv EXCEPT ![s] = "idle"] ELSE recv
  BY DEF TellPlayer
<1>2. PICK deal \in Seq(Dealt) : deal = todo[s] /\ deal # <<>>
  BY <1>1, Dealing DEF Starting
<1>3. s = Host /\ Head(deal) = deal[1] /\ deal[1] \in Dealt /\ deal[1].units = <<>>
  BY <1>1, <1>2, Dealing DEF Starting
<1>4. PICK n \in Nat : n = Len(deal) /\ n >= 1
  BY <1>2
<1>5. /\ Tail(deal) \in Seq(Dealt) /\ Len(Tail(deal)) = n - 1
      /\ \A k \in 1..(n - 1) : Tail(deal)[k] = deal[k + 1]
  BY <1>2, <1>4
<1>6. Tail(deal) # <<>> \/ n = 1
  BY <1>4, <1>5
<1>7. todo'[s] = Tail(deal) /\ \A r \in Sessions \ {s} : todo'[r] = todo[r]
  BY <1>1, <1>2 DEF IInv, HandlersTyped
<1>8. /\ recv'[s] = IF n = 1 THEN "idle" ELSE "starting"
      /\ \A r \in Sessions \ {s} : recv'[r] = recv[r]
  BY <1>1, <1>2, <1>4 DEF IInv, HandlersTyped
<1>9. RoomTyped'
  BY <1>1, <1>2, <1>3 DEF IInv, RoomTyped, Dealt
<1>10. HandlersTyped'
  <2>1. DOMAIN todo' = Sessions /\ recv' \in [Sessions -> {"idle", "starting", "announcing", "looking", "pushing"}]
    BY <1>1 DEF IInv, HandlersTyped
  <2> QED
    BY <1>1, <1>3, <1>5, <1>6, <1>7, <1>8, <2>1 DEF IInv, HandlersTyped, Starting, Ordering
<1>11. JobsTyped' /\ UnitsTyped' /\ Grid'
  BY <1>1 DEF IInv, JobsTyped, UnitsTyped, Grid, GridCovers
<1>12. IdsFree'
  BY <1>1, <1>3, <1>8 DEF IInv, IdsFree
<1>13. IdsLeft'
  <2>1. PICK made \in Nat : made = starts * PerStart
    BY Numbers, Product DEF IInv, IdsLeft
  <2>2. PICK k \in Nat : k = Len(Offsets)
    BY Numbers
  <2>3. idCount \in Nat /\ starts' = starts /\ idCount' = idCount /\ starts \in 0..MaxStarts
    BY <1>1 DEF IInv, IdsFree, IdsLeft
  <2>4. Left = 0 + (n - 1) * k
    BY <1>2, <1>3, <1>4, <2>2 DEF Left
  <2>5. (n - 1) * k \in Nat /\ idCount + (n - 1) * k <= made
    <3>1. PICK m \in Nat : m = (n - 1) * k
      BY <1>4
    <3>2. idCount + (0 + m) <= made
      BY <1>1, <1>3, <2>1, <2>4, <3>1 DEF IInv, IdsLeft, Starting
    <3> QED
      BY <2>3, <3>1, <3>2
  <2>6. CASE n = 1
    <3>1. ~Starting(Host)'
      BY <1>3, <1>8, <2>6 DEF Starting
    <3>2. idCount <= made
      BY <2>3, <2>5
    <3> QED
      BY <2>1, <2>3, <3>1, <3>2 DEF IdsLeft
  <2>7. CASE n # 1
    <3>1. \A i \in 2..n : Len(deal[i].units) = k
      BY <1>1, <1>2, <1>3, <1>4, <2>2 DEF IInv, IdsLeft, Starting
    <3>2. 1 \in 1..(n - 1) /\ 2 \in 2..n /\ \A i \in 2..(n - 1) : i \in 1..(n - 1) /\ i + 1 \in 2..n
      BY <1>4, <2>7
    <3>3. Len(Tail(deal)[1].units) = k /\ \A i \in 2..(n - 1) : Len(Tail(deal)[i].units) = k
      BY <1>5, <3>1, <3>2
    <3>4. Left' = k + ((n - 1) - 1) * k
      BY <1>3, <1>5, <1>7, <2>2, <3>3 DEF Left
    <3>5. PICK m \in Nat : m = n - 1 /\ m >= 1
      BY <1>4, <2>7
    <3>6. k + (m - 1) * k = m * k
      BY <3>5
    <3>7. Left' = (n - 1) * k
      BY <3>4, <3>5, <3>6
    <3>8. idCount' + Left' <= starts' * PerStart
      BY <2>1, <2>3, <2>5, <3>7
    <3> QED
      BY <1>3, <1>5, <1>7, <1>8, <2>2, <2>3, <2>7, <3>3, <3>8 DEF IdsLeft, Starting
  <2> QED
    BY <2>6, <2>7
<1>14. Told'
  BY <1>1, <1>3, <1>7, <1>8 DEF IInv, Told, Ordering
<1>15. HostIn'
  BY <1>1, <1>3, <1>8 DEF IInv, HostIn, NullOnlyAfterHost, Starting
<1> QED
  BY <1>9, <1>10, <1>11, <1>12, <1>13, <1>14, <1>15 DEF IInv

(***************************************************************************)
(* Orders.                                                                 *)
(***************************************************************************)
LEMMA OrderKeeps == ASSUME IInv, NEW s \in Sessions, Order(s) PROVE IInv'
<1>1. /\ UNCHANGED <<roomVars, unitVars, jobs, cell, mainVars, read, leaveVars, clientVars, starts>>
      /\ recv[s] = "idle" /\ leave[s] = "no"
  BY DEF Order
<1>2. RoomTyped' /\ HandlersTyped' /\ IdsFree' /\ IdsLeft' /\ Told' /\ HostIn'
  <2>1. CASE listed
    <3>0. PICK ids \in (SUBSET known[s]) \ {{}}, target \in Clicks :
            \E seq \in SetToSeqs(ids) :
              /\ todo' = [todo EXCEPT ![s] = [k \in DOMAIN seq |-> [id |-> seq[k], target |-> target]]]
              /\ recv' = [recv EXCEPT ![s] = "looking"] /\ crash' = crash
      BY <2>1 DEF Order
    <3>1. PICK seq \in SetToSeqs(ids) :
             /\ todo' = [todo EXCEPT ![s] = [k \in DOMAIN seq |-> [id |-> seq[k], target |-> target]]]
             /\ recv' = [recv EXCEPT ![s] = "looking"] /\ crash' = crash
      BY <3>0
    <3>2. PICK order : order = [k \in DOMAIN seq |-> [id |-> seq[k], target |-> target]]
      OBVIOUS
    <3>3. PICK n : n = Cardinality(ids)
      OBVIOUS
    <3>4. ids \subseteq Ids /\ n \in Nat /\ n >= 1
      <4>1. ids \subseteq Ids
        BY DEF IInv, HandlersTyped
      <4>2. IsFiniteSet(Ids)
        <5>1. 0 \in Int /\ MaxUnits - 1 \in Int
          BY Numbers
        <5> QED
          BY <5>1, FS_Interval DEF Ids
      <4>3. IsFiniteSet(ids)
        BY <4>1, <4>2, FS_Subset
      <4> QED
        BY <3>3, <4>1, <4>3, FS_CardinalityType, FS_EmptySet
    <3>5. seq \in [1..n -> ids]
      BY <3>3 DEF SetToSeqs
    <3>6. \A k \in 1..n : order[k] \in Ordered /\ order[k].id \in known[s]
      BY <3>2, <3>4, <3>5 DEF Ordered
    <3>7. order \in Seq(Ordered) /\ Len(order) = n /\ order # <<>>
      BY <3>2, <3>4, <3>5, <3>6
    <3>8. todo'[s] = order /\ \A r \in Sessions \ {s} : todo'[r] = todo[r]
      BY <3>1, <3>2 DEF IInv, HandlersTyped
    <3>9. recv'[s] = "looking" /\ \A r \in Sessions \ {s} : recv'[r] = recv[r]
      BY <3>1 DEF IInv, HandlersTyped
    <3>10. HandlersTyped'
      BY <1>1, <3>1, <3>7, <3>8, <3>9 DEF IInv, HandlersTyped, Starting, Ordering
    <3>11. RoomTyped' /\ Told'
      BY <1>1, <3>1, <3>6, <3>7, <3>8, <3>9 DEF IInv, RoomTyped, Told, Ordering
    <3>12. IdsFree' /\ HostIn'
      BY <1>1, <3>1, <3>9, SessionsAssumption DEF IInv, IdsFree, HostIn, NullOnlyAfterHost, Starting
    <3>13. IdsLeft'
      <4>1. s = Host => ~Starting(Host)' /\ ~Starting(Host)
        BY <1>1, <3>9 DEF Starting
      <4>2. s # Host => recv'[Host] = recv[Host] /\ todo'[Host] = todo[Host]
        BY <3>8, <3>9, SessionsAssumption
      <4>3. CASE s = Host
        BY <1>1, <4>1, <4>3 DEF IInv, IdsLeft
      <4>4. CASE s # Host
        <5>1. (Starting(Host)' <=> Starting(Host)) /\ Left' = Left
          BY <4>2, <4>4 DEF Starting, Left
        <5> QED
          BY <1>1, <4>2, <4>4, <5>1 DEF IInv, IdsLeft
      <4> QED
        BY <4>3, <4>4
    <3> QED
      BY <3>10, <3>11, <3>12, <3>13
  <2>2. CASE ~listed
    <3>1. todo' = todo /\ recv' = recv /\ crash' = "null"
      BY <2>2 DEF Order
    <3>2. leave[Host] # "no"
      BY <2>2 DEF IInv, HostIn
    <3>3. RoomTyped' /\ HandlersTyped' /\ Told'
      BY <1>1, <3>1 DEF IInv, RoomTyped, HandlersTyped, Told, Starting, Ordering
    <3>4. IdsFree' /\ IdsLeft' /\ HostIn'
      BY <1>1, <3>1, <3>2 DEF IInv, IdsFree, IdsLeft, Left, HostIn, NullOnlyAfterHost, Starting
    <3> QED
      BY <3>3, <3>4
  <2> QED
    BY <2>1, <2>2
<1>3. JobsTyped' /\ UnitsTyped' /\ Grid'
  BY <1>1 DEF IInv, JobsTyped, UnitsTyped, Grid, GridCovers
<1> QED
  BY <1>2, <1>3 DEF IInv

(* An order's handler has units to send that the player knows. *)
LEMMA OrderInHand ==
    ASSUME IInv, NEW s \in Sessions, Ordering(s)
    PROVE  /\ todo[s] \in Seq(Ordered) /\ todo[s] # <<>> /\ Head(todo[s]) \in Ordered
           /\ Head(todo[s]).id \in known[s]
           /\ Tail(todo[s]) \in Seq(Ordered) /\ Len(Tail(todo[s])) = Len(todo[s]) - 1
           /\ Len(todo[s]) \in Nat /\ Len(todo[s]) >= 1
           /\ \A k \in 1..Len(Tail(todo[s])) : Tail(todo[s])[k].id \in known[s]
<1>1. todo[s] \in Seq(Ordered) /\ todo[s] # <<>>
  BY DEF IInv, HandlersTyped, Ordering
<1>2. \A k \in 1..Len(todo[s]) : todo[s][k].id \in known[s]
  BY DEF IInv, Told
<1>3. /\ Tail(todo[s]) \in Seq(Ordered) /\ Len(Tail(todo[s])) = Len(todo[s]) - 1
      /\ Len(todo[s]) \in Nat /\ Len(todo[s]) >= 1
      /\ Head(todo[s]) = todo[s][1] /\ Head(todo[s]) \in Ordered
      /\ \A k \in 1..Len(Tail(todo[s])) : Tail(todo[s])[k] = todo[s][k + 1]
  BY <1>1
<1>4. 1 \in 1..Len(todo[s]) /\ \A k \in 1..Len(Tail(todo[s])) : k + 1 \in 1..Len(todo[s])
  BY <1>3
<1> QED
  BY <1>1, <1>2, <1>3, <1>4

(* Handle_C_MOVE finds a unit of the room and reads where it stands. *)
LEMMA LookUpKeeps == ASSUME IInv, NEW s \in Sessions, LookUp(s) PROVE IInv'
<1>1. /\ UNCHANGED <<roomVars, unitVars, jobs, cell, mainVars, todo, leaveVars, clientVars, packets>>
      /\ recv[s] = "looking"
  BY DEF LookUp
<1>2. PICK i \in known[s] : i = Head(todo[s]).id
  BY <1>1, OrderInHand DEF Ordering
<1>3. RoomTyped' /\ HandlersTyped' /\ IdsFree' /\ IdsLeft' /\ Told' /\ HostIn'
  <2>1. CASE i \in DOMAIN unit
    <3>1. /\ read' = [read EXCEPT ![s] = unit[i].pos] /\ crash' = crash
          /\ recv' = [recv EXCEPT ![s] = "pushing"]
      BY <1>2, <2>1 DEF LookUp
    <3>2. unit[i].pos \in Spots
      BY <2>1 DEF IInv, UnitsTyped, Unit
    <3>3. recv'[s] = "pushing" /\ \A r \in Sessions \ {s} : recv'[r] = recv[r]
      BY <3>1 DEF IInv, HandlersTyped
    <3>4. HandlersTyped'
      BY <1>1, <3>1, <3>2, <3>3 DEF IInv, HandlersTyped, Starting, Ordering
    <3>5. RoomTyped' /\ Told'
      BY <1>1, <3>1, <3>3 DEF IInv, RoomTyped, Told, Ordering
    <3>6. Starting(Host)' <=> Starting(Host)
      BY <1>1, <3>3, SessionsAssumption DEF Starting
    <3>7. recv'[Host] = "announcing" <=> recv[Host] = "announcing"
      BY <1>1, <3>3, SessionsAssumption
    <3>8. IdsFree' /\ IdsLeft' /\ HostIn'
      BY <1>1, <3>1, <3>6, <3>7 DEF IInv, IdsFree, IdsLeft, Left, HostIn, NullOnlyAfterHost
    <3> QED
      BY <3>4, <3>5, <3>8
  <2>2. CASE i \notin DOMAIN unit
    <3>1. crash' = "null" /\ read' = read /\ recv' = recv
      BY <1>2, <2>2 DEF LookUp
    <3>2. leave[Host] # "no"
      BY <1>2, <2>2 DEF IInv, HostIn, IdsFree
    <3>3. RoomTyped' /\ HandlersTyped' /\ Told'
      BY <1>1, <3>1 DEF IInv, RoomTyped, HandlersTyped, Told, Starting, Ordering
    <3>4. IdsFree' /\ IdsLeft' /\ HostIn'
      BY <1>1, <3>1, <3>2 DEF IInv, IdsFree, IdsLeft, Left, HostIn, NullOnlyAfterHost, Starting
    <3> QED
      BY <3>3, <3>4
  <2> QED
    BY <2>1, <2>2
<1>4. JobsTyped' /\ UnitsTyped' /\ Grid'
  BY <1>1 DEF IInv, JobsTyped, UnitsTyped, Grid, GridCovers
<1> QED
  BY <1>3, <1>4 DEF IInv

(* Handle_C_MOVE pushes the job. *)
LEMMA PushKeeps == ASSUME IInv, NEW s \in Sessions, Push(s) PROVE IInv'
<1>1. /\ UNCHANGED <<roomVars, unitVars, cell, mainVars, leaveVars, clientVars, packets, crash>>
      /\ recv[s] = "pushing" /\ todo' = [todo EXCEPT ![s] = Tail(@)] /\ read' = [read EXCEPT ![s] = 0]
      /\ recv' = [recv EXCEPT ![s] = IF Len(todo[s]) = 1 THEN "idle" ELSE "looking"]
  BY DEF Push
<1>2. PICK order \in Seq(Ordered) : order = todo[s] /\ order # <<>>
  BY <1>1, OrderInHand DEF Ordering
<1>3. /\ Head(order) \in Ordered /\ Head(order).id \in known[s]
      /\ Tail(order) \in Seq(Ordered) /\ Len(Tail(order)) = Len(order) - 1
      /\ \A k \in 1..Len(Tail(order)) : Tail(order)[k].id \in known[s]
  BY <1>1, <1>2, OrderInHand DEF Ordering
<1>4. PICK n \in Nat : n = Len(order) /\ (n = 1 \/ Tail(order) # <<>>)
  <2>1. PICK n \in Nat : n = Len(order)
    BY <1>2
  <2>2. n - 1 = Len(Tail(order))
    BY <1>3, <2>1
  <2>3. ASSUME Tail(order) = <<>> PROVE n = 1
    <3>1. n - 1 = Len(<<>>)
      BY <2>2, <2>3
    <3>2. n - 1 = 0
      BY <3>1
    <3> QED
      BY <3>2
  <2>4. n = 1 \/ Tail(order) # <<>>
    BY <2>3
  <2> QED
    BY <2>1, <2>4
<1>5. PICK j : j = [id |-> Head(order).id, pos |-> read[s], target |-> Head(order).target]
  OBVIOUS
<1>6. j \in Job /\ j.id \in known[s]
  BY <1>1, <1>3, <1>5 DEF IInv, HandlersTyped, Job, Ordered
<1>7. jobs' = Append(jobs, j)
  BY <1>2, <1>5 DEF Push
<1>8. JobsTyped' /\ \A k \in 1..Len(jobs') : \E r \in Sessions : jobs'[k].id \in known[r]
  BY <1>6, <1>7 DEF IInv, JobsTyped, Told
<1>9. todo'[s] = Tail(order) /\ \A r \in Sessions \ {s} : todo'[r] = todo[r]
  BY <1>1, <1>2 DEF IInv, HandlersTyped
<1>10. /\ recv'[s] = IF n = 1 THEN "idle" ELSE "looking"
       /\ \A r \in Sessions \ {s} : recv'[r] = recv[r]
  BY <1>1, <1>2, <1>4 DEF IInv, HandlersTyped
<1>11. HandlersTyped'
  <2>1. /\ DOMAIN todo' = Sessions /\ read' \in [Sessions -> Spots \cup {0}]
        /\ recv' \in [Sessions -> {"idle", "starting", "announcing", "looking", "pushing"}]
    BY <1>1 DEF IInv, HandlersTyped
  <2>2. \A r \in Sessions \ {s} : read'[r] = read[r]
    BY <1>1 DEF IInv, HandlersTyped
  <2> QED
    BY <1>1, <1>3, <1>4, <1>9, <1>10, <2>1, <2>2 DEF IInv, HandlersTyped, Starting, Ordering
<1>12. Told'
  BY <1>1, <1>3, <1>8, <1>9, <1>10 DEF IInv, Told, Ordering
<1>13. s = Host => ~Starting(Host)' /\ ~Starting(Host)
  BY <1>1, <1>10 DEF Starting
<1>14. s # Host => recv'[Host] = recv[Host] /\ todo'[Host] = todo[Host]
  BY <1>9, <1>10, SessionsAssumption
<1>15. IdsLeft' /\ IdsFree' /\ HostIn'
  BY <1>1, <1>13, <1>14 DEF IInv, IdsLeft, IdsFree, HostIn, NullOnlyAfterHost, Left, Starting
<1>16. RoomTyped' /\ UnitsTyped' /\ Grid'
  BY <1>1 DEF IInv, RoomTyped, UnitsTyped, Grid, GridCovers
<1> QED
  BY <1>8, <1>11, <1>12, <1>15, <1>16 DEF IInv

(***************************************************************************)
(* The theorems.                                                           *)
(***************************************************************************)
LEMMA InitIInv == Init => IInv
<1> SUFFICES ASSUME Init PROVE IInv
  OBVIOUS
<1>1. DOMAIN unit = {} /\ DOMAIN ingamePlayerIndex = {} /\ jobs \in Seq(Job) /\ Len(jobs) = 0
  BY DEF Init
<1>2. \A s \in Sessions : recv[s] = "idle" /\ ~Starting(s) /\ ~Ordering(s) /\ known[s] = {}
  BY DEF Init, Starting, Ordering
<1>3. RoomTyped
  BY <1>1 DEF Init, RoomTyped
<1>4. HandlersTyped
  BY <1>2 DEF Init, HandlersTyped
<1>5. JobsTyped /\ UnitsTyped
  BY <1>1 DEF JobsTyped, UnitsTyped
<1>6. IdsFree /\ HostIn
  BY <1>1, <1>2, SessionsAssumption DEF Init, IdsFree, HostIn, NullOnlyAfterHost
<1>7. Grid
  BY <1>1 DEF Init, Grid, GridCovers
<1>8. Told
  BY <1>1, <1>2 DEF Told
<1>9. IdsLeft
  BY <1>2, Numbers, SessionsAssumption DEF Init, IdsLeft
<1> QED
  BY <1>3, <1>4, <1>5, <1>6, <1>7, <1>8, <1>9 DEF IInv

(* Every step keeps IInv. *)
LEMMA StepKeeps == ASSUME IInv, [Next]_vars PROVE IInv'
<1>1. CASE MainStep
  BY <1>1, MainKeeps, ProcessJobKeeps, UpdateUnitKeeps DEF MainStep
<1>2. ASSUME NEW s \in Sessions, LeaveStep(s) PROVE IInv'
  BY <1>2, ListDoomedKeeps, ObjectRemoveKeeps, RemoveRoomKeeps DEF LeaveStep
<1>3. ASSUME NEW s \in Sessions, RecvStep(s) PROVE IInv'
  BY <1>3, ObjectAddKeeps, AnnounceKeeps, TellPlayerKeeps, LookUpKeeps, PushKeeps DEF RecvStep
<1>4. ASSUME NEW s \in Sessions, ClientStep(s) PROVE IInv'
  BY <1>4, LeaveRoomKeeps, StartGameKeeps, OrderKeeps DEF ClientStep
<1>5. CASE UNCHANGED vars
  BY <1>5, MainKeeps
<1> QED
  BY <1>1, <1>2, <1>3, <1>4, <1>5 DEF Next, Crashed

(* IInv holds in every state that a run of the game reaches. *)
THEOREM Inductive == Spec => []IInv
  BY InitIInv, StepKeeps, PTL DEF Spec

(* Handle_C_MOVE and ProcessJob: no handler and no job meets a null room   *)
(* or unit before the host begins to leave.                                *)
THEOREM NullOnlyThen == Spec => []NullOnlyAfterHost
<1>1. IInv => NullOnlyAfterHost
  BY DEF IInv, HostIn
<1> QED
  BY Inductive, <1>1, PTL

(* Room::ObjectAdd and Update: each member has the spawn of a unit before  *)
(* the unit moves.                                                         *)
THEOREM SpawnFirst == Spec => []SpawnBeforeMove
<1>1. IInv => SpawnBeforeMove
  BY DEF IInv, Told, SpawnBeforeMove
<1> QED
  BY Inductive, <1>1, PTL

(* GridManager: the cells under a unit's bounds list it. *)
THEOREM GridSound == Spec => []GridCovers
<1>1. IInv => GridCovers
  BY DEF IInv, Grid
<1> QED
  BY Inductive, <1>1, PTL

(* GameObject::SetMove, Update and move: what a walk computes with is      *)
(* defined, and it ends within a step of its goal.                         *)
THEOREM WalksWell == Spec => []Walks
<1>1. ASSUME IInv PROVE Walks
  <2>1. \A x \in Spots : x \in Places /\ TileAt(x) \in Tiles
    <3>1. ASSUME NEW x \in Spots PROVE x \in Places /\ TileAt(x) \in Tiles
      BY TileOfSpot, Sizes DEF Spots, Places
    <3> QED
      BY <3>1
  <2>2. 0 \in Places
    BY Sizes DEF Places
  <2>3. \A i \in DOMAIN unit : /\ unit[i].pos \in Spots /\ unit[i].bounds \in Spots \cup {0}
                               /\ unit[i].state \in States /\ unit[i].path \in Seq(Tiles)
    BY <1>1 DEF IInv, UnitsTyped, Unit
  <2>4. \A k \in DOMAIN jobs : jobs[k].id \in Ids /\ jobs[k].pos \in Spots
    <3>1. jobs \in Seq(Job)
      BY <1>1 DEF IInv, JobsTyped
    <3>2. \A k \in DOMAIN jobs : jobs[k] \in Job
      BY <3>1
    <3> QED
      BY <3>2 DEF Job
  <2>5. \A s \in Sessions : /\ recv[s] \in {"idle", "starting", "announcing", "looking", "pushing"}
                            /\ leave[s] \in {"no", "remove", "erase", "gone"}
                            /\ known[s] \subseteq Ids
    BY <1>1 DEF IInv, RoomTyped, HandlersTyped
  <2>6. TypeOK
    BY <1>1, <2>1, <2>2, <2>3, <2>4, <2>5, IdsBound DEF TypeOK, IInv, RoomTyped, IdsFree, Grid
  <2>7. InMap
    BY <2>1, <2>3, <2>4 DEF InMap
  <2>8. ASSUME NEW i \in DOMAIN unit, unit[i].path # <<>>
        PROVE  unit[i].pos # Head(unit[i].path) * Tile /\ unit[i].state = "MOVE"
    <3>1. OnItsWay(unit[i])
      BY <1>1 DEF IInv, UnitsTyped
    <3>2. PICK p \in Seq(Tiles) : p = unit[i].path
      BY <2>3
    <3>3. Head(p) = p[1] /\ p[1] \in Tiles
      BY <2>8, <3>2
    <3>4. PICK x \in Int : x = p[1] * Tile
      BY <3>3, SpotOfTile DEF Spots
    <3>5. unit[i].pos < x \/ unit[i].pos > x
      BY <2>8, <3>1, <3>2, <3>4 DEF OnItsWay, Rightward, Leftward
    <3>6. unit[i].pos # x
      BY <2>3, <3>5 DEF Spots
    <3> QED
      BY <2>8, <3>1, <3>2, <3>3, <3>4, <3>6 DEF OnItsWay
  <2>9. NoZeroStep
    BY <2>8 DEF NoZeroStep
  <2>10. ArrivesNear
    BY <1>1, <2>8 DEF ArrivesNear, IInv, UnitsTyped, OnItsWay
  <2> QED
    BY <2>6, <2>7, <2>9, <2>10 DEF Walks
<1> QED
  BY Inductive, <1>1, PTL

(* Room::ObjectAdd: a unit keeps its id to itself, through any number of   *)
(* starts.                                                                 *)
THEOREM IdsKept == Spec => NeverReplaced
<1> DEFINE Kept == \A i \in DOMAIN unit \cap DOMAIN unit' : unit'[i].home = unit[i].home
<1>1. ASSUME IInv, [Next]_vars PROVE Kept
  <2>1. CASE unit' = unit
    BY <2>1
  <2>2. CASE ProcessJob /\ unit' # unit
    <3>1. PICK j \in Job : j = Head(jobs)
      BY <1>1, <2>2 DEF ProcessJob, IInv, JobsTyped
    <3>2. /\ j.id \in DOMAIN unit
          /\ unit' = [unit EXCEPT ![j.id] = SetMove(unit[j.id], j.pos, j.target)]
      BY <2>2, <3>1 DEF ProcessJob
    <3>3. SetMove(unit[j.id], j.pos, j.target).home = unit[j.id].home
      BY <1>1, <3>2, SetMoveOnItsWay DEF IInv, UnitsTyped, Job
    <3> QED
      BY <3>2, <3>3
  <2>3. CASE UpdateUnit
    <3>1. PICK i : i = Min(Ahead) /\ unit' = [unit EXCEPT ![i] = Updated(unit[i])]
      BY <2>3 DEF UpdateUnit
    <3>2. i \in DOMAIN unit => Updated(unit[i]).home = unit[i].home
      BY <1>1, UpdatedOnItsWay DEF IInv, UnitsTyped
    <3> QED
      BY <3>1, <3>2
  <2>4. ASSUME NEW s \in Sessions, ObjectRemove(s) PROVE Kept
    BY <2>4 DEF ObjectRemove, Restrict
  <2>5. ASSUME NEW s \in Sessions, ObjectAdd(s) PROVE Kept
    <3>1. s = Host /\ recv[s] = "starting"
      BY <1>1, <2>5, Dealing DEF ObjectAdd, Starting
    <3>2. idCount \notin DOMAIN unit
      BY <1>1, <3>1 DEF IInv, IdsFree
    <3> QED
      BY <2>5, <3>2 DEF ObjectAdd
  <2>6. MainStep => unit' = unit \/ ProcessJob \/ UpdateUnit
    BY DEF MainStep, TakeRoom, NoRoomToTick, LockRoom, IteratorLost, UnlockRoom, vars
  <2>7. ASSUME NEW s \in Sessions, LeaveStep(s) \/ RecvStep(s) \/ ClientStep(s)
        PROVE  unit' = unit \/ ObjectRemove(s) \/ ObjectAdd(s)
    BY <2>7 DEF LeaveStep, RecvStep, ClientStep, ListDoomed, RemoveRoom, Announce, TellPlayer,
                LookUp, Push, LeaveRoom, StartGame, Order
  <2>8. UNCHANGED vars => unit' = unit
    BY DEF vars
  <2> QED
    BY <1>1, <2>1, <2>2, <2>3, <2>4, <2>5, <2>6, <2>7, <2>8 DEF Next, Crashed
<1> QED
  BY Inductive, <1>1, PTL DEF Spec, NeverReplaced

(***************************************************************************)
(* Steps on a board.                                                       *)
(***************************************************************************)
IsBoard(b) == b.width \in Nat /\ b.height \in Nat

(* A neighbour is another tile of the board, and costs something. *)
LEMMA NeighbourTyped ==
    ASSUME NEW b, IsBoard(b), NEW p \in TilesOf(b), NEW q \in Neighbours(b, p)
    PROVE  q \in TilesOf(b) /\ q # p /\ Cost(p, q) \in Nat /\ Cost(p, q) > 0
<1>1. PICK d \in Steps : canMove(b, p, d) /\ q = Plus(p, d)
  BY DEF Neighbours
<1>2. d[1] \in Int /\ d[2] \in Int /\ d = <<d[1], d[2]>> /\ (d[1] # 0 \/ d[2] # 0)
  BY DEF Steps
<1>3. p[1] \in Int /\ p[2] \in Int /\ p = <<p[1], p[2]>>
  BY DEF TilesOf, IsBoard
<1>4. q[1] = p[1] + d[1] /\ q[2] = p[2] + d[2] /\ q = <<q[1], q[2]>>
  BY <1>1, <1>2, <1>3 DEF Plus
<1>5. q[1] \in 0..(b.width - 1) /\ q[2] \in 0..(b.height - 1)
  BY <1>1, <1>4 DEF canMove, OnBoard
<1>6. q \in TilesOf(b)
  BY <1>4, <1>5 DEF TilesOf
<1>7. q # p
  BY <1>2, <1>3, <1>4
<1> QED
  BY <1>6, <1>7 DEF Cost, moveCost, Straight, Diagonal

(* An estimate is a natural number, and nothing from a tile to itself. *)
LEMMA HeuristicTyped ==
    ASSUME NEW b, IsBoard(b), NEW p \in TilesOf(b), NEW q \in TilesOf(b)
    PROVE  heuristic(p, q) \in Nat /\ heuristic(p, p) = 0
<1>1. p[1] \in Int /\ p[2] \in Int /\ q[1] \in Int /\ q[2] \in Int
  BY DEF TilesOf, IsBoard
<1> QED
  BY <1>1 DEF heuristic, Abs, Straight, Diagonal

(* A step brings the goal no nearer than it costs. *)
LEMMA Consistent ==
    ASSUME NEW b, IsBoard(b), NEW p \in TilesOf(b), NEW q \in Neighbours(b, p), NEW goal \in TilesOf(b)
    PROVE  heuristic(p, goal) <= Cost(p, q) + heuristic(q, goal)
<1>1. PICK d \in Steps : canMove(b, p, d) /\ q = Plus(p, d)
  BY DEF Neighbours
<1>2. d[1] \in -1..1 /\ d[2] \in -1..1 /\ (d[1] # 0 \/ d[2] # 0)
  BY DEF Steps
<1>3. p[1] \in Int /\ p[2] \in Int /\ goal[1] \in Int /\ goal[2] \in Int
  BY DEF TilesOf, IsBoard
<1>4. q[1] = p[1] + d[1] /\ q[2] = p[2] + d[2]
  BY <1>1 DEF Plus
<1>5. Cost(p, q) = IF d[1] # 0 /\ d[2] # 0 THEN 7 ELSE 5
  BY <1>2, <1>3, <1>4 DEF Cost, moveCost, Minus, Straight, Diagonal
<1> DEFINE H(x, y) == IF x <= y THEN 7 * x + 5 * (y - x) ELSE 7 * y + 5 * (x - y)
<1>6. /\ Abs(p[1] - goal[1]) \in Nat /\ Abs(p[2] - goal[2]) \in Nat
      /\ Abs(q[1] - goal[1]) \in Nat /\ Abs(q[2] - goal[2]) \in Nat
  BY <1>2, <1>3, <1>4 DEF Abs
<1>7. /\ heuristic(p, goal) = H(Abs(p[1] - goal[1]), Abs(p[2] - goal[2]))
      /\ heuristic(q, goal) = H(Abs(q[1] - goal[1]), Abs(q[2] - goal[2]))
  <2>1. ASSUME NEW x \in Nat, NEW y \in Nat
        PROVE  (LET diag == IF x <= y THEN x ELSE y IN Diagonal * diag + Straight * (x + y - 2 * diag))
                  = H(x, y)
    BY DEF Straight, Diagonal
  <2> HIDE DEF H
  <2> QED
    BY <1>6, <2>1 DEF heuristic
<1>8. /\ Abs(q[1] - goal[1]) - Abs(p[1] - goal[1]) \in -1..1
      /\ d[1] = 0 => Abs(q[1] - goal[1]) = Abs(p[1] - goal[1])
      /\ Abs(q[2] - goal[2]) - Abs(p[2] - goal[2]) \in -1..1
      /\ d[2] = 0 => Abs(q[2] - goal[2]) = Abs(p[2] - goal[2])
  BY <1>2, <1>3, <1>4 DEF Abs
<1>9. ASSUME NEW x \in Nat, NEW y \in Nat, NEW u \in Nat, NEW v \in Nat,
             u - x \in -1..1, v - y \in -1..1
      PROVE  /\ H(x, y) <= 7 + H(u, v)
             /\ x = u \/ y = v => H(x, y) <= 5 + H(u, v)
  BY <1>9
<1> HIDE DEF H
<1>10. /\ heuristic(p, goal) <= 7 + heuristic(q, goal)
       /\ d[1] = 0 \/ d[2] = 0 => heuristic(p, goal) <= 5 + heuristic(q, goal)
  BY <1>6, <1>7, <1>8, <1>9
<1> QED
  BY <1>5, <1>10

(***************************************************************************)
(* The inductive invariant of the search.                                  *)
(***************************************************************************)
Seen == DOMAIN cameFrom
G(q) == cameFrom[q].g
F(q) == G(q) + heuristic(q, to)
Origins == [g : Nat, parent : TilesOf(board) \cup {Nobody}]

SearchTyped ==
    /\ result \in {"none", "searching", "found", "failed"}
    /\ result = "none" => closed = {}
    /\ result # "none" =>
          /\ IsBoard(board) /\ from \in TilesOf(board) /\ to \in TilesOf(board)
          /\ Seen \subseteq TilesOf(board) /\ cameFrom \in [Seen -> Origins]
          /\ open \subseteq [at : Seen, g : Nat] /\ closed \subseteq Seen

(* Parents lead to the start, and are closed; a tile's cost is that of the *)
(* way they make.                                                          *)
Rooted ==
    /\ from \in Seen /\ cameFrom[from] = [g |-> 0, parent |-> Nobody]
    /\ \A q \in Seen \ {from} :
          /\ cameFrom[q].parent \in closed
          /\ q \in Neighbours(board, cameFrom[q].parent)
          /\ G(q) = G(cameFrom[q].parent) + Cost(cameFrom[q].parent, q)

(* What waits in the queue is no cheaper than what is known, and what is   *)
(* not closed waits at what is known.                                      *)
Offered == \A m \in open : G(m.at) <= m.g
Waits == Searching => \A q \in Seen \ closed : [at |-> q, g |-> G(q)] \in open

(* Tiles are closed in the order of f. *)
InTurn == \A x \in closed : /\ \A m \in open : F(x) <= m.g + heuristic(m.at, to)
                            /\ \A q \in Seen \ closed : F(x) <= F(q)

(* No step out of a closed tile is a better way. *)
Relaxed == \A x \in closed : \A q \in Neighbours(board, x) :
              q \in Seen /\ G(q) <= G(x) + Cost(x, q)

Ended == /\ to \notin closed
         /\ result = "found" => /\ to \in Seen /\ \A q \in Seen \ closed : G(to) <= F(q)
                                /\ out = WayBack(to)
         /\ result = "failed" => Seen = closed

SearchInv ==
    /\ SearchTyped
    /\ result # "none" => Rooted /\ Offered /\ Waits /\ InTurn /\ Relaxed /\ Ended

(* Costs are naturals. *)
LEMMA CostsTyped ==
    ASSUME SearchTyped, result # "none"
    PROVE  /\ \A q \in Seen : q \in TilesOf(board) /\ G(q) \in Nat /\ heuristic(q, to) \in Nat /\ F(q) \in Nat
           /\ \A m \in open : /\ m.at \in Seen /\ m.g \in Nat /\ heuristic(m.at, to) \in Nat
                              /\ m = [at |-> m.at, g |-> m.g]
           /\ heuristic(to, to) = 0
<1> USE DEF SearchTyped
<1>1. \A q \in Seen : q \in TilesOf(board) /\ cameFrom[q] \in Origins
  OBVIOUS
<1>2. \A q \in Seen : G(q) \in Nat
  BY <1>1 DEF G, Origins
<1>3. \A q \in Seen : heuristic(q, to) \in Nat
  BY <1>1, HeuristicTyped
<1>4. heuristic(to, to) = 0
  BY HeuristicTyped
<1> QED
  BY <1>1, <1>2, <1>3, <1>4 DEF F

(* A search begins with only its start in the queue, and the invariant. *)
LEMMA BeginKeeps ==
    ASSUME SearchInv, NEW b, IsBoard(b), NEW p \in TilesOf(b), NEW q \in TilesOf(b), Begin(b, p, q)
    PROVE  SearchInv'
<1>1. closed = {} /\ closed' = {} /\ result' = "searching"
  BY DEF SearchInv, SearchTyped, Begin
<1>2. /\ board' = b /\ from' = p /\ to' = q
      /\ cameFrom' = [t \in {p} |-> [g |-> 0, parent |-> Nobody]] /\ open' = {[at |-> p, g |-> 0]}
  BY DEF Begin
<1>3. Seen' = {p} /\ cameFrom'[p] = [g |-> 0, parent |-> Nobody]
  BY <1>2 DEF Seen
<1>4. SearchTyped'
  BY <1>1, <1>2, <1>3 DEF SearchTyped, Origins
<1>5. Rooted' /\ Offered' /\ Waits'
  BY <1>1, <1>2, <1>3 DEF Rooted, Offered, Waits, Searching, G
<1>6. InTurn' /\ Relaxed' /\ Ended'
  BY <1>1, <1>2 DEF InTurn, Relaxed, Ended
<1> QED
  BY <1>4, <1>5, <1>6 DEF SearchInv

(* What is popped is the cheapest way known, unless it was closed before.  *)
LEMMA PoppedCost ==
    ASSUME SearchInv, NEW n \in open, Popped(n), n.at \notin closed
    PROVE  n.g = G(n.at)
<1>1. SearchTyped /\ result # "none" /\ Searching
  BY DEF SearchInv, Popped, Searching
<1>2. n.at \in Seen /\ n.g \in Nat /\ G(n.at) \in Nat /\ heuristic(n.at, to) \in Nat
  BY <1>1, CostsTyped
<1> DEFINE m == [at |-> n.at, g |-> G(n.at)]
<1>3. m \in open
  BY <1>1, <1>2 DEF SearchInv, Waits
<1>4. n.g + heuristic(n.at, to) <= G(n.at) + heuristic(n.at, to)
  <2>1. First(n, m) /\ m.at = n.at /\ m.g = G(n.at)
    BY <1>3 DEF Popped
  <2> HIDE DEF m
  <2> QED
    BY <1>2, <2>1 DEF First
<1>5. G(n.at) <= n.g
  BY <1>1 DEF SearchInv, Offered
<1> QED
  BY <1>2, <1>4, <1>5

(* What the queue gives out has the least f of all that wait in it. *)
LEMMA PoppedLeast ==
    ASSUME SearchTyped, result # "none", NEW n \in open, Popped(n), NEW m \in open
    PROVE  n.g + heuristic(n.at, to) <= m.g + heuristic(m.at, to)
<1>1. /\ n.g \in Nat /\ heuristic(n.at, to) \in Nat /\ m.g \in Nat /\ heuristic(m.at, to) \in Nat
  BY CostsTyped
<1>2. First(n, m)
  BY DEF Popped
<1> QED
  BY <1>1, <1>2 DEF First

(* Finding the goal keeps the invariant: no waiting tile has a lower f. *)
LEMMA ReachGoalKeeps == ASSUME SearchInv, NEW n \in open, ReachGoal(n) PROVE SearchInv'
<1>1. /\ Popped(n) /\ n.at = to /\ result # "none" /\ Searching /\ SearchTyped
      /\ result' = "found" /\ out' = WayBack(to) /\ open' \subseteq open
      /\ UNCHANGED <<board, from, to, closed, cameFrom>>
  BY DEF ReachGoal, SearchInv, Popped, Searching
<1>2. n.g = G(to) /\ to \notin closed /\ to \in Seen /\ G(to) \in Nat
  BY <1>1, PoppedCost, CostsTyped DEF SearchInv, Ended
<1>3. \A q \in Seen \ closed : G(to) <= F(q)
  <2> SUFFICES ASSUME NEW q \in Seen \ closed PROVE G(to) <= F(q)
    OBVIOUS
  <2> DEFINE m == [at |-> q, g |-> G(q)]
  <2>1. m \in open
    BY <1>1 DEF SearchInv, Waits
  <2>2. m.at = q /\ m.g = G(q)
    OBVIOUS
  <2> HIDE DEF m
  <2>3. n.g + heuristic(n.at, to) <= m.g + heuristic(m.at, to)
    BY <1>1, <2>1, PoppedLeast
  <2> QED
    BY <1>1, <1>2, <2>2, <2>3, CostsTyped DEF F
<1>4. WayBack(to)' = WayBack(to)
  BY <1>1 DEF WayBack, Longer
<1>5. SearchTyped'
  BY <1>1 DEF SearchTyped, Seen, Origins
<1>6. Rooted' /\ Offered' /\ Waits' /\ InTurn' /\ Relaxed'
  BY <1>1 DEF SearchInv, Rooted, Offered, Waits, InTurn, Relaxed, Searching, G, F, Seen
<1>7. Ended'
  BY <1>1, <1>2, <1>3, <1>4 DEF Ended, Seen, F, G
<1> QED
  BY <1>1, <1>5, <1>6, <1>7 DEF SearchInv

(* A tile that is closed already can be dropped. *)
LEMMA SkipKeeps == ASSUME SearchInv, NEW n \in open, Skip(n) PROVE SearchInv'
<1>1. /\ n.at \in closed /\ result # "none" /\ Searching /\ SearchTyped /\ open' = open \ {n}
      /\ UNCHANGED <<board, from, to, closed, cameFrom, result, out>>
  BY DEF Skip, SearchInv, Popped, Searching
<1>2. SearchTyped'
  BY <1>1 DEF SearchTyped, Seen, Origins
<1>3. Waits'
  BY <1>1 DEF SearchInv, Waits, Searching, G, Seen
<1>4. Rooted' /\ Offered' /\ InTurn' /\ Relaxed' /\ Ended'
  BY <1>1 DEF SearchInv, Rooted, Offered, InTurn, Relaxed, Ended, Searching, G, F, Seen
<1> QED
  BY <1>2, <1>3, <1>4 DEF SearchInv

(* When nothing waits, all that can be reached is closed. *)
LEMMA GiveUpKeeps == ASSUME SearchInv, GiveUp PROVE SearchInv'
<1>1. /\ open = {} /\ result # "none" /\ Searching /\ SearchTyped /\ result' = "failed"
      /\ UNCHANGED <<board, from, to, open, closed, cameFrom, out>>
  BY DEF GiveUp, SearchInv, Searching
<1>2. Seen = closed
  BY <1>1 DEF SearchInv, Waits, SearchTyped
<1>3. SearchTyped'
  BY <1>1 DEF SearchTyped, Seen, Origins
<1>4. Rooted' /\ Offered' /\ Waits' /\ InTurn' /\ Relaxed' /\ Ended'
  BY <1>1, <1>2 DEF SearchInv, Rooted, Offered, Waits, InTurn, Relaxed, Ended, Searching, G, F, Seen
<1> QED
  BY <1>1, <1>3, <1>4 DEF SearchInv

(* Closing a tile and relaxing its neighbours keeps the invariant: an      *)
(* estimate never drops by more than a step costs, so f never falls below  *)
(* that of a closed tile.                                                  *)
LEMMA ExpandKeeps == ASSUME SearchInv, NEW n \in open, Expand(n) PROVE SearchInv'
<1> DEFINE x == n.at
           better == Better(n)
           Offer(q) == n.g + Cost(x, q)
<1>1. /\ Popped(n) /\ x # to /\ x \notin closed
      /\ cameFrom' = [q \in Seen \cup better |->
                        IF q \in better THEN [g |-> Offer(q), parent |-> x] ELSE cameFrom[q]]
      /\ closed' = (closed \cup {x}) \ better
      /\ open' = (open \ {n}) \cup {[at |-> q, g |-> Offer(q)] : q \in better}
      /\ UNCHANGED <<board, from, to, result, out>>
  BY DEF Expand, Seen
<1>2. /\ result # "none" /\ result' # "none" /\ Searching /\ SearchTyped
      /\ Rooted /\ Offered /\ Waits /\ InTurn /\ Relaxed /\ Ended
  BY <1>1 DEF SearchInv, Popped, Searching
<1>3. /\ x \in Seen /\ x \in TilesOf(board) /\ n.g \in Nat /\ n.g = G(x) /\ IsBoard(board)
      /\ to \in TilesOf(board) /\ closed \subseteq Seen /\ F(x) \in Nat /\ F(x) = n.g + heuristic(x, to)
  BY <1>1, <1>2, PoppedCost, CostsTyped DEF SearchTyped, F
<1>4. \A q \in Neighbours(board, x) :
         /\ q \in TilesOf(board) /\ q # x /\ Cost(x, q) \in Nat /\ Cost(x, q) > 0 /\ Offer(q) \in Nat
         /\ heuristic(q, to) \in Nat /\ F(x) <= Offer(q) + heuristic(q, to)
  <2> SUFFICES ASSUME NEW q \in Neighbours(board, x)
               PROVE /\ q \in TilesOf(board) /\ q # x /\ Cost(x, q) \in Nat /\ Cost(x, q) > 0
                     /\ Offer(q) \in Nat
                     /\ heuristic(q, to) \in Nat /\ F(x) <= Offer(q) + heuristic(q, to)
    OBVIOUS
  <2>1. /\ q \in TilesOf(board) /\ q # x /\ Cost(x, q) \in Nat /\ Cost(x, q) > 0
    BY <1>3, NeighbourTyped
  <2>2. heuristic(q, to) \in Nat /\ heuristic(x, to) \in Nat
    BY <1>3, <2>1, HeuristicTyped
  <2>3. heuristic(x, to) <= Cost(x, q) + heuristic(q, to)
    BY <1>3, Consistent
  <2> QED
    BY <1>3, <2>1, <2>2, <2>3
<1>5. /\ better \subseteq Neighbours(board, x)
      /\ \A q \in better : q \in Seen => Offer(q) < G(q)
      /\ \A q \in Neighbours(board, x) \ better : q \in Seen /\ ~(Offer(q) < G(q))
  BY DEF Better, Seen, G
<1>6. /\ \A q \in Seen : q \in TilesOf(board) /\ G(q) \in Nat /\ heuristic(q, to) \in Nat
                         /\ F(q) \in Nat /\ F(q) = G(q) + heuristic(q, to)
      /\ \A m \in open : /\ m.at \in Seen /\ m.g \in Nat /\ heuristic(m.at, to) \in Nat
                         /\ m = [at |-> m.at, g |-> m.g]
  BY <1>2, CostsTyped DEF F
<1> HIDE DEF better, x, Offer
<1>7. closed \cap better = {}
  <2> SUFFICES ASSUME NEW q \in closed, q \in better PROVE FALSE
    OBVIOUS
  <2>1. F(q) <= n.g + heuristic(x, to)
    BY <1>2 DEF InTurn, x
  <2>2. F(q) <= Offer(q) + heuristic(q, to) /\ Offer(q) < G(q) /\ Offer(q) \in Nat
    BY <1>3, <1>4, <1>5, <1>6, <2>1
  <2> QED
    BY <1>3, <1>6, <2>2
<1>8. from \notin better /\ x \notin better
  <2>1. G(from) = 0 /\ from \in Seen
    BY <1>2 DEF Rooted, G
  <2> QED
    BY <1>4, <1>5, <2>1
<1>9. closed' = closed \cup {x}
  BY <1>1, <1>7, <1>8
<1>10. /\ Seen' = Seen \cup better
       /\ \A q \in better : cameFrom'[q] = [g |-> Offer(q), parent |-> x] /\ cameFrom'[q].g = Offer(q)
       /\ \A q \in Seen \ better : cameFrom'[q] = cameFrom[q] /\ cameFrom'[q].g = G(q) /\ cameFrom'[q].g + heuristic(q, to) = F(q)
       /\ \A q \in better : cameFrom'[q].g + heuristic(q, to) = Offer(q) + heuristic(q, to)
  BY <1>1 DEF Seen, G, F
<1>11. \A q \in Seen : cameFrom'[q].g \in Nat /\ cameFrom'[q].g <= G(q)
  <2> SUFFICES ASSUME NEW q \in Seen PROVE cameFrom'[q].g \in Nat /\ cameFrom'[q].g <= G(q)
    OBVIOUS
  <2>1. CASE q \in better
    <3>1. Offer(q) \in Nat
      BY <1>4, <1>5, <2>1
    <3>2. Offer(q) < G(q)
      BY <1>5, <2>1
    <3>3. cameFrom'[q].g = Offer(q)
      BY <1>10, <2>1
    <3>4. G(q) \in Nat
      BY <1>6
    <3> QED
      BY <3>1, <3>2, <3>3, <3>4
  <2>2. CASE q \notin better
    BY <1>6, <1>10, <2>2
  <2> QED
    BY <2>1, <2>2
<1>12. /\ \A q \in closed' : q \in Seen /\ q \notin better /\ cameFrom'[q].g = G(q) /\ cameFrom'[q].g + heuristic(q, to) = F(q) /\ F(q) \in Nat
       /\ Searching' /\ Neighbours(board, x)' = Neighbours(board, x)
  BY <1>1, <1>2, <1>3, <1>6, <1>7, <1>8, <1>9, <1>10 DEF Searching
<1>13. \A m \in open' : \/ m \in open \ {n}
                        \/ m.at \in better /\ m.g = Offer(m.at) /\ m = [at |-> m.at, g |-> m.g]
  BY <1>1
<1>14. SearchTyped'
  <2>1. Seen' \subseteq TilesOf(board)
    BY <1>4, <1>5, <1>6, <1>10
  <2>2. cameFrom' \in [Seen' -> Origins]
    <3>1. \A q \in Seen : cameFrom[q] \in Origins
      BY <1>2 DEF SearchTyped
    <3>2. \A q \in better : [g |-> Offer(q), parent |-> x] \in Origins
      BY <1>3, <1>4, <1>5 DEF Origins
    <3> QED
      BY <1>1, <1>10, <3>1, <3>2
  <2>3. open' \subseteq [at : Seen', g : Nat]
    <3> SUFFICES ASSUME NEW m \in open' PROVE m \in [at : Seen', g : Nat]
      OBVIOUS
    <3>1. CASE m \in open \ {n}
      BY <1>6, <1>10, <3>1
    <3>2. CASE m.at \in better /\ m.g = Offer(m.at) /\ m = [at |-> m.at, g |-> m.g]
      BY <1>4, <1>5, <1>10, <3>2
    <3> QED
      BY <1>13, <3>1, <3>2
  <2>4. closed' \subseteq Seen'
    BY <1>3, <1>9, <1>10
  <2>5. Origins' = Origins
    BY <1>1 DEF Origins
  <2> QED
    BY <1>1, <1>2, <1>3, <2>1, <2>2, <2>3, <2>4, <2>5 DEF SearchTyped
<1>15. Rooted'
  <2>1. from' \in Seen' /\ cameFrom'[from'] = [g |-> 0, parent |-> Nobody]
    BY <1>1, <1>2, <1>8, <1>10 DEF Rooted
  <2>2. ASSUME NEW q \in Seen' \ {from'}
        PROVE  /\ cameFrom'[q].parent \in closed'
               /\ q \in Neighbours(board, cameFrom'[q].parent)
               /\ cameFrom'[q].g = cameFrom'[cameFrom'[q].parent].g + Cost(cameFrom'[q].parent, q)
    <3>1. CASE q \in better
      <4>1. cameFrom'[q].parent = x
        <5>1. cameFrom'[q] = [g |-> Offer(q), parent |-> x]
          BY <1>10, <3>1
        <5> QED
          BY <5>1
      <4>2. cameFrom'[x].g = n.g
        BY <1>3, <1>9, <1>12
      <4> QED
        BY <1>5, <1>9, <1>10, <3>1, <4>1, <4>2 DEF G, Offer
    <3>2. CASE q \notin better
      <4>1. q \in Seen \ {from} /\ cameFrom'[q] = cameFrom[q] /\ cameFrom'[q].g = G(q)
        BY <1>1, <1>10, <3>2
      <4>2. /\ cameFrom[q].parent \in closed
            /\ q \in Neighbours(board, cameFrom[q].parent)
            /\ G(q) = G(cameFrom[q].parent) + Cost(cameFrom[q].parent, q)
        BY <1>2, <4>1 DEF Rooted
      <4> DEFINE p == cameFrom[q].parent
      <4>3. p \in closed' /\ cameFrom'[p].g = G(p)
        BY <1>9, <1>12, <4>2 DEF G
      <4> QED
        BY <4>1, <4>2, <4>3 DEF G
    <3> QED
      BY <3>1, <3>2
  <2> QED
    BY <1>1, <2>1, <2>2 DEF Rooted, G
<1>16. Offered'
  <2> SUFFICES ASSUME NEW m \in open' PROVE cameFrom'[m.at].g <= m.g
    BY DEF Offered, G
  <2>1. CASE m \in open \ {n}
    <3>1. G(m.at) <= m.g
      BY <1>2, <2>1 DEF Offered
    <3>2. m.at \in Seen /\ m.g \in Nat /\ G(m.at) \in Nat
      BY <1>6, <2>1
    <3>3. cameFrom'[m.at].g \in Nat /\ cameFrom'[m.at].g <= G(m.at)
      BY <1>11, <3>2
    <3> QED
      BY <3>1, <3>2, <3>3
  <2>2. CASE m.at \in better /\ m.g = Offer(m.at)
    <3>1. cameFrom'[m.at].g = Offer(m.at)
      BY <1>10, <2>2
    <3>2. Offer(m.at) \in Nat
      BY <1>4, <1>5, <2>2
    <3> QED
      BY <2>2, <3>1, <3>2
  <2> QED
    BY <1>13, <2>1, <2>2
<1>17. Waits'
  <2> SUFFICES ASSUME NEW q \in Seen' \ closed' PROVE [at |-> q, g |-> cameFrom'[q].g] \in open'
    BY DEF Waits, G
  <2>1. CASE q \in better
    BY <1>1, <1>10, <2>1
  <2>2. CASE q \notin better
    <3>1. q \in Seen \ closed /\ q # x /\ cameFrom'[q].g = G(q)
      BY <1>9, <1>10, <2>2
    <3>2. [at |-> q, g |-> G(q)] \in open
      BY <1>2, <3>1 DEF Waits
    <3>3. [at |-> q, g |-> G(q)] # n
      BY <3>1 DEF x
    <3> QED
      BY <1>1, <3>1, <3>2, <3>3
  <2> QED
    BY <2>1, <2>2
<1>18. ASSUME NEW y \in closed', NEW m \in open' PROVE cameFrom'[y].g + heuristic(y, to) <= m.g + heuristic(m.at, to)
  <2>1. cameFrom'[y].g + heuristic(y, to) = F(y) /\ F(y) \in Nat
    BY <1>12
  <2>2. F(y) <= F(x)
    <3>1. CASE y = x
      BY <1>3, <3>1
    <3>2. CASE y \in closed
      BY <1>2, <1>3, <3>2 DEF InTurn, x
    <3> QED
      BY <1>9, <3>1, <3>2
  <2>3. m.g + heuristic(m.at, to) \in Nat /\ F(x) <= m.g + heuristic(m.at, to)
    <3>1. CASE m \in open \ {n}
      <4>1. n.g + heuristic(n.at, to) <= m.g + heuristic(m.at, to)
        BY <1>1, <1>2, <3>1, PoppedLeast
      <4> QED
        BY <1>3, <1>6, <3>1, <4>1 DEF x
    <3>2. CASE m.at \in better /\ m.g = Offer(m.at)
      BY <1>4, <1>5, <3>2
    <3> QED
      BY <1>13, <3>1, <3>2
  <2> QED
    BY <1>3, <2>1, <2>2, <2>3
<1>19. InTurn'
  <2>1. ASSUME NEW y \in closed', NEW q \in Seen' \ closed' PROVE cameFrom'[y].g + heuristic(y, to) <= cameFrom'[q].g + heuristic(q, to)
    <3> DEFINE m == [at |-> q, g |-> cameFrom'[q].g]
    <3>1. m \in open' /\ m.at = q /\ m.g = cameFrom'[q].g
      BY <1>12, <1>17 DEF Waits, G
    <3> HIDE DEF m
    <3>2. cameFrom'[y].g + heuristic(y, to) <= m.g + heuristic(m.at, to)
      BY <1>18, <3>1
    <3>3. cameFrom'[q].g + heuristic(q, to) = cameFrom'[q].g + heuristic(q, to)
      BY <1>1 DEF F
    <3> QED
      BY <3>1, <3>2, <3>3
  <2> QED
    BY <1>1, <1>18, <2>1 DEF InTurn, F, G
<1>20. Relaxed'
  <2> SUFFICES ASSUME NEW y \in closed', NEW q \in Neighbours(board, y)
               PROVE  q \in Seen' /\ cameFrom'[q].g <= cameFrom'[y].g + Cost(y, q)
    BY <1>1 DEF Relaxed, G
  <2>1. CASE y \in closed
    <3>1. q \in Seen /\ G(q) <= G(y) + Cost(y, q)
      BY <1>2, <2>1 DEF Relaxed
    <3>2. cameFrom'[y].g = G(y) /\ y \in Seen
      BY <1>12
    <3>3. Cost(y, q) \in Nat
      BY <1>3, <1>6, <3>2, NeighbourTyped
    <3>4. G(q) \in Nat /\ G(y) \in Nat
      BY <1>6, <3>1, <3>2
    <3>5. q \in Seen' /\ cameFrom'[q].g \in Nat /\ cameFrom'[q].g <= G(q)
      BY <1>10, <1>11, <3>1
    <3> QED
      BY <3>1, <3>2, <3>3, <3>4, <3>5
  <2>2. CASE y = x
    <3>1. cameFrom'[y].g + Cost(y, q) = Offer(q) /\ Offer(q) \in Nat
      BY <1>3, <1>4, <1>12, <2>2 DEF Offer
    <3>2. CASE q \in better
      <4>1. cameFrom'[q].g = Offer(q) /\ q \in Seen'
        BY <1>10, <3>2
      <4> QED
        BY <3>1, <4>1
    <3>3. CASE q \notin better
      <4>1. q \in Seen /\ ~(Offer(q) < G(q)) /\ cameFrom'[q].g = G(q) /\ G(q) \in Nat
        BY <1>5, <1>6, <1>10, <2>2, <3>3
      <4> QED
        BY <1>10, <3>1, <4>1
    <3> QED
      BY <3>2, <3>3
  <2> QED
    BY <1>9, <2>1, <2>2
<1>21. Ended'
  <2>1. to' \notin closed'
    BY <1>1, <1>2, <1>9 DEF Ended
  <2> QED
    BY <1>1, <1>2, <2>1 DEF Ended, Searching
<1> QED
  BY <1>2, <1>14, <1>15, <1>16, <1>17, <1>19, <1>20, <1>21 DEF SearchInv

(* Every step of a search keeps the invariant. *)
LEMMA SearchKeeps == ASSUME SearchInv, SearchNext PROVE SearchInv'
<1> QED
  BY ReachGoalKeeps, SkipKeeps, ExpandKeeps, GiveUpKeeps DEF SearchNext

(***************************************************************************)
(* What ways there are at all.                                             *)
(***************************************************************************)
Nodes(b) == [at : TilesOf(b), g : Nat]

(* A node leads on to its neighbours. *)
Onward(b, R) == UNION {{[at |-> q, g |-> m.g + Cost(m.at, q)] : q \in Neighbours(b, m.at)} : m \in R}

(* What the reference definition of a shortest way adds, step by step, are *)
(* nodes of the board.                                                     *)
LEMMA OnwardTyped ==
    ASSUME NEW b, IsBoard(b), NEW R \in SUBSET Nodes(b)
    PROVE  /\ Onward(b, R) \in SUBSET Nodes(b)
           /\ Further(b, R) = {m \in R \cup Onward(b, R) :
                                  \A n \in R \cup Onward(b, R) : n.at = m.at => m.g <= n.g}
           /\ Further(b, R) \in SUBSET Nodes(b)
<1>1. ASSUME NEW m \in R, NEW q \in Neighbours(b, m.at)
      PROVE  [at |-> q, g |-> m.g + Cost(m.at, q)] \in Nodes(b)
  <2>1. m.at \in TilesOf(b) /\ m.g \in Nat
    BY DEF Nodes
  <2> QED
    BY <2>1, NeighbourTyped DEF Nodes
<1>2. Onward(b, R) \in SUBSET Nodes(b)
  BY <1>1 DEF Onward
<1> QED
  BY <1>2 DEF Further, Onward

(* Of the nodes of a tile a cheapest one is kept. *)
LEMMA FurtherLeast ==
    ASSUME NEW b, IsBoard(b), NEW R \in SUBSET Nodes(b), NEW m \in R \cup Onward(b, R)
    PROVE  \E n \in Further(b, R) : n.at = m.at /\ n.g <= m.g
<1> DEFINE all == R \cup Onward(b, R)
           costs == {n.g : n \in {i \in all : i.at = m.at}}
<1>1. all \in SUBSET Nodes(b) /\ m \in all
  BY OnwardTyped
<1>2. \A n \in all : n.g \in Nat
  BY <1>1 DEF Nodes
<1> HIDE DEF all
<1>3. costs \in SUBSET Nat /\ m.g \in costs
  BY <1>1, <1>2
<1>4. PICK c \in costs : \A x \in costs : c <= x
  <2> HIDE DEF costs
  <2> QED
    BY <1>3, LeastNatural
<1>5. PICK n \in all : n.at = m.at /\ n.g = c
  OBVIOUS
<1>6. \A i \in all : i.at = n.at => n.g <= i.g
  BY <1>4, <1>5
<1>7. n \in Further(b, R)
  BY <1>5, <1>6, OnwardTyped DEF all
<1> QED
  BY <1>3, <1>4, <1>5, <1>7

(* The recursive definition of Within defines what it says. *)
LEMMA WithinRecursion ==
    ASSUME NEW b, IsBoard(b), NEW p \in TilesOf(b)
    PROVE  /\ Within(b, p) \in [Nat -> SUBSET Nodes(b)]
           /\ Within(b, p)[0] = {[at |-> p, g |-> 0]}
           /\ \A k \in Nat : Within(b, p)[k + 1] = Further(b, Within(b, p)[k])
<1> DEFINE S == SUBSET Nodes(b)
           start == {[at |-> p, g |-> 0]}
           H == [R \in S |-> Further(b, R)]
           Defines(f) == f = [k \in Nat |-> IF k = 0 THEN start ELSE Further(b, f[k - 1])]
           w == Within(b, p)
<1>1. start \in S
  BY DEF Nodes
<1>2. H \in [S -> S]
  BY OnwardTyped
<1>3. PICK f \in [Nat -> S] : f[0] = start /\ \A k \in Nat : f[k + 1] = H[f[k]]
  <2> HIDE DEF S, start, H
  <2> QED
    BY <1>1, <1>2, Recursion
<1>4. Defines(f)
  <2>1. ASSUME NEW k \in Nat PROVE f[k] = IF k = 0 THEN start ELSE Further(b, f[k - 1])
    <3>1. CASE k = 0
      BY <1>3, <3>1
    <3>2. CASE k # 0
      <4>1. k - 1 \in Nat /\ (k - 1) + 1 = k
        BY <3>2
      <4>2. f[(k - 1) + 1] = H[f[k - 1]] /\ f[k - 1] \in S
        BY <1>3, <4>1
      <4>3. H[f[k - 1]] = Further(b, f[k - 1])
        BY <4>2
      <4> QED
        BY <3>2, <4>1, <4>2, <4>3
    <3> QED
      BY <3>1, <3>2
  <2> HIDE DEF S, start, H
  <2> QED
    BY <1>3, <2>1
<1>5. w = CHOOSE x : Defines(x)
  BY DEF Within
<1> HIDE DEF w
<1>6. Defines(w)
  <2> HIDE DEF Defines
  <2> QED
    BY <1>4, <1>5
<1>7. /\ w = [k \in Nat |-> w[k]] /\ w[0] = start
      /\ \A k \in Nat : w[k + 1] = Further(b, w[k])
  <2>1. \A k \in Nat : k + 1 \in Nat /\ k + 1 # 0 /\ (k + 1) - 1 = k
    OBVIOUS
  <2> HIDE DEF start
  <2> QED
    BY <1>6, <2>1
<1>8. {k \in Nat : w[k] \in S} = Nat
  <2> DEFINE P == {k \in Nat : w[k] \in S}
  <2>1. 0 \in P
    BY <1>1, <1>7
  <2>2. \A k \in P : k + 1 \in P
    BY <1>7, OnwardTyped
  <2> HIDE DEF P
  <2>3. P \in SUBSET Nat
    BY DEF P
  <2> QED
    BY <2>1, <2>2, <2>3, Induction DEF P
<1>9. w \in [Nat -> S]
  BY <1>7, <1>8
<1> QED
  BY <1>7, <1>9 DEF w

(* A way of at most k steps to q costs no more than c. *)
Affords(b, p, k, q, c) == \E m \in Within(b, p)[k] : m.at = q /\ m.g <= c

(* A way that is short enough is one of more steps, too. *)
LEMMA WithinGrows ==
    ASSUME NEW b, IsBoard(b), NEW p \in TilesOf(b), NEW q, NEW c \in Nat, NEW j \in Nat, NEW k \in Nat, j <= k,
           Affords(b, p, j, q, c)
    PROVE  Affords(b, p, k, q, c)
<1> DEFINE w == Within(b, p)
           P == {i \in Nat : \E m \in w[j + i] : m.at = q /\ m.g <= c}
<1>1. w \in [Nat -> SUBSET Nodes(b)] /\ \A h \in Nat : w[h + 1] = Further(b, w[h])
  BY WithinRecursion
<1>2. \E m \in w[j] : m.at = q /\ m.g <= c
  BY DEF Affords
<1> HIDE DEF w
<1>3. 0 \in P
  <2>1. j + 0 = j
    OBVIOUS
  <2> QED
    BY <1>2, <2>1
<1>4. ASSUME NEW i \in P PROVE i + 1 \in P
  <2>1. i \in Nat /\ j + i \in Nat /\ (j + i) + 1 = j + (i + 1) /\ i + 1 \in Nat
    OBVIOUS
  <2>2. PICK m \in w[j + i] : m.at = q /\ m.g <= c
    OBVIOUS
  <2>3. w[j + i] \in SUBSET Nodes(b) /\ w[j + (i + 1)] = Further(b, w[j + i])
    BY <1>1, <2>1
  <2>4. PICK n \in Further(b, w[j + i]) : n.at = m.at /\ n.g <= m.g
    BY <2>2, <2>3, FurtherLeast
  <2>5. n.g \in Nat /\ m.g \in Nat
    <3>1. n \in Nodes(b) /\ m \in Nodes(b)
      BY <2>3, OnwardTyped
    <3> QED
      BY <3>1 DEF Nodes
  <2>6. n.g <= c
    BY <2>2, <2>4, <2>5
  <2> QED
    BY <2>1, <2>2, <2>3, <2>4, <2>6
<1> HIDE DEF P
<1>5. P = Nat
  <2>1. P \in SUBSET Nat
    BY DEF P
  <2> QED
    BY <1>3, <1>4, <2>1, Induction
<1>6. k - j \in P /\ j + (k - j) = k
  BY <1>5
<1>7. \E m \in w[k] : m.at = q /\ m.g <= c
  BY <1>6 DEF P
<1> QED
  BY <1>7 DEF w, Affords

(* Every way is as long as the search knows, or leaves what is closed over *)
(* a tile that is not closed and is no nearer to the goal than that.       *)
LEMMA NoWayCheaper ==
    ASSUME SearchInv, result # "none", NEW k \in Nat, NEW m \in Within(board, from)[k]
    PROVE  /\ m.at \in TilesOf(board) /\ m.g \in Nat
           /\ \/ m.at \in Seen /\ G(m.at) <= m.g
              \/ \E q \in Seen \ closed : F(q) <= m.g + heuristic(m.at, to)
<1> DEFINE w == Within(board, from)
           Known(i) == i.at \in Seen /\ G(i.at) <= i.g
           Leaves(i) == \E q \in Seen \ closed : F(q) <= i.g + heuristic(i.at, to)
           P == {j \in Nat : \A i \in w[j] : Known(i) \/ Leaves(i)}
<1>1. /\ SearchTyped /\ Rooted /\ Relaxed /\ IsBoard(board) /\ from \in TilesOf(board)
      /\ to \in TilesOf(board) /\ closed \subseteq Seen
  BY DEF SearchInv, SearchTyped
<1>2. /\ w \in [Nat -> SUBSET Nodes(board)] /\ w[0] = {[at |-> from, g |-> 0]}
      /\ \A j \in Nat : w[j + 1] = Further(board, w[j])
  BY <1>1, WithinRecursion
<1>3. \A q \in Seen : q \in TilesOf(board) /\ G(q) \in Nat /\ heuristic(q, to) \in Nat /\ F(q) \in Nat
                      /\ F(q) = G(q) + heuristic(q, to)
  BY <1>1, CostsTyped DEF F
<1> HIDE DEF w
<1>4. 0 \in P
  BY <1>1, <1>2 DEF Rooted, G
<1>5. ASSUME NEW j \in P PROVE j + 1 \in P
  <2>1. w[j] \in SUBSET Nodes(board) /\ w[j + 1] = Further(board, w[j]) /\ j + 1 \in Nat
    BY <1>2
  <2> SUFFICES ASSUME NEW i \in w[j + 1] PROVE Known(i) \/ Leaves(i)
    BY <2>1
  <2>2. i \in w[j] \/ i \in Onward(board, w[j])
    BY <1>1, <2>1, OnwardTyped
  <2>3. CASE i \in w[j]
    BY <2>3
  <2>4. CASE i \in Onward(board, w[j])
    <3>1. PICK n \in w[j] : \E q \in Neighbours(board, n.at) : i = [at |-> q, g |-> n.g + Cost(n.at, q)]
      BY <2>4 DEF Onward
    <3>2. PICK q \in Neighbours(board, n.at) : i = [at |-> q, g |-> n.g + Cost(n.at, q)]
      BY <3>1
    <3>3. n.at \in TilesOf(board) /\ n.g \in Nat
      BY <2>1 DEF Nodes
    <3>4. /\ q \in TilesOf(board) /\ Cost(n.at, q) \in Nat /\ heuristic(q, to) \in Nat
          /\ heuristic(n.at, to) \in Nat
          /\ heuristic(n.at, to) <= Cost(n.at, q) + heuristic(q, to)
      BY <1>1, <3>3, NeighbourTyped, HeuristicTyped, Consistent
    <3>5. i.at = q /\ i.g = n.g + Cost(n.at, q)
      BY <3>2
    <3>6. CASE Known(n) /\ n.at \in closed
      <4>1. q \in Seen /\ G(q) <= G(n.at) + Cost(n.at, q)
        BY <1>1, <3>6 DEF Relaxed
      <4>2. G(q) \in Nat /\ G(n.at) \in Nat
        BY <1>3, <3>6, <4>1
      <4>3. G(q) <= i.g
        BY <3>3, <3>4, <3>5, <3>6, <4>1, <4>2
      <4> QED
        BY <3>5, <4>1, <4>3
    <3>7. CASE Known(n) /\ n.at \notin closed
      <4>1. F(n.at) = G(n.at) + heuristic(n.at, to) /\ G(n.at) \in Nat
        BY <1>3, <3>7
      <4>2. F(n.at) <= i.g + heuristic(i.at, to)
        BY <3>3, <3>4, <3>5, <3>7, <4>1
      <4> QED
        BY <3>7, <4>2
    <3>8. CASE Leaves(n)
      <4>1. PICK r \in Seen \ closed : F(r) <= n.g + heuristic(n.at, to)
        BY <3>8
      <4>2. F(r) <= i.g + heuristic(i.at, to)
        BY <1>3, <3>3, <3>4, <3>5, <4>1
      <4> QED
        BY <4>2
    <3> QED
      BY <3>6, <3>7, <3>8
  <2> QED
    BY <2>2, <2>3, <2>4
<1> HIDE DEF P
<1>6. P = Nat
  <2>1. P \in SUBSET Nat
    BY DEF P
  <2> QED
    BY <1>4, <1>5, <2>1, Induction
<1>7. m \in Nodes(board)
  BY <1>2 DEF w
<1> QED
  BY <1>6, <1>7 DEF P, w, Nodes

(* The tiles are finitely many. *)
LEMMA TilesFinite ==
    ASSUME NEW b, IsBoard(b)
    PROVE  IsFiniteSet(TilesOf(b)) /\ Cardinality(TilesOf(b)) = b.width * b.height
<1>1. ASSUME NEW n \in Nat PROVE IsFiniteSet(0..(n - 1)) /\ Cardinality(0..(n - 1)) = n
  <2>1. 0 \in Int /\ n - 1 \in Int
    OBVIOUS
  <2>2. /\ IsFiniteSet(0..(n - 1))
        /\ Cardinality(0..(n - 1)) = IF 0 > n - 1 THEN 0 ELSE (n - 1) - 0 + 1
    BY <2>1, FS_Interval
  <2> QED
    BY <2>2
<1>2. /\ IsFiniteSet(0..(b.width - 1)) /\ IsFiniteSet(0..(b.height - 1))
      /\ Cardinality(0..(b.width - 1)) = b.width /\ Cardinality(0..(b.height - 1)) = b.height
  BY <1>1 DEF IsBoard
<1> QED
  BY <1>2, FS_Product DEF TilesOf

(* How many of the tiles seen are cheaper. *)
Depth(q) == Cardinality({y \in Seen : G(y) < G(q)})

(* Parents come strictly nearer to the start, and there are no more of     *)
(* them than tiles.                                                        *)
LEMMA DepthTyped ==
    ASSUME SearchTyped, Rooted, result # "none", NEW q \in Seen
    PROVE  /\ Depth(q) \in Nat /\ Depth(q) < Cardinality(Seen)
           /\ Cardinality(Seen) \in Nat /\ Cardinality(Seen) <= board.width * board.height
           /\ q # from => /\ cameFrom[q].parent \in Seen
                          /\ Depth(cameFrom[q].parent) < Depth(q)
<1>1. /\ IsBoard(board) /\ closed \subseteq Seen /\ Seen \subseteq TilesOf(board)
      /\ \A y \in Seen : y \in TilesOf(board) /\ G(y) \in Nat
  BY CostsTyped DEF SearchTyped
<1>2. IsFiniteSet(Seen) /\ Cardinality(Seen) \in Nat /\ Cardinality(Seen) <= board.width * board.height
  BY <1>1, TilesFinite, FS_Subset, FS_CardinalityType
<1> DEFINE cheaper(y) == {z \in Seen : G(z) < G(y)}
<1>3. ASSUME NEW y \in Seen PROVE IsFiniteSet(cheaper(y)) /\ Cardinality(cheaper(y)) \in Nat
  BY <1>2, FS_Subset, FS_CardinalityType
<1>4. Cardinality(cheaper(q)) < Cardinality(Seen)
  <2>1. cheaper(q) \subseteq Seen /\ q \notin cheaper(q)
    BY <1>1
  <2> QED
    BY <1>2, <1>3, <2>1, FS_Subset
<1>5. ASSUME q # from
      PROVE  cameFrom[q].parent \in Seen /\ Cardinality(cheaper(cameFrom[q].parent)) < Cardinality(cheaper(q))
  <2> DEFINE p == cameFrom[q].parent
  <2>1. p \in Seen /\ q \in Neighbours(board, p) /\ G(q) = G(p) + Cost(p, q)
    BY <1>1, <1>5 DEF Rooted
  <2> HIDE DEF p
  <2>2. Cost(p, q) \in Nat /\ Cost(p, q) > 0
    BY <1>1, <2>1, NeighbourTyped
  <2>3. G(p) < G(q)
    BY <1>1, <2>1, <2>2
  <2>4. cheaper(p) \subseteq cheaper(q) /\ p \in cheaper(q) /\ p \notin cheaper(p)
    BY <1>1, <2>1, <2>3
  <2>5. Cardinality(cheaper(p)) < Cardinality(cheaper(q))
    <3> HIDE DEF cheaper
    <3>1. cheaper(p) # cheaper(q)
      BY <2>4
    <3>2. IsFiniteSet(cheaper(q)) /\ Cardinality(cheaper(q)) \in Nat /\ Cardinality(cheaper(p)) \in Nat
      BY <1>3, <2>1
    <3>3. /\ Cardinality(cheaper(p)) <= Cardinality(cheaper(q))
          /\ Cardinality(cheaper(p)) = Cardinality(cheaper(q)) => cheaper(p) = cheaper(q)
      BY <2>4, <3>2, FS_Subset
    <3> QED
      BY <3>1, <3>2, <3>3
  <2> QED
    BY <2>1, <2>5 DEF p
<1> QED
  BY <1>2, <1>3, <1>4, <1>5 DEF Depth

(* What the search knows is the cost of a way that is not too long. *)
LEMMA KnownReached ==
    ASSUME SearchInv, result # "none", NEW q \in Seen
    PROVE  \E m \in Reached(board, from) : m.at = q /\ m.g <= G(q)
<1> DEFINE w == Within(board, from)
           Reaches(y) == Affords(board, from, Depth(y), y, G(y))
           P == {d \in Nat : \A y \in Seen : Depth(y) <= d => Reaches(y)}
<1>1. /\ SearchTyped /\ Rooted /\ IsBoard(board) /\ from \in TilesOf(board)
      /\ closed \subseteq Seen
      /\ \A y \in Seen : y \in TilesOf(board) /\ G(y) \in Nat
  BY CostsTyped DEF SearchInv, SearchTyped
<1>2. /\ w \in [Nat -> SUBSET Nodes(board)] /\ w[0] = {[at |-> from, g |-> 0]}
      /\ \A j \in Nat : w[j + 1] = Further(board, w[j])
  BY <1>1, WithinRecursion
<1>3. \A y \in Seen : /\ Depth(y) \in Nat
                      /\ y # from => /\ cameFrom[y].parent \in Seen
                                     /\ Depth(cameFrom[y].parent) < Depth(y)
  BY <1>1, DepthTyped
<1>4. ASSUME NEW y \in Seen, y # from, Reaches(cameFrom[y].parent) PROVE Reaches(y)
  <2> DEFINE p == cameFrom[y].parent
             e == [at |-> y, g |-> G(p) + Cost(p, y)]
  <2>1. p \in Seen /\ y \in Neighbours(board, p) /\ G(y) = G(p) + Cost(p, y)
        /\ Depth(p) < Depth(y) /\ Depth(p) \in Nat /\ Depth(y) \in Nat
    BY <1>1, <1>3, <1>4 DEF Rooted
  <2>2. PICK m \in w[Depth(p)] : m.at = p /\ m.g <= G(p)
    BY <1>4 DEF Affords
  <2> HIDE DEF p, w
  <2>3. w[Depth(p)] \in SUBSET Nodes(board) /\ w[Depth(p) + 1] = Further(board, w[Depth(p)])
    BY <1>2, <2>1
  <2> DEFINE o == [at |-> y, g |-> m.g + Cost(p, y)]
  <2>4. o \in Onward(board, w[Depth(p)])
    <3>1. y \in Neighbours(board, m.at) /\ o = [at |-> y, g |-> m.g + Cost(m.at, y)]
      BY <2>1, <2>2
    <3> HIDE DEF o
    <3>2. o \in {[at |-> i, g |-> m.g + Cost(m.at, i)] : i \in Neighbours(board, m.at)}
      BY <3>1
    <3> QED
      BY <3>2 DEF Onward
  <2>5. o.at = y /\ o.g = m.g + Cost(p, y)
    OBVIOUS
  <2> HIDE DEF o
  <2>6. PICK n \in Further(board, w[Depth(p)]) : n.at = o.at /\ n.g <= o.g
    BY <1>1, <2>3, <2>4, FurtherLeast
  <2>7. n.g \in Nat /\ m.g \in Nat
    <3>1. n \in Nodes(board) /\ m \in Nodes(board)
      BY <1>1, <2>2, <2>3, OnwardTyped
    <3> QED
      BY <3>1 DEF Nodes
  <2>8. Cost(p, y) \in Nat /\ G(p) \in Nat
    BY <1>1, <2>1, NeighbourTyped
  <2>9. n.at = y /\ n.g <= G(y)
    BY <2>1, <2>2, <2>5, <2>6, <2>7, <2>8
  <2>10. Depth(p) + 1 \in Nat /\ Depth(p) + 1 <= Depth(y) /\ G(y) \in Nat
    BY <1>1, <2>1
  <2>11. Affords(board, from, Depth(p) + 1, y, G(y))
    BY <2>3, <2>6, <2>9 DEF Affords, w
  <2> QED
    BY <1>1, <2>1, <2>10, <2>11, WithinGrows
<1>5. Reaches(from)
  <2>1. G(from) = 0 /\ from \in Seen
    BY <1>1 DEF Rooted, G
  <2>2. Affords(board, from, 0, from, G(from))
    BY <1>2, <2>1 DEF Affords
  <2>3. 0 \in Nat /\ 0 <= Depth(from) /\ Depth(from) \in Nat /\ G(from) \in Nat
    BY <1>3, <2>1
  <2> QED
    BY <1>1, <2>2, <2>3, WithinGrows
<1> HIDE DEF Reaches
<1>6. 0 \in P
  <2> SUFFICES ASSUME NEW y \in Seen, Depth(y) <= 0 PROVE Reaches(y)
    OBVIOUS
  <2>1. y = from
    BY <1>3
  <2> QED
    BY <1>5, <2>1
<1>7. ASSUME NEW d \in P PROVE d + 1 \in P
  <2> SUFFICES ASSUME NEW y \in Seen, Depth(y) <= d + 1 PROVE Reaches(y)
    OBVIOUS
  <2>1. CASE y = from
    BY <1>5, <2>1
  <2>2. CASE y # from
    <3>1. cameFrom[y].parent \in Seen /\ Depth(cameFrom[y].parent) <= d
      BY <1>3, <2>2
    <3> QED
      BY <1>4, <2>2, <3>1
  <2> QED
    BY <2>1, <2>2
<1> HIDE DEF P
<1>8. P = Nat
  <2>1. P \in SUBSET Nat
    BY DEF P
  <2> QED
    BY <1>6, <1>7, <2>1, Induction
<1>9. Reaches(q)
  <2>1. Depth(q) \in P /\ Depth(q) <= Depth(q)
    BY <1>3, <1>8
  <2> QED
    BY <2>1 DEF P
<1>10. /\ board.width * board.height - 1 \in Nat /\ Depth(q) <= board.width * board.height - 1
       /\ Depth(q) \in Nat /\ G(q) \in Nat
  <2>1. board.width * board.height \in Nat
    BY <1>1 DEF IsBoard
  <2>2. /\ Depth(q) \in Nat /\ Depth(q) < Cardinality(Seen) /\ Cardinality(Seen) \in Nat
        /\ Cardinality(Seen) <= board.width * board.height
    BY <1>1, DepthTyped
  <2> DEFINE area == board.width * board.height
  <2> HIDE DEF area
  <2>3. area - 1 \in Nat /\ Depth(q) <= area - 1
    BY <2>1, <2>2 DEF area
  <2> QED
    BY <1>1, <2>2, <2>3 DEF area
<1> DEFINE last == board.width * board.height - 1
<1>11. last \in Nat /\ Depth(q) <= last
  BY <1>10
<1> HIDE DEF last, w
<1>12. Affords(board, from, last, q, G(q))
  BY <1>1, <1>9, <1>10, <1>11, WithinGrows DEF Reaches
<1> QED
  BY <1>12 DEF Reached, last, Affords

(* A board that is searched has a tile. *)
LEMMA AreaTyped ==
    ASSUME SearchInv, result # "none" PROVE board.width * board.height - 1 \in Nat
<1>1. SearchTyped /\ Rooted /\ IsBoard(board) /\ from \in Seen
  BY DEF SearchInv, SearchTyped, Rooted
<1>2. /\ Cardinality(Seen) <= board.width * board.height /\ Cardinality(Seen) \in Nat
      /\ Depth(from) \in Nat /\ Depth(from) < Cardinality(Seen)
  BY <1>1, DepthTyped
<1>3. board.width * board.height \in Nat
  BY <1>1 DEF IsBoard
<1> QED
  BY <1>2, <1>3

(* A tile that is closed has its final cost. *)
LEMMA ClosedFinal ==
    ASSUME SearchInv, result # "none", NEW q \in closed
    PROVE  [at |-> q, g |-> G(q)] \in Reached(board, from)
<1>1. SearchTyped /\ q \in Seen /\ InTurn /\ IsBoard(board) /\ from \in TilesOf(board)
  BY DEF SearchInv, SearchTyped
<1>2. \A y \in Seen : G(y) \in Nat /\ heuristic(y, to) \in Nat /\ F(y) = G(y) + heuristic(y, to)
  BY <1>1, CostsTyped DEF F
<1>3. PICK m \in Reached(board, from) : m.at = q /\ m.g <= G(q)
  BY <1>1, KnownReached
<1>4. board.width * board.height - 1 \in Nat
  BY AreaTyped
<1>5. /\ m \in Nodes(board)
      /\ \/ m.at \in Seen /\ G(m.at) <= m.g
         \/ \E y \in Seen \ closed : F(y) <= m.g + heuristic(m.at, to)
  <2>1. m \in Nodes(board)
    BY <1>1, <1>4, WithinRecursion DEF Reached
  <2> QED
    BY <1>4, <2>1, NoWayCheaper DEF Reached
<1>6. m.g \in Nat /\ m = [at |-> m.at, g |-> m.g]
  BY <1>5 DEF Nodes
<1>7. ASSUME NEW y \in Seen \ closed, F(y) <= m.g + heuristic(q, to)
      PROVE  G(q) <= m.g
  <2>1. F(q) <= F(y)
    BY <1>1 DEF InTurn
  <2> QED
    BY <1>1, <1>2, <1>6, <1>7, <2>1
<1>8. G(q) = m.g
  BY <1>1, <1>2, <1>3, <1>5, <1>6, <1>7
<1> QED
  BY <1>3, <1>6, <1>8

(* The goal that is popped has its final cost. *)
LEMMA GoalFinal ==
    ASSUME SearchInv, result = "found"
    PROVE  [at |-> to, g |-> G(to)] \in Reached(board, from)
<1>1. SearchTyped /\ to \in Seen /\ IsBoard(board) /\ from \in TilesOf(board)
      /\ \A y \in Seen \ closed : G(to) <= F(y)
  BY DEF SearchInv, SearchTyped, Ended
<1>2. /\ \A y \in Seen : G(y) \in Nat /\ heuristic(y, to) \in Nat /\ F(y) \in Nat
      /\ heuristic(to, to) = 0
  BY <1>1, CostsTyped
<1>3. PICK m \in Reached(board, from) : m.at = to /\ m.g <= G(to)
  BY <1>1, KnownReached
<1>4. board.width * board.height - 1 \in Nat
  BY AreaTyped
<1>5. m \in Nodes(board)
  BY <1>1, <1>4, WithinRecursion DEF Reached
<1>6. \/ m.at \in Seen /\ G(m.at) <= m.g
      \/ \E y \in Seen \ closed : F(y) <= m.g + heuristic(m.at, to)
  BY <1>4, NoWayCheaper DEF Reached
<1>7. m.g \in Nat /\ m = [at |-> m.at, g |-> m.g]
  BY <1>5 DEF Nodes
<1>8. G(to) = m.g
  BY <1>1, <1>2, <1>3, <1>6, <1>7
<1> QED
  BY <1>3, <1>7, <1>8

(***************************************************************************)
(* The way that is found.                                                  *)
(***************************************************************************)
(* From a goal on to the parents, up to the start. *)
LeadsBack(way, goal) ==
    /\ way \in Seq(Seen) /\ Len(way) >= 1 /\ way[1] = goal
    /\ \A i \in 1..(Len(way) - 1) : way[i] # from /\ cameFrom[way[i]].parent = way[i + 1]

(* A way back stays one when it is made longer by a parent. *)
LEMMA LongerLeadsBack ==
    ASSUME SearchTyped, Rooted, result # "none", NEW goal, NEW way, LeadsBack(way, goal)
    PROVE  /\ LeadsBack(Longer(way), goal)
           /\ way[Len(way)] \in Seen
           /\ way[Len(way)] = from => Longer(way) = way
           /\ way[Len(way)] # from => /\ Longer(way)[Len(Longer(way))] \in Seen
                                      /\ Longer(way)[Len(Longer(way))] = cameFrom[way[Len(way)]].parent
<1> DEFINE last == way[Len(way)]
           parent == cameFrom[last].parent
<1>1. /\ way \in Seq(Seen) /\ Len(way) \in Nat /\ Len(way) >= 1 /\ last \in Seen
      /\ closed \subseteq Seen /\ Seen \subseteq TilesOf(board)
  BY DEF LeadsBack, SearchTyped
<1>2. CASE last = from
  <2>1. parent = Nobody
    BY <1>2 DEF Rooted
  <2>2. Longer(way) = way
    BY <2>1 DEF Longer
  <2> QED
    BY <1>1, <1>2, <2>2
<1>3. CASE last # from
  <2>1. parent \in Seen
    BY <1>1, <1>3 DEF Rooted
  <2>2. parent # Nobody
    BY <1>1, <2>1 DEF Nobody, TilesOf
  <2>3. Longer(way) = Append(way, parent)
    BY <2>2 DEF Longer
  <2> HIDE DEF parent
  <2>4. /\ Longer(way) \in Seq(Seen) /\ Len(Longer(way)) = Len(way) + 1
        /\ \A i \in 1..Len(way) : Longer(way)[i] = way[i]
        /\ Longer(way)[Len(way) + 1] = parent
    BY <1>1, <2>1, <2>3, AppendProperties
  <2>5. ASSUME NEW i \in 1..(Len(Longer(way)) - 1)
        PROVE  Longer(way)[i] # from /\ cameFrom[Longer(way)[i]].parent = Longer(way)[i + 1]
    <3>1. i \in 1..Len(way) /\ Longer(way)[i] = way[i]
      BY <1>1, <2>4
    <3>2. CASE i = Len(way)
      BY <1>3, <2>4, <3>1, <3>2 DEF parent
    <3>3. CASE i # Len(way)
      <4>1. i \in 1..(Len(way) - 1) /\ i + 1 \in 1..Len(way)
        BY <1>1, <3>1, <3>3
      <4> QED
        BY <2>4, <3>1, <4>1 DEF LeadsBack
    <3> QED
      BY <3>2, <3>3
  <2>6. Longer(way)[1] = goal
    BY <1>1, <2>4 DEF LeadsBack
  <2> QED
    BY <1>1, <1>3, <2>1, <2>4, <2>5, <2>6 DEF LeadsBack, parent
<1> QED
  BY <1>2, <1>3

(* The way back ends at the start: a tile has fewer cheaper ones than      *)
(* there are tiles.                                                        *)
LEMMA WayBackWhole ==
    ASSUME SearchTyped, Rooted, result # "none", NEW goal \in Seen
    PROVE  LeadsBack(WayBack(goal), goal) /\ WayBack(goal)[Len(WayBack(goal))] = from
<1> DEFINE S == {way \in Seq(Seen) : LeadsBack(way, goal)}
           H == [way \in S |-> Longer(way)]
           alone == <<goal>>
           Defines(f) == f = [k \in Nat |-> IF k = 0 THEN alone ELSE Longer(f[k - 1])]
           w == CHOOSE x : Defines(x)
           End(way) == way[Len(way)]
<1>1. alone \in S
  BY DEF LeadsBack
<1>2. \A way \in S : Longer(way) \in S
  BY LongerLeadsBack DEF LeadsBack
<1>3. H \in [S -> S]
  BY <1>2
<1>4. PICK f \in [Nat -> S] : f[0] = alone /\ \A k \in Nat : f[k + 1] = H[f[k]]
  <2> HIDE DEF S, H, alone
  <2> QED
    BY <1>1, <1>3, Recursion
<1>5. Defines(f)
  <2>1. ASSUME NEW k \in Nat PROVE f[k] = IF k = 0 THEN alone ELSE Longer(f[k - 1])
    <3>1. CASE k = 0
      BY <1>4, <3>1
    <3>2. CASE k # 0
      <4>1. k - 1 \in Nat /\ (k - 1) + 1 = k
        BY <3>2
      <4>2. f[(k - 1) + 1] = H[f[k - 1]] /\ f[k - 1] \in S
        BY <1>4, <4>1
      <4>3. H[f[k - 1]] = Longer(f[k - 1])
        BY <4>2
      <4> QED
        BY <3>2, <4>1, <4>2, <4>3
    <3> QED
      BY <3>1, <3>2
  <2> HIDE DEF S, H, alone
  <2> QED
    BY <1>4, <2>1
<1>6. Defines(w)
  <2> HIDE DEF Defines
  <2> QED
    BY <1>5
<1>7. WayBack(goal) = w[Cardinality(Seen)]
  BY DEF WayBack, Seen
<1> HIDE DEF w
<1>8. w[0] = alone /\ \A k \in Nat : w[k + 1] = Longer(w[k])
  <2>1. \A k \in Nat : k + 1 \in Nat /\ k + 1 # 0 /\ (k + 1) - 1 = k
    OBVIOUS
  <2> QED
    BY <1>6, <2>1
<1> HIDE DEF Defines
<1> DEFINE Near(k) == /\ LeadsBack(w[k], goal) /\ End(w[k]) \in Seen
                      /\ End(w[k]) = from \/ Depth(End(w[k])) + k <= Depth(goal)
           P == {k \in Nat : Near(k)}
<1>9. \A y \in Seen : /\ Depth(y) \in Nat /\ Depth(y) < Cardinality(Seen) /\ Cardinality(Seen) \in Nat
                      /\ y # from => Depth(cameFrom[y].parent) < Depth(y)
  BY DepthTyped
<1>10. 0 \in P
  <2>1. LeadsBack(w[0], goal) /\ End(w[0]) = goal
    BY <1>1, <1>8 DEF LeadsBack
  <2>2. Depth(goal) + 0 <= Depth(goal)
    BY <1>9
  <2> QED
    BY <2>1, <2>2
<1>11. ASSUME NEW k \in P PROVE k + 1 \in P
  <2>1. k \in Nat /\ Near(k) /\ w[k + 1] = Longer(w[k]) /\ k + 1 \in Nat
    BY <1>8
  <2>2. LeadsBack(w[k + 1], goal) /\ End(w[k]) \in Seen
    BY <2>1, LongerLeadsBack
  <2>3. CASE End(w[k]) = from
    BY <2>1, <2>2, <2>3, LongerLeadsBack
  <2>4. CASE End(w[k]) # from
    <3>1. End(w[k + 1]) \in Seen /\ End(w[k + 1]) = cameFrom[End(w[k])].parent
      BY <2>1, <2>4, LongerLeadsBack
    <3> HIDE DEF End
    <3>2. /\ Depth(End(w[k + 1])) < Depth(End(w[k])) /\ Depth(End(w[k + 1])) \in Nat
          /\ Depth(End(w[k])) \in Nat /\ Depth(goal) \in Nat
      BY <1>9, <2>2, <2>4, <3>1
    <3>3. Depth(End(w[k])) + k <= Depth(goal)
      BY <2>1, <2>4
    <3>4. Depth(End(w[k + 1])) + (k + 1) <= Depth(goal)
      BY <2>1, <3>2, <3>3
    <3> QED
      BY <2>1, <2>2, <3>1, <3>4
  <2> QED
    BY <2>3, <2>4
<1> HIDE DEF P
<1>12. P = Nat
  <2>1. P \in SUBSET Nat
    BY DEF P
  <2> QED
    BY <1>10, <1>11, <2>1, Induction
<1>13. Near(Cardinality(Seen)) /\ Cardinality(Seen) \in Nat
  BY <1>9, <1>12 DEF P
<1>14. End(w[Cardinality(Seen)]) = from
  <2> HIDE DEF End
  <2>1. Depth(End(w[Cardinality(Seen)])) \in Nat /\ Depth(goal) \in Nat /\ Depth(goal) < Cardinality(Seen)
    BY <1>9, <1>13
  <2> QED
    BY <1>13, <2>1
<1> QED
  BY <1>7, <1>13, <1>14

(* The sums of the first terms of a row. *)
LEMMA Tally ==
    ASSUME NEW s, \A k \in Nat : s[k] \in Nat
    PROVE  \E f \in [Nat -> Nat] : f[0] = 0 /\ \A k \in Nat : f[k + 1] = f[k] + s[k + 1]
<1> DEFINE S == Nat
           a == 0
           H == [u \in Nat \X S |-> u[2] + s[u[1] + 1]]
<1>1. a \in S /\ H \in [Nat \X S -> S]
  OBVIOUS
<1>2. PICK f \in [Nat -> S] : f[0] = a /\ \A k \in Nat : f[k + 1] = H[<<k, f[k]>>]
  <2> HIDE DEF S, a, H
  <2> QED
    BY ONLY <1>1, RecursionAlong
<1> QED
  BY <1>2

(* A way that leads back to the start costs what the search knows. *)
LEMMA WayBackCost ==
    ASSUME SearchTyped, Rooted, result # "none", NEW goal \in Seen, NEW way, LeadsBack(way, goal),
           way[Len(way)] = from
    PROVE  PathCost(way) = G(goal)
<1> DEFINE step == [k \in Nat |-> Cost(way[k + 1], way[k])]
           Defines(f) == f = [k \in Nat |-> IF k = 0 THEN 0 ELSE f[k - 1] + Cost(way[k + 1], way[k])]
           w == CHOOSE x : Defines(x)
<1>1. step \in [Nat -> Nat]
  BY DEF Cost, moveCost, Straight, Diagonal
<1>2. PICK f \in [Nat -> Nat] : f[0] = 0 /\ \A k \in Nat : f[k + 1] = f[k] + step[k + 1]
  <2> HIDE DEF step
  <2> QED
    BY <1>1, Tally
<1>3. Defines(f)
  <2>1. ASSUME NEW k \in Nat PROVE f[k] = IF k = 0 THEN 0 ELSE f[k - 1] + Cost(way[k + 1], way[k])
    <3>1. CASE k = 0
      BY <1>2, <3>1
    <3>2. CASE k # 0
      <4>1. k - 1 \in Nat /\ (k - 1) + 1 = k
        BY <3>2
      <4>2. f[(k - 1) + 1] = f[k - 1] + step[(k - 1) + 1]
        BY <1>2, <4>1
      <4>3. step[k] = Cost(way[k + 1], way[k])
        OBVIOUS
      <4> HIDE DEF step
      <4> QED
        BY <3>2, <4>1, <4>2, <4>3
    <3> QED
      BY <3>1, <3>2
  <2> QED
    BY <1>2, <2>1
<1>4. Defines(w)
  <2> HIDE DEF Defines
  <2> QED
    BY <1>3
<1>5. PathCost(way) = w[Len(way) - 1]
  BY DEF PathCost
<1> HIDE DEF w
<1>6. w[0] = 0
  BY <1>4
<1>7. ASSUME NEW k \in Nat PROVE w[k + 1] = w[k] + Cost(way[(k + 1) + 1], way[k + 1])
  <2>1. k + 1 \in Nat /\ k + 1 # 0 /\ (k + 1) - 1 = k
    OBVIOUS
  <2>2. \A j \in Nat : w[j] = IF j = 0 THEN 0 ELSE w[j - 1] + Cost(way[j + 1], way[j])
    BY <1>4
  <2> HIDE DEF Defines
  <2>3. w[k + 1] = w[(k + 1) - 1] + Cost(way[(k + 1) + 1], way[k + 1])
    BY <2>1, <2>2
  <2> QED
    BY <2>1, <2>3
<1> HIDE DEF Defines
<1>8. /\ way \in Seq(Seen) /\ Len(way) \in Nat /\ Len(way) >= 1 /\ way[1] = goal
      /\ \A i \in 1..Len(way) : way[i] \in Seen
  <2>1. way \in Seq(Seen) /\ Len(way) >= 1 /\ way[1] = goal
    BY DEF LeadsBack
  <2>2. Len(way) \in Nat /\ \A i \in 1..Len(way) : way[i] \in Seen
    BY ONLY <2>1
  <2> QED
    BY <2>1, <2>2
<1>9. \A y \in Seen : G(y) \in Nat
  BY CostsTyped
<1> DEFINE P == {k \in Nat : k < Len(way) => w[k] \in Nat /\ w[k] + G(way[k + 1]) = G(goal)}
<1>10. 0 \in P
  <2>1. G(goal) \in Nat /\ 0 + 1 = 1
    BY <1>9
  <2>2. w[0] + G(way[0 + 1]) = G(goal)
    BY <1>6, <1>8, <2>1
  <2> QED
    BY <1>6, <2>2
<1>11. ASSUME NEW k \in P PROVE k + 1 \in P
  <2>1. k \in Nat /\ k + 1 \in Nat
    OBVIOUS
  <2> DEFINE i == k + 1
  <2>2. ASSUME i < Len(way) PROVE w[i] \in Nat /\ w[i] + G(way[i + 1]) = G(goal)
    <3>1. i \in 1..(Len(way) - 1) /\ i \in 1..Len(way) /\ i + 1 \in 1..Len(way) /\ k < Len(way)
      <4> DEFINE length == Len(way)
      <4>1. length \in Nat
        BY <1>8
      <4>2. k \in Nat /\ k + 1 < length
        BY <2>1, <2>2
      <4> HIDE DEF length, P
      <4>3. i \in 1..(length - 1) /\ i \in 1..length /\ i + 1 \in 1..length /\ k < length
        BY ONLY <4>1, <4>2 DEF i
      <4> QED
        BY <4>3 DEF length
    <3>2. w[k] \in Nat /\ w[k] + G(way[i]) = G(goal)
      BY <3>1
    <3>3. w[i] = w[k] + Cost(way[i + 1], way[i])
      BY <1>7, <2>1
    <3> HIDE DEF i, P
    <3>4. way[i] \in Seen \ {from} /\ cameFrom[way[i]].parent = way[i + 1]
      BY <1>8, <3>1 DEF LeadsBack
    <3>5. G(way[i]) = G(way[i + 1]) + Cost(way[i + 1], way[i])
      BY <3>4 DEF Rooted
    <3>6. G(way[i]) \in Nat /\ G(way[i + 1]) \in Nat
      BY <1>8, <1>9, <3>1
    <3>7. Cost(way[i + 1], way[i]) \in Nat
      BY DEF Cost, moveCost, Straight, Diagonal
    <3>8. w[i] \in Nat
      BY ONLY <3>2, <3>3, <3>7
    <3>9. G(goal) = w[k] + (G(way[i + 1]) + Cost(way[i + 1], way[i]))
      BY <3>2, <3>5
    <3> QED
      BY ONLY <3>2, <3>3, <3>6, <3>7, <3>8, <3>9
  <2> QED
    BY <2>1, <2>2
<1> HIDE DEF P
<1>12. P = Nat
  <2>1. P \in SUBSET Nat
    BY DEF P
  <2> QED
    BY <1>10, <1>11, <2>1, Induction
<1> DEFINE last == Len(way) - 1
<1>13. last \in Nat /\ last < Len(way) /\ last + 1 = Len(way)
  BY <1>8
<1> HIDE DEF last
<1>14. w[last] \in Nat /\ w[last] + G(way[last + 1]) = G(goal)
  BY <1>12, <1>13 DEF P
<1>15. G(from) = 0
  BY DEF Rooted, G
<1>16. w[last] = G(goal)
  <2>1. w[last] + 0 = G(goal)
    BY <1>13, <1>14, <1>15
  <2> QED
    BY <1>14, <2>1
<1> QED
  BY <1>5, <1>16 DEF last

(* FindsShortest follows from the invariant. *)
LEMMA SearchInvFinds == ASSUME SearchInv PROVE FindsShortest
<1> SUFFICES ASSUME result # "none"
             PROVE  /\ \A q \in closed : [at |-> q, g |-> cameFrom[q].g] \in Reached(board, from)
                    /\ result = "found" => /\ out[1] = to /\ out[Len(out)] = from
                                           /\ [at |-> to, g |-> PathCost(out)] \in Reached(board, from)
                    /\ result = "failed" => \A n \in Reached(board, from) : n.at # to
  BY DEF FindsShortest
<1>1. /\ SearchTyped /\ Rooted /\ Ended
  BY DEF SearchInv
<1>2. \A q \in closed : [at |-> q, g |-> cameFrom[q].g] \in Reached(board, from)
  BY ClosedFinal DEF G
<1>3. ASSUME result = "found"
      PROVE  /\ out[1] = to /\ out[Len(out)] = from
             /\ [at |-> to, g |-> PathCost(out)] \in Reached(board, from)
  <2>1. to \in Seen /\ out = WayBack(to)
    BY <1>1, <1>3 DEF Ended
  <2>2. LeadsBack(out, to) /\ out[Len(out)] = from
    BY <1>1, <2>1, WayBackWhole
  <2>3. PathCost(out) = G(to)
    BY <1>1, <2>1, <2>2, WayBackCost
  <2> QED
    BY <1>3, <2>2, <2>3, GoalFinal DEF LeadsBack
<1>4. ASSUME result = "failed", NEW n \in Reached(board, from) PROVE n.at # to
  <2>1. /\ Seen = closed /\ to \notin closed
    BY <1>1, <1>4 DEF Ended
  <2>2. board.width * board.height - 1 \in Nat
    BY AreaTyped
  <2>3. n.at \in Seen
    BY <1>4, <2>1, <2>2, NoWayCheaper DEF Reached
  <2> QED
    BY <2>1, <2>3
<1> QED
  BY <1>2, <1>3, <1>4

(* A set of integers with a lower bound has a least one, ...               *)
LEMMA LeastOf ==
    ASSUME NEW S, S # {}, NEW low \in Int, \A x \in S : x \in Int /\ low <= x
    PROVE  Min(S) \in S /\ \A n \in S : Min(S) <= n
<1> DEFINE T == {x - low : x \in S}
<1>1. T \in SUBSET Nat /\ T # {}
  <2>1. ASSUME NEW x \in S PROVE x - low \in Nat
    <3>1. x \in Int /\ low <= x
      OBVIOUS
    <3> QED
      BY <3>1
  <2> QED
    BY <2>1
<1> HIDE DEF T
<1>2. PICK t \in T : \A u \in T : t <= u
  BY <1>1, LeastNatural
<1>3. PICK x \in S : t = x - low
  BY DEF T
<1>4. \A n \in S : x <= n
  <2> TAKE n \in S
  <2>1. n - low \in T
    BY DEF T
  <2>2. t <= n - low
    BY <1>2, <2>1
  <2> QED
    BY <1>3, <2>2
<1> QED
  BY <1>4 DEF Min

(* ... and one with an upper bound a greatest.                             *)
LEMMA GreatestOf ==
    ASSUME NEW S, S # {}, NEW high \in Int, \A x \in S : x \in Int /\ x <= high
    PROVE  Max(S) \in S /\ \A n \in S : Max(S) >= n
<1> DEFINE T == {high - x : x \in S}
<1>1. T \in SUBSET Nat /\ T # {}
  <2>1. ASSUME NEW x \in S PROVE high - x \in Nat
    <3>1. x \in Int /\ x <= high
      OBVIOUS
    <3> QED
      BY <3>1
  <2> QED
    BY <2>1
<1> HIDE DEF T
<1>2. PICK t \in T : \A u \in T : t <= u
  BY <1>1, LeastNatural
<1>3. PICK x \in S : t = high - x
  BY DEF T
<1>4. \A n \in S : x >= n
  <2> TAKE n \in S
  <2>1. high - n \in T
    BY DEF T
  <2>2. t <= high - n
    BY <1>2, <2>1
  <2> QED
    BY <1>3, <2>2
<1> QED
  BY <1>4 DEF Max

IsBounds(b) == /\ b.xMin \in Int /\ b.yMin \in Int
               /\ b.width \in Nat \ {0} /\ b.height \in Nat \ {0}

(* The bounds of places are a rectangle around them. *)
LEMMA BoundsTyped ==
    ASSUME NEW places, places # {}, places \subseteq Shorts
    PROVE  IsBounds(Bounds(places)) /\ places \subseteq Rectangle(Bounds(places))
<1> DEFINE X == {p[1] : p \in places}
           Y == {p[2] : p \in places}
           b == Bounds(places)
           low == -(2^15)
           high == 2^15 - 1
<1>1. low \in Int /\ high \in Int
  OBVIOUS
<1>2. Shorts = (low .. high) \X (low .. high)
  BY DEF Shorts
<1> HIDE DEF low, high
<1>3. \A p \in places : /\ p[1] \in Int /\ p[2] \in Int /\ p = <<p[1], p[2]>>
                        /\ low <= p[1] /\ p[1] <= high /\ low <= p[2] /\ p[2] <= high
  BY <1>1, <1>2
<1>4. /\ X # {} /\ \A x \in X : x \in Int /\ low <= x /\ x <= high
      /\ Y # {} /\ \A y \in Y : y \in Int /\ low <= y /\ y <= high
  BY <1>3
<1>5. \A p \in places : p[1] \in X /\ p[2] \in Y
  OBVIOUS
<1>6. /\ b.xMin = Min(X) /\ b.yMin = Min(Y)
      /\ b.width = Max(X) - Min(X) + 1 /\ b.height = Max(Y) - Min(Y) + 1
  BY DEF Bounds
<1> HIDE DEF X, Y, b
<1>7. Min(X) \in X /\ \A n \in X : Min(X) <= n
  BY <1>1, <1>4, LeastOf
<1>8. Min(Y) \in Y /\ \A n \in Y : Min(Y) <= n
  BY <1>1, <1>4, LeastOf
<1>9. Max(X) \in X /\ \A n \in X : Max(X) >= n
  BY <1>1, <1>4, GreatestOf
<1>10. Max(Y) \in Y /\ \A n \in Y : Max(Y) >= n
  BY <1>1, <1>4, GreatestOf
<1>11. /\ Min(X) \in Int /\ Max(X) \in Int /\ Max(X) >= Min(X)
       /\ Min(Y) \in Int /\ Max(Y) \in Int /\ Max(Y) >= Min(Y)
  BY <1>4, <1>7, <1>8, <1>9, <1>10
<1>12. IsBounds(b)
  BY <1>6, <1>11 DEF IsBounds
<1>13. ASSUME NEW p \in places PROVE p \in Rectangle(b)
  <2>1. /\ p[1] \in Int /\ b.xMin <= p[1] /\ p[1] <= b.xMin + b.width - 1
        /\ p[2] \in Int /\ b.yMin <= p[2] /\ p[2] <= b.yMin + b.height - 1
    BY <1>3, <1>5, <1>6, <1>7, <1>8, <1>9, <1>10, <1>11
  <2>2. p[1] \in b.xMin .. (b.xMin + b.width - 1) /\ p[2] \in b.yMin .. (b.yMin + b.height - 1)
    BY <1>12, <2>1 DEF IsBounds
  <2> QED
    BY <1>3, <2>2 DEF Rectangle
<1> QED
  BY <1>12, <1>13 DEF b

(* The row by row number of a place in a rectangle of a width. *)
LEMMA Numbering ==
    ASSUME NEW w \in Nat \ {0}, NEW h \in Nat
    PROVE  /\ \A x \in 0..(w - 1), y \in 0..(h - 1) :
                 /\ x + w * y + 1 \in 1..(w * h)
                 /\ (x + w * y) % w = x /\ (x + w * y) \div w = y
           /\ \A i \in 1..(w * h) : (i - 1) % w \in 0..(w - 1) /\ (i - 1) \div w \in 0..(h - 1)
<1>1. ASSUME NEW x \in 0..(w - 1), NEW y \in 0..(h - 1)
      PROVE  x + w * y + 1 \in 1..(w * h) /\ (x + w * y) % w = x /\ (x + w * y) \div w = y
  <2>1. (x + w * y) % w = x /\ (x + w * y) \div w = y
    OBVIOUS
  <2>2. w * y \in Nat /\ w * h \in Nat
    OBVIOUS
  <2>3. w * y + w <= w * h
    OBVIOUS
  <2> QED
    BY <2>1, <2>2, <2>3
<1>2. ASSUME NEW i \in 1..(w * h)
      PROVE  (i - 1) % w \in 0..(w - 1) /\ (i - 1) \div w \in 0..(h - 1)
  <2>1. w * h \in Nat /\ i - 1 \in Nat /\ i - 1 < w * h
    OBVIOUS
  <2> DEFINE r == (i - 1) % w
             q == (i - 1) \div w
  <2>2. r \in 0..(w - 1) /\ q \in Nat /\ i - 1 = w * q + r
    BY <2>1
  <2> HIDE DEF r, q
  <2>3. q < h
    <3>1. SUFFICES ASSUME q >= h PROVE FALSE
      BY <2>2
    <3>2. w * q >= w * h
      BY <2>2, <3>1
    <3> QED
      BY <2>1, <2>2, <3>2
  <2> QED
    BY <2>2, <2>3 DEF r, q
<1> QED
  BY <1>1, <1>2

(* Row by row every tile of a rectangle comes once, at its number. *)
LEMMA Rows ==
    ASSUME NEW b, IsBounds(b)
    PROVE  /\ b.width * b.height \in Nat /\ Len(RowByRow(b)) = b.width * b.height
           /\ \A i \in 1..(b.width * b.height) : RowByRow(b)[i] \in Rectangle(b)
           /\ \A p \in Rectangle(b) :
                 LET i == p[1] - b.xMin + b.width * (p[2] - b.yMin) + 1
                 IN  i \in 1..(b.width * b.height) /\ RowByRow(b)[i] = p
<1> DEFINE n == b.width * b.height
           w == b.width
<1>1. /\ w \in Nat \ {0} /\ b.height \in Nat /\ b.xMin \in Int /\ b.yMin \in Int /\ n \in Nat
  BY DEF IsBounds
<1>2. Len(RowByRow(b)) = n
  BY <1>1 DEF RowByRow
<1>3. \A i \in 1..n : RowByRow(b)[i] = <<b.xMin + ((i - 1) % w), b.yMin + ((i - 1) \div w)>>
  BY DEF RowByRow
<1>4. ASSUME NEW i \in 1..n PROVE RowByRow(b)[i] \in Rectangle(b)
  <2>1. (i - 1) % w \in 0..(w - 1) /\ (i - 1) \div w \in 0..(b.height - 1)
    BY <1>1, Numbering
  <2>2. ASSUME NEW r \in 0..(w - 1), NEW q \in 0..(b.height - 1) PROVE <<b.xMin + r, b.yMin + q>> \in Rectangle(b)
    BY <1>1 DEF Rectangle
  <2> QED
    BY <1>3, <2>1, <2>2
<1>5. ASSUME NEW p \in Rectangle(b)
      PROVE  LET i == p[1] - b.xMin + w * (p[2] - b.yMin) + 1
             IN  i \in 1..n /\ RowByRow(b)[i] = p
  <2> DEFINE x == p[1] - b.xMin
             y == p[2] - b.yMin
             i == x + w * y + 1
  <2>1. /\ p[1] \in Int /\ p[2] \in Int /\ p = <<p[1], p[2]>>
        /\ x \in 0..(w - 1) /\ y \in 0..(b.height - 1)
    BY <1>1 DEF Rectangle
  <2>2. p = <<b.xMin + x, b.yMin + y>>
    BY <1>1, <2>1
  <2> HIDE DEF x, y
  <2>3. i \in 1..n /\ (x + w * y) % w = x /\ (x + w * y) \div w = y
    BY <1>1, <2>1, Numbering
  <2>4. i - 1 = x + w * y
    BY <1>1, <2>1
  <2>5. RowByRow(b)[i] = p
    BY <1>3, <2>2, <2>3, <2>4
  <2> QED
    BY <2>3, <2>5 DEF x, y
<1> QED
  BY <1>1, <1>2, <1>4, <1>5

(* Where the words of a row of pairs are. *)
LEMMA FlatPairs ==
    ASSUME NEW r \in Seq(Nat \X Nat)
    PROVE  /\ Flat(r, 2) \in Seq(Nat) /\ Len(Flat(r, 2)) = 2 * Len(r)
           /\ \A i \in 1..Len(r) : /\ 2 * i - 1 \in 1..(2 * Len(r)) /\ 2 * i \in 1..(2 * Len(r))
                                   /\ Flat(r, 2)[2 * i - 1] = r[i][1] /\ Flat(r, 2)[2 * i] = r[i][2]
<1> DEFINE n == Len(r)
<1>1. n \in Nat /\ 2 * n \in Nat /\ \A i \in 1..n : r[i] \in Nat \X Nat
  OBVIOUS
<1> HIDE DEF n
<1>2. Flat(r, 2) = [i \in 1..(2 * n) |-> r[(i - 1) \div 2 + 1][((i - 1) % 2) + 1]]
  BY DEF Flat, n
<1>3. ASSUME NEW i \in 1..(2 * n) PROVE r[(i - 1) \div 2 + 1][((i - 1) % 2) + 1] \in Nat
  <2>1. (i - 1) \div 2 + 1 \in 1..n /\ ((i - 1) % 2 = 0 \/ (i - 1) % 2 = 1)
    BY <1>1
  <2>2. \A u \in Nat \X Nat : u[1] \in Nat /\ u[2] \in Nat
    OBVIOUS
  <2> QED
    BY <1>1, <2>1, <2>2
<1>4. Flat(r, 2) \in Seq(Nat) /\ Len(Flat(r, 2)) = 2 * n
  <2> DEFINE word(i) == r[(i - 1) \div 2 + 1][((i - 1) % 2) + 1]
             m == 2 * n
  <2>1. /\ m \in Nat /\ Flat(r, 2) = [i \in 1..m |-> word(i)]
        /\ \A i \in 1..m : word(i) \in Nat
    BY <1>1, <1>2, <1>3
  <2> HIDE DEF word, m
  <2>2. Flat(r, 2) \in Seq(Nat) /\ Len(Flat(r, 2)) = m
    BY <2>1
  <2> QED
    BY <2>2 DEF m
<1>5. ASSUME NEW i \in 1..n
      PROVE  /\ 2 * i - 1 \in 1..(2 * n) /\ 2 * i \in 1..(2 * n)
             /\ Flat(r, 2)[2 * i - 1] = r[i][1] /\ Flat(r, 2)[2 * i] = r[i][2]
  <2>1. /\ 2 * i - 1 \in 1..(2 * n) /\ 2 * i \in 1..(2 * n)
        /\ (2 * i - 1 - 1) \div 2 + 1 = i /\ ((2 * i - 1 - 1) % 2) + 1 = 1
        /\ (2 * i - 1) \div 2 + 1 = i /\ ((2 * i - 1) % 2) + 1 = 2
    BY <1>1
  <2> QED
    BY <1>2, <2>1
<1> QED
  BY <1>4, <1>5 DEF n

(* A row of triples is a row of words. *)
LEMMA FlatTriples ==
    ASSUME NEW r \in Seq(Nat \X Nat \X Nat)
    PROVE  Flat(r, 3) \in Seq(Nat)
<1> DEFINE n == Len(r)
<1>1. n \in Nat /\ 3 * n \in Nat /\ \A i \in 1..n : r[i] \in Nat \X Nat \X Nat
  OBVIOUS
<1> HIDE DEF n
<1>2. Flat(r, 3) = [i \in 1..(3 * n) |-> r[(i - 1) \div 3 + 1][((i - 1) % 3) + 1]]
  BY DEF Flat, n
<1>3. ASSUME NEW i \in 1..(3 * n) PROVE r[(i - 1) \div 3 + 1][((i - 1) % 3) + 1] \in Nat
  <2>1. (i - 1) \div 3 + 1 \in 1..n /\ ((i - 1) % 3) + 1 \in 1..3
    <3>1. (i - 1) % 3 \in 0..(3 - 1) /\ (i - 1) \div 3 \in 0..(n - 1)
      BY <1>1, 3 \in Nat \ {0}, Numbering
    <3> QED
      BY <1>1, <3>1
  <2>2. \A u \in Nat \X Nat \X Nat : u[1] \in Nat /\ u[2] \in Nat /\ u[3] \in Nat
    OBVIOUS
  <2> QED
    BY <1>1, <2>1, <2>2
<1> DEFINE word(i) == r[(i - 1) \div 3 + 1][((i - 1) % 3) + 1]
           m == 3 * n
<1>4. m \in Nat /\ Flat(r, 3) = [i \in 1..m |-> word(i)] /\ \A i \in 1..m : word(i) \in Nat
  BY <1>1, <1>2, <1>3
<1> HIDE DEF word, m
<1> QED
  BY <1>4

(* The places that are among some points, one after the other. *)
Filters(f, places, which) ==
    /\ f \in [Nat -> Seq(which)] /\ f[0] = <<>>
    /\ \A k \in Nat : f[k + 1] = IF places[k + 1] \in which THEN Append(f[k], places[k + 1]) ELSE f[k]

(* Recursion defines the points that are chosen so far, for each number of *)
(* places.                                                                 *)
LEMMA Filtering == ASSUME NEW which, NEW places PROVE \E f : Filters(f, places, which)
<1> DEFINE S == Seq(which)
           a == <<>>
           H == [u \in Nat \X S |-> IF places[u[1] + 1] \in which THEN Append(u[2], places[u[1] + 1]) ELSE u[2]]
<1>1. a \in S /\ H \in [Nat \X S -> S]
  <2>1. ASSUME NEW u \in Nat \X S 
        PROVE (IF places[u[1] + 1] \in which THEN Append(u[2], places[u[1] + 1]) ELSE u[2]) \in S
    <3>1. u[2] \in S
      OBVIOUS
    <3> QED
      BY <3>1, AppendProperties
  <2> QED
   BY <2>1
<1>2. PICK f \in [Nat -> S] : f[0] = a /\ \A k \in Nat : f[k + 1] = H[<<k, f[k]>>]
  <2> HIDE DEF S, a, H
  <2> QED
    BY ONLY <1>1, RecursionAlong
<1>3. ASSUME NEW k \in Nat
      PROVE  f[k + 1] = IF places[k + 1] \in which THEN Append(f[k], places[k + 1]) ELSE f[k]
  <2>1. <<k, f[k]>> \in Nat \X S
    OBVIOUS
  <2> QED
    BY <1>2, <2>1
<1> QED
  BY <1>2, <1>3 DEF Filters

(* The points of a drawing are found, and nothing else. *)
LEMMA PointsFound ==
    ASSUME NEW d, IsDrawing(d), NEW which, which # {}, which \subseteq d.minerals \cup d.starts
    PROVE  /\ Points(d, which) \in Seq(which)
           /\ Range(Points(d, which)) = which
<1> DEFINE all == d.minerals \cup d.starts
           b == Bounds(all)
           places == RowByRow(b)
           n == Len(places)
           empty == <<>>
           S == Seq(which)
           Found(i, s) == IF places[i] \in which THEN Append(s, places[i]) ELSE s
           Defines(f) == f = [i \in Nat |-> IF i = 0 THEN <<>>
                                ELSE IF places[i] \in which THEN Append(f[i - 1], places[i])
                                ELSE f[i - 1]]
           w == CHOOSE x : Defines(x)
<1>1. all # {} /\ all \subseteq Shorts /\ which \subseteq all
  BY DEF IsDrawing
<1>2. IsBounds(b) /\ all \subseteq Rectangle(b)
  <2> HIDE DEF all
  <2> QED
    BY <1>1, BoundsTyped
<1>3. n \in Nat /\ \A p \in which : \E i \in 1..n : places[i] = p
  <2>1. /\ n = b.width * b.height /\ n \in Nat
        /\ \A p \in Rectangle(b) :
              LET i == p[1] - b.xMin + b.width * (p[2] - b.yMin) + 1
              IN  i \in 1..(b.width * b.height) /\ places[i] = p
    <3> HIDE DEF b
    <3> QED
      BY <1>2, Rows
  <2> HIDE DEF b, places, n
  <2> QED
    BY <1>1, <1>2, <2>1
<1>4. Points(d, which) = w[n]
  BY DEF Points
<1> HIDE DEF all, b, places, n, w
<1>5. empty \in S
  OBVIOUS
<1>6. ASSUME NEW i \in Nat, NEW s \in S
      PROVE  /\ Found(i, s) \in S
             /\ Range(Found(i, s)) = IF places[i] \in which THEN Range(s) \cup {places[i]} ELSE Range(s)
  <2>1. CASE places[i] \in which
    <3> DEFINE p == places[i]
    <3>1. /\ Append(s, p) \in S /\ Len(s) \in Nat /\ Len(Append(s, p)) = Len(s) + 1
          /\ \A j \in 1..Len(s) : Append(s, p)[j] = s[j]
          /\ Append(s, p)[Len(s) + 1] = p
      BY <2>1, AppendProperties
    <3> DEFINE e == Append(s, p)
    <3>2. Range(s) = {s[j] : j \in 1..Len(s)} /\ Range(e) = {e[j] : j \in 1..Len(e)}
      BY <3>1 DEF Range
    <3> HIDE DEF p, S, e
    <3>3. \A j : j \in 1..(Len(s) + 1) <=> j \in 1..Len(s) \/ j = Len(s) + 1
      BY <3>1
    <3>4. \A x : x \in Range(e) <=> x \in Range(s) \/ x = p
      BY <3>1, <3>2, <3>3 DEF e
    <3>5. Range(Append(s, p)) = Range(s) \cup {p}
      BY <3>4 DEF e
    <3> QED
      BY <2>1, <3>1, <3>5 DEF p
  <2>2. CASE places[i] \notin which
    BY <2>2
  <2> QED
    BY <2>1, <2>2
<1>7. PICK f : Filters(f, places, which)
  BY Filtering
<1>8. f \in [Nat -> S] /\ f[0] = <<>>
  BY <1>7 DEF Filters
<1>9. \A k \in Nat : f[k + 1] = Found(k + 1, f[k])
  BY <1>7 DEF Filters
<1> HIDE DEF S, Found
<1>10. Defines(f)
  <2>1. ASSUME NEW k \in Nat
        PROVE  f[k] = IF k = 0 THEN <<>> ELSE IF places[k] \in which THEN Append(f[k - 1], places[k]) ELSE f[k - 1]
    <3>1. CASE k = 0
      BY <1>8, <3>1
    <3>2. CASE k # 0
      <4>1. k - 1 \in Nat /\ (k - 1) + 1 = k
        BY <3>2
      <4>2. f[k] = Found(k, f[k - 1])
        BY <1>9, <4>1
      <4> QED
        BY <3>2, <4>2 DEF Found
    <3> QED
      BY <3>1, <3>2
  <2>2. f = [i \in Nat |-> f[i]]
    BY <1>8
  <2> QED
    BY <2>1, <2>2
<1>11. Defines(w)
  <2> HIDE DEF Defines
  <2> QED
    BY <1>10 DEF w
<1>12. w[0] = empty /\ \A k \in Nat : w[k + 1] = Found(k + 1, w[k])
  <2>1. \A k \in Nat : w[k] = IF k = 0 THEN <<>> ELSE IF places[k] \in which THEN Append(w[k - 1], places[k]) ELSE w[k - 1]
    BY <1>11
  <2> HIDE DEF Defines
  <2>2. ASSUME NEW k \in Nat PROVE w[k + 1] = Found(k + 1, w[k])
    <3>1. k + 1 \in Nat /\ k + 1 # 0 /\ (k + 1) - 1 = k
      OBVIOUS
    <3>2. w[k + 1] = IF places[k + 1] \in which THEN Append(w[(k + 1) - 1], places[k + 1]) ELSE w[(k + 1) - 1]
      BY <2>1, <3>1
    <3> QED
      BY <3>1, <3>2 DEF Found
  <2> QED
    BY <2>1, <2>2
<1> HIDE DEF Defines
<1> DEFINE P == {k \in Nat : w[k] \in S /\ Range(w[k]) = {p \in which : \E i \in 1..k : places[i] = p}}
<1>13. 0 \in P
  <2>1. empty \in S /\ Range(empty) = {}
    BY <1>5 DEF Range
  <2>2. {p \in which : \E i \in 1..0 : places[i] = p} = {}
    OBVIOUS
  <2> HIDE DEF empty
  <2> QED
    BY <1>12, <2>1, <2>2
<1>14. ASSUME NEW k \in P PROVE k + 1 \in P
  <2>1. k \in Nat /\ k + 1 \in Nat /\ w[k] \in S /\ Range(w[k]) = {p \in which : \E i \in 1..k : places[i] = p}
    OBVIOUS
  <2> HIDE DEF P
  <2>2. w[k + 1] = Found(k + 1, w[k])
    BY <1>12, <2>1
  <2> DEFINE h == k + 1
             s == w[k]
  <2>6. h \in Nat /\ s \in S
    BY <2>1
  <2> HIDE DEF h, s
  <2>7. /\ Found(h, s) \in S
        /\ Range(Found(h, s)) = IF places[h] \in which THEN Range(s) \cup {places[h]} ELSE Range(s)
    BY <1>6, <2>6
  <2>3. /\ w[k + 1] \in S
        /\ Range(w[k + 1]) = IF places[k + 1] \in which THEN Range(w[k]) \cup {places[k + 1]} ELSE Range(w[k])
    BY <2>2, <2>7 DEF h, s
  <2>4. \A i : i \in 1..(k + 1) <=> i \in 1..k \/ i = k + 1
    BY <2>1
  <2>5. Range(w[k + 1]) = {p \in which : \E i \in 1..(k + 1) : places[i] = p}
    BY <2>1, <2>3, <2>4
  <2> QED
    BY <2>1, <2>3, <2>5 DEF P
<1> HIDE DEF P
<1>15. P = Nat
  <2>1. P \in SUBSET Nat
    BY DEF P
  <2> QED
    BY <1>13, <1>14, <2>1, Induction
<1>16. w[n] \in S /\ Range(w[n]) = {p \in which : \E i \in 1..n : places[i] = p}
  BY <1>3, <1>15 DEF P
<1> QED
  BY <1>3, <1>4, <1>16 DEF S

(* A coordinate keeps its value as a short, ...                            *)
LEMMA ShortOfWord ==
    ASSUME NEW x \in (-(2^15)) .. (2^15 - 1)
    PROVE  Word(x) \in Nat /\ Short(Word(x)) = x
<1>1. 2^15 = 32768 /\ 2^16 = 65536
  OBVIOUS
<1>2. x \in Int /\ -(2^15) <= x /\ x < 2^15 /\ x % 65536 \in Nat
  OBVIOUS
<1>3. CASE x >= 0
  <2>1. x % 65536 = x
    BY <1>1, <1>2, <1>3
  <2> QED
    BY <1>1, <1>2, <1>3, <2>1 DEF Word, Short
<1>4. CASE x < 0
  <2>1. x + 32768 >= 0
    BY <1>1, <1>2
  <2>2. x % 65536 = x + 65536
    BY <1>2, <1>4, <2>1
  <2> QED
    BY <1>1, <1>2, <1>4, <2>1, <2>2 DEF Word, Short
<1> QED
  BY <1>2, <1>3, <1>4

(* ... and a number as a pair of words. *)
LEMMA Int32OfWords ==
    ASSUME NEW n \in Nat
    PROVE  /\ Int32(n) \in Seq(Nat) /\ Len(Int32(n)) = 2
           /\ Int32(n)[1] \in Nat /\ Int32(n)[2] \in Nat
           /\ Int32(n)[1] + 2^16 * Int32(n)[2] = n
<1>1. 2^16 = 65536
  OBVIOUS
<1>2. n % 65536 \in Nat /\ n \div 65536 \in Nat /\ (n % 65536) + 65536 * (n \div 65536) = n
  OBVIOUS
<1> QED
  BY <1>1, <1>2 DEF Int32

IdOf(d, p) == TileInfo[d.tiles[p]][1]
HeightOf(d, p) == TileInfo[d.tiles[p]][2]

(* The number of a tile in a drawing. *)
NumberOf(d, p) ==
    LET b == Bounds(DOMAIN d.tiles) IN p[1] - b.xMin + b.width * (p[2] - b.yMin) + 1

(* The words of the tiles: an id and a height for each, row by row. *)
LEMMA TileWords ==
    ASSUME NEW d, IsDrawing(d)
    PROVE  LET b == Bounds(DOMAIN d.tiles)
               words == TileMapDatas(d)
               n == b.width * b.height
           IN  /\ IsBounds(b) /\ DOMAIN d.tiles = Rectangle(b)
               /\ n \in Nat /\ words \in Seq(Nat) /\ Len(words) = 2 * n
               /\ \A p \in DOMAIN d.tiles :
                     LET i == NumberOf(d, p)
                     IN  /\ i \in 1..n /\ 2 * i - 1 \in 1..(2 * n) /\ 2 * i \in 1..(2 * n)
                         /\ words[2 * i - 1] = IdOf(d, p) /\ words[2 * i] = HeightOf(d, p)
               /\ \A i \in 1..n : /\ 2 * i - 1 \in 1..(2 * n) /\ 2 * i \in 1..(2 * n)
                                  /\ words[2 * i - 1] \in Nat /\ words[2 * i] \in Nat
<1> DEFINE b == Bounds(DOMAIN d.tiles)
           places == RowByRow(b)
           n == b.width * b.height
           r == [i \in 1..Len(places) |-> TileInfo[d.tiles[places[i]]]]
           words == TileMapDatas(d)
<1>1. IsBounds(b) /\ DOMAIN d.tiles = Rectangle(b)
  BY BoundsTyped DEF IsDrawing
<1>2. words = Flat(r, 2)
  BY DEF TileMapDatas
<1>3. \A p \in DOMAIN d.tiles : TileInfo[d.tiles[p]] \in Nat \X Nat
  <2>1. \A k \in DOMAIN TileInfo : TileInfo[k] \in Nat \X Nat
    BY DEF TileInfo
  <2> QED
    BY <2>1 DEF IsDrawing
<1> HIDE DEF b, words
<1>5. /\ n \in Nat /\ Len(places) = n
      /\ \A i \in 1..n : places[i] \in Rectangle(b)
      /\ \A p \in Rectangle(b) : LET i == p[1] - b.xMin + b.width * (p[2] - b.yMin) + 1
                                 IN  i \in 1..n /\ places[i] = p
  BY <1>1, Rows
<1> HIDE DEF places, n
<1>6. r \in Seq(Nat \X Nat) /\ Len(r) = n /\ \A i \in 1..n : r[i] = TileInfo[d.tiles[places[i]]]
  BY <1>1, <1>3, <1>5
<1> HIDE DEF r
<1>7. /\ words \in Seq(Nat) /\ Len(words) = 2 * n
      /\ \A i \in 1..n : /\ 2 * i - 1 \in 1..(2 * n) /\ 2 * i \in 1..(2 * n)
                         /\ words[2 * i - 1] = r[i][1] /\ words[2 * i] = r[i][2]
  BY <1>2, <1>6, FlatPairs
<1>8. ASSUME NEW p \in DOMAIN d.tiles
      PROVE  LET i == NumberOf(d, p)
             IN  /\ i \in 1..n /\ 2 * i - 1 \in 1..(2 * n) /\ 2 * i \in 1..(2 * n)
                 /\ words[2 * i - 1] = IdOf(d, p) /\ words[2 * i] = HeightOf(d, p)
  <2> DEFINE i == NumberOf(d, p)
  <2>1. i \in 1..n /\ places[i] = p
    BY <1>1, <1>5 DEF NumberOf, b
  <2> HIDE DEF i
  <2>2. r[i] = TileInfo[d.tiles[p]]
    BY <1>6, <2>1
  <2> QED
    BY <1>7, <2>1, <2>2 DEF IdOf, HeightOf, i
<1>9. ASSUME NEW i \in 1..n
      PROVE  /\ 2 * i - 1 \in 1..(2 * n) /\ 2 * i \in 1..(2 * n)
             /\ words[2 * i - 1] \in Nat /\ words[2 * i] \in Nat
  <2>1. 2 * i - 1 \in 1..(2 * n) /\ 2 * i \in 1..(2 * n)
    BY <1>7
  <2> QED
    BY <1>7, <2>1
<1> QED
  BY <1>1, <1>5, <1>7, <1>8, <1>9 DEF b, n, words

(* The words of minerals and start positions: two for each position. *)
LEMMA PointWords ==
    ASSUME NEW d, IsDrawing(d)
    PROVE  /\ Minerals(d) \in Seq(Nat) /\ StartPoints(d) \in Seq(Nat)
           /\ \E points \in Seq(d.starts) :
                 /\ Range(points) = d.starts /\ Len(StartPoints(d)) = 2 * Len(points)
                 /\ \A i \in 1..Len(points) :
                       <<Short(StartPoints(d)[2 * i - 1]), Short(StartPoints(d)[2 * i])>> = points[i]
<1> DEFINE low == -(2^15)
           high == 2^15 - 1
           m == Points(d, d.minerals)
           s == Points(d, d.starts)
           rm == [i \in 1..Len(m) |-> <<0, Word(m[i][1]), Word(m[i][2])>>]
           rs == [i \in 1..Len(s) |-> <<Word(s[i][1]), Word(s[i][2])>>]
<1>1. /\ m \in Seq(d.minerals) /\ s \in Seq(d.starts) /\ Range(s) = d.starts
      /\ Minerals(d) = Flat(rm, 3) /\ StartPoints(d) = Flat(rs, 2)
  <2>1. d.minerals # {} /\ d.starts # {} /\ d.minerals \subseteq d.minerals \cup d.starts
        /\ d.starts \subseteq d.minerals \cup d.starts
    BY DEF IsDrawing
  <2> QED
    BY <2>1, PointsFound DEF Minerals, StartPoints
<1>2. \A p \in d.minerals \cup d.starts : /\ Word(p[1]) \in Nat /\ Word(p[2]) \in Nat
                                          /\ p = <<Short(Word(p[1])), Short(Word(p[2]))>>
  <2>1. \A p \in d.minerals \cup d.starts : /\ p[1] \in low..high /\ p[2] \in low..high
                                            /\ p = <<p[1], p[2]>>
    <3>1. d.minerals \cup d.starts \subseteq (low .. high) \X (low .. high)
      BY DEF IsDrawing, Shorts
    <3> HIDE DEF low, high
    <3> QED
      BY <3>1
  <2>2. \A x \in low..high : Word(x) \in Nat /\ Short(Word(x)) = x
    BY ShortOfWord
  <2> HIDE DEF low, high
  <2> QED
    BY <2>1, <2>2
<1> HIDE DEF m, s
<1>3. rm \in Seq(Nat \X Nat \X Nat)
  <2>1. \A i \in 1..Len(m) : m[i] \in d.minerals
    BY <1>1
  <2>2. \A i \in 1..Len(m) : <<0, Word(m[i][1]), Word(m[i][2])>> \in Nat \X Nat \X Nat
    BY <1>2, <2>1
  <2> QED
    BY <1>1, <2>2
<1>4. /\ rs \in Seq(Nat \X Nat) /\ Len(rs) = Len(s) /\ Len(s) \in Nat
      /\ \A i \in 1..Len(s) : /\ s[i] \in d.starts /\ rs[i] = <<Word(s[i][1]), Word(s[i][2])>>
  <2>1. Len(s) \in Nat /\ \A i \in 1..Len(s) : s[i] \in d.starts
    BY <1>1
  <2>2. \A i \in 1..Len(s) : <<Word(s[i][1]), Word(s[i][2])>> \in Nat \X Nat
    BY <1>2, <2>1
  <2> QED
    BY <2>1, <2>2
<1> HIDE DEF rm, rs
<1>5. Minerals(d) \in Seq(Nat)
  BY <1>1, <1>3, FlatTriples
<1>6. /\ StartPoints(d) \in Seq(Nat) /\ Len(StartPoints(d)) = 2 * Len(s)
      /\ \A i \in 1..Len(s) : /\ StartPoints(d)[2 * i - 1] = rs[i][1]
                              /\ StartPoints(d)[2 * i] = rs[i][2]
  BY <1>1, <1>4, FlatPairs
<1>7. ASSUME NEW i \in 1..Len(s)
      PROVE  <<Short(StartPoints(d)[2 * i - 1]), Short(StartPoints(d)[2 * i])>> = s[i]
  <2>1. s[i] \in d.starts /\ rs[i] = <<Word(s[i][1]), Word(s[i][2])>>
    BY <1>4
  <2>2. rs[i][1] = Word(s[i][1]) /\ rs[i][2] = Word(s[i][2])
    BY ONLY <2>1
  <2>3. s[i] = <<Short(Word(s[i][1])), Short(Word(s[i][2]))>>
    BY <1>2, <2>1
  <2>4. StartPoints(d)[2 * i - 1] = Word(s[i][1]) /\ StartPoints(d)[2 * i] = Word(s[i][2])
    BY <1>6, <2>2
  <2> HIDE DEF s
  <2> QED
    BY ONLY <2>3, <2>4
<1> QED
  BY <1>1, <1>5, <1>6, <1>7

(* What stands in a file: words, and the hash. *)
Fields == Nat \cup Seq(Nat)

(* Words can stand in a file. *)
LEMMA WordsAreFields == ASSUME NEW s \in Seq(Nat) PROVE s \in Seq(Fields)
<1>1. Len(s) \in Nat /\ s = [i \in 1..Len(s) |-> s[i]] /\ \A i \in 1..Len(s) : s[i] \in Nat
  OBVIOUS
<1>2. \A i \in 1..Len(s) : s[i] \in Fields
  BY <1>1 DEF Fields
<1> QED
  BY <1>1, <1>2

(* A file has some words after its first i. *)
Part(file, i, words) ==
    i + Len(words) <= Len(file) /\ \A k \in 1..Len(words) : file[i + k] = words[k]

(* What a file has at a place it still has when more is written behind. *)
LEMMA Joined ==
    ASSUME NEW f \in Seq(Fields), NEW s \in Seq(Fields)
    PROVE  /\ f \o s \in Seq(Fields) /\ Len(f \o s) = Len(f) + Len(s)
           /\ Part(f \o s, Len(f), s)
           /\ \A i \in Nat, u \in Seq(Fields) : Part(f, i, u) => Part(f \o s, i, u)
<1> DEFINE S == Fields
<1>1. f \in Seq(S) /\ s \in Seq(S)
  OBVIOUS
<1> HIDE DEF S
<1>2. /\ f \o s \in Seq(S) /\ Len(f \o s) = Len(f) + Len(s) /\ Len(f) \in Nat /\ Len(s) \in Nat
      /\ \A i \in 1..Len(f) + Len(s) : (f \o s)[i] = IF i <= Len(f) THEN f[i] ELSE s[i - Len(f)]
  BY <1>1, ConcatProperties
<1> DEFINE t == f \o s
           m == Len(f)
           n == Len(s)
<1>3. /\ t \in Seq(S) /\ Len(t) = m + n /\ m \in Nat /\ n \in Nat
      /\ \A i \in 1..(m + n) : t[i] = IF i <= m THEN f[i] ELSE s[i - m]
  BY <1>2
<1> HIDE DEF t, m, n
<1>4. Part(t, m, s)
  <2>1. \A k \in 1..n : m + k \in 1..(m + n) /\ ~(m + k <= m) /\ (m + k) - m = k
    BY <1>3
  <2>2. \A k \in 1..n : t[m + k] = s[k]
    BY <1>3, <2>1
  <2> QED
    BY <1>3, <2>2 DEF Part, n
<1>5. ASSUME NEW i \in Nat, NEW u \in Seq(Fields), Part(f, i, u) PROVE Part(t, i, u)
  <2>1. Len(u) \in Nat /\ i + Len(u) <= m /\ \A k \in 1..Len(u) : f[i + k] = u[k]
    BY <1>5 DEF Part, m
  <2>2. \A k \in 1..Len(u) : i + k \in 1..(m + n) /\ i + k <= m
    BY <1>3, <2>1
  <2>3. \A k \in 1..Len(u) : t[i + k] = u[k]
    BY <1>3, <2>1, <2>2
  <2>4. i + Len(u) <= m + n
    BY <1>3, <2>1
  <2> QED
    BY <1>3, <2>3, <2>4 DEF Part
<1> QED
  BY <1>3, <1>4, <1>5 DEF t, m, n, S

(* The last fact of Joined, for one part. *)
LEMMA PartOfJoined ==
    ASSUME NEW f \in Seq(Fields), NEW s \in Seq(Fields), NEW i \in Nat, NEW u \in Seq(Fields),
           Part(f, i, u)
    PROVE  Part(f \o s, i, u)
  BY Joined

(* A section is a code, the number of its bytes, and its words. *)
LEMMA SectionWords ==
    ASSUME NEW code \in Nat, NEW words \in Seq(Fields)
    PROVE  /\ Section(code, words) \in Seq(Fields) /\ Len(Section(code, words)) = 3 + Len(words)
           /\ Section(code, words)[1] = code
           /\ Section(code, words)[2] + 2^16 * Section(code, words)[3] = 2 * Len(words)
           /\ \A k \in 1..Len(words) : Section(code, words)[3 + k] = words[k]
<1> DEFINE n == 2 * Len(words)
           size == Int32(n)
           head == <<code>> \o size
           s == head \o words
<1>1. n \in Nat /\ Len(words) \in Nat
  OBVIOUS
<1> HIDE DEF n
<1>2. size \in Seq(Nat) /\ Len(size) = 2 /\ size[1] \in Nat /\ size[2] \in Nat /\ size[1] + 2^16 * size[2] = n
  BY <1>1, Int32OfWords
<1>3. Section(code, words) = s
  BY DEF Section, n
<1> HIDE DEF size
<1>4. head \in Seq(Fields) /\ Len(head) = 3 /\ head[1] = code /\ head[2] = size[1] /\ head[3] = size[2]
  <2>1. \A k \in 1..2 : size[k] \in Fields
    BY <1>2 DEF Fields
  <2>2. size \in Seq(Fields) /\ <<code>> \in Seq(Fields) /\ Len(<<code>>) = 1 /\ <<code>>[1] = code
    BY <1>2, <2>1 DEF Fields
  <2> DEFINE c == <<code>>
  <2> HIDE DEF c
  <2>3. /\ c \o size \in Seq(Fields) /\ Len(c \o size) = Len(c) + Len(size)
        /\ \A i \in 1..Len(c) + Len(size) : (c \o size)[i] = IF i <= Len(c) THEN c[i] ELSE size[i - Len(c)]
    BY <2>2, ConcatProperties DEF c
  <2>4. Len(c) = 1 /\ c[1] = code
    BY <2>2 DEF c
  <2>5. /\ Len(c \o size) = 3 /\ (c \o size)[1] = c[1] /\ (c \o size)[2] = size[1] /\ (c \o size)[3] = size[2]
    BY <1>2, <2>3, <2>4
  <2> QED
    BY <2>3, <2>4, <2>5 DEF c
<1> HIDE DEF head
<1>5. /\ s \in Seq(Fields) /\ Len(s) = 3 + Len(words)
      /\ \A i \in 1..3 + Len(words) : s[i] = IF i <= 3 THEN head[i] ELSE words[i - 3]
  <2>1. /\ s \in Seq(Fields) /\ Len(s) = Len(head) + Len(words)
        /\ \A i \in 1..Len(head) + Len(words) : s[i] = IF i <= Len(head) THEN head[i] ELSE words[i - Len(head)]
    BY <1>4, ConcatProperties
  <2> QED
    BY <1>4, <2>1
<1> HIDE DEF s
<1>6. s[1] = code /\ s[2] = size[1] /\ s[3] = size[2]
  BY <1>1, <1>4, <1>5
<1>7. \A k \in 1..Len(words) : s[3 + k] = words[k]
  <2>1. \A k \in 1..Len(words) : 3 + k \in 1..(3 + Len(words)) /\ ~(3 + k <= 3) /\ (3 + k) - 3 = k
    BY <1>1
  <2> QED
    BY <1>5, <2>1
<1> QED
  BY <1>2, <1>3, <1>5, <1>6, <1>7 DEF n

(* A section of a file, as it is read. *)
SectionAt(file, i, code, words) ==
    /\ i + 3 + Len(words) <= Len(file)
    /\ CodeAt(file, i) = code /\ WordsAt(file, i) = words
    /\ After(file, i) = i + 3 + Len(words)

(* ParsingMapData gets back the code and the words that were written. *)
LEMMA ReadSection ==
    ASSUME NEW file \in Seq(Fields), NEW i \in Nat, NEW code \in Nat, NEW words \in Seq(Fields),
           Part(file, i, Section(code, words))
    PROVE  SectionAt(file, i, code, words)
<1> DEFINE s == Section(code, words)
           n == Len(words)
<1>1. /\ n \in Nat /\ Len(s) = 3 + n /\ s[1] = code /\ s[2] + 2^16 * s[3] = 2 * n
      /\ \A k \in 1..n : s[3 + k] = words[k]
  <2>1. n \in Nat
    OBVIOUS
  <2> HIDE DEF s
  <2>2. /\ Len(s) = 3 + Len(words) /\ s[1] = code /\ s[2] + 2^16 * s[3] = 2 * Len(words)
        /\ \A k \in 1..Len(words) : s[3 + k] = words[k]
    BY SectionWords DEF s
  <2> QED
    BY <2>1, <2>2
<1>2. i + Len(s) <= Len(file) /\ Len(file) \in Nat /\ \A k \in 1..Len(s) : file[i + k] = s[k]
  BY DEF Part
<1> HIDE DEF s, n
<1>3. i + 3 + n <= Len(file)
  BY <1>1, <1>2
<1>4. file[i + 1] = code /\ file[i + 2] = s[2] /\ file[i + 3] = s[3]
  BY <1>1, <1>2
<1>5. ToInt32(file, i + 2) = 2 * n
  <2>1. (i + 2) + 1 = i + 3
    OBVIOUS
  <2> QED
    BY <1>1, <1>4, <2>1 DEF ToInt32
<1>6. ToInt32(file, i + 2) \div 2 = n
  BY <1>1, <1>5
<1>7. SubSeq(file, i + 4, i + 3 + n) = words
  <2> DEFINE u == SubSeq(file, i + 4, i + 3 + n)
  <2>1. i + 4 \in 1 .. Len(file) + 1 /\ i + 3 + n \in (i + 4) - 1 .. Len(file)
    BY <1>1, <1>2, <1>3
  <2>2. /\ u \in Seq(Fields) /\ Len(u) = (i + 3 + n) - (i + 4) + 1
        /\ \A k \in 1 .. (i + 3 + n) - (i + 4) + 1 : u[k] = file[(i + 4) + k - 1]
    BY <2>1, SubSeqProperties
  <2>3. (i + 3 + n) - (i + 4) + 1 = n /\ \A k \in 1..n : (i + 4) + k - 1 = i + (3 + k) /\ 3 + k \in 1..(3 + n)
    BY <1>1
  <2> HIDE DEF u
  <2>4. \A k \in 1..n : u[k] = words[k]
    BY <1>1, <1>2, <2>2, <2>3
  <2>5. u \in Seq(Fields) /\ Len(u) = Len(words)
    BY <2>2, <2>3 DEF n
  <2> QED
    BY <2>4, <2>5, SeqEqual DEF n, u
<1> QED
  BY <1>3, <1>4, <1>6, <1>7 DEF SectionAt, CodeAt, WordsAt, After, n

(* The words of the sections of a drawing's file, and where they begin. *)
SizeWords(d) ==
    LET b == Bounds(DOMAIN d.tiles) IN Int32(b.width) \o Int32(b.height) \o <<Scale>>

TilesFrom == 16
PointsFrom(d) == TilesFrom + 3 + Len(TileMapDatas(d))
StartsFrom(d) == PointsFrom(d) + 3 + Len(Minerals(d))
FileEnds(d) == StartsFrom(d) + 3 + Len(StartPoints(d))

(* The section of the size holds width, height and scale. *)
LEMMA SizeOfWords ==
    ASSUME NEW d, IsDrawing(d)
    PROVE  LET b == Bounds(DOMAIN d.tiles)
           IN  /\ SizeWords(d) \in Seq(Fields) /\ Len(SizeWords(d)) = 5
               /\ ToInt32(SizeWords(d), 1) = b.width /\ ToInt32(SizeWords(d), 3) = b.height
               /\ SizeWords(d)[5] = Scale
<1> DEFINE b == Bounds(DOMAIN d.tiles)
           w == Int32(b.width)
           h == Int32(b.height)
           c == <<Scale>>
<1>1. b.width \in Nat /\ b.height \in Nat
  BY TileWords DEF IsBounds
<1> HIDE DEF b
<1>2. /\ w \in Seq(Nat) /\ Len(w) = 2 /\ w[1] \in Nat /\ w[2] \in Nat /\ w[1] + 2^16 * w[2] = b.width
  BY <1>1, Int32OfWords
<1>3. /\ h \in Seq(Nat) /\ Len(h) = 2 /\ h[1] \in Nat /\ h[2] \in Nat /\ h[1] + 2^16 * h[2] = b.height
  BY <1>1, Int32OfWords
<1>4. c \in Seq(Nat) /\ Len(c) = 1 /\ c[1] = Scale
  BY DEF Scale
<1>5. SizeWords(d) = (w \o h) \o c
  BY DEF SizeWords, b
<1> HIDE DEF w, h, c
<1> DEFINE u == w \o h
<1>6. u \in Seq(Nat) /\ Len(u) = 4 /\ \A i \in 1..4 : u[i] = IF i <= 2 THEN w[i] ELSE h[i - 2]
  <2>1. /\ u \in Seq(Nat) /\ Len(u) = Len(w) + Len(h)
        /\ \A i \in 1..Len(w) + Len(h) : u[i] = IF i <= Len(w) THEN w[i] ELSE h[i - Len(w)]
    BY <1>2, <1>3, ConcatProperties
  <2> HIDE DEF u
  <2>2. Len(w) = 2 /\ Len(h) = 2
    BY <1>2, <1>3
  <2> QED
    BY ONLY <2>1, <2>2
<1> HIDE DEF u
<1> DEFINE v == u \o c
<1>7. v \in Seq(Nat) /\ Len(v) = 5 /\ \A i \in 1..5 : v[i] = IF i <= 4 THEN u[i] ELSE c[i - 4]
  <2>1. /\ v \in Seq(Nat) /\ Len(v) = Len(u) + Len(c)
        /\ \A i \in 1..Len(u) + Len(c) : v[i] = IF i <= Len(u) THEN u[i] ELSE c[i - Len(u)]
    BY <1>4, <1>6, ConcatProperties
  <2> QED
    BY <1>4, <1>6, <2>1
<1> HIDE DEF v
<1>8. v[1] = w[1] /\ v[2] = w[2] /\ v[3] = h[1] /\ v[4] = h[2] /\ v[5] = c[1]
  BY <1>6, <1>7
<1>9. v \in Seq(Fields)
  BY <1>7 DEF Fields
<1>10. ToInt32(v, 1) = b.width /\ ToInt32(v, 3) = b.height
  <2>1. ToInt32(v, 1) = v[1] + 2^16 * v[2] /\ ToInt32(v, 3) = v[3] + 2^16 * v[4]
    <3>1. 1 + 1 = 2 /\ 3 + 1 = 4
      OBVIOUS
    <3> QED
      BY <3>1 DEF ToInt32
  <2> QED
    BY <1>2, <1>3, <1>8, <2>1
<1> QED
  BY <1>4, <1>5, <1>7, <1>8, <1>9, <1>10 DEF u, v, b

(* A file is its six sections, one behind the other. *)
LEMMA FileSections ==
    ASSUME NEW d, IsDrawing(d)
    PROVE  LET file == WriteMapFile(d)
           IN  /\ file \in Seq(Fields) /\ Len(file) = FileEnds(d)
               /\ PointsFrom(d) \in Nat /\ StartsFrom(d) \in Nat /\ FileEnds(d) \in Nat
               /\ Checksum(d) \in Seq(Nat)
               /\ SectionAt(file, 0, HASH, <<Checksum(d)>>) /\ SectionAt(file, 4, OWNR, <<d.players>>)
               /\ SectionAt(file, 8, SIZE, SizeWords(d))
               /\ SectionAt(file, TilesFrom, MTXM, TileMapDatas(d))
               /\ SectionAt(file, PointsFrom(d), RESO, Minerals(d))
               /\ SectionAt(file, StartsFrom(d), SPOS, StartPoints(d))
<1> DEFINE hash == <<Checksum(d)>>
           owner == <<d.players>>
           size == SizeWords(d)
           tiles == TileMapDatas(d)
           ores == Minerals(d)
           begins == StartPoints(d)
           s1 == Section(HASH, hash)
           s2 == Section(OWNR, owner)
           s3 == Section(SIZE, size)
           s4 == Section(MTXM, tiles)
           s5 == Section(RESO, ores)
           s6 == Section(SPOS, begins)
<1>1. /\ tiles \in Seq(Nat) /\ ores \in Seq(Nat) /\ begins \in Seq(Nat)
  BY TileWords, PointWords
<1>2. Checksum(d) \in Seq(Nat)
  BY <1>1, ConcatProperties DEF Checksum
<1>3. hash \in Seq(Fields) /\ Len(hash) = 1 /\ owner \in Seq(Fields) /\ Len(owner) = 1
  BY <1>2 DEF Fields, IsDrawing
<1>4. size \in Seq(Fields) /\ Len(size) = 5
  BY SizeOfWords
<1>5. tiles \in Seq(Fields) /\ ores \in Seq(Fields) /\ begins \in Seq(Fields)
  BY <1>1, WordsAreFields
<1>6. WriteMapFile(d) = ((((s1 \o s2) \o s3) \o s4) \o s5) \o s6
  BY DEF WriteMapFile, SizeWords
<1> HIDE DEF hash, owner, size, tiles, ores, begins
<1>7. /\ HASH \in Nat /\ OWNR \in Nat /\ SIZE \in Nat /\ MTXM \in Nat /\ RESO \in Nat /\ SPOS \in Nat
  BY DEF HASH, OWNR, SIZE, MTXM, RESO, SPOS
<1>8. /\ s1 \in Seq(Fields) /\ Len(s1) = 3 + Len(hash) /\ s2 \in Seq(Fields) /\ Len(s2) = 3 + Len(owner)
      /\ s3 \in Seq(Fields) /\ Len(s3) = 3 + Len(size) /\ s4 \in Seq(Fields) /\ Len(s4) = 3 + Len(tiles)
      /\ s5 \in Seq(Fields) /\ Len(s5) = 3 + Len(ores) /\ s6 \in Seq(Fields) /\ Len(s6) = 3 + Len(begins)
  BY <1>3, <1>4, <1>5, <1>7, SectionWords
<1>9. Len(tiles) \in Nat /\ Len(ores) \in Nat /\ Len(begins) \in Nat
  BY <1>1
<1>10. /\ PointsFrom(d) = 16 + Len(s4) /\ StartsFrom(d) = PointsFrom(d) + Len(s5)
       /\ FileEnds(d) = StartsFrom(d) + Len(s6)
       /\ Len(s1) = 4 /\ Len(s2) = 4 /\ Len(s3) = 8
       /\ PointsFrom(d) \in Nat /\ StartsFrom(d) \in Nat /\ FileEnds(d) \in Nat
  BY <1>3, <1>4, <1>8, <1>9 DEF PointsFrom, StartsFrom, FileEnds, TilesFrom, tiles, ores, begins
<1> HIDE DEF s1, s2, s3, s4, s5, s6
<1> DEFINE f2 == s1 \o s2
           f3 == f2 \o s3
           f4 == f3 \o s4
           f5 == f4 \o s5
           f6 == f5 \o s6
<1>11. Part(s1, 0, s1)
  BY <1>8 DEF Part
<1>12. /\ f2 \in Seq(Fields) /\ Len(f2) = 8
       /\ Part(f2, 4, s2) /\ Part(f2, 0, s1)
  <2>1. f2 \in Seq(Fields) /\ Len(f2) = Len(s1) + Len(s2) /\ Part(f2, Len(s1), s2)
    BY <1>8, <1>11, Joined
  <2>2. Part(f2, 0, s1)
    BY <1>8, <1>10, <1>11, PartOfJoined
  <2> QED
    BY <1>10, <1>11, <2>1, <2>2
<1> HIDE DEF f2
<1>13. /\ f3 \in Seq(Fields) /\ Len(f3) = 16
       /\ Part(f3, 8, s3) /\ Part(f3, 4, s2) /\ Part(f3, 0, s1)
  <2>1. f3 \in Seq(Fields) /\ Len(f3) = Len(f2) + Len(s3) /\ Part(f3, Len(f2), s3)
    BY <1>8, <1>12, Joined
  <2>2. Part(f3, 4, s2)
    BY <1>8, <1>10, <1>12, PartOfJoined
  <2>3. Part(f3, 0, s1)
    BY <1>8, <1>10, <1>12, PartOfJoined
  <2> QED
    BY <1>10, <1>12, <2>1, <2>2, <2>3
<1> HIDE DEF f3
<1>14. /\ f4 \in Seq(Fields) /\ Len(f4) = PointsFrom(d)
       /\ Part(f4, 16, s4) /\ Part(f4, 8, s3) /\ Part(f4, 4, s2) /\ Part(f4, 0, s1)
  <2>1. f4 \in Seq(Fields) /\ Len(f4) = Len(f3) + Len(s4) /\ Part(f4, Len(f3), s4)
    BY <1>8, <1>13, Joined
  <2>2. Part(f4, 8, s3)
    BY <1>8, <1>10, <1>13, PartOfJoined
  <2>3. Part(f4, 4, s2)
    BY <1>8, <1>10, <1>13, PartOfJoined
  <2>4. Part(f4, 0, s1)
    BY <1>8, <1>10, <1>13, PartOfJoined
  <2> QED
    BY <1>10, <1>13, <2>1, <2>2, <2>3, <2>4
<1> HIDE DEF f4
<1>15. /\ f5 \in Seq(Fields) /\ Len(f5) = StartsFrom(d)
       /\ Part(f5, PointsFrom(d), s5) /\ Part(f5, 16, s4) /\ Part(f5, 8, s3) /\ Part(f5, 4, s2) /\ Part(f5, 0, s1)
  <2>1. f5 \in Seq(Fields) /\ Len(f5) = Len(f4) + Len(s5) /\ Part(f5, Len(f4), s5)
    BY <1>8, <1>14, Joined
  <2>2. Part(f5, 16, s4)
    BY <1>8, <1>10, <1>14, PartOfJoined
  <2>3. Part(f5, 8, s3)
    BY <1>8, <1>10, <1>14, PartOfJoined
  <2>4. Part(f5, 4, s2)
    BY <1>8, <1>10, <1>14, PartOfJoined
  <2>5. Part(f5, 0, s1)
    BY <1>8, <1>10, <1>14, PartOfJoined
  <2> QED
    BY <1>10, <1>14, <2>1, <2>2, <2>3, <2>4, <2>5
<1> HIDE DEF f5
<1>16. /\ f6 \in Seq(Fields) /\ Len(f6) = FileEnds(d)
       /\ Part(f6, StartsFrom(d), s6) /\ Part(f6, PointsFrom(d), s5) /\ Part(f6, 16, s4) /\ Part(f6, 8, s3) /\ Part(f6, 4, s2) /\ Part(f6, 0, s1)
  <2>1. f6 \in Seq(Fields) /\ Len(f6) = Len(f5) + Len(s6) /\ Part(f6, Len(f5), s6)
    BY <1>8, <1>15, Joined
  <2>2. Part(f6, PointsFrom(d), s5)
    BY <1>8, <1>10, <1>15, PartOfJoined
  <2>3. Part(f6, 16, s4)
    BY <1>8, <1>10, <1>15, PartOfJoined
  <2>4. Part(f6, 8, s3)
    BY <1>8, <1>10, <1>15, PartOfJoined
  <2>5. Part(f6, 4, s2)
    BY <1>8, <1>10, <1>15, PartOfJoined
  <2>6. Part(f6, 0, s1)
    BY <1>8, <1>10, <1>15, PartOfJoined
  <2> QED
    BY <1>10, <1>15, <2>1, <2>2, <2>3, <2>4, <2>5, <2>6
<1> HIDE DEF f6
<1>17. SectionAt(f6, 0, HASH, hash) /\ SectionAt(f6, 4, OWNR, owner) /\ SectionAt(f6, 8, SIZE, size)
  BY <1>3, <1>4, <1>7, <1>16, ReadSection DEF s1, s2, s3
<1>18. /\ SectionAt(f6, 16, MTXM, tiles) /\ SectionAt(f6, PointsFrom(d), RESO, ores)
       /\ SectionAt(f6, StartsFrom(d), SPOS, begins)
  BY <1>5, <1>7, <1>10, <1>16, ReadSection DEF s4, s5, s6
<1> QED
  BY <1>2, <1>6, <1>10, <1>16, <1>17, <1>18 DEF f2, f3, f4, f5, f6, hash, owner, size, tiles, ores, begins, TilesFrom

(***************************************************************************)
(* The inductive invariant of the map.                                     *)
(***************************************************************************)
SectionEnds(d) == {0, 4, 8, TilesFrom, PointsFrom(d), StartsFrom(d), FileEnds(d)}

MapTyped == /\ IsDrawing(drawing["server"]) /\ IsDrawing(drawing["client"])
            /\ index \in [{"server", "client"} -> Nat]
            /\ \A who \in {"server", "client"} : index[who] \in SectionEnds(drawing[who])

(* What the server knows of its map, after the sections that it has read.  *)
ServerKnows ==
    LET d == drawing["server"]
        b == Bounds(DOMAIN d.tiles)
        i == index["server"]
    IN  /\ DOMAIN mapData = DOMAIN NoData
        /\ i >= 8 => mapData.playerCount = d.players
        /\ i >= TilesFrom => /\ mapData.mapWidth = b.width /\ mapData.mapHeight = b.height
                             /\ mapData.scale = Scale
        /\ i >= PointsFrom(d) =>
              \A p \in DOMAIN d.tiles : mapData.height[NumberOf(d, p)] = HeightOf(d, p)
        /\ i >= FileEnds(d) => Range(mapData.playerPos) = d.starts

(* And the client. *)
ClientKnows ==
    LET d == drawing["client"]
        i == index["client"]
    IN  /\ i >= TilesFrom => SIZE \in DOMAIN sections /\ sections[SIZE] = SizeWords(d)
        /\ i >= PointsFrom(d) => MTXM \in DOMAIN sections /\ sections[MTXM] = TileMapDatas(d)

(* A room has the server's map if the client's has the same hash. *)
Started == map \notin {NoMap, Null} =>
              /\ ~More("server") /\ map = mapData
              /\ Checksum(drawing["client"]) = Checksum(drawing["server"])

(* The client reads, and shows, once its game has started; what it shows   *)
(* are the tiles of its file, at the places that this has them for.        *)
TilemapOf(d) ==
    LET b == Bounds(DOMAIN d.tiles)
    IN  [p \in TilesOf(b) |-> TileMapDatas(d)[2 * (p[1] + b.width * p[2]) + 1]]

Showing ==
    /\ index["client"] # 0 => map \notin {NoMap, Null}
    /\ shown # <<>> => map \notin {NoMap, Null} /\ shown = TilemapOf(drawing["client"])

(* A search runs on the map of the room. *)
OnMap == result # "none" =>
            /\ shown # <<>>
            /\ board = [width |-> map.mapWidth, height |-> map.mapHeight, heights |-> map.height]

MapInv == MapTyped /\ ServerKnows /\ ClientKnows /\ Started /\ Showing /\ OnMap /\ SearchInv

(* Where a reader stands, the file has the section of that place, and the  *)
(* next place follows.                                                     *)
LEMMA SectionsInTurn ==
    ASSUME NEW d, IsDrawing(d), NEW i \in SectionEnds(d)
    PROVE  LET file == WriteMapFile(d)
               Has(code, words, next) == /\ CodeAt(file, i) = code /\ WordsAt(file, i) = words
                                         /\ After(file, i) = next
           IN  /\ Len(file) = FileEnds(d) /\ i \in Nat
               /\ PointsFrom(d) \in Nat /\ StartsFrom(d) \in Nat /\ FileEnds(d) \in Nat
               /\ TilesFrom = 16 /\ PointsFrom(d) > 16 /\ StartsFrom(d) > PointsFrom(d)
               /\ FileEnds(d) > StartsFrom(d)
               /\ i < FileEnds(d) => \/ i = 0 /\ Has(HASH, <<Checksum(d)>>, 4)
                                     \/ i = 4 /\ Has(OWNR, <<d.players>>, 8)
                                     \/ i = 8 /\ Has(SIZE, SizeWords(d), TilesFrom)
                                     \/ i = TilesFrom /\ Has(MTXM, TileMapDatas(d), PointsFrom(d))
                                     \/ i = PointsFrom(d) /\ Has(RESO, Minerals(d), StartsFrom(d))
                                     \/ i = StartsFrom(d) /\ Has(SPOS, StartPoints(d), FileEnds(d))
<1> DEFINE file == WriteMapFile(d)
<1>1. /\ Len(file) = FileEnds(d)
      /\ PointsFrom(d) \in Nat /\ StartsFrom(d) \in Nat /\ FileEnds(d) \in Nat
      /\ SectionAt(file, 0, HASH, <<Checksum(d)>>) /\ SectionAt(file, 4, OWNR, <<d.players>>)
      /\ SectionAt(file, 8, SIZE, SizeWords(d))
      /\ SectionAt(file, TilesFrom, MTXM, TileMapDatas(d))
      /\ SectionAt(file, PointsFrom(d), RESO, Minerals(d))
      /\ SectionAt(file, StartsFrom(d), SPOS, StartPoints(d))
  BY FileSections
<1> HIDE DEF file
<1>2. /\ Len(TileMapDatas(d)) \in Nat /\ Len(Minerals(d)) \in Nat /\ Len(StartPoints(d)) \in Nat
  <2>1. TileMapDatas(d) \in Seq(Nat) /\ Minerals(d) \in Seq(Nat) /\ StartPoints(d) \in Seq(Nat)
    BY TileWords, PointWords
  <2> QED
    BY <2>1
<1>3. /\ TilesFrom = 16 /\ PointsFrom(d) > 16 /\ StartsFrom(d) > PointsFrom(d)
      /\ FileEnds(d) > StartsFrom(d)
  BY <1>1, <1>2 DEF TilesFrom, PointsFrom, StartsFrom, FileEnds
<1>4. i \in Nat
  BY <1>1, <1>3 DEF SectionEnds
<1>5. /\ After(file, 0) = 4 /\ After(file, 4) = 8 /\ After(file, 8) = TilesFrom
      /\ After(file, TilesFrom) = PointsFrom(d) /\ After(file, PointsFrom(d)) = StartsFrom(d)
      /\ After(file, StartsFrom(d)) = FileEnds(d)
  <2>1. Len(SizeWords(d)) = 5
    BY SizeOfWords
  <2>2. After(file, 0) = 0 + 3 + 1 /\ After(file, 4) = 4 + 3 + 1 /\ After(file, 8) = 8 + 3 + 5
    BY <1>1, <2>1 DEF SectionAt
  <2>3. /\ After(file, TilesFrom) = PointsFrom(d) /\ After(file, PointsFrom(d)) = StartsFrom(d)
        /\ After(file, StartsFrom(d)) = FileEnds(d)
    BY <1>1 DEF SectionAt, PointsFrom, StartsFrom, FileEnds
  <2> QED
    BY <1>3, <2>2, <2>3
<1>6. i < FileEnds(d) => i \in {0, 4, 8, TilesFrom, PointsFrom(d), StartsFrom(d)}
  BY <1>1 DEF SectionEnds
<1> QED
  BY <1>1, <1>3, <1>4, <1>5, <1>6 DEF SectionAt, file

(* What parsing a section sets, and what it leaves. *)
LEMMA Parsed ==
    ASSUME NEW code, NEW words, NEW data, DOMAIN data = DOMAIN NoData
    PROVE  LET now == ParsingMapData(code, words, data)
           IN  /\ DOMAIN now = DOMAIN NoData
               /\ now.playerCount = IF code = OWNR THEN words[1] ELSE data.playerCount
               /\ now.mapWidth = IF code = SIZE THEN ToInt32(words, 1) ELSE data.mapWidth
               /\ now.mapHeight = IF code = SIZE THEN ToInt32(words, 3) ELSE data.mapHeight
               /\ now.scale = IF code = SIZE THEN words[5] ELSE data.scale
               /\ now.height = IF code = MTXM THEN [i \in 1..(Len(words) \div 2) |-> words[2 * i]]
                                              ELSE data.height
               /\ now.playerPos = IF code = SPOS
                                  THEN [i \in 1..(Len(words) \div 2) |->
                                           <<Short(words[2 * i - 1]), Short(words[2 * i])>>]
                                  ELSE data.playerPos
<1>1. DOMAIN NoData = {"playerCount", "mapWidth", "mapHeight", "scale", "tiles", "height",
                       "resources", "playerPos"}
  BY DEF NoData
<1>2. OWNR = 1 /\ SIZE = 2 /\ MTXM = 3 /\ RESO = 4 /\ SPOS = 5
  BY DEF OWNR, SIZE, MTXM, RESO, SPOS
<1> DEFINE now == ParsingMapData(code, words, data)
<1>3. CASE code = OWNR
  <2>1. now = [data EXCEPT !.playerCount = words[1]]
    BY <1>2, <1>3 DEF ParsingMapData
  <2> QED
    BY <1>1, <1>2, <1>3, <2>1
<1>4. CASE code = SIZE
  <2>1. now = [data EXCEPT !.mapWidth = ToInt32(words, 1), !.mapHeight = ToInt32(words, 3),
                           !.scale = words[5]]
    BY <1>2, <1>4 DEF ParsingMapData
  <2> DEFINE w == ToInt32(words, 1)
             h == ToInt32(words, 3)
             s == words[5]
  <2> HIDE DEF now, w, h, s
  <2>2. now = [data EXCEPT !.mapWidth = w, !.mapHeight = h, !.scale = s]
    BY <2>1 DEF w, h, s
  <2>3. /\ DOMAIN now = DOMAIN NoData /\ now.mapWidth = w /\ now.mapHeight = h /\ now.scale = s
        /\ now.playerCount = data.playerCount /\ now.height = data.height
        /\ now.playerPos = data.playerPos
    BY <1>1, <2>2
  <2> QED
    BY <1>2, <1>4, <2>3 DEF now, w, h, s
<1>5. CASE code = MTXM
  <2> DEFINE count == Len(words) \div 2
             t == [i \in 1..count |-> words[2 * i - 1]]
             h == [i \in 1..count |-> words[2 * i]]
  <2>1. now = [data EXCEPT !.tiles = t, !.height = h]
    BY <1>2, <1>5 DEF ParsingMapData
  <2> HIDE DEF t, now
  <2>2. /\ DOMAIN now = DOMAIN NoData /\ now.height = h /\ now.playerCount = data.playerCount
        /\ now.mapWidth = data.mapWidth /\ now.mapHeight = data.mapHeight /\ now.scale = data.scale
        /\ now.playerPos = data.playerPos
    <3> HIDE DEF h
    <3> QED
      BY <1>1, <2>1
  <2> QED
    BY <1>2, <1>5, <2>2 DEF now
<1>6. CASE code = RESO
  <2> DEFINE r == [i \in 1..(Len(words) \div 3) |->
                      <<words[3 * i - 2], Short(words[3 * i - 1]), Short(words[3 * i])>>]
  <2>1. now = [data EXCEPT !.resources = r]
    BY <1>2, <1>6 DEF ParsingMapData
  <2> HIDE DEF r
  <2> QED
    BY <1>1, <1>2, <1>6, <2>1
<1>7. CASE code = SPOS
  <2> DEFINE r == [i \in 1..(Len(words) \div 2) |->
                      <<Short(words[2 * i - 1]), Short(words[2 * i])>>]
  <2>1. now = [data EXCEPT !.playerPos = r]
    BY <1>2, <1>7 DEF ParsingMapData
  <2> HIDE DEF now
  <2>2. /\ DOMAIN now = DOMAIN NoData /\ now.playerPos = r /\ now.playerCount = data.playerCount
        /\ now.mapWidth = data.mapWidth /\ now.mapHeight = data.mapHeight /\ now.scale = data.scale
        /\ now.height = data.height
    <3> HIDE DEF r
    <3> QED
      BY <1>1, <2>1
  <2> QED
    BY <1>2, <1>7, <2>2 DEF now
<1>8. CASE code \notin {OWNR, SIZE, MTXM, RESO, SPOS}
  <2>1. now = data
    BY <1>8 DEF ParsingMapData
  <2>2. code # OWNR /\ code # SIZE /\ code # MTXM /\ code # SPOS
    BY <1>8
  <2> QED
    BY <2>1, <2>2
<1> QED
  BY <1>3, <1>4, <1>5, <1>6, <1>7, <1>8

(* The heights that are read are those of the tiles. *)
LEMMA HeightsRead ==
    ASSUME NEW d, IsDrawing(d)
    PROVE  LET words == TileMapDatas(d)
           IN  \A p \in DOMAIN d.tiles :
                  [i \in 1..(Len(words) \div 2) |-> words[2 * i]][NumberOf(d, p)] = HeightOf(d, p)
<1> DEFINE words == TileMapDatas(d)
           b == Bounds(DOMAIN d.tiles)
           n == b.width * b.height
<1>1. /\ n \in Nat /\ Len(words) = 2 * n
      /\ \A p \in DOMAIN d.tiles : NumberOf(d, p) \in 1..n /\ words[2 * NumberOf(d, p)] = HeightOf(d, p)
  BY TileWords
<1> HIDE DEF words, n
<1>2. Len(words) \div 2 = n
  BY <1>1
<1> QED
  BY <1>1, <1>2 DEF words

(* The positions that are read are the start positions drawn. *)
LEMMA PointsRead ==
    ASSUME NEW d, IsDrawing(d)
    PROVE  LET words == StartPoints(d)
           IN  Range([i \in 1..(Len(words) \div 2) |->
                         <<Short(words[2 * i - 1]), Short(words[2 * i])>>]) = d.starts
<1> DEFINE words == StartPoints(d)
           point(i) == <<Short(words[2 * i - 1]), Short(words[2 * i])>>
           got == [i \in 1..(Len(words) \div 2) |-> point(i)]
<1>1. PICK points \in Seq(d.starts) :
         /\ Range(points) = d.starts /\ Len(words) = 2 * Len(points)
         /\ \A i \in 1..Len(points) : point(i) = points[i]
  BY PointWords
<1> HIDE DEF words, point
<1>2. Len(points) \in Nat /\ Len(words) \div 2 = Len(points) /\ DOMAIN points = 1..Len(points)
  BY <1>1
<1>3. Range(got) = {point(i) : i \in 1..Len(points)} /\ Range(points) = {points[i] : i \in 1..Len(points)}
  BY <1>2 DEF Range
<1>4. Range(got) = Range(points)
  BY <1>1, <1>3
<1> QED
  BY <1>1, <1>4 DEF words, point

(* Reading a section on the server ... *)
LEMMA ServerReadsKeeps ==
    ASSUME MapTyped, ServerKnows, ServerReads
    PROVE  MapTyped' /\ ServerKnows'
<1> DEFINE d == drawing["server"]
           b == Bounds(DOMAIN d.tiles)
           file == WriteMapFile(d)
           i == index["server"]
           next == After(file, i)
           now == ParsingMapData(CodeAt(file, i), WordsAt(file, i), mapData)
<1>1. /\ IsDrawing(d) /\ i \in SectionEnds(d) /\ i < Len(file)
      /\ mapData' = now /\ index' = [index EXCEPT !["server"] = next] /\ drawing' = drawing
  BY DEF MapTyped, ServerReads, More, File
<1>2. /\ Len(file) = FileEnds(d) /\ i \in Nat
      /\ PointsFrom(d) \in Nat /\ StartsFrom(d) \in Nat /\ FileEnds(d) \in Nat
      /\ TilesFrom = 16 /\ PointsFrom(d) > 16 /\ StartsFrom(d) > PointsFrom(d)
      /\ FileEnds(d) > StartsFrom(d)
  BY <1>1, SectionsInTurn
<1>3. DOMAIN mapData = DOMAIN NoData
  BY DEF ServerKnows
<1>4. /\ HASH = 0 /\ OWNR = 1 /\ SIZE = 2 /\ MTXM = 3 /\ RESO = 4 /\ SPOS = 5
  BY DEF HASH, OWNR, SIZE, MTXM, RESO, SPOS
<1> DEFINE heights(w) == [k \in 1..(Len(w) \div 2) |-> w[2 * k]]
           points(w) == [k \in 1..(Len(w) \div 2) |-> <<Short(w[2 * k - 1]), Short(w[2 * k])>>]
           code == CodeAt(file, i)
           words == WordsAt(file, i)
<1>5. /\ DOMAIN now = DOMAIN NoData
      /\ now.playerCount = IF code = OWNR THEN words[1] ELSE mapData.playerCount
      /\ now.mapWidth = IF code = SIZE THEN ToInt32(words, 1) ELSE mapData.mapWidth
      /\ now.mapHeight = IF code = SIZE THEN ToInt32(words, 3) ELSE mapData.mapHeight
      /\ now.scale = IF code = SIZE THEN words[5] ELSE mapData.scale
      /\ now.height = IF code = MTXM THEN heights(words) ELSE mapData.height
      /\ now.playerPos = IF code = SPOS THEN points(words) ELSE mapData.playerPos
  BY <1>3, Parsed
<1>6. \/ i = 0 /\ code = HASH /\ words = <<Checksum(d)>> /\ next = 4
      \/ i = 4 /\ code = OWNR /\ words = <<d.players>> /\ next = 8
      \/ i = 8 /\ code = SIZE /\ words = SizeWords(d) /\ next = TilesFrom
      \/ i = TilesFrom /\ code = MTXM /\ words = TileMapDatas(d) /\ next = PointsFrom(d)
      \/ i = PointsFrom(d) /\ code = RESO /\ words = Minerals(d) /\ next = StartsFrom(d)
      \/ i = StartsFrom(d) /\ code = SPOS /\ words = StartPoints(d) /\ next = FileEnds(d)
  BY <1>1, <1>2, SectionsInTurn
<1>7. /\ i >= 8 => mapData.playerCount = d.players
      /\ i >= 16 => /\ mapData.mapWidth = b.width /\ mapData.mapHeight = b.height /\ mapData.scale = Scale
      /\ i >= PointsFrom(d) => \A p \in DOMAIN d.tiles : mapData.height[NumberOf(d, p)] = HeightOf(d, p)
  BY <1>2 DEF ServerKnows
<1>8. \A p \in DOMAIN d.tiles : heights(TileMapDatas(d))[NumberOf(d, p)] = HeightOf(d, p)
  BY <1>1, HeightsRead
<1>9. Range(points(StartPoints(d))) = d.starts
  BY <1>1, PointsRead
<1>10. /\ ToInt32(SizeWords(d), 1) = b.width /\ ToInt32(SizeWords(d), 3) = b.height
       /\ SizeWords(d)[5] = Scale
  BY <1>1, SizeOfWords
<1>11. next \in Nat /\ next \in SectionEnds(d)
  BY <1>2, <1>6 DEF SectionEnds
<1>12. MapTyped'
  <2> HIDE DEF d, next, now, i
  <2>1. index' \in [{"server", "client"} -> Nat] /\ index'["server"] = next /\ index'["client"] = index["client"]
    BY <1>1, <1>11 DEF MapTyped
  <2> QED
    BY <1>1, <1>11, <2>1 DEF MapTyped, d
<1>13. index'["server"] = next
  BY <1>1 DEF MapTyped
<1> HIDE DEF now, next, code, words, i, heights, points
<1>14. next >= 8 => now.playerCount = d.players
  BY <1>2, <1>4, <1>5, <1>6, <1>7
<1>15. next >= 16 => /\ now.mapWidth = b.width /\ now.mapHeight = b.height /\ now.scale = Scale
  BY <1>2, <1>4, <1>5, <1>6, <1>7, <1>10
<1>16. next >= PointsFrom(d) => \A p \in DOMAIN d.tiles : now.height[NumberOf(d, p)] = HeightOf(d, p)
  BY <1>2, <1>4, <1>5, <1>6, <1>7, <1>8
<1>17. next >= FileEnds(d) => Range(now.playerPos) = d.starts
  BY <1>2, <1>4, <1>5, <1>6, <1>9
<1> HIDE DEF b
<1>18. ServerKnows'
  BY <1>1, <1>2, <1>5, <1>13, <1>14, <1>15, <1>16, <1>17 DEF ServerKnows, b
<1> QED
  BY <1>12, <1>18

(* ... and on the client adds to what is known of the drawing. *)
LEMMA ClientReadsKeeps ==
    ASSUME MapTyped, ClientKnows, ClientReads
    PROVE  MapTyped' /\ ClientKnows'
<1> DEFINE d == drawing["client"]
           file == WriteMapFile(d)
           i == index["client"]
           next == After(file, i)
           code == CodeAt(file, i)
           words == WordsAt(file, i)
<1>1. /\ IsDrawing(d) /\ i \in SectionEnds(d) /\ i < Len(file)
      /\ sections' = [c \in DOMAIN sections \cup {code} |-> IF c = code THEN words ELSE sections[c]]
      /\ index' = [index EXCEPT !["client"] = next] /\ drawing' = drawing
  BY DEF MapTyped, ClientReads, More, File
<1>2. /\ Len(file) = FileEnds(d) /\ i \in Nat
      /\ PointsFrom(d) \in Nat /\ StartsFrom(d) \in Nat /\ FileEnds(d) \in Nat
      /\ TilesFrom = 16 /\ PointsFrom(d) > 16 /\ StartsFrom(d) > PointsFrom(d)
      /\ FileEnds(d) > StartsFrom(d)
  BY <1>1, SectionsInTurn
<1>3. /\ HASH = 0 /\ OWNR = 1 /\ SIZE = 2 /\ MTXM = 3 /\ RESO = 4 /\ SPOS = 5
  BY DEF HASH, OWNR, SIZE, MTXM, RESO, SPOS
<1>4. \/ i = 0 /\ code = HASH /\ words = <<Checksum(d)>> /\ next = 4
      \/ i = 4 /\ code = OWNR /\ words = <<d.players>> /\ next = 8
      \/ i = 8 /\ code = SIZE /\ words = SizeWords(d) /\ next = TilesFrom
      \/ i = TilesFrom /\ code = MTXM /\ words = TileMapDatas(d) /\ next = PointsFrom(d)
      \/ i = PointsFrom(d) /\ code = RESO /\ words = Minerals(d) /\ next = StartsFrom(d)
      \/ i = StartsFrom(d) /\ code = SPOS /\ words = StartPoints(d) /\ next = FileEnds(d)
  BY <1>1, <1>2, SectionsInTurn
<1>5. /\ i >= 16 => SIZE \in DOMAIN sections /\ sections[SIZE] = SizeWords(d)
      /\ i >= PointsFrom(d) => MTXM \in DOMAIN sections /\ sections[MTXM] = TileMapDatas(d)
  BY <1>2 DEF ClientKnows
<1>6. next \in Nat /\ next \in SectionEnds(d)
  BY <1>2, <1>4 DEF SectionEnds
<1>7. MapTyped'
  <2> HIDE DEF d, next, i, code, words
  <2>1. index' \in [{"server", "client"} -> Nat] /\ index'["client"] = next /\ index'["server"] = index["server"]
    BY <1>1, <1>6 DEF MapTyped
  <2> QED
    BY <1>1, <1>6, <2>1 DEF MapTyped, d
<1>8. index'["client"] = next
  BY <1>1 DEF MapTyped
<1> HIDE DEF next, code, words, i
<1>9. next >= 16 => SIZE \in DOMAIN sections' /\ sections'[SIZE] = SizeWords(d)
  BY <1>1, <1>2, <1>3, <1>4, <1>5
<1>10. next >= PointsFrom(d) => MTXM \in DOMAIN sections' /\ sections'[MTXM] = TileMapDatas(d)
  BY <1>1, <1>2, <1>3, <1>4, <1>5
<1>11. ClientKnows'
  BY <1>1, <1>2, <1>8, <1>9, <1>10 DEF ClientKnows
<1> QED
  BY <1>7, <1>11

(* All is read. *)
LEMMA ReadToEnd ==
    ASSUME MapTyped, NEW who \in {"server", "client"}, ~More(who)
    PROVE  LET d == drawing[who]
           IN  /\ index[who] = FileEnds(d) /\ IsDrawing(d)
               /\ PointsFrom(d) \in Nat /\ StartsFrom(d) \in Nat /\ FileEnds(d) \in Nat
               /\ TilesFrom = 16 /\ PointsFrom(d) > 16 /\ StartsFrom(d) > PointsFrom(d)
               /\ FileEnds(d) > StartsFrom(d)
<1> DEFINE d == drawing[who]
           i == index[who]
<1>1. IsDrawing(d) /\ i \in SectionEnds(d) /\ ~(i < Len(WriteMapFile(d)))
  BY DEF MapTyped, More, File
<1>2. /\ Len(WriteMapFile(d)) = FileEnds(d) /\ i \in Nat
      /\ PointsFrom(d) \in Nat /\ StartsFrom(d) \in Nat /\ FileEnds(d) \in Nat
      /\ TilesFrom = 16 /\ PointsFrom(d) > 16 /\ StartsFrom(d) > PointsFrom(d)
      /\ FileEnds(d) > StartsFrom(d)
  BY <1>1, SectionsInTurn
<1> HIDE DEF d, i
<1>3. i = FileEnds(d)
  BY <1>1, <1>2 DEF SectionEnds
<1> QED
  BY <1>1, <1>2, <1>3 DEF d, i

(* A server that has read to the end has the map as drawn. *)
LEMMA MapInvLoads == ASSUME MapTyped, ServerKnows PROVE LoadedAsDrawn
<1> SUFFICES ASSUME ~More("server") PROVE LoadedAsDrawn
  BY DEF LoadedAsDrawn
<1> DEFINE d == drawing["server"]
           b == Bounds(DOMAIN d.tiles)
<1>1. /\ index["server"] = FileEnds(d)
      /\ PointsFrom(d) \in Nat /\ StartsFrom(d) \in Nat /\ FileEnds(d) \in Nat
      /\ TilesFrom = 16 /\ PointsFrom(d) > 16 /\ StartsFrom(d) > PointsFrom(d)
      /\ FileEnds(d) > StartsFrom(d)
  BY ReadToEnd
<1>2. /\ mapData.playerCount = d.players
      /\ mapData.mapWidth = b.width /\ mapData.mapHeight = b.height /\ mapData.scale = Scale
      /\ \A p \in DOMAIN d.tiles : mapData.height[NumberOf(d, p)] = HeightOf(d, p)
      /\ Range(mapData.playerPos) = d.starts
  BY <1>1 DEF ServerKnows
<1>3. \A p \in DOMAIN d.tiles :
         mapData.height[p[1] - b.xMin + mapData.mapWidth * (p[2] - b.yMin) + 1] = TileInfo[d.tiles[p]][2]
  BY <1>2 DEF NumberOf, HeightOf
<1> QED
  BY <1>2, <1>3 DEF LoadedAsDrawn

(* The board of a search, and the drawing that it is from. *)
LEMMA MapOfGame ==
    ASSUME MapTyped, ServerKnows, Started, map \notin {NoMap, Null}
    PROVE  LET d == drawing["server"]
               b == Bounds(DOMAIN d.tiles)
           IN  /\ IsDrawing(d) /\ map.mapWidth = b.width /\ map.mapHeight = b.height
               /\ \A p \in DOMAIN d.tiles : map.height[NumberOf(d, p)] = HeightOf(d, p)
<1> DEFINE d == drawing["server"]
<1>1. ~More("server") /\ map = mapData
  BY DEF Started
<1>2. /\ index["server"] = FileEnds(d) /\ IsDrawing(d)
      /\ PointsFrom(d) \in Nat /\ StartsFrom(d) \in Nat /\ FileEnds(d) \in Nat
      /\ TilesFrom = 16 /\ PointsFrom(d) > 16 /\ StartsFrom(d) > PointsFrom(d)
      /\ FileEnds(d) > StartsFrom(d)
  BY <1>1, ReadToEnd
<1> QED
  BY <1>1, <1>2 DEF ServerKnows

(***************************************************************************)
(* Every step keeps the invariant.                                         *)
(***************************************************************************)
LEMMA MapInitInv == ASSUME MapInit PROVE MapInv
<1>1. PICK pair \in Drawings : drawing = [server |-> pair[1], client |-> pair[2]]
  BY DEF MapInit, FileInit
<1>2. IsDrawing(drawing["server"]) /\ IsDrawing(drawing["client"])
  BY <1>1, DrawingsAssumption
<1>3. /\ index = [server |-> 0, client |-> 0] /\ mapData = NoData /\ sections = <<>> /\ shown = <<>>
      /\ map = NoMap /\ closed = {} /\ result = "none"
  BY DEF MapInit, FileInit, SearchInit
<1>4. MapTyped
  BY <1>2, <1>3 DEF MapTyped, SectionEnds
<1>5. ServerKnows /\ ClientKnows
  <2>1. /\ PointsFrom(drawing["server"]) > 16 /\ FileEnds(drawing["server"]) > 16
        /\ PointsFrom(drawing["client"]) > 16 /\ TilesFrom = 16
        /\ PointsFrom(drawing["server"]) \in Nat /\ FileEnds(drawing["server"]) \in Nat
        /\ PointsFrom(drawing["client"]) \in Nat
    <3>1. 0 \in SectionEnds(drawing["server"]) /\ 0 \in SectionEnds(drawing["client"])
      BY DEF SectionEnds
    <3>2. /\ PointsFrom(drawing["server"]) > 16 /\ StartsFrom(drawing["server"]) > PointsFrom(drawing["server"])
          /\ FileEnds(drawing["server"]) > StartsFrom(drawing["server"]) /\ TilesFrom = 16
          /\ PointsFrom(drawing["server"]) \in Nat /\ FileEnds(drawing["server"]) \in Nat
          /\ StartsFrom(drawing["server"]) \in Nat
      BY <1>2, <3>1, SectionsInTurn
    <3>3. PointsFrom(drawing["client"]) > 16 /\ PointsFrom(drawing["client"]) \in Nat
      BY <1>2, <3>1, SectionsInTurn
    <3> QED
      BY <3>2, <3>3
  <2>2. index["server"] = 0 /\ index["client"] = 0 /\ DOMAIN mapData = DOMAIN NoData
    BY <1>3
  <2> QED
    BY <2>1, <2>2 DEF ServerKnows, ClientKnows
<1>6. Started /\ Showing /\ OnMap
  BY <1>3 DEF Started, Showing, OnMap
<1>7. SearchInv
  BY <1>3 DEF SearchInv, SearchTyped
<1> QED
  BY <1>4, <1>5, <1>6, <1>7 DEF MapInv

(* A room gets a map only when the client showed the same checksum. *)
LEMMA StartOnMapKeeps == ASSUME MapTyped, Started, Showing, StartOnMap PROVE Started' /\ Showing'
<1>1. /\ ~More("server") /\ map = NoMap
      /\ map' = IF HashOf("client") = HashOf("server") THEN mapData ELSE Null
      /\ UNCHANGED <<drawing, index, mapData, sections, shown>>
  BY DEF StartOnMap
<1>2. ~More("server")'
  BY <1>1 DEF More, File
<1>3. HashOf("client") = <<Checksum(drawing["client"])>> /\ HashOf("server") = <<Checksum(drawing["server"])>>
  <2>1. \A who \in {"server", "client"} : HashOf(who) = <<Checksum(drawing[who])>>
    <3>1. \A who \in {"server", "client"} : IsDrawing(drawing[who])
      BY DEF MapTyped
    <3> QED
      BY <3>1, FileSections DEF HashOf, File, SectionAt
  <2> QED
    BY <2>1
<1>4. Started'
  <2>1. CASE HashOf("client") = HashOf("server")
    <3>1. Checksum(drawing["client"]) = Checksum(drawing["server"])
      BY <1>3, <2>1
    <3> QED
      BY <1>1, <1>2, <2>1, <3>1 DEF Started
  <2>2. CASE HashOf("client") # HashOf("server")
    BY <1>1, <2>2 DEF Started
  <2> QED
    BY <2>1, <2>2
<1>5. Showing'
  BY <1>1 DEF Showing
<1> QED
  BY <1>4, <1>5

(* The client shows the tiles of the file it has read. *)
LEMMA BuildTileMapKeeps ==
    ASSUME MapTyped, ClientKnows, Showing, BuildTileMap
    PROVE  Showing'
<1> DEFINE d == drawing["client"]
           b == Bounds(DOMAIN d.tiles)
<1>1. /\ ~More("client") /\ UNCHANGED <<drawing, index, mapData, sections, map>>
  BY DEF BuildTileMap
<1>2. /\ index["client"] = FileEnds(d) /\ IsDrawing(d)
      /\ PointsFrom(d) \in Nat /\ StartsFrom(d) \in Nat /\ FileEnds(d) \in Nat
      /\ TilesFrom = 16 /\ PointsFrom(d) > 16 /\ StartsFrom(d) > PointsFrom(d)
      /\ FileEnds(d) > StartsFrom(d)
  BY <1>1, ReadToEnd
<1>3. sections[SIZE] = SizeWords(d) /\ sections[MTXM] = TileMapDatas(d) /\ index["client"] # 0
  BY <1>2 DEF ClientKnows
<1>4. ToInt32(SizeWords(d), 1) = b.width /\ ToInt32(SizeWords(d), 3) = b.height
  BY <1>2, SizeOfWords
<1>5. shown' = TilemapOf(d)
  BY <1>3, <1>4 DEF BuildTileMap, TilemapOf, TilesOf
<1> QED
  BY <1>1, <1>3, <1>5 DEF Showing

(* A search is begun on the map of the room, from tile to tile. *)
LEMMA SendOffKeeps ==
    ASSUME MapInv, SendOff, UNCHANGED fileVars
    PROVE  SearchInv' /\ OnMap'
<1> DEFINE d == drawing["server"]
           b == Bounds(DOMAIN d.tiles)
           m == [width |-> map.mapWidth, height |-> map.mapHeight, heights |-> map.height]
<1>1. shown # <<>> /\ map \notin {NoMap, Null}
  BY DEF SendOff, MapInv, Showing
<1>2. map.mapWidth = b.width /\ map.mapHeight = b.height /\ IsDrawing(d)
  BY <1>1, MapOfGame DEF MapInv
<1>3. IsBounds(b)
  BY <1>2, TileWords
<1>4. IsBoard(m)
  BY <1>2, <1>3 DEF IsBoard, IsBounds
<1>5. PICK p \in TilesOf(m), q \in TilesOf(m) : Begin(m, p, q)
  BY DEF SendOff, TilesOf
<1> HIDE DEF m
<1>6. SearchInv'
  BY <1>4, <1>5, BeginKeeps DEF MapInv
<1>7. board' = m
  BY <1>5 DEF Begin
<1> QED
  BY <1>1, <1>6, <1>7 DEF OnMap, fileVars, m

(* The invariant of the search is about its variables alone. *)
LEMMA SearchSame == ASSUME SearchInv, UNCHANGED searchVars PROVE SearchInv'
<1>1. /\ board' = board /\ from' = from /\ to' = to /\ open' = open /\ closed' = closed
      /\ cameFrom' = cameFrom /\ result' = result /\ out' = out
  BY DEF searchVars
<1>2. Seen' = Seen /\ WayBack(to)' = WayBack(to)
  BY <1>1 DEF Seen, WayBack, Longer
<1>3. SearchTyped'
  BY <1>1, <1>2 DEF SearchInv, SearchTyped, Origins
<1>4. result # "none" => Rooted' /\ Offered' /\ Waits' /\ InTurn' /\ Relaxed'
  BY <1>1, <1>2 DEF SearchInv, Rooted, Offered, Waits, InTurn, Relaxed, Searching, G, F
<1>5. result # "none" => Ended'
  BY <1>1, <1>2 DEF SearchInv, Ended, G, F
<1> QED
  BY <1>1, <1>3, <1>4, <1>5 DEF SearchInv

(* Every step of the map keeps the invariant. *)
LEMMA MapStep == ASSUME MapInv, [MapNext]_mapVars PROVE MapInv'
<1> USE DEF MapInv
<1>1. ASSUME ServerReads, UNCHANGED searchVars PROVE MapInv'
  <2>1. MapTyped' /\ ServerKnows' /\ SearchInv'
    BY <1>1, ServerReadsKeeps, SearchSame
  <2>2. More("server") /\ UNCHANGED <<drawing, sections, shown, map>>
    BY <1>1 DEF ServerReads
  <2>3. index'["client"] = index["client"]
    BY <1>1 DEF ServerReads, MapTyped
  <2>4. ClientKnows'
    BY <2>2, <2>3 DEF ClientKnows
  <2>5. map \in {NoMap, Null}
    BY <2>2 DEF Started
  <2>6. Started' /\ Showing'
    BY <2>2, <2>3, <2>5 DEF Started, Showing
  <2>7. OnMap'
    BY <1>1, <2>2 DEF OnMap, searchVars
  <2> QED
    BY <2>1, <2>4, <2>6, <2>7
<1>2. ASSUME StartOnMap, UNCHANGED searchVars PROVE MapInv'
  <2>1. Started' /\ Showing' /\ SearchInv'
    BY <1>2, StartOnMapKeeps, SearchSame
  <2>2. UNCHANGED <<drawing, index, mapData, sections, shown>> /\ map = NoMap
    BY <1>2 DEF StartOnMap
  <2>3. MapTyped' /\ ServerKnows' /\ ClientKnows'
    BY <2>2 DEF MapTyped, ServerKnows, ClientKnows
  <2>4. result = "none"
    BY <2>2 DEF OnMap, Showing
  <2>5. OnMap'
    BY <1>2, <2>4 DEF OnMap, searchVars
  <2> QED
    BY <2>1, <2>3, <2>5
<1>3. ASSUME ClientReads, UNCHANGED searchVars PROVE MapInv'
  <2>1. MapTyped' /\ ClientKnows' /\ SearchInv'
    BY <1>3, ClientReadsKeeps, SearchSame
  <2>2. map \notin {NoMap, Null} /\ UNCHANGED <<drawing, mapData, shown, map>>
    BY <1>3 DEF ClientReads
  <2>3. index'["server"] = index["server"]
    BY <1>3 DEF ClientReads, MapTyped
  <2>4. ServerKnows'
    BY <2>2, <2>3 DEF ServerKnows
  <2>5. More("server")' = More("server")
    BY <2>2, <2>3 DEF More, File
  <2>6. Started' /\ Showing'
    BY <2>2, <2>5 DEF Started, Showing
  <2>7. OnMap'
    BY <1>3, <2>2 DEF OnMap, searchVars
  <2> QED
    BY <2>1, <2>4, <2>6, <2>7
<1>4. ASSUME BuildTileMap, UNCHANGED searchVars PROVE MapInv'
  <2>1. Showing' /\ SearchInv'
    BY <1>4, BuildTileMapKeeps, SearchSame
  <2>2. shown = <<>> /\ UNCHANGED <<drawing, index, mapData, sections, map>>
    BY <1>4 DEF BuildTileMap
  <2>3. MapTyped' /\ ServerKnows' /\ ClientKnows'
    BY <2>2 DEF MapTyped, ServerKnows, ClientKnows
  <2>4. Started'
    BY <2>2 DEF Started, More, File
  <2>5. OnMap'
    BY <1>4, <2>2 DEF OnMap, searchVars
  <2> QED
    BY <2>1, <2>3, <2>4, <2>5
<1>5. ASSUME UNCHANGED fileVars PROVE MapTyped' /\ ServerKnows' /\ ClientKnows' /\ Started' /\ Showing'
  <2>1. /\ drawing' = drawing /\ index' = index /\ mapData' = mapData /\ sections' = sections
        /\ shown' = shown /\ map' = map
    BY <1>5 DEF fileVars
  <2>2. MapTyped' /\ ServerKnows' /\ ClientKnows' /\ Showing'
    BY <2>1 DEF MapTyped, ServerKnows, ClientKnows, Showing
  <2>3. Started'
    BY <2>1 DEF Started, More, File
  <2> QED
    BY <2>2, <2>3
<1>6. ASSUME SendOff, UNCHANGED fileVars PROVE MapInv'
  BY <1>5, <1>6, SendOffKeeps
<1>7. ASSUME SearchNext, UNCHANGED fileVars PROVE MapInv'
  <2>1. SearchInv'
    BY <1>7, SearchKeeps
  <2>2. result # "none" /\ board' = board
    BY <1>7 DEF SearchNext, Searching, Popped, ReachGoal, Skip, Expand, GiveUp
  <2>3. OnMap'
    BY <1>7, <2>2 DEF OnMap, fileVars
  <2> QED
    BY <1>5, <1>7, <2>1, <2>3
<1>8. CASE UNCHANGED mapVars
  <2>1. UNCHANGED fileVars /\ UNCHANGED searchVars
    BY <1>8 DEF mapVars
  <2>2. OnMap'
    BY <2>1 DEF OnMap, fileVars, searchVars
  <2> QED
    BY <1>5, <2>1, <2>2, SearchSame
<1> QED
  BY <1>1, <1>2, <1>3, <1>4, <1>6, <1>7, <1>8 DEF MapNext, FileNext

(* MapInv holds in every state that reading, starting and searching a map  *)
(* reach, for every pair of drawings.                                      *)
THEOREM MapInvariant == MapSpec => []MapInv
<1>1. MapInit => MapInv
  BY MapInitInv
<1>2. MapInv /\ [MapNext]_mapVars => MapInv'
  BY MapStep
<1> QED
  BY <1>1, <1>2, PTL DEF MapSpec

(* ParsingMapData: a server that has read all sections of its file has the *)
(* width, the height, the start positions and, at every tile's index, the  *)
(* height that were drawn in the editor, however wide the map is and       *)
(* wherever its corner lies.                                               *)
THEOREM MapLoaded == MapSpec => []LoadedAsDrawn
<1>1. MapInv => LoadedAsDrawn
  BY MapInvLoads DEF MapInv
<1> QED
  BY <1>1, MapInvariant, PTL

(* AStarMove: a search that finds a way returns one whose steps are all    *)
(* allowed and that no other way undercuts; one that gives up does so only *)
(* when there is no way.                                                   *)
THEOREM WaysShortest == MapSpec => []FindsShortest
<1>1. MapInv => FindsShortest
  BY SearchInvFinds DEF MapInv
<1> QED
  BY <1>1, MapInvariant, PTL

(***************************************************************************)
(* The way on the tiles that the player sees.                              *)
(***************************************************************************)
(* An id of a tile stands for one height. *)
LEMMA HeightOfTileId ==
    \A k \in DOMAIN TileInfo : HeightOfTile[TileInfo[k][1]] = TileInfo[k][2] /\ TileInfo[k][2] \in Nat
<1> DEFINE TileIds == {TileInfo[k][1] : k \in DOMAIN TileInfo}
           Infos == {<<101, 1>>, <<201, 3>>, <<301, 2>>, <<401, 0>>}
<1>1. DOMAIN TileInfo = {"ground", "hill", "runway", "water"}
  BY DEF TileInfo
<1>2. /\ TileInfo["ground"] = <<101, 1>> /\ TileInfo["hill"] = <<201, 3>>
      /\ TileInfo["runway"] = <<301, 2>> /\ TileInfo["water"] = <<401, 0>>
  BY DEF TileInfo
<1>3. Range(TileInfo) = Infos
  BY <1>1, <1>2 DEF Range
<1>4. \A k \in DOMAIN TileInfo : TileInfo[k] \in Infos /\ TileInfo[k][2] \in Nat
  BY <1>1, <1>2
<1>5. \A s \in Infos, t \in Infos : s[1] = t[1] => s = t
  OBVIOUS
<1> HIDE DEF Infos
<1>6. ASSUME NEW k \in DOMAIN TileInfo PROVE HeightOfTile[TileInfo[k][1]] = TileInfo[k][2]
  <2> DEFINE id == TileInfo[k][1]
             t == CHOOSE s \in Range(TileInfo) : s[1] = id
  <2>1. id \in TileIds
    OBVIOUS
  <2>2. HeightOfTile[id] = t[2]
    <3> HIDE DEF id
    <3> QED
      BY <2>1 DEF HeightOfTile
  <2>3. t \in Infos /\ t[1] = id
    BY <1>3, <1>4
  <2>4. t = TileInfo[k]
    <3> HIDE DEF t
    <3> QED
      BY <1>4, <1>5, <2>3
  <2> QED
    BY <2>2, <2>4
<1> QED
  BY <1>4, <1>6

(* Sequences that begin differently are not made equal by what follows.    *)
LEMMA SameBeginning ==
    ASSUME NEW s \in Seq(Nat), NEW t \in Seq(Nat), NEW u \in Seq(Nat), NEW v \in Seq(Nat),
           Len(s) = Len(t), s \o u = t \o v
    PROVE  s = t
<1>1. /\ \A i \in 1..Len(s) + Len(u) : (s \o u)[i] = IF i <= Len(s) THEN s[i] ELSE u[i - Len(s)]
      /\ \A i \in 1..Len(t) + Len(v) : (t \o v)[i] = IF i <= Len(t) THEN t[i] ELSE v[i - Len(t)]
  BY ConcatProperties
<1>2. Len(s) \in Nat /\ Len(u) \in Nat /\ Len(v) \in Nat
  OBVIOUS
<1>3. \A i \in 1..Len(s) : /\ i \in 1..Len(s) + Len(u) /\ i \in 1..Len(t) + Len(v)
                           /\ i <= Len(s) /\ i <= Len(t)
  BY <1>2
<1>4. \A i \in 1..Len(s) : s[i] = t[i]
  BY <1>1, <1>3
<1> QED
  BY <1>4, SeqEqual

(* Drawings of one size and one checksum have the same tiles. *)
LEMMA SameTiles ==
    ASSUME NEW c, NEW d, IsDrawing(c), IsDrawing(d), Checksum(c) = Checksum(d),
           Bounds(DOMAIN c.tiles).width = Bounds(DOMAIN d.tiles).width,
           Bounds(DOMAIN c.tiles).height = Bounds(DOMAIN d.tiles).height
    PROVE  TileMapDatas(c) = TileMapDatas(d)
<1> DEFINE s == TileMapDatas(c)
           t == TileMapDatas(d)
           u == Minerals(c) \o StartPoints(c)
           v == Minerals(d) \o StartPoints(d)
<1>1. s \in Seq(Nat) /\ t \in Seq(Nat) /\ Len(s) = Len(t)
  <2>1. s \in Seq(Nat) /\ Len(s) = 2 * (Bounds(DOMAIN c.tiles).width * Bounds(DOMAIN c.tiles).height)
    BY TileWords
  <2>2. t \in Seq(Nat) /\ Len(t) = 2 * (Bounds(DOMAIN d.tiles).width * Bounds(DOMAIN d.tiles).height)
    BY TileWords
  <2> HIDE DEF s, t
  <2> QED
    BY <2>1, <2>2
<1>2. /\ Minerals(c) \in Seq(Nat) /\ StartPoints(c) \in Seq(Nat)
      /\ Minerals(d) \in Seq(Nat) /\ StartPoints(d) \in Seq(Nat)
  BY PointWords
<1>3. u \in Seq(Nat) /\ v \in Seq(Nat)
  BY <1>2, ConcatProperties
<1>4. Checksum(c) = (s \o Minerals(c)) \o StartPoints(c) /\ Checksum(d) = (t \o Minerals(d)) \o StartPoints(d)
  BY DEF Checksum
<1>5. Checksum(c) = s \o u /\ Checksum(d) = t \o v
  <2> DEFINE mc == Minerals(c)
             pc == StartPoints(c)
             md == Minerals(d)
             pd == StartPoints(d)
             N == Nat
  <2>1. /\ s \in Seq(N) /\ mc \in Seq(N) /\ pc \in Seq(N)
        /\ t \in Seq(N) /\ md \in Seq(N) /\ pd \in Seq(N)
    BY <1>1, <1>2
  <2>2. u = mc \o pc /\ v = md \o pd
    OBVIOUS
  <2>3. Checksum(c) = (s \o mc) \o pc /\ Checksum(d) = (t \o md) \o pd
    BY <1>4
  <2> HIDE DEF s, t, u, v, mc, pc, md, pd, N
  <2>4. (s \o mc) \o pc = s \o (mc \o pc)
    BY ONLY <2>1, ConcatAssociative
  <2>5. (t \o md) \o pd = t \o (md \o pd)
    BY ONLY <2>1, ConcatAssociative
  <2> QED
    BY ONLY <2>2, <2>3, <2>4, <2>5
<1> HIDE DEF s, t, u, v
<1> QED
  BY <1>1, <1>3, <1>5, SameBeginning DEF s, t

(* A step to a neighbour, tile by tile. *)
LEMMA StepOnGround ==
    ASSUME NEW b, IsBoard(b), NEW p \in TilesOf(b), NEW q \in Neighbours(b, p),
           \A t \in TilesOf(b) : HeightAt(b, t) \in Nat
    PROVE  /\ p # q
           /\ \A x \in {p[1], q[1]}, y \in {p[2], q[2]} :
                 /\ <<x, y>> \in TilesOf(b)
                 /\ Abs(x - p[1]) <= 1 /\ Abs(y - p[2]) <= 1
                 /\ <<x, y>> # p => HeightAt(b, <<x, y>>) # 0
                 /\ Abs(HeightAt(b, <<x, y>>) - HeightAt(b, p)) <= 1
<1>1. PICK d \in Steps : canMove(b, p, d) /\ q = Plus(p, d)
  BY DEF Neighbours
<1>2. /\ d[1] \in {-1, 0, 1} /\ d[2] \in {-1, 0, 1} /\ d = <<d[1], d[2]>>
      /\ p[1] \in Int /\ p[2] \in Int /\ p = <<p[1], p[2]>>
  BY DEF Steps, TilesOf, IsBoard
<1>3. q \in TilesOf(b) /\ q # p
  BY NeighbourTyped
<1>4. q[1] = p[1] + d[1] /\ q[2] = p[2] + d[2] /\ q = <<q[1], q[2]>>
  BY <1>1 DEF Plus
<1>5. \A x \in {p[1], q[1]}, y \in {p[2], q[2]} : <<x, y>> \in TilesOf(b)
  <2>1. /\ p[1] \in 0..(b.width - 1) /\ p[2] \in 0..(b.height - 1)
        /\ q[1] \in 0..(b.width - 1) /\ q[2] \in 0..(b.height - 1)
    BY <1>3 DEF TilesOf
  <2> QED
    BY <2>1 DEF TilesOf
<1>6. \A x \in {p[1], q[1]}, y \in {p[2], q[2]} : Abs(x - p[1]) <= 1 /\ Abs(y - p[2]) <= 1
  <2>1. /\ Abs(p[1] - p[1]) <= 1 /\ Abs(q[1] - p[1]) <= 1
        /\ Abs(p[2] - p[2]) <= 1 /\ Abs(q[2] - p[2]) <= 1
    BY <1>2, <1>4 DEF Abs
  <2> QED
    BY <2>1
<1>7. \A t \in TilesOf(b) : Climbs(b, p, t) =>
         HeightAt(b, t) # 0 /\ Abs(HeightAt(b, t) - HeightAt(b, p)) <= 1
  BY DEF Climbs, Abs
<1>8. Abs(HeightAt(b, p) - HeightAt(b, p)) <= 1
  BY DEF Abs
<1>9. ASSUME NEW x \in {p[1], q[1]}, NEW y \in {p[2], q[2]}
      PROVE  <<x, y>> = p \/ Climbs(b, p, <<x, y>>)
  <2>1. Climbs(b, p, q)
    BY <1>1 DEF canMove
  <2>2. d[1] # 0 /\ d[2] # 0 => /\ Climbs(b, p, <<p[1] + d[1], p[2] + 0>>)
                                /\ Climbs(b, p, <<p[1] + 0, p[2] + d[2]>>)
    <3>1. d[1] # 0 /\ d[2] # 0 => Climbs(b, p, Plus(p, <<d[1], 0>>)) /\ Climbs(b, p, Plus(p, <<0, d[2]>>))
      BY <1>1 DEF canMove
    <3>2. Plus(p, <<d[1], 0>>) = <<p[1] + d[1], p[2] + 0>> /\ Plus(p, <<0, d[2]>>) = <<p[1] + 0, p[2] + d[2]>>
      BY DEF Plus
    <3> QED
      BY <3>1, <3>2
  <2>3. d[1] # 0 /\ d[2] # 0 => Climbs(b, p, <<q[1], p[2]>>) /\ Climbs(b, p, <<p[1], q[2]>>)
    <3>1. p[1] + 0 = p[1] /\ p[2] + 0 = p[2]
      BY <1>2
    <3> QED
      BY <1>4, <2>2, <3>1
  <2>4. CASE x = p[1] /\ y = p[2]
    BY <1>2, <2>4
  <2>5. CASE x = q[1] /\ y = q[2]
    BY <1>4, <2>1, <2>5
  <2>6. CASE x = q[1] /\ y = p[2]
    <3>1. CASE d[1] = 0
      BY <1>2, <1>4, <2>6, <3>1
    <3>2. CASE d[2] = 0
      <4>1. q[2] = p[2]
        BY <1>2, <1>4, <3>2
      <4> QED
        BY <1>4, <2>1, <2>6, <4>1
    <3> QED
      BY <2>3, <2>6, <3>1, <3>2
  <2>7. CASE x = p[1] /\ y = q[2]
    <3>1. CASE d[2] = 0
      BY <1>2, <1>4, <2>7, <3>1
    <3>2. CASE d[1] = 0
      <4>1. q[1] = p[1]
        BY <1>2, <1>4, <3>2
      <4> QED
        BY <1>4, <2>1, <2>7, <4>1
    <3> QED
      BY <2>3, <2>7, <3>1, <3>2
  <2> QED
    BY <2>4, <2>5, <2>6, <2>7
<1>10. ASSUME NEW x \in {p[1], q[1]}, NEW y \in {p[2], q[2]}
       PROVE  /\ <<x, y>> # p => HeightAt(b, <<x, y>>) # 0
              /\ Abs(HeightAt(b, <<x, y>>) - HeightAt(b, p)) <= 1
  BY <1>5, <1>7, <1>8, <1>9
<1> QED
  BY <1>3, <1>5, <1>6, <1>10

(* The player sees the heights that the search runs on. *)
LEMMA HeightsShown ==
    ASSUME MapInv, result # "none", DOMAIN shown = TilesOf(board)
    PROVE  /\ IsBoard(board)
           /\ \A t \in TilesOf(board) : /\ HeightAt(board, t) \in Nat
                                        /\ HeightOfTile[shown[t]] = HeightAt(board, t)
<1> DEFINE c == drawing["client"]
           d == drawing["server"]
           bc == Bounds(DOMAIN c.tiles)
           b == Bounds(DOMAIN d.tiles)
<1>1. /\ map \notin {NoMap, Null} /\ shown = TilemapOf(c) /\ Checksum(c) = Checksum(d)
      /\ board = [width |-> map.mapWidth, height |-> map.mapHeight, heights |-> map.height]
      /\ IsDrawing(c) /\ IsDrawing(d)
  BY DEF MapInv, OnMap, Showing, Started, MapTyped
<1>2. /\ map.mapWidth = b.width /\ map.mapHeight = b.height
      /\ \A p \in DOMAIN d.tiles : map.height[NumberOf(d, p)] = HeightOf(d, p)
  BY <1>1, MapOfGame DEF MapInv
<1>3. board.width = b.width /\ board.height = b.height /\ board.heights = map.height
  BY <1>1, <1>2
<1>4. IsBounds(b) /\ IsBounds(bc) /\ DOMAIN d.tiles = Rectangle(b)
  BY <1>1, TileWords
<1> HIDE DEF b, bc
<1>5. bc.width = b.width /\ bc.height = b.height
  <2>1. (0..(bc.width - 1)) \X (0..(bc.height - 1)) = (0..(b.width - 1)) \X (0..(b.height - 1))
    BY <1>1, <1>3 DEF TilemapOf, TilesOf, bc
  <2>2. /\ bc.width - 1 \in Nat /\ bc.height - 1 \in Nat /\ b.width - 1 \in Nat /\ b.height - 1 \in Nat
    BY <1>4 DEF IsBounds
  <2>3. /\ <<bc.width - 1, bc.height - 1>> \in (0..(b.width - 1)) \X (0..(b.height - 1))
        /\ <<b.width - 1, b.height - 1>> \in (0..(bc.width - 1)) \X (0..(bc.height - 1))
    BY <2>1, <2>2
  <2>4. /\ bc.width - 1 <= b.width - 1 /\ bc.height - 1 <= b.height - 1
        /\ b.width - 1 <= bc.width - 1 /\ b.height - 1 <= bc.height - 1
    BY <2>2, <2>3
  <2> QED
    BY <1>4, <2>4 DEF IsBounds
<1>6. TileMapDatas(c) = TileMapDatas(d)
  BY <1>1, <1>5, SameTiles DEF b, bc
<1>7. ASSUME NEW t \in TilesOf(board)
      PROVE  HeightAt(board, t) \in Nat /\ HeightOfTile[shown[t]] = HeightAt(board, t)
  <2> DEFINE p == <<t[1] + b.xMin, t[2] + b.yMin>>
             n == NumberOf(d, p)
  <2>1. t[1] \in 0..(b.width - 1) /\ t[2] \in 0..(b.height - 1)
    BY <1>3 DEF TilesOf
  <2>2. p \in DOMAIN d.tiles
    BY <1>4, <2>1 DEF Rectangle, IsBounds
  <2>3. n = t[1] + b.width * t[2] + 1
    <3>1. p[1] - b.xMin = t[1] /\ p[2] - b.yMin = t[2]
      BY <1>4, <2>1 DEF IsBounds
    <3>2. n = p[1] - b.xMin + b.width * (p[2] - b.yMin) + 1
      BY DEF NumberOf, b
    <3> HIDE DEF p, n
    <3> QED
      BY <3>1, <3>2
  <2>4. HeightAt(board, t) = HeightOf(d, p)
    BY <1>2, <1>3, <2>2, <2>3 DEF HeightAt
  <2>5. shown[t] = TileMapDatas(d)[2 * (t[1] + b.width * t[2]) + 1]
    BY <1>1, <1>3, <1>5, <1>6 DEF TilemapOf, TilesOf, bc
  <2>6. TileMapDatas(d)[2 * n - 1] = IdOf(d, p)
    BY <1>1, <2>2, TileWords
  <2>7. 2 * n - 1 = 2 * (t[1] + b.width * t[2]) + 1
    <3> DEFINE k == b.width * t[2]
    <3>1. k \in Nat /\ t[1] \in Nat
      BY <1>4, <2>1 DEF IsBounds
    <3> HIDE DEF k, n
    <3> QED
      BY <2>3, <3>1 DEF k
  <2>8. shown[t] = IdOf(d, p)
    BY <2>5, <2>6, <2>7
  <2>9. d.tiles[p] \in DOMAIN TileInfo
    BY <1>1, <2>2 DEF IsDrawing
  <2>10. HeightOfTile[IdOf(d, p)] = HeightOf(d, p) /\ HeightOf(d, p) \in Nat
    BY <2>9, HeightOfTileId DEF IdOf, HeightOf
  <2> QED
    BY <2>4, <2>8, <2>10
<1>8. IsBoard(board)
  BY <1>3, <1>4 DEF IsBoard, IsBounds
<1> QED
  BY <1>7, <1>8

(* A unit is sent only over tiles that its player sees as walkable, one    *)
(* level up or down at most, corners included: the server searches on the  *)
(* heights of its own file, the client shows the tiles of another, and the *)
(* two have only the checksum in common, which covers neither width nor    *)
(* height.                                                                 *)
THEOREM RoutesOnShownMap == MapSpec => []RouteOnShownMap
<1>1. ASSUME MapInv PROVE RouteOnShownMap
  <2> SUFFICES ASSUME result = "found", DOMAIN shown = TilesOf(board), NEW i \in 1..(Len(out) - 1)
               PROVE  LET p == out[i + 1]
                          q == out[i]
                          h(t) == HeightOfTile[shown[t]]
                      IN  /\ p # q
                          /\ \A x \in {p[1], q[1]}, y \in {p[2], q[2]} :
                                /\ Abs(x - p[1]) <= 1 /\ Abs(y - p[2]) <= 1
                                /\ <<x, y>> # p => h(<<x, y>>) # 0
                                /\ Abs(h(<<x, y>>) - h(p)) <= 1
    BY DEF RouteOnShownMap
  <2> DEFINE p == out[i + 1]
             q == out[i]
  <2>1. /\ SearchTyped /\ Rooted /\ to \in Seen /\ out = WayBack(to)
    BY <1>1 DEF MapInv, SearchInv, Ended
  <2>2. LeadsBack(out, to)
    BY <2>1, WayBackWhole
  <2>3. /\ out \in Seq(Seen) /\ q # from /\ cameFrom[q].parent = p
    BY <2>2 DEF LeadsBack
  <2>4. q \in Seen /\ p \in Seen
    <3>1. i \in 1..Len(out) /\ i + 1 \in 1..Len(out)
      BY <2>3
    <3> QED
      BY <2>3, <3>1
  <2> HIDE DEF p, q
  <2>5. q \in Neighbours(board, p) /\ p \in TilesOf(board)
    BY <2>1, <2>3, <2>4 DEF Rooted, SearchTyped
  <2>6. /\ IsBoard(board)
        /\ \A t \in TilesOf(board) : /\ HeightAt(board, t) \in Nat
                                     /\ HeightOfTile[shown[t]] = HeightAt(board, t)
    BY <1>1, HeightsShown
  <2>7. /\ p # q
        /\ \A x \in {p[1], q[1]}, y \in {p[2], q[2]} :
              /\ <<x, y>> \in TilesOf(board)
              /\ Abs(x - p[1]) <= 1 /\ Abs(y - p[2]) <= 1
              /\ <<x, y>> # p => HeightAt(board, <<x, y>>) # 0
              /\ Abs(HeightAt(board, <<x, y>>) - HeightAt(board, p)) <= 1
    BY <2>5, <2>6, StepOnGround
  <2>8. /\ p # q
        /\ \A x \in {p[1], q[1]}, y \in {p[2], q[2]} :
              /\ Abs(x - p[1]) <= 1 /\ Abs(y - p[2]) <= 1
              /\ <<x, y>> # p => HeightOfTile[shown[<<x, y>>]] # 0
              /\ Abs(HeightOfTile[shown[<<x, y>>]] - HeightOfTile[shown[p]]) <= 1
    BY <2>5, <2>6, <2>7
  <2> QED
    BY <2>8 DEF p, q
<1> QED
  BY <1>1, MapInvariant, PTL
=============================================================================
