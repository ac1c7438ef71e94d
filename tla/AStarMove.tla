----------------------------- MODULE AStarMove -----------------------------
(***************************************************************************)
(* The path search of a unit that is sent off: A* over the eight           *)
(* neighbours of a tile, on the heights of the game's map.  One turn of    *)
(* the loop is a step.  The queue does not say which of two nodes equal in *)
(* f and h comes first.                                                    *)
(*                                                                         *)
(* A step costs 5, or 7 on the diagonal, for 1 and 1.4: sums are exact     *)
(* here, where floats are right to 1e-6 on paths of a few tiles.           *)
(***************************************************************************)
EXTENDS Integers, Sequences, FiniteSets

VARIABLES board,    \* [width, height, heights]: what the search runs on
          from, to, \* the tiles asked for
          open,     \* openList: nodes [at, g]
          closed,   \* closedList
          cameFrom, \* tile -> the best node so far: its g and its parent
          result,   \* "none", "searching", "found" or "failed"
          out       \* the path, the goal first

searchVars == <<board, from, to, open, closed, cameFrom, result, out>>

Abs(n) == IF n < 0 THEN -n ELSE n

HeightAt(b, p) == b.heights[p[1] + b.width * p[2] + 1]

OnBoard(b, p) == p[1] \in 0..(b.width - 1) /\ p[2] \in 0..(b.height - 1)

(* dx and dy: what a turn of the loop does is the same in any order. *)
Steps == ((-1 .. 1) \X (-1 .. 1)) \ {<<0, 0>>}

Straight == 5
Diagonal == 7

moveCost(d) == IF d[1] # 0 /\ d[2] # 0 THEN Diagonal ELSE Straight

Plus(p, d) == <<p[1] + d[1], p[2] + d[2]>>
Minus(q, p) == <<q[1] - p[1], q[2] - p[2]>>

(* A neighbour that may be entered from a height, where it is on the map. *)
Climbs(b, p, q) == HeightAt(b, q) # 0 /\ Abs(HeightAt(b, p) - HeightAt(b, q)) <= 1

(* Fault: one free corner is enough. *)
CanMoveCutting(b, p, d) ==
    /\ OnBoard(b, Plus(p, d)) /\ Climbs(b, p, Plus(p, d))
    /\ d[1] # 0 /\ d[2] # 0 =>
         Climbs(b, p, Plus(p, <<d[1], 0>>)) \/ Climbs(b, p, Plus(p, <<0, d[2]>>))

(* canMove: a diagonal step needs both corners free. *)
canMove(b, p, d) ==
    /\ OnBoard(b, Plus(p, d)) /\ Climbs(b, p, Plus(p, d))
    /\ d[1] # 0 /\ d[2] # 0 =>
         Climbs(b, p, Plus(p, <<d[1], 0>>)) /\ Climbs(b, p, Plus(p, <<0, d[2]>>))

(* The tiles a step leads to, and what it costs. *)
Neighbours(b, p) == {Plus(p, d) : d \in {e \in Steps : canMove(b, p, e)}}
Cost(p, q) == moveCost(Minus(q, p))

heuristic(p, q) ==
    LET dx == Abs(p[1] - q[1])
        dy == Abs(p[2] - q[2])
        diag == IF dx <= dy THEN dx ELSE dy
    IN  Diagonal * diag + Straight * (dx + dy - 2 * diag)

(* Fault: less where a priority_queue wants greater. *)
LargestFirst(m, n) ==
    LET f(k) == k.g + heuristic(k.at, to) IN f(m) >= f(n)

(* Compare: by f, and then by h. *)
First(m, n) ==
    LET f(k) == k.g + heuristic(k.at, to)
    IN  \/ f(m) < f(n)
        \/ f(m) = f(n) /\ heuristic(m.at, to) <= heuristic(n.at, to)

(* The way back from the goal, by the parents in cameFrom. *)
Nobody == <<>>

Longer(way) ==
    LET parent == cameFrom[way[Len(way)]].parent
    IN  IF parent = Nobody THEN way ELSE Append(way, parent)

WayBack(goal) ==
    LET way[k \in Nat] == IF k = 0 THEN <<goal>> ELSE Longer(way[k - 1])
    IN  way[Cardinality(DOMAIN cameFrom)]

Searching == result = "searching"

Begin(b, p, q) ==
    /\ result = "none"
    /\ board' = b /\ from' = p /\ to' = q
    /\ open' = {[at |-> p, g |-> 0]}
    /\ cameFrom' = [t \in {p} |-> [g |-> 0, parent |-> Nobody]]
    /\ result' = "searching"
    /\ UNCHANGED <<closed, out>>

Popped(n) == /\ Searching /\ n \in open
             /\ \A m \in open : First(n, m)

ReachGoal(n) ==
    /\ Popped(n) /\ n.at = to
    /\ result' = "found" /\ out' = WayBack(n.at) /\ open' = open \ {n}
    /\ UNCHANGED <<board, from, to, closed, cameFrom>>

(* Fault: the top is looked at before it is popped. *)
SkipTop(n) ==
    /\ Popped(n) /\ n.at # to /\ n.at \in closed
    /\ UNCHANGED searchVars

(* A node that was closed with a better cost in the meantime. *)
Skip(n) ==
    /\ Popped(n) /\ n.at # to /\ n.at \in closed
    /\ open' = open \ {n}
    /\ UNCHANGED <<board, from, to, closed, cameFrom, result, out>>

(* The neighbours of n that it offers a better way to, or a first one. *)
Better(n) ==
    {q \in Neighbours(board, n.at) :
        q \in DOMAIN cameFrom => n.g + Cost(n.at, q) < cameFrom[q].g}

Expand(n) ==
    /\ Popped(n) /\ n.at # to /\ n.at \notin closed
    /\ LET g(q) == n.g + Cost(n.at, q)
           better == Better(n)
       IN  /\ cameFrom' = [q \in DOMAIN cameFrom \cup better |->
                              IF q \in better THEN [g |-> g(q), parent |-> n.at]
                                              ELSE cameFrom[q]]
           /\ closed' = (closed \cup {n.at}) \ better
           /\ open' = (open \ {n}) \cup {[at |-> q, g |-> g(q)] : q \in better}
    /\ UNCHANGED <<board, from, to, result, out>>

GiveUp ==
    /\ Searching /\ open = {}
    /\ result' = "failed"
    /\ UNCHANGED <<board, from, to, open, closed, cameFrom, out>>

SearchInit ==
    /\ board = <<>> /\ from = <<>> /\ to = <<>>
    /\ open = {} /\ closed = {} /\ cameFrom = <<>>
    /\ result = "none" /\ out = <<>>

SearchNext == (\E n \in open : ReachGoal(n) \/ Skip(n) \/ Expand(n)) \/ GiveUp

-----------------------------------------------------------------------------
(* Properties. *)

TilesOf(b) == (0..(b.width - 1)) \X (0..(b.height - 1))

(* The tiles that ways of at most k steps from p lead to, each with the    *)
(* least cost of one.                                                      *)
Further(b, reached) ==
    LET all == reached \cup UNION {{[at |-> q, g |-> m.g + Cost(m.at, q)] :
                                       q \in Neighbours(b, m.at)} : m \in reached}
    IN  {m \in all : \A n \in all : n.at = m.at => m.g <= n.g}

Within(b, p) ==
    LET within[k \in Nat] == IF k = 0 THEN {[at |-> p, g |-> 0]} ELSE Further(b, within[k - 1])
    IN  within

(* A cheapest way meets no tile twice. *)
Reached(b, p) == Within(b, p)[b.width * b.height - 1]

PathCost(path) ==
    LET cost[k \in Nat] == IF k = 0 THEN 0 ELSE cost[k - 1] + Cost(path[k + 1], path[k])
    IN  cost[Len(path) - 1]

(* A search ends with a cheapest path, from the goal back to the start, or *)
(* with none only if there is none.  And a closed tile has its final cost, *)
(* so that the branch that opens one again is there for the rounding of    *)
(* floats alone.                                                           *)
FindsShortest ==
    result # "none" =>
        LET reached == Reached(board, from)
        IN  /\ \A q \in closed : [at |-> q, g |-> cameFrom[q].g] \in reached
            /\ result = "found" => /\ out[1] = to /\ out[Len(out)] = from
                                   /\ [at |-> to, g |-> PathCost(out)] \in reached
            /\ result = "failed" => \A n \in reached : n.at # to

(* A search comes to an end. *)
SearchEnds == Searching ~> ~Searching
=============================================================================
