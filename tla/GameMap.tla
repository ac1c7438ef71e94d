------------------------------ MODULE GameMap ------------------------------
(***************************************************************************)
(* The map of a game from the drawing to the way of a unit: the server     *)
(* searches on the heights it has read, and the client shows the tiles of  *)
(* its own file.                                                           *)
(***************************************************************************)
EXTENDS MapFile, AStarMove

mapVars == <<fileVars, searchVars>>

MapInit == FileInit /\ SearchInit

(* SetMove: the heights and the size that the room was given.  Orders come *)
(* from clients that show the map.  Each search has an AStarMove of its    *)
(* own, so one is enough.                                                  *)
SendOff ==
    /\ shown # <<>>
    /\ \E p, q \in (0..(map.mapWidth - 1)) \X (0..(map.mapHeight - 1)) :
          Begin([width |-> map.mapWidth, height |-> map.mapHeight,
                 heights |-> map.height], p, q)

MapNext == \/ FileNext /\ UNCHANGED searchVars
           \/ (SendOff \/ SearchNext) /\ UNCHANGED fileVars

(* The search is an ordinary loop of the room's job. *)
MapSpec == MapInit /\ [][MapNext]_mapVars /\ WF_mapVars(SearchNext /\ UNCHANGED fileVars)

-----------------------------------------------------------------------------
(* Properties. *)

HeightOfTile == [id \in {TileInfo[k][1] : k \in DOMAIN TileInfo} |->
                    (CHOOSE t \in Range(TileInfo) : t[1] = id)[2]]

(* On the tiles that the player sees, a unit's way is a walk: every turn   *)
(* of it goes to a neighbour that is no water, up or down by one at most,  *)
(* and a diagonal squeezes past no water and no cliff.  So for a client    *)
(* whose file is of the size of the server's: the hash says nothing of it. *)
RouteOnShownMap ==
    result = "found" /\ DOMAIN shown = TilesOf(board) =>
        \A i \in 1..(Len(out) - 1) :
            LET p == out[i + 1]
                q == out[i]
                h(t) == HeightOfTile[shown[t]]
            IN  /\ p # q
                /\ \A x \in {p[1], q[1]}, y \in {p[2], q[2]} :
                      /\ Abs(x - p[1]) <= 1 /\ Abs(y - p[2]) <= 1
                      /\ <<x, y>> # p => h(<<x, y>>) # 0
                      /\ Abs(h(<<x, y>>) - h(p)) <= 1
=============================================================================
