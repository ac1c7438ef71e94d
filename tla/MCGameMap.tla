----------------------------- MODULE MCGameMap -----------------------------
EXTENDS GameMap

(* A drawing of the tiles t over a rectangle with its lower left corner at *)
(* c, with minerals and start points at m and s.                           *)
At(c, w, h) == (c[1]..(c[1] + w - 1)) \X (c[2]..(c[2] + h - 1))
Drawing(t, m, s) == [tiles |-> t, minerals |-> m, starts |-> s, players |-> 2]
Both(d) == <<d, d>>

(* Shores: every 3 x 3 map of ground and water with a free left column.    *)
Shores == {Both(Drawing(t, {<<0, 0>>}, {<<2, 2>>})) :
              t \in {u \in [At(<<0, 0>>, 3, 3) -> {"ground", "water"}] :
                        \A y \in 0..2 : u[<<0, y>>] = "ground"}}

(* Cliffs: every 2 x 3 map of heights with a corner of the middle height,  *)
(* drawn away from the origin, and two start points.                       *)
Cliffs == {Both(Drawing(t, {<<-1, 5>>}, {<<-2, 4>>, <<-1, 6>>})) :
              t \in {u \in [At(<<-2, 4>>, 2, 3) -> {"ground", "runway", "hill"}] :
                        u[<<-2, 4>>] = "runway"}}

(* Two files that differ, in a tile or only in the size.                   *)
Row(w, h) ==
    Drawing([p \in At(<<0, 0>>, w, h) |->
                IF p \in {<<0, 0>>, <<1, 0>>} THEN "runway" ELSE "ground"],
            {<<0, 0>>}, {<<1, 1>>})
Lake == Drawing([p \in At(<<0, 0>>, 3, 2) |-> "water"], {<<0, 0>>}, {<<1, 1>>})

MCDrawings == Shores \cup Cliffs \cup {<<Row(3, 2), Row(2, 3)>>, <<Row(3, 2), Lake>>}
=============================================================================
