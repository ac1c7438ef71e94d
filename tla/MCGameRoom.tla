----------------------------- MODULE MCGameRoom -----------------------------
(* The small corridors that TLC checks GameRoom on. *)
EXTENDS GameRoom

CONSTANTS host, guest

HostFirst == <<host, guest>>

(* Floor at the end of the map, a wall, floor that cannot be reached. *)
Shore == <<1, 1, 1, 0, 1>>

(* A wall one tile thick at the foot of a slope. *)
Walled == <<1, 0, 1, 2>>

OneUnit == <<0>>

TwoUnits == <<-1, 0>>
=============================================================================
