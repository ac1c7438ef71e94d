SPECIFICATION MapSpec
CONSTANT Drawings <- MCDrawings
INVARIANTS LoadedAsDrawn FindsShortest RouteOnShownMap
PROPERTIES SearchEnds
CHECK_DEADLOCK FALSE
