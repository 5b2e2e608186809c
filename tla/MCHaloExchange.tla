--------------------------- MODULE MCHaloExchange ---------------------------
(* Four ranks in a square, or three in a row.  The source is within two      *)
(* columns and rows of the parts of the other ranks.                         *)
EXTENDS HaloExchange

SomeShapes == {<<2, 2>>, <<3, 1>>, <<1, 3>>}
NearEdges == {<<3, 3>>, <<6, 5>>}
TwoStations == {<<1, 1>>, <<5, 6>>, <<5, 1>>}
=============================================================================
