--------------------------- MODULE MCSgtRequests ---------------------------
(* SGT files of four, five and six points, up to five handlers: more         *)
(* handlers than points, mapping files with an empty block, with too few     *)
(* points and with too many.  Ruptures of three points that need one tensor, *)
(* two far apart, two adjacent and four, or one that is not in the file;     *)
(* handlers with empty lists at either end; requests of one to three tensors.*)
EXTENDS SgtRequests

SmallFiles == {<<10, 20, 30, 40>>, <<10, 20, 30, 40, 50>>, <<10, 11, 20, 30, 40, 50>>}
SmallMappings == {<<3, 3>>, <<1, 2, 2>>, <<2, 0, 4>>, <<0, 2, 2, 2>>, <<1, 1, 1>>, <<3, 3, 0>>}
PointNeeds == {<<40>>, <<30, 20>>, <<10, 50>>, <<50, 20, 40, 30>>, <<15>>}
SmallRuptures == [1 .. 2 -> PointNeeds] \cup {<<a, <<30, 20>>, b>> : a, b \in PointNeeds}
SmallMasters == {MasterList(r) : r \in SmallRuptures}
=============================================================================
