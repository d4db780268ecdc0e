--------------------------- MODULE MCTapeAssembly ---------------------------
(* Small tapes for TapeAssembly: three sectors per segment, one of parity. *)
EXTENDS TapeAssembly

\* A segment with an excluded sector before the headers, a bad one after them.
MCBehind == [s \in Segs |-> IF s = 0 THEN {1} ELSE {}]
\* The headers first, then a segment with an excluded sector.
MCAhead  == [s \in Segs |-> IF s = 2 THEN {1} ELSE {}]

MCNone     == {}
MCMisreads == {NoCoord, <<0, 0>>, <<1, 1>>}

MCZeroMap  == {NoMap}
MCJunkMaps == {NoMap, [excluded |-> [s \in Segs |-> {0}], bad |-> {Total - 1}]}
=============================================================================
