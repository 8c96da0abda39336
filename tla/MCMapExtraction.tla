-------------------------- MODULE MCMapExtraction --------------------------
(* MapExtraction for TLC, with a buffer of four units. *)
EXTENDS MapExtraction

\* Two, three and four portions; the second shape fills the buffer exactly.
FittingShapes == {<<1, 1>>, <<2, 1, 1>>, <<1, 1, 1, 1>>}

\* Too large in the first, in a continuing and in the last portion.
OversizeShapes == {<<5, 1>>, <<3, 2, 1, 1>>, <<2, 1, 2>>}

AllShapes == FittingShapes \cup OversizeShapes
=============================================================================
