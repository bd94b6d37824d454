------------------------- MODULE MCChunkedDocument --------------------------
(* Small instances of ChunkedDocument. *)
EXTENDS ChunkedDocument, TLC

CONSTANTS c1, c2, c3, w1, w2

(* A small file, and large ones of one and of two chunks. *)
ThreeSizes == [c \in Content |-> CASE c = c1 -> 0 [] c = c2 -> 1 [] c = c3 -> 2]

AnyWriter == Permutations(Writers)
=============================================================================
