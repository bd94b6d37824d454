--------------------------- MODULE MCStorageTree ----------------------------
(* Small instances of StorageTree. *)
EXTENDS StorageTree, TLC

CONSTANTS c1, c2, x, y

SwapLeaves == Permutations(Leaf)
=============================================================================
