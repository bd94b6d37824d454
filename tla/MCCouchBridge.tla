--------------------------- MODULE MCCouchBridge ----------------------------
(* Small instances of CouchBridge. *)
EXTENDS CouchBridge

CONSTANTS c1, c2
=============================================================================
