-------------------------- MODULE MCStorageBridge ---------------------------
(* Small instances of StorageBridge. *)
EXTENDS StorageBridge

CONSTANTS c1, c2

OneGroup2 == <<"g", "g">>
OneGroup3 == <<"g", "g", "g">>

ThreeAndOne == <<"g", "g", "h", "g">>

HomeAll   == [c \in {c1, c2} |-> "g"]
HomeSplit == [c \in {c1, c2} |-> IF c = c1 THEN "g" ELSE "h"]
=============================================================================
