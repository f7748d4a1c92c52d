--------------------------- MODULE MCSyncPipeline ---------------------------
(* Instances of SyncPipeline for TLC. *)
EXTENDS SyncPipeline, TLC

CONSTANTS r1, r2

(* "forged" is "x" with another payload. *)
MCSale == {"x", "y", "forged"}
MCUuidOf == [s \in MCSale |-> IF s = "y" THEN "u2" ELSE "u1"]
MCHashOf == [s \in MCSale |-> s]

(* A batch, and a second request that reuses the uuid of its first sale. *)
RepeatedBatch == (r1 :> <<"x", "y">>) @@ (r2 :> <<"forged">>)

PairBatch == r1 :> <<"x", "y">>
=============================================================================
