---------------------------- MODULE MCSyncWorker ----------------------------
(* Instances of SyncWorker for TLC. *)
EXTENDS SyncWorker, TLC

CONSTANTS m1, m2, m3

L(p, q) == [product |-> p, quantity |-> q]

MCProduct == {"a", "b", "ghost"}
MCCatalog == {"a", "b"}
MCUuid == {"u1", "u2", "u3"}
MCDevice == {"d1", "d2", "lost"}
MCKnownDevice == {"d1", "d2"}
MCLine == [product : MCProduct, quantity : 1 .. 2]
MCStock == [p \in MCProduct |-> CASE p = "a" -> 2 [] p = "b" -> 1 [] OTHER -> 0]

(* Of the sales, "ab" and "ba" name their products in opposite orders;
   "other" reuses the uuid of "b" on another device; "twice" has two lines
   for one product; "bad", "lost" and "ghost" are the sales that
   processTransaction refuses. *)
MCUuidOf ==
    [s \in Sale |-> CASE s \in {"ab", "bad", "twice"} -> "u1"
                        [] s \in {"ba", "b", "other", "lost"} -> "u2"
                        [] OTHER -> "u3"]
MCDeviceOf ==
    [s \in Sale |-> CASE s = "other" -> "d2"
                        [] s = "lost" -> "lost"
                        [] OTHER -> "d1"]
MCLinesOf ==
    [s \in Sale |-> CASE s \in {"ab", "bad"} -> <<L("a", 1), L("b", 1)>>
                        [] s = "ba" -> <<L("b", 1), L("a", 1)>>
                        [] s = "b" -> <<L("b", 1)>>
                        [] s = "other" -> <<L("a", 2)>>
                        [] s = "twice" -> <<L("a", 1), L("a", 2)>>
                        [] s = "lost" -> <<L("a", 1)>>
                        [] s = "ghost" -> <<L("b", 1), L("ghost", 1)>>]
MCSound == Sale \ {"bad"}

(* A duplicate of "ab" beside a batch whose second sale competes for b, and a
   sale that collides with it on the uuid from another device. *)
DuplicateBatch == (m1 :> <<"ab", "b">>) @@ (m2 :> <<"ab">>) @@ (m3 :> <<"other">>)

(* Sales that lock two products in opposite orders, and refused sales of each
   kind. *)
FaultyBatch == (m1 :> <<"ab", "lost">>) @@ (m2 :> <<"bad", "ba", "ghost">>)

(* One sale with two lines for one product. *)
RepeatedLineBatch == (m1 :> <<"twice">>) @@ (m2 :> <<"b">>)
=============================================================================
