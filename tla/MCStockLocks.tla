---------------------------- MODULE MCStockLocks ----------------------------
(* Instances of StockLocks for TLC. *)
EXTENDS StockLocks, TLC

L(p, q) == [product |-> p, quantity |-> q]

MCJob == {"ab", "ba", "correct", "resolve", "adjust"}
MCKind == [j \in MCJob |-> CASE j \in {"ab", "ba"} -> "sale"
                             [] j = "correct" -> "correction"
                             [] OTHER -> j]
\* The correction turns a sale of one b into one of an a and a b.
MCOld == [j \in MCJob |-> CASE j = "correct" -> <<L("b", 1)>>
                            [] j = "adjust" -> <<L("a", -1)>>
                            [] OTHER -> <<>>]
MCNew == [j \in MCJob |-> CASE j = "ab" -> <<L("a", 1), L("b", 1)>>
                            [] j = "ba" -> <<L("b", 1), L("a", 1)>>
                            [] j = "correct" -> <<L("a", 1), L("b", 1)>>
                            [] j = "resolve" -> <<L("b", 1)>>
                            [] OTHER -> <<>>]
MCProduct == {"a", "b"}
MCStock == [p \in MCProduct |-> IF p = "a" THEN 2 ELSE 1]
=============================================================================
