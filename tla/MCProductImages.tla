--------------------------- MODULE MCProductImages ---------------------------
(* Instances of ProductImages for TLC. *)
EXTENDS ProductImages, TLC

CONSTANTS r1, r2, p1, p2, s1, s2

\* Two images of one type and one of another.
MCFile == {"a.png", "b.png", "c.jpg"}
MCType == {"png", "jpg"}
MCTypeOf == [f \in MCFile |-> IF f = "c.jpg" THEN "jpg" ELSE "png"]

MCSymmetry == Permutations(Request) \cup Permutations(Product) \cup Permutations(Sku)
=============================================================================
