----------------------- MODULE MCTransactionLifecycle -----------------------
(* The instance of TransactionLifecycle for TLC. *)
EXTENDS TransactionLifecycle, TLC

CONSTANTS r1, r2, a

MCStock == a :> 2

(* The stock covers either, but not both; a correction may turn one into the  *)
(* other.                                                                     *)
MCBasket == {a :> 1, a :> 2}

RequestSymmetry == Permutations(Request)

MCChange == {-1}
=============================================================================
