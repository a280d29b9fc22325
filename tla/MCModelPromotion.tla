-------------------------- MODULE MCModelPromotion --------------------------
(* Small instances of ModelPromotion for TLC. *)
EXTENDS ModelPromotion, TLC

\* Neither runs nor promotions are told apart.
PromotionSymmetry == Permutations(Runs) \cup Permutations(Promotions)
=============================================================================
