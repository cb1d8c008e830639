------------------------------ MODULE MCTokens ------------------------------
(* Instances of Tokens for TLC. *)
EXTENDS Tokens, TLC

CONSTANTS p1, p2, p3

ThreePairs == {p1, p2, p3}

PairSymmetry == Permutations(Pairs)

=============================================================================
