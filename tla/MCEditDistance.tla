---------------------------- MODULE MCEditDistance ----------------------------
(***************************************************************************)
(* A small instance of EditDistance: all pairs of titles of up to three    *)
(* runes out of three.                                                     *)
(***************************************************************************)
EXTENDS EditDistance, TLC

CONSTANTS r1, r2, r3

MCSymmetry == Permutations(Rune)
=============================================================================
