----------------------------- MODULE MCStoreFile -----------------------------
(***************************************************************************)
(* A small instance of StoreFile: an empty file, two further contents, and *)
(* room for the current file, the one before it, and two temp files or     *)
(* files moved aside.                                                      *)
(***************************************************************************)
EXTENDS StoreFile, TLC

CONSTANTS e, v1, v2, i1, i2, i3, i4

MCSymmetry == Permutations({i1, i2, i3, i4}) \cup Permutations({v1, v2})
=============================================================================
