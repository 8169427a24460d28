----------------------------- MODULE MCTakeover -----------------------------
(* Takeover for TLC.                                                       *)
EXTENDS Takeover, TLC

Interchangeable == Permutations(Content)
=============================================================================
