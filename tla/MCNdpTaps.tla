----------------------------- MODULE MCNdpTaps -----------------------------
(* NdpTaps for TLC.                                                        *)
EXTENDS NdpTaps, TLC

AnyOperation == {"edit", "apply", "hup", "delete", "restartVPP"}

Interchangeable == Permutations(Rules)
=============================================================================
