----------------------------- MODULE MCGnmiRpc ------------------------------
(* Small instances of GnmiRpc for TLC.                                     *)
EXTENDS GnmiRpc, TLC

Symmetry == Permutations(Clients) \cup Permutations(Channels)
=============================================================================
