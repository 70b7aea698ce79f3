--------------------------- MODULE MCFeatureStores ---------------------------
(* Small instances of FeatureStores for TLC.                               *)
EXTENDS FeatureStores, TLC

Symmetry == Permutations(Channels) \cup Permutations(Interfaces)
=============================================================================
