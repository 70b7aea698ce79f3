-------------------------- MODULE MCInterfaceStore --------------------------
(* Small instances of InterfaceStore for TLC.                              *)
EXTENDS InterfaceStore, TLC

Symmetry == Permutations(Handlers) \cup Permutations(Nodes)
=============================================================================
