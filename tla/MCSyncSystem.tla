---------------------------- MODULE MCSyncSystem ----------------------------
(* SyncSystem on a small instance. *)
EXTENDS SyncSystem, TLC

Symmetry == Permutations(Clients) \cup Permutations(Mutations)
=============================================================================
