--------------------------- MODULE MCOfflineSystem ---------------------------
(* OfflineSystem on a small instance. *)
EXTENDS OfflineSystem, TLC

Symmetry == Permutations(Clients) \cup Permutations(Mutations) \cup Permutations(Keys)
=============================================================================
