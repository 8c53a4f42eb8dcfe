---------------------------- MODULE MCWorkspace ----------------------------
(* Workspace on a small instance. *)
EXTENDS Workspace, TLC

Symmetry == Permutations(Clients) \cup Permutations(Keys)
=============================================================================
