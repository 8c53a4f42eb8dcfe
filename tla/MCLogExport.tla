----------------------------- MODULE MCLogExport -----------------------------
(* LogExport on a small instance. *)
EXTENDS LogExport, TLC

Symmetry == Permutations(Entries)
=============================================================================
