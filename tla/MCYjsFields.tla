----------------------------- MODULE MCYjsFields -----------------------------
(* YjsFields on a small instance. *)
EXTENDS YjsFields, TLC

Symmetry == Permutations(Writers) \cup Permutations(Tabs \ Writers)
=============================================================================
