------------------------------ MODULE AtomicRows ------------------------------
(***************************************************************************)
(* What the workspace promises of a mutation: the rows go through all of   *)
(* its steps at once, or through none of them when one is refused.         *)
(* WriteSet, its buffers and its storage queries implement this.           *)
(***************************************************************************)
EXTENDS Mutators, SequencesExt

CONSTANT Programs

VARIABLE rows

Init == rows \in Rows

Mutation(program) ==
  /\ \A i \in DOMAIN program : Allowed(program[i])
  /\ rows' = FoldLeft(Effect, rows, program)

\* A mutation that changes no row takes no step.
Next == rows' # rows /\ \E program \in Programs : Mutation(program)

Spec == Init /\ [][Next]_rows
===============================================================================
