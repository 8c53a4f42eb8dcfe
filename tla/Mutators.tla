------------------------------- MODULE Mutators -------------------------------
(***************************************************************************)
(* The vocabulary of a mutator (packages/protocol/src/mutators.ts): rows   *)
(* and the calls tx.get, tx.put, tx.del and tx.list an apply function      *)
(* makes.  A row is the JSON value of the one field its mutators filter    *)
(* on.  A mutator is a sequence of steps, each a call or two; "flip" is    *)
(* the read-modify-write every mutator starts as, "sweep" deletes what a   *)
(* filtered list returns, as a clearCompleted does.                        *)
(***************************************************************************)
EXTENDS Naturals, Sequences, FiniteSets

CONSTANTS
  Tables,
  Ids,
  Deleted,  \* no row: never put, or deleted
  None      \* nothing buffered

Keys == Tables \X Ids

\* true, 1, null and a field the row does not have.
Scalars == {"true", "one", "null", "missing"}

ASSUME MutatorsAssumption == Deleted # None /\ {Deleted, None} \cap Scalars = {}

Rows == [Keys -> Scalars \cup {Deleted}]
NoRows == [k \in Keys |-> Deleted]

\* What a mutator may hand to put: a value, a row without the field, which the
\* table's schema gives a default, a row the schema refuses, and one over
\* MAX_ROW_BYTES, which only the server measures.
Inputs == {"true", "one", "null", "unset", "bad", "big"}

Valid(x) == x # "bad"
Fits(x) == x # "big"
Parsed(x) == IF x \in {"unset", "big"} THEN "one" ELSE x

\* A filter on the field: its value, or undefined, or no filter at all.
Filters == {"true", "one", "null", "undefined", "none"}

\* compileWhere: an undefined filter value does not filter.
Matches(f, v) == f \in {"none", "undefined"} \/ v = f

Put(k, x) == [do |-> "put", key |-> k, input |-> x]
Del(k) == [do |-> "del", key |-> k]
Flip(k) == [do |-> "flip", key |-> k]
Sweep(t, f) == [do |-> "sweep", table |-> t, filter |-> f]

Steps == {Put(k, x) : k \in Keys, x \in Inputs}
           \cup {Del(k) : k \in Keys} \cup {Flip(k) : k \in Keys}
           \cup {Sweep(t, f) : t \in Tables, f \in Filters}

Flipped(v) == IF v = "true" THEN "one" ELSE "true"

-----------------------------------------------------------------------------
(* What a mutator means: its calls one after the other, straight on the rows. *)

Live(rows, t, f) == {k \in Keys : k[1] = t /\ rows[k] # Deleted /\ Matches(f, rows[k])}

\* Whether the step can be taken: a row is refused for good, by its schema or by its size.
Allowed(step) == step.do = "put" => Valid(step.input) /\ Fits(step.input)

Effect(rows, step) ==
  CASE step.do = "put" -> [rows EXCEPT ![step.key] = Parsed(step.input)]
    [] step.do = "del" -> [rows EXCEPT ![step.key] = Deleted]
    [] step.do = "flip" -> IF rows[step.key] = Deleted THEN rows
                           ELSE [rows EXCEPT ![step.key] = Flipped(@)]
    [] step.do = "sweep" -> [k \in Keys |->
                               IF k \in Live(rows, step.table, step.filter) THEN Deleted
                               ELSE rows[k]]
===============================================================================
