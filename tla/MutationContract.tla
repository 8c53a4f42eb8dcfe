--------------------------- MODULE MutationContract ---------------------------
(***************************************************************************)
(* What mutate promises (docs/guide/mutations.md, "The one semantic to     *)
(* internalize", and ARCHITECTURE.md, invariants 1 and 2): the mutations   *)
(* of a client are applied in the order they were made, each at most once, *)
(* and its promise settles only after it was applied.  SyncSystem          *)
(* implements this over sockets that drop, pushes that are repeated and    *)
(* confirmations that get lost.                                            *)
(***************************************************************************)
EXTENDS Naturals, Sequences

CONSTANTS Clients, Mutations

VARIABLES
  issued,   \* the mutations each client made, in order
  applied,  \* the mutations of each client the server processed, [name, ok]
  outcome   \* what became of the promise of each mutation

vars == <<issued, applied, outcome>>

Init ==
  /\ issued = [c \in Clients |-> <<>>]
  /\ applied = [c \in Clients |-> <<>>]
  /\ outcome = [m \in Mutations |-> "new"]

Mutate(c, m) ==
  /\ outcome[m] = "new"
  /\ issued' = [issued EXCEPT ![c] = Append(@, m)]
  /\ outcome' = [outcome EXCEPT ![m] = "pending"]
  /\ UNCHANGED applied

\* The next mutation of a client takes effect, or is refused for good.
Apply(c) ==
  /\ Len(applied[c]) < Len(issued[c])
  /\ \E ok \in BOOLEAN :
       applied' = [applied EXCEPT ![c] = Append(@, [name |-> issued[c][Len(@) + 1], ok |-> ok])]
  /\ UNCHANGED <<issued, outcome>>

\* Some of the promises of a client's processed mutations settle.  A rejection may reach the
\* client as a bare confirmation, when the poke that carried the error was lost.
Settle(c) ==
  /\ outcome' # outcome
  /\ \A m \in Mutations : outcome'[m] # outcome[m] =>
       /\ outcome[m] = "pending"
       /\ \E i \in 1..Len(applied[c]) :
            /\ applied[c][i].name = m
            /\ outcome'[m] = "confirmed" \/ (outcome'[m] = "rejected" /\ ~applied[c][i].ok)
  /\ UNCHANGED <<issued, applied>>

Next == \E c \in Clients : (\E m \in Mutations : Mutate(c, m)) \/ Apply(c) \/ Settle(c)

Spec == Init /\ [][Next]_vars
===============================================================================
