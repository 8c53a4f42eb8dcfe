--------------------------- MODULE CollectionsProofs ---------------------------
(***************************************************************************)
(* Proofs about Collections, for any tables, rows, programs and bounds.    *)
(* First the keys an adapter knows: they are the rows its collection has,  *)
(* whatever a gate has held back, a store kept or a poke brings.  Then the *)
(* types of the variables, with what the folds of a local run, of packing  *)
(* and of a filtered outbox return, and what becomes of the rows: each is  *)
(* what it was made at its own version, the hook hears of exactly what a   *)
(* version wrote, and versions are made by whole mutations.  Then the way  *)
(* of a row to the screen: the frames on the wire put together to whole    *)
(* pokes, each takes a table from its base to its end, and so a table that *)
(* shows anything shows one version whole.  Last the way back to rest: each*)
(* poke is onto the one before it, something accounts for every intent that*)
(* is queued, and so a client with nothing in flight is up to date.        *)
(***************************************************************************)
EXTENDS Collections, WriteSetProofs

\* A table is a record of these fields, whatever gate and rows hold.
TableRecords(G, H) ==
  [status : {"absent", "created", "on", "off"}, applier : BOOLEAN, gate : G, shown : H,
   keys : SUBSET Ids, ready : BOOLEAN]

Shaped(tb) == \E G, H : tb \in TableRecords(G, H)

InStep(tb) == tb.status = "on" => tb.keys = {i \in Ids : tb.shown[i] # Deleted}

Sound(tb) == Shaped(tb) /\ InStep(tb)

KeysInv == table = [t \in Tables |-> table[t]] /\ \A t \in Tables : Sound(table[t])

-----------------------------------------------------------------------------
(* The operations on a table *)

\* Any operations, over rows and keys that agree, leave rows and keys that agree.
LEMMA WriteSound ==
  ASSUME NEW tb, Shaped(tb), tb.keys = {i \in Ids : tb.shown[i] # Deleted}, NEW clear, NEW ops
  PROVE  Sound(Write(tb, clear, ops))
<1> DEFINE shown == IF clear THEN Empty ELSE tb.shown
           keys == IF clear THEN {} ELSE tb.keys
           put == {i \in Ids : ops[i] \notin {None, Deleted}}
           deleted == {i \in keys : ops[i] = Deleted}
           shown2 == [i \in Ids |-> IF i \in put THEN ops[i]
                                    ELSE IF i \in deleted THEN Deleted ELSE shown[i]]
           keys2 == (keys \cup put) \ deleted
           new == [tb EXCEPT !.shown = shown2, !.keys = keys2]
<1>1. keys = {i \in Ids : shown[i] # Deleted}
  BY DEF Empty
<1>2. keys2 = {i \in Ids : shown2[i] # Deleted} /\ keys2 \subseteq Ids
  <2> HIDE DEF keys, shown
  <2> QED BY <1>1
<1>3. Write(tb, clear, ops) = new
  BY DEF Write
<1> HIDE DEF keys2, shown2
<1>4. PICK G, H : tb \in TableRecords(G, H)
  BY DEF Shaped
<1>5. new \in TableRecords(G, H \cup {shown2}) /\ new.shown = shown2 /\ new.keys = keys2
  BY <1>2, <1>4 DEF TableRecords
<1> HIDE DEF new
<1> QED BY <1>2, <1>3, <1>5 DEF Sound, InStep, Shaped

LEMMA AttachedSound ==
  ASSUME NEW tb, Shaped(tb)
  PROVE  Sound(Attached(tb))
<1> DEFINE fresh == [tb EXCEPT !.status = "on", !.applier = TRUE, !.shown = Empty, !.keys = {},
                               !.gate = NewGate]
           drained == Write(fresh, tb.gate.clear, tb.gate.ops)
           marked == [drained EXCEPT !.ready = TRUE]
<1>1. PICK G, H : tb \in TableRecords(G, H)
  BY DEF Shaped
<1>2. /\ fresh \in TableRecords(G \cup {NewGate}, H \cup {Empty})
      /\ fresh.keys = {} /\ fresh.shown = Empty
  BY <1>1 DEF TableRecords
<1> HIDE DEF fresh
<1>3. fresh.keys = {i \in Ids : fresh.shown[i] # Deleted}
  BY <1>2 DEF Empty
<1>4. Sound(drained)
  BY <1>2, <1>3, WriteSound DEF Shaped
<1>5. Attached(tb) \in {drained, marked}
  BY DEF Attached, fresh
<1> HIDE DEF drained
<1>6. PICK G2, H2 : drained \in TableRecords(G2, H2)
  BY <1>4 DEF Sound, Shaped
<1>7. /\ marked \in TableRecords(G2, H2) /\ marked.status = drained.status
      /\ marked.keys = drained.keys /\ marked.shown = drained.shown
  BY <1>6 DEF TableRecords
<1> HIDE DEF marked
<1>8. Sound(marked)
  BY <1>4, <1>7 DEF Sound, Shaped, InStep
<1> QED BY <1>4, <1>5, <1>8

\* Whatever leaves the rows, the keys and the status alone.
LEMMA SameRows ==
  ASSUME NEW tb, Sound(tb), NEW new, Shaped(new),
         new.status = tb.status, new.keys = tb.keys, new.shown = tb.shown
  PROVE  Sound(new)
BY DEF Sound, InStep

LEMMA MarkedSound ==
  ASSUME NEW tb, Sound(tb)
  PROVE  Sound(MarkedReady(tb))
<1> DEFINE held == [tb.gate EXCEPT !.ready = TRUE]
           marked == [tb EXCEPT !.ready = TRUE]
           gated == [tb EXCEPT !.gate = held]
<1>1. MarkedReady(tb) \in {tb, marked, gated}
  BY DEF MarkedReady
<1> HIDE DEF held
<1>2. PICK G, H : tb \in TableRecords(G, H)
  BY DEF Sound, Shaped
<1>3. /\ marked \in TableRecords(G, H) /\ marked.status = tb.status
      /\ marked.keys = tb.keys /\ marked.shown = tb.shown
  BY <1>2 DEF TableRecords
<1>4. /\ gated \in TableRecords(G \cup {held}, H) /\ gated.status = tb.status
      /\ gated.keys = tb.keys /\ gated.shown = tb.shown
  BY <1>2 DEF TableRecords
<1> HIDE DEF marked, gated
<1> QED BY <1>1, <1>3, <1>4, SameRows DEF Shaped

LEMMA ReceivedSound ==
  ASSUME NEW tb, Sound(tb), NEW clear, NEW ops
  PROVE  Sound(Received(tb, clear, ops))
<1>1. CASE tb.status = "on"
  BY <1>1, WriteSound DEF Received, Sound, InStep
<1>2. CASE tb.status = "created"
  <2>1. Received(tb, clear, ops) = Hold(tb, clear, ops)
    BY <1>2 DEF Received
  <2>2. PICK held : Hold(tb, clear, ops) = [tb EXCEPT !.gate = held]
    BY DEF Hold
  <2>3. PICK G, H : tb \in TableRecords(G, H)
    BY DEF Sound, Shaped
  <2> DEFINE gated == [tb EXCEPT !.gate = held]
  <2>4. /\ gated \in TableRecords(G \cup {held}, H) /\ gated.status = tb.status
        /\ gated.keys = tb.keys /\ gated.shown = tb.shown
    BY <2>3 DEF TableRecords
  <2> HIDE DEF gated
  <2> QED BY <2>1, <2>2, <2>4, SameRows DEF Shaped, gated
<1>3. CASE tb.status \notin {"on", "created"}
  BY <1>3 DEF Received
<1> QED BY <1>1, <1>2, <1>3

-----------------------------------------------------------------------------
(* The invariant *)

LEMMA NewSound ==
  ASSUME NEW applier \in BOOLEAN
  PROVE  /\ Sound(NewTable(applier)) /\ Sound([NewTable(applier) EXCEPT !.status = "absent"])
         /\ Sound(Attached(NewTable(applier)))
<1>1. NewTable(applier) \in TableRecords({NewGate}, {Empty}) /\ NewTable(applier).status = "created"
  BY DEF NewTable, TableRecords
<1>2. /\ [NewTable(applier) EXCEPT !.status = "absent"] \in TableRecords({NewGate}, {Empty})
      /\ [NewTable(applier) EXCEPT !.status = "absent"].status = "absent"
  BY <1>1 DEF TableRecords
<1>3. Shaped(NewTable(applier))
  BY <1>1 DEF Shaped
<1> QED BY <1>1, <1>2, <1>3, AttachedSound DEF Sound, Shaped, InStep

\* The tables at first: absent, created with an applier or without one, or started.
LEMMA FirstTables ==
  ASSUME Init
  PROVE  /\ table = [t \in Tables |-> table[t]]
         /\ \A t \in Tables :
              \/ table[t] = [NewTable(FALSE) EXCEPT !.status = "absent"]
              \/ \E applier \in BOOLEAN : table[t] = NewTable(applier)
              \/ table[t] = Attached(NewTable(FALSE))
<1>1. PICK eager \in SUBSET Lazy :
        table = [t \in Tables |->
                  CASE t \in Later -> [NewTable(FALSE) EXCEPT !.status = "absent"]
                    [] t \in Lazy -> NewTable(t \in eager)
                    [] OTHER -> Attached(NewTable(FALSE))]
  BY DEF Init
<1>2. ASSUME NEW t \in Tables
      PROVE  \/ table[t] = [NewTable(FALSE) EXCEPT !.status = "absent"]
             \/ \E applier \in BOOLEAN : table[t] = NewTable(applier)
             \/ table[t] = Attached(NewTable(FALSE))
  <2> DEFINE absent == [NewTable(FALSE) EXCEPT !.status = "absent"]
             started == Attached(NewTable(FALSE))
             new(applier) == NewTable(applier)
  <2>1. table[t] = CASE t \in Later -> absent [] t \in Lazy -> new(t \in eager) [] OTHER -> started
    BY <1>1
  <2> HIDE DEF absent, started, new
  <2>2. CASE t \in Later
    <3>1. t \notin Lazy
      BY <2>2, CollectionsAssumption
    <3>2. table[t] = absent
      BY <2>1, <2>2, <3>1
    <3> QED BY <3>2 DEF absent
  <2>3. CASE t \in Lazy
    <3>1. t \notin Later
      BY <2>3, CollectionsAssumption
    <3>2. table[t] = new(t \in eager)
      BY <2>1, <2>3, <3>1
    <3>3. (t \in eager) \in BOOLEAN
      OBVIOUS
    <3> QED BY <3>2, <3>3, Zenon DEF new
  <2>4. CASE t \notin Later /\ t \notin Lazy
    <3>1. table[t] = started
      BY <2>1, <2>4
    <3> QED BY <3>1 DEF started
  <2> QED BY <2>2, <2>3, <2>4
<1>3. table = [t \in Tables |-> table[t]]
  <2> DEFINE first(t) == CASE t \in Later -> [NewTable(FALSE) EXCEPT !.status = "absent"]
                           [] t \in Lazy -> NewTable(t \in eager)
                           [] OTHER -> Attached(NewTable(FALSE))
  <2>1. table = [t \in Tables |-> first(t)]
    BY <1>1
  <2> HIDE DEF first
  <2> QED BY <2>1
<1> QED BY <1>2, <1>3

LEMMA InitKeys == Init => KeysInv
<1> SUFFICES ASSUME Init PROVE KeysInv
  OBVIOUS
<1>1. ASSUME NEW t \in Tables PROVE Sound(table[t])
  BY NewSound, FirstTables
<1> QED BY <1>1, FirstTables DEF KeysInv

\* One table changes, into a sound one.
LEMMA OneTable ==
  ASSUME KeysInv, NEW t, NEW new, t \in Tables => Sound(new),
         table' = [table EXCEPT ![t] = new]
  PROVE  KeysInv'
BY DEF KeysInv

LEMMA TableEventKeys ==
  ASSUME KeysInv, NEW t \in Tables, Create(t) \/ Start(t) \/ Cleanup(t) \/ Restart(t)
  PROVE  KeysInv'
<1>1. CASE Create(t)
  <2>1. PICK applier \in BOOLEAN : table' = [table EXCEPT ![t] = NewTable(applier)]
    BY <1>1 DEF Create
  <2> QED BY <2>1, NewSound, OneTable
<1>2. CASE Start(t) \/ Restart(t)
  <2>1. table' = [table EXCEPT ![t] = Attached(table[t])]
    BY <1>2 DEF Start, Restart
  <2>2. Sound(Attached(table[t]))
    BY AttachedSound DEF KeysInv, Sound
  <2> QED BY <2>1, <2>2, OneTable
<1>3. CASE Cleanup(t)
  <2> DEFINE off == [table[t] EXCEPT !.status = "off", !.shown = Empty, !.keys = {}, !.ready = FALSE]
  <2>1. table' = [table EXCEPT ![t] = off]
    BY <1>3 DEF Cleanup
  <2>2. PICK G, H : table[t] \in TableRecords(G, H)
    BY DEF KeysInv, Sound, Shaped
  <2>3. off \in TableRecords(G, H \cup {Empty}) /\ off.status = "off"
    BY <2>2 DEF TableRecords
  <2> HIDE DEF off
  <2>4. Sound(off)
    BY <2>3 DEF Sound, Shaped, InStep
  <2> QED BY <2>1, <2>4, OneTable
<1> QED BY <1>1, <1>2, <1>3

LEMMA HydrateKeys ==
  ASSUME KeysInv, NEW cursor, Hydrate(cursor)
  PROVE  KeysInv'
<1> DEFINE ops(t) == [i \in Ids |-> LET row == snaps[cursor][<<t, i>>]
                                   IN  IF row = Deleted THEN None ELSE row]
           fed(t) == MarkedReady(Received(table[t], FALSE, ops(t)))
<1>1. CASE table' = table
  BY <1>1 DEF KeysInv
<1>2. CASE table' = [t \in Tables |-> fed(t)]
  <2>1. ASSUME NEW t \in Tables PROVE Sound(fed(t))
    <3> HIDE DEF ops
    <3> QED BY ReceivedSound, MarkedSound DEF KeysInv
  <2> HIDE DEF fed
  <2> QED BY <1>2, <2>1 DEF KeysInv
<1> QED BY <1>1, <1>2 DEF Hydrate

LEMMA ApplyPokeKeys ==
  ASSUME KeysInv, ApplyPoke
  PROVE  KeysInv'
<1> DEFINE patched(t) == Received(table[t], Clears(link.poke.patch), OpsOf(link.poke.patch, t))
           fed(t) == IF link.synced THEN patched(t) ELSE MarkedReady(patched(t))
<1>1. table' = [t \in Tables |-> fed(t)]
  BY DEF ApplyPoke
<1>2. ASSUME NEW t \in Tables PROVE Sound(fed(t))
  BY ReceivedSound, MarkedSound DEF KeysInv
<1> HIDE DEF fed
<1> QED BY <1>1, <1>2 DEF KeysInv

LEMMA StepKeys ==
  ASSUME KeysInv, Next
  PROVE  KeysInv'
<1>1. CASE Server \/ Dial \/ Open \/ Cut \/ PokeStart \/ PokePart \/ DropPoke
           \/ \E program \in Programs : Mutate(program)
  <2>1. table' = table
    BY <1>1 DEF Server, OtherCommits, ServeHello, StartPush, HandleMutation, Dial, Open, Cut,
       PokeStart, PokePart, DropPoke, Mutate
  <2> QED BY <2>1 DEF KeysInv
<1>2. CASE TableEvents
  BY <1>2, TableEventKeys DEF TableEvents
<1>3. CASE ApplyPoke \/ \E cursor \in {0} \cup (IF Cached THEN 1..Version ELSE {}) : Hydrate(cursor)
  BY <1>3, ApplyPokeKeys, HydrateKeys
<1> QED BY <1>1, <1>2, <1>3 DEF Next, Client

-----------------------------------------------------------------------------
(* The theorem *)

\* The keys an adapter knows are the rows its collection has, whatever the gates, the store and
\* the pokes brought and however often the collection was started.
THEOREM KeysStayInStep == Spec => []KeysInStep
<1>1. KeysInv /\ UNCHANGED vars => KeysInv'
  BY DEF KeysInv, vars
<1>2. KeysInv /\ [Next]_vars => KeysInv'
  BY <1>1, StepKeys
<1>3. KeysInv => KeysInStep
  BY DEF KeysInv, KeysInStep, Sound, InStep
<1> QED BY InitKeys, <1>2, <1>3, PTL DEF Spec

-----------------------------------------------------------------------------
(* The folds of this module, step by step *)

Ops == {Clear} \cup [op : {"put"}, key : Keys, val : Scalars] \cup [op : {"del"}, key : Keys]
Entries == [id : Nat, program : Programs, overlay : [Keys -> Scalars \cup {Deleted, None}], base : Nat,
            blind : BOOLEAN]

LocalSteps(view, appliers, program, S, tr) ==
  /\ tr \in [0..Len(program) -> S] /\ tr[0] = BeginLocal(view)
  /\ tr[Len(program)] = RunLocal(view, appliers, program)
  /\ \A n \in 1..Len(program) : tr[n] = TakeLocal(appliers, tr[n - 1], program[n])

\* An intent runs step by step on what the collections show.
LEMMA LocalTrace ==
  ASSUME NEW view, NEW appliers, NEW program \in Seq(Steps), NEW S, BeginLocal(view) \in S,
         \A r \in S, step \in Steps : TakeLocal(appliers, r, step) \in S
  PROVE  \E tr : LocalSteps(view, appliers, program, S, tr)
<1> DEFINE N == Len(program)
           b == BeginLocal(view)
           G == [p \in S \X (1..N) |-> TakeLocal(appliers, p[1], program[p[2]])]
           iter == CHOOSE h : h = [s \in SUBSET (1..N) |->
                     IF s = {} THEN b ELSE TakeLocal(appliers, h[s \ {Max(s)}], program[Max(s)])]
<1>1. N \in Nat /\ DOMAIN program = 1..N /\ (\A n \in 1..N : program[n] \in Steps) /\ b \in S
  OBVIOUS
<1>2. RunLocal(view, appliers, program) = iter[1..N]
  <2> HIDE DEF N
  <2> QED BY <1>1 DEF RunLocal, FoldLeft, MapThenFoldSet
<1> HIDE DEF N, b
<1>3. G \in [S \X (1..N) -> S]
  BY <1>1
<1>4. PICK g : FoldsTo(N, S, b, G, g)
  <2> HIDE DEF G
  <2> QED BY <1>1, <1>3, FoldExists
<1>5. \A s \in SUBSET (1..N), r \in S : s # {} => G[<<r, Max(s)>>] = TakeLocal(appliers, r, program[Max(s)])
  <2> TAKE s \in SUBSET (1..N), r \in S
  <2> HAVE s # {}
  <2>1. Max(s) \in 1..N
    BY <1>1, MaxIs
  <2> QED BY <2>1
<1>6. g = [s \in SUBSET (1..N) |-> IF s = {} THEN b ELSE TakeLocal(appliers, g[s \ {Max(s)}], program[Max(s)])]
  <2> HIDE DEF G
  <2>1. \A s \in SUBSET (1..N) : g[s \ {Max(s)}] \in S
    BY <1>4 DEF FoldsTo
  <2> QED BY <1>4, <1>5, <2>1 DEF FoldsTo
<1>7. iter = [s \in SUBSET (1..N) |->
                IF s = {} THEN b ELSE TakeLocal(appliers, iter[s \ {Max(s)}], program[Max(s)])]
  BY <1>6
<1>8. Unfolds(N, S, b, G, iter)
  <2> HIDE DEF G, iter
  <2> QED BY <1>5, <1>7 DEF Unfolds
<1>9. PICK tr : Steady(N, S, b, G, tr, iter[1..N])
  <2> HIDE DEF G, iter
  <2> QED BY <1>1, <1>3, <1>8, FoldTrace
<1>10. \A n \in 1..N : tr[n] = TakeLocal(appliers, tr[n - 1], program[n])
  <2> TAKE n \in 1..N
  <2>1. n - 1 \in 0..N
    BY <1>1
  <2>2. tr[n - 1] \in S /\ tr[n] = G[<<tr[n - 1], n>>]
    <3> HIDE DEF G
    <3> QED BY <1>9, <2>1 DEF Steady
  <2> QED BY <2>2
<1> HIDE DEF iter, G
<1> QED BY <1>2, <1>9, <1>10 DEF N, b, Steady, LocalSteps

LaterId(n, entry) == IF entry.id > n THEN entry.id ELSE n

\* LastId, of any confirmation and outbox.
LastOf(confirmed, q) == FoldLeft(LaterId, confirmed, q)

LastSteps(confirmed, q, tr) ==
  /\ tr \in [0..Len(q) -> Nat] /\ tr[0] = confirmed /\ tr[Len(q)] = LastOf(confirmed, q)
  /\ \A n \in 1..Len(q) : tr[n] = LaterId(tr[n - 1], q[n])

\* The last id, entry by entry.
LEMMA LastTrace ==
  ASSUME NEW confirmed \in Nat, NEW q \in Seq(Entries)
  PROVE  \E tr : LastSteps(confirmed, q, tr)
<1> DEFINE N == Len(q)
           b == confirmed
           G == [p \in Nat \X (1..N) |-> LaterId(p[1], q[p[2]])]
           iter == CHOOSE h : h = [s \in SUBSET (1..N) |->
                     IF s = {} THEN b ELSE LaterId(h[s \ {Max(s)}], q[Max(s)])]
<1>1. N \in Nat /\ DOMAIN q = 1..N /\ (\A n \in 1..N : q[n] \in Entries) /\ b \in Nat
  OBVIOUS
<1>2. LastOf(confirmed, q) = iter[1..N]
  <2> HIDE DEF N
  <2> QED BY <1>1 DEF LastOf, FoldLeft, MapThenFoldSet, LaterId
<1> HIDE DEF N, b
<1>3. G \in [Nat \X (1..N) -> Nat]
  <2>1. ASSUME NEW r \in Nat, NEW n \in 1..N PROVE LaterId(r, q[n]) \in Nat
    BY <1>1 DEF LaterId, Entries
  <2> QED BY <2>1
<1>4. PICK g : FoldsTo(N, Nat, b, G, g)
  <2> HIDE DEF G
  <2> QED BY <1>1, <1>3, FoldExists
<1>5. \A s \in SUBSET (1..N), r \in Nat : s # {} => G[<<r, Max(s)>>] = LaterId(r, q[Max(s)])
  <2> TAKE s \in SUBSET (1..N), r \in Nat
  <2> HAVE s # {}
  <2>1. Max(s) \in 1..N
    BY <1>1, MaxIs
  <2> QED BY <2>1
<1>6. g = [s \in SUBSET (1..N) |-> IF s = {} THEN b ELSE LaterId(g[s \ {Max(s)}], q[Max(s)])]
  <2> HIDE DEF G
  <2>1. \A s \in SUBSET (1..N) : g[s \ {Max(s)}] \in Nat
    BY <1>4 DEF FoldsTo
  <2> QED BY <1>4, <1>5, <2>1 DEF FoldsTo
<1>7. iter = [s \in SUBSET (1..N) |->
                IF s = {} THEN b ELSE LaterId(iter[s \ {Max(s)}], q[Max(s)])]
  BY <1>6
<1>8. Unfolds(N, Nat, b, G, iter)
  <2> HIDE DEF G, iter
  <2> QED BY <1>5, <1>7 DEF Unfolds
<1>9. PICK tr : Steady(N, Nat, b, G, tr, iter[1..N])
  <2> HIDE DEF G, iter
  <2> QED BY <1>1, <1>3, <1>8, FoldTrace
<1>10. \A n \in 1..N : tr[n] = LaterId(tr[n - 1], q[n])
  <2> TAKE n \in 1..N
  <2>1. n - 1 \in 0..N
    BY <1>1
  <2>2. tr[n - 1] \in Nat /\ tr[n] = G[<<tr[n - 1], n>>]
    <3> HIDE DEF G
    <3> QED BY <1>9, <2>1 DEF Steady
  <2> QED BY <2>2
<1> HIDE DEF iter, G
<1> QED BY <1>2, <1>9, <1>10 DEF N, b, Steady, LastSteps

NoParts == [parts |-> <<>>, current |-> <<>>, size |-> 0]
Pack(acc, op) ==
  IF acc.current # <<>> /\ acc.size + Size(op) > MaxPart
  THEN [parts |-> Append(acc.parts, acc.current), current |-> <<op>>, size |-> Size(op)]
  ELSE [acc EXCEPT !.current = Append(@, op), !.size = @ + Size(op)]
LastPack(ops) == FoldLeft(Pack, NoParts, ops)

PackSteps(ops, S, tr) ==
  /\ tr \in [0..Len(ops) -> S] /\ tr[0] = NoParts /\ tr[Len(ops)] = LastPack(ops)
  /\ \A n \in 1..Len(ops) : tr[n] = Pack(tr[n - 1], ops[n])

\* A patch is packed operation by operation.
LEMMA PackTrace ==
  ASSUME NEW ops \in Seq(Ops), NEW S, NoParts \in S, \A acc \in S, op \in Ops : Pack(acc, op) \in S
  PROVE  \E tr : PackSteps(ops, S, tr)
<1> DEFINE N == Len(ops)
           b == NoParts
           G == [p \in S \X (1..N) |-> Pack(p[1], ops[p[2]])]
           iter == CHOOSE h : h = [s \in SUBSET (1..N) |->
                     IF s = {} THEN b ELSE Pack(h[s \ {Max(s)}], ops[Max(s)])]
<1>1. N \in Nat /\ DOMAIN ops = 1..N /\ (\A n \in 1..N : ops[n] \in Ops) /\ b \in S
  OBVIOUS
<1>2. LastPack(ops) = iter[1..N]
  <2> HIDE DEF N
  <2> QED BY <1>1 DEF LastPack, FoldLeft, MapThenFoldSet
<1> HIDE DEF N, b
<1>3. G \in [S \X (1..N) -> S]
  BY <1>1
<1>4. PICK g : FoldsTo(N, S, b, G, g)
  <2> HIDE DEF G
  <2> QED BY <1>1, <1>3, FoldExists
<1>5. \A s \in SUBSET (1..N), r \in S : s # {} => G[<<r, Max(s)>>] = Pack(r, ops[Max(s)])
  <2> TAKE s \in SUBSET (1..N), r \in S
  <2> HAVE s # {}
  <2>1. Max(s) \in 1..N
    BY <1>1, MaxIs
  <2> QED BY <2>1
<1>6. g = [s \in SUBSET (1..N) |-> IF s = {} THEN b ELSE Pack(g[s \ {Max(s)}], ops[Max(s)])]
  <2> HIDE DEF G
  <2>1. \A s \in SUBSET (1..N) : g[s \ {Max(s)}] \in S
    BY <1>4 DEF FoldsTo
  <2> QED BY <1>4, <1>5, <2>1 DEF FoldsTo
<1>7. iter = [s \in SUBSET (1..N) |->
                IF s = {} THEN b ELSE Pack(iter[s \ {Max(s)}], ops[Max(s)])]
  BY <1>6
<1>8. Unfolds(N, S, b, G, iter)
  <2> HIDE DEF G, iter
  <2> QED BY <1>5, <1>7 DEF Unfolds
<1>9. PICK tr : Steady(N, S, b, G, tr, iter[1..N])
  <2> HIDE DEF G, iter
  <2> QED BY <1>1, <1>3, <1>8, FoldTrace
<1>10. \A n \in 1..N : tr[n] = Pack(tr[n - 1], ops[n])
  <2> TAKE n \in 1..N
  <2>1. n - 1 \in 0..N
    BY <1>1
  <2>2. tr[n - 1] \in S /\ tr[n] = G[<<tr[n - 1], n>>]
    <3> HIDE DEF G
    <3> QED BY <1>9, <2>1 DEF Steady
  <2> QED BY <2>2
<1> HIDE DEF iter, G
<1> QED BY <1>2, <1>9, <1>10 DEF N, b, Steady, PackSteps

LEMMA PackedIs ==
  ASSUME NEW ops \in Seq(Ops)
  PROVE  Packed(ops) = IF LastPack(ops).current # <<>> \/ LastPack(ops).parts = <<>>
                       THEN Append(LastPack(ops).parts, LastPack(ops).current) ELSE LastPack(ops).parts
  BY DEF Packed, LastPack, Pack, NoParts

LEMMA LastIs ==
  ASSUME NEW confirmed \in Nat, NEW q \in Seq(Entries)
  PROVE  /\ LastOf(confirmed, q) \in Nat /\ LastOf(confirmed, q) >= confirmed
         /\ \A i \in DOMAIN q : q[i].id \in Nat /\ LastOf(confirmed, q) >= q[i].id
         /\ LastOf(confirmed, q) = confirmed \/ \E i \in DOMAIN q : LastOf(confirmed, q) = q[i].id
<1> DEFINE N == Len(q)
<1>1. PICK tr : LastSteps(confirmed, q, tr)
  BY LastTrace
<1>a. N \in Nat /\ DOMAIN q = 1..N /\ \A i \in 1..N : q[i].id \in Nat
  <2>1. N \in Nat /\ DOMAIN q = 1..N /\ \A i \in 1..N : q[i] \in Entries
    OBVIOUS
  <2> HIDE DEF N
  <2> QED BY <2>1 DEF Entries
<1>2. /\ N \in Nat /\ DOMAIN q = 1..N /\ \A i \in 1..N : q[i].id \in Nat
      /\ tr \in [0..N -> Nat] /\ tr[0] = confirmed /\ tr[N] = LastOf(confirmed, q)
      /\ \A n \in 1..N : tr[n] = LaterId(tr[n - 1], q[n])
  BY <1>1, <1>a DEF LastSteps
<1> HIDE DEF N
<1> DEFINE T == {n \in 0..N : /\ tr[n] >= confirmed /\ \A i \in 1..n : tr[n] >= q[i].id
                              /\ tr[n] = confirmed \/ \E i \in 1..n : tr[n] = q[i].id}
<1>3. 0 \in T
  BY <1>2
<1>4. ASSUME NEW n \in 0..(N - 1), n \in T PROVE n + 1 \in T
  <2>1. n + 1 \in 1..N /\ (n + 1) - 1 = n /\ n + 1 \in 0..N /\ n \in 0..N /\ n \in Nat
    BY <1>2
  <2>2. tr[n + 1] = IF q[n + 1].id > tr[n] THEN q[n + 1].id ELSE tr[n]
    BY <1>2, <2>1 DEF LaterId
  <2>3. tr[n] \in Nat /\ q[n + 1].id \in Nat
    BY <1>2, <2>1
  <2>4. \A i \in 1..(n + 1) : i \in 1..n \/ i = n + 1
    BY <2>1
  <2>5. \A i \in 1..n : i \in 1..(n + 1) /\ i \in 1..N
    BY <1>2, <2>1
  <2>6. n + 1 \in 1..(n + 1)
    BY <2>1
  <2>7. /\ tr[n] >= confirmed /\ \A i \in 1..n : tr[n] >= q[i].id
        /\ tr[n] = confirmed \/ \E i \in 1..n : tr[n] = q[i].id
    BY <1>4
  <2>8. tr[n + 1] >= confirmed /\ \A i \in 1..(n + 1) : tr[n + 1] >= q[i].id
    <3>1. tr[n + 1] >= tr[n] /\ tr[n + 1] >= q[n + 1].id /\ tr[n + 1] \in Nat
      BY <2>2, <2>3
    <3>2. ASSUME NEW i \in 1..n PROVE tr[n + 1] >= q[i].id
      <4>1. tr[n] >= q[i].id /\ q[i].id \in Nat
        BY <1>2, <2>5, <2>7
      <4> QED BY <2>3, <3>1, <4>1
    <3>3. tr[n + 1] >= confirmed
      BY <2>3, <2>7, <3>1
    <3> QED BY <2>4, <3>1, <3>2, <3>3
  <2>9. tr[n + 1] = confirmed \/ \E i \in 1..(n + 1) : tr[n + 1] = q[i].id
    BY <2>2, <2>5, <2>6, <2>7
  <2> QED BY <2>1, <2>8, <2>9
<1>5. N \in T
  <2>1. \A n \in 0..N : n \in T
    <3> HIDE DEF T
    <3> QED BY <1>2, <1>3, <1>4, UpTo
  <2> QED BY <1>2, <2>1
<1> QED BY <1>2, <1>5

LEMMA LastIdIs == LastId = LastOf(link.confirmed, queue)
  BY DEF LastId, LastOf, LaterId

Muts == [id : Nat, program : Programs]
Upward == [type : {"hello"}, cursor : Nat] \cup [type : {"push"}, mutations : Seq(Muts)]
Downward == [type : {"start"}, base : Nat]
              \cup [type : {"part"}, patch : Seq(Ops), lmid : Nat, errors : SUBSET Nat]
              \cup [type : {"end"}, cursor : Nat]
Pokes == [base : Nat, mismatch : BOOLEAN, patch : Seq(Ops), lmid : Nat, errors : SUBSET Nat]
Links == [started : BOOLEAN, socket : {"none", "dialling", "open"}, synced : BOOLEAN,
          awaiting : BOOLEAN, cursor : Nat, confirmed : Nat, poke : Pokes]
TableRows == [status : {"absent", "created", "on", "off"}, applier : BOOLEAN, gate : Gates,
              shown : [Ids -> Cells], keys : SUBSET Ids, ready : BOOLEAN]
Pushing == [todo : Seq(Muts), from : Nat, errors : SUBSET Nat]

\* The types of the variables.
TypeInv ==
  /\ snaps \in Seq(Rows) /\ Version \in Nat \ {0}
  /\ rows \in [Keys -> [val : Cells, version : Nat]]
  /\ authors \in Seq(Nat) /\ Len(authors) = Version
  /\ lmid \in Nat /\ issued \in Nat /\ restarts \in Nat /\ cuts \in Nat
  /\ push \in Pushing /\ ready \in BOOLEAN
  /\ up \in Seq(Upward) /\ down \in Seq(Downward)
  /\ link \in Links /\ queue \in Seq(Entries)
  /\ table \in [Tables -> TableRows]

-----------------------------------------------------------------------------
\* The operations on a table keep its type.
LEMMA WriteTyped ==
  ASSUME NEW tb \in TableRows, NEW clear \in BOOLEAN, NEW ops \in FieldOps
  PROVE  Write(tb, clear, ops) \in TableRows /\ Write(tb, clear, ops).status = tb.status
<1> DEFINE shown == IF clear THEN Empty ELSE tb.shown
           keys == IF clear THEN {} ELSE tb.keys
           put == {i \in Ids : ops[i] \notin {None, Deleted}}
           deleted == {i \in keys : ops[i] = Deleted}
           shown2 == [i \in Ids |-> IF i \in put THEN ops[i]
                                    ELSE IF i \in deleted THEN Deleted ELSE shown[i]]
           keys2 == (keys \cup put) \ deleted
<1>1. shown \in [Ids -> Cells] /\ keys \subseteq Ids
  BY DEF Empty, TableRows, Cells
<1>2. \A i \in put : ops[i] \in Scalars
  BY DEF FieldOps
<1>3. shown2 \in [Ids -> Cells] /\ keys2 \subseteq Ids
  <2> HIDE DEF shown, keys, put, deleted
  <2>1. put \subseteq Ids
    BY DEF put
  <2> QED BY <1>1, <1>2, <2>1 DEF Cells
<1>4. Write(tb, clear, ops) = [tb EXCEPT !.shown = shown2, !.keys = keys2]
  BY DEF Write
<1> HIDE DEF shown2, keys2
<1> QED BY <1>3, <1>4 DEF TableRows

LEMMA HoldTyped ==
  ASSUME NEW tb \in TableRows, NEW clear \in BOOLEAN, NEW ops \in FieldOps
  PROVE  Hold(tb, clear, ops) \in TableRows /\ Hold(tb, clear, ops).status = tb.status
<1> DEFINE held == [i \in Ids |-> IF ops[i] # None THEN ops[i]
                                  ELSE IF clear THEN None ELSE tb.gate.ops[i]]
           wiped == tb.gate.clear \/ clear
<1>1. tb.gate \in Gates /\ tb.gate.ops \in FieldOps /\ tb.gate.clear \in BOOLEAN
  BY DEF TableRows, Gates
<1>2. held \in FieldOps /\ wiped \in BOOLEAN
  BY <1>1 DEF FieldOps
<1> DEFINE gate == [tb.gate EXCEPT !.clear = wiped, !.ops = held]
<1>3. Hold(tb, clear, ops) = [tb EXCEPT !.gate = gate]
  BY DEF Hold, TableRows
<1> HIDE DEF held, wiped
<1>4. gate \in Gates
  BY <1>1, <1>2 DEF Gates
<1> HIDE DEF gate
<1> QED BY <1>3, <1>4 DEF TableRows

LEMMA ReceivedTyped ==
  ASSUME NEW tb \in TableRows, NEW clear \in BOOLEAN, NEW ops \in FieldOps
  PROVE  Received(tb, clear, ops) \in TableRows /\ Received(tb, clear, ops).status = tb.status
<1>1. CASE tb.status = "on"
  BY <1>1, WriteTyped DEF Received
<1>2. CASE tb.status = "created"
  BY <1>2, HoldTyped DEF Received
<1>3. CASE tb.status \notin {"on", "created"}
  BY <1>3 DEF Received
<1> QED BY <1>1, <1>2, <1>3

LEMMA MarkedTyped ==
  ASSUME NEW tb \in TableRows
  PROVE  MarkedReady(tb) \in TableRows /\ MarkedReady(tb).status = tb.status
<1>1. tb.gate \in Gates
  BY DEF TableRows
<1>2. CASE tb.status = "on"
  BY <1>2 DEF MarkedReady, TableRows
<1>3. CASE tb.status = "created"
  BY <1>1, <1>3 DEF MarkedReady, TableRows, Gates
<1>4. CASE tb.status \notin {"on", "created"}
  BY <1>4 DEF MarkedReady
<1> QED BY <1>2, <1>3, <1>4

LEMMA GateTyped ==
  NewGate \in Gates /\ NoOps \in FieldOps /\ \A applier \in BOOLEAN : NewTable(applier) \in TableRows
<1>1. NoOps \in FieldOps
  BY DEF NoOps, FieldOps
<1>2. NewGate \in Gates
  BY <1>1 DEF NewGate, Gates
<1> QED BY <1>1, <1>2 DEF NewTable, TableRows, Empty, Cells

LEMMA AttachedTyped ==
  ASSUME NEW tb \in TableRows
  PROVE  Attached(tb) \in TableRows /\ Attached(tb).status = "on"
<1> DEFINE fresh == [tb EXCEPT !.status = "on", !.applier = TRUE, !.shown = Empty, !.keys = {},
                               !.gate = NewGate]
           drained == Write(fresh, tb.gate.clear, tb.gate.ops)
<1>1. tb.gate.clear \in BOOLEAN /\ tb.gate.ops \in FieldOps
  BY DEF TableRows, Gates
<1>2. fresh \in TableRows /\ fresh.status = "on"
  BY GateTyped DEF TableRows, Empty, Cells
<1>3. Attached(tb) \in {drained, [drained EXCEPT !.ready = TRUE]}
  BY DEF Attached
<1> HIDE DEF fresh
<1>4. drained \in TableRows /\ drained.status = "on"
  BY <1>1, <1>2, WriteTyped
<1> HIDE DEF drained
<1> QED BY <1>3, <1>4 DEF TableRows

-----------------------------------------------------------------------------
(* What patches hold *)

LEMMA OpTyped ==
  ASSUME NEW op \in Ops
  PROVE  /\ op = Clear \/ op.op # "clear"
         /\ op # Clear => /\ op.key \in Keys /\ op.op \in {"put", "del"}
                          /\ op.op = "put" => op.val \in Scalars
         /\ Size(op) \in Nat
  BY DEF Ops, Clear, Size

LEMMA OpsOfTyped ==
  ASSUME NEW patch \in Seq(Ops), NEW t
  PROVE  OpsOf(patch, t) \in FieldOps /\ Clears(patch) \in BOOLEAN
<1> DEFINE mine == {op \in ToSet(patch) : op.op # "clear" /\ op.key[1] = t}
           pick(i) == CHOOSE op \in mine : op.key[2] = i
<1>1. \A op \in mine : op \in Ops /\ op.op # "clear"
  BY DEF ToSet
<1>2. ASSUME NEW i, \E op \in mine : op.key[2] = i
      PROVE  (IF pick(i).op = "put" THEN pick(i).val ELSE Deleted) \in Scalars \cup {Deleted}
  <2>1. pick(i) \in mine
    BY <1>2
  <2> HIDE DEF mine
  <2> HIDE DEF pick
  <2> QED BY <1>1, <2>1, OpTyped DEF Clear
<1>3. OpsOf(patch, t) = [i \in Ids |-> IF \E op \in mine : op.key[2] = i
                                      THEN IF pick(i).op = "put" THEN pick(i).val ELSE Deleted
                                      ELSE None]
  BY DEF OpsOf
<1> HIDE DEF mine, pick
<1> QED BY <1>2, <1>3 DEF FieldOps, Clears

AllOf(parts) == UNION {ToSet(parts[i]) : i \in DOMAIN parts}

LEMMA AppendSet ==
  ASSUME NEW A, NEW s \in Seq(A), NEW x \in A
  PROVE  Append(s, x) \in Seq(A) /\ ToSet(Append(s, x)) = ToSet(s) \cup {x}
<1>1. /\ Append(s, x) \in Seq(A) /\ DOMAIN Append(s, x) = DOMAIN s \cup {Len(s) + 1}
      /\ \A i \in DOMAIN s : Append(s, x)[i] = s[i]
      /\ Append(s, x)[Len(s) + 1] = x
  OBVIOUS
<1> QED BY <1>1 DEF ToSet

LEMMA AppendAll ==
  ASSUME NEW A, NEW s \in Seq(Seq(A)), NEW x \in Seq(A)
  PROVE  Append(s, x) \in Seq(Seq(A)) /\ AllOf(Append(s, x)) = AllOf(s) \cup ToSet(x)
<1>1. /\ Append(s, x) \in Seq(Seq(A)) /\ DOMAIN Append(s, x) = DOMAIN s \cup {Len(s) + 1}
      /\ \A i \in DOMAIN s : Append(s, x)[i] = s[i]
      /\ Append(s, x)[Len(s) + 1] = x
  OBVIOUS
<1> QED BY <1>1 DEF AllOf

\* Packing loses nothing and adds nothing, and leaves one part at least.
LEMMA PackedAll ==
  ASSUME NEW ops \in Seq(Ops)
  PROVE  /\ Packed(ops) \in Seq(Seq(Ops)) /\ Len(Packed(ops)) >= 1
         /\ AllOf(Packed(ops)) = ToSet(ops)
<1> DEFINE S == [parts : Seq(Seq(Ops)), current : Seq(Ops), size : Nat]
           N == Len(ops)
           seen(n) == {ops[i] : i \in 1..n}
<1>1. NoParts \in S
  BY DEF NoParts
<1>2. ASSUME NEW acc \in S, NEW op \in Ops
      PROVE  /\ Pack(acc, op) \in S
             /\ AllOf(Pack(acc, op).parts) \cup ToSet(Pack(acc, op).current)
                  = (AllOf(acc.parts) \cup ToSet(acc.current)) \cup {op}
  <2>1. Size(op) \in Nat
    BY OpTyped
  <2>2. CASE acc.current # <<>> /\ acc.size + Size(op) > MaxPart
    <3>1. Pack(acc, op) = [parts |-> Append(acc.parts, acc.current), current |-> <<op>>, size |-> Size(op)]
      BY <2>2 DEF Pack
    <3>2. AllOf(Append(acc.parts, acc.current)) = AllOf(acc.parts) \cup ToSet(acc.current)
          /\ Append(acc.parts, acc.current) \in Seq(Seq(Ops))
      BY AppendAll
    <3>3. ToSet(<<op>>) = {op} /\ <<op>> \in Seq(Ops)
      BY DEF ToSet
    <3> QED BY <2>1, <3>1, <3>2, <3>3
  <2>3. CASE ~(acc.current # <<>> /\ acc.size + Size(op) > MaxPart)
    <3> DEFINE next == Append(acc.current, op)
               size == acc.size + Size(op)
    <3>1. Pack(acc, op) = [acc EXCEPT !.current = next, !.size = size]
      BY <2>3 DEF Pack
    <3>2. ToSet(next) = ToSet(acc.current) \cup {op} /\ next \in Seq(Ops) /\ size \in Nat
      BY <2>1, AppendSet
    <3> HIDE DEF next, size
    <3>3. Pack(acc, op) \in S /\ Pack(acc, op).parts = acc.parts /\ Pack(acc, op).current = next
      BY <3>1, <3>2
    <3> QED BY <3>2, <3>3
  <2> QED BY <2>2, <2>3
<1>3. PICK tr : PackSteps(ops, S, tr)
  <2> HIDE DEF S
  <2> QED BY <1>1, <1>2, PackTrace
<1>4. /\ N \in Nat /\ \A i \in 1..N : ops[i] \in Ops
      /\ tr \in [0..N -> S] /\ tr[0] = NoParts /\ tr[N] = LastPack(ops)
      /\ \A n \in 1..N : tr[n] = Pack(tr[n - 1], ops[n])
  BY <1>3 DEF PackSteps
<1>5. DOMAIN ops = 1..N
  OBVIOUS
<1> HIDE DEF S, N
<1> DEFINE T == {n \in 0..N : AllOf(tr[n].parts) \cup ToSet(tr[n].current) = seen(n)}
<1>6. 0 \in T
  <2>1. AllOf(NoParts.parts) = {} /\ ToSet(NoParts.current) = {} /\ seen(0) = {}
    BY DEF NoParts, AllOf, ToSet
  <2> HIDE DEF seen
  <2> QED BY <1>4, <2>1
<1>7. ASSUME NEW n \in 0..(N - 1), n \in T PROVE n + 1 \in T
  <2>1. n + 1 \in 1..N /\ (n + 1) - 1 = n /\ n + 1 \in 0..N /\ n \in 0..N
    BY <1>4
  <2>2. tr[n + 1] = Pack(tr[n], ops[n + 1]) /\ tr[n] \in S /\ ops[n + 1] \in Ops
    BY <1>4, <2>1
  <2>3. seen(n + 1) = seen(n) \cup {ops[n + 1]}
    BY <2>1
  <2> HIDE DEF seen
  <2>4. AllOf(tr[n + 1].parts) \cup ToSet(tr[n + 1].current)
          = (AllOf(tr[n].parts) \cup ToSet(tr[n].current)) \cup {ops[n + 1]}
    BY <1>2, <2>2
  <2> QED BY <1>7, <2>1, <2>3, <2>4
<1>8. N \in T
  <2>1. \A n \in 0..N : n \in T
    <3> HIDE DEF T
    <3> QED BY <1>4, <1>6, <1>7, UpTo
  <2>2. N \in 0..N
    BY <1>4
  <2> HIDE DEF T
  <2> QED BY <2>1, <2>2
<1>9. seen(N) = ToSet(ops)
  BY <1>5 DEF ToSet
<1> DEFINE acc == LastPack(ops)
<1> HIDE DEF seen
<1>10. acc \in S /\ AllOf(acc.parts) \cup ToSet(acc.current) = ToSet(ops)
  <2>1. N \in 0..N
    BY <1>4
  <2> QED BY <1>4, <1>8, <1>9, <2>1
<1> HIDE DEF acc, T
<1>11. acc.parts \in Seq(Seq(Ops)) /\ acc.current \in Seq(Ops)
  BY <1>10 DEF S
<1>12. Packed(ops) = IF acc.current # <<>> \/ acc.parts = <<>>
                     THEN Append(acc.parts, acc.current) ELSE acc.parts
  BY PackedIs DEF acc
<1>13. CASE acc.current # <<>> \/ acc.parts = <<>>
  <2>1. AllOf(Append(acc.parts, acc.current)) = AllOf(acc.parts) \cup ToSet(acc.current)
        /\ Append(acc.parts, acc.current) \in Seq(Seq(Ops))
    BY <1>11, AppendAll
  <2>2. Len(Append(acc.parts, acc.current)) >= 1
    BY <1>11
  <2> QED BY <1>10, <1>12, <1>13, <2>1, <2>2
<1>14. CASE ~(acc.current # <<>> \/ acc.parts = <<>>)
  <2>1. ToSet(acc.current) = {}
    BY <1>14 DEF ToSet
  <2>2. Len(acc.parts) >= 1
    BY <1>11, <1>14
  <2> QED BY <1>10, <1>11, <1>12, <1>14, <2>1, <2>2
<1> QED BY <1>13, <1>14

\* A row changed after a version, as it is now.
ChangeOf(current, k) == IF current[k].val = Deleted THEN [op |-> "del", key |-> k]
                        ELSE [op |-> "put", key |-> k, val |-> current[k].val]

RowRecords == [Keys -> [val : Cells, version : Nat]]

LEMMA ChangeTyped ==
  ASSUME NEW current \in RowRecords, NEW k \in Keys
  PROVE  ChangeOf(current, k) \in Ops /\ ChangeOf(current, k).key = k /\ ChangeOf(current, k) # Clear
<1>1. current[k].val \in Cells
  BY DEF RowRecords
<1> QED BY <1>1 DEF ChangeOf, Ops, Cells, Clear

LEMMA PatchSinceIs ==
  ASSUME NEW current \in RowRecords, NEW version
  PROVE  /\ PatchSince(current, version) \in Seq(Ops)
         /\ ToSet(PatchSince(current, version))
              = {ChangeOf(current, k) : k \in {j \in Keys : current[j].version > version}}
<1> DEFINE changed == {k \in Keys : current[k].version > version}
           keys == SetToSeq(changed)
           n == Cardinality(changed)
           op(k) == IF current[k].val = Deleted THEN [op |-> "del", key |-> k]
                    ELSE [op |-> "put", key |-> k, val |-> current[k].val]
<1>1. IsFiniteSet(changed) /\ changed \subseteq Keys
  BY KeysFinite, CollectionsAssumption
<1> HIDE DEF changed
<1>2. /\ n \in Nat /\ \A i \in 1..n : keys[i] \in changed
      /\ \A k \in changed : \E i \in 1..n : keys[i] = k
  BY <1>1, SetAsSeq
<1> HIDE DEF n, keys
<1>3. PatchSince(current, version) = [i \in 1..n |-> ChangeOf(current, keys[i])]
  BY DEF PatchSince, ChangeOf, changed, keys, n
<1>4. \A i \in 1..n : ChangeOf(current, keys[i]) \in Ops
  BY <1>1, <1>2, ChangeTyped
<1>5. PatchSince(current, version) \in Seq(Ops)
  BY <1>2, <1>3, <1>4
<1>6. ToSet(PatchSince(current, version)) = {ChangeOf(current, keys[i]) : i \in 1..n}
  BY <1>3 DEF ToSet
<1>7. ToSet(PatchSince(current, version)) = {ChangeOf(current, k) : k \in changed}
  BY <1>2, <1>6
<1> QED BY <1>5, <1>7 DEF changed

LEMMA BootstrapIs ==
  ASSUME rows \in RowRecords
  PROVE  /\ Bootstrap \in Seq(Ops)
         /\ ToSet(Bootstrap) = {Clear} \cup {ChangeOf(rows, k) : k \in {j \in Keys : rows[j].val # Deleted}}
<1> DEFINE living == {k \in Keys : rows[k].val # Deleted}
           all == SetToSeq(living)
           n == Cardinality(living)
           ops == [i \in 1..n |-> ChangeOf(rows, all[i])]
<1>1. IsFiniteSet(living) /\ living \subseteq Keys /\ \A k \in living : rows[k].val # Deleted
  BY KeysFinite, CollectionsAssumption
<1> HIDE DEF living
<1>2. /\ n \in Nat /\ \A i \in 1..n : all[i] \in living
      /\ \A k \in living : \E i \in 1..n : all[i] = k
      /\ DOMAIN all = 1..n
  BY <1>1, SetAsSeq
<1> HIDE DEF n, all
<1>3. \A i \in 1..n : PutOp(all[i]) = ChangeOf(rows, all[i]) /\ ChangeOf(rows, all[i]) \in Ops
  BY <1>1, <1>2, ChangeTyped DEF PutOp, ChangeOf
<1>4. Bootstrap = <<Clear>> \o [i \in DOMAIN all |-> PutOp(all[i])]
  BY DEF Bootstrap, all, living
<1>5. Bootstrap = <<Clear>> \o ops
  BY <1>2, <1>3, <1>4
<1>6. ops \in Seq(Ops) /\ <<Clear>> \in Seq(Ops) /\ Len(ops) = n /\ Len(<<Clear>>) = 1 /\ <<Clear>>[1] = Clear
  BY <1>2, <1>3 DEF Ops
<1>7. ToSet(ops) = {ChangeOf(rows, k) : k \in living}
  BY <1>2 DEF ToSet
<1> HIDE DEF ops
<1>8. ToSet(<<Clear>> \o ops) = {Clear} \cup ToSet(ops)
  <2>1. /\ DOMAIN (<<Clear>> \o ops) = 1..(n + 1) /\ (<<Clear>> \o ops)[1] = Clear
        /\ \A i \in 1..n : (<<Clear>> \o ops)[i + 1] = ops[i]
    BY <1>2, <1>6
  <2>2. DOMAIN ops = 1..n
    BY <1>6
  <2>3. \A j \in 1..(n + 1) : j = 1 \/ \E i \in 1..n : j = i + 1
    <3>1. \A j \in 1..(n + 1) : j = 1 \/ (j - 1 \in 1..n /\ j = (j - 1) + 1)
      BY <1>2
    <3> QED BY <3>1
  <2>4. \A i \in 1..n : i + 1 \in 1..(n + 1)
    BY <1>2
  <2>5. 1 \in 1..(n + 1)
    BY <1>2
  <2> DEFINE both == <<Clear>> \o ops
  <2> HIDE DEF both
  <2>6. ToSet(both) = {both[j] : j \in 1..(n + 1)} /\ ToSet(ops) = {ops[i] : i \in 1..n}
    BY <2>1, <2>2 DEF ToSet, both
  <2>7. both[1] = Clear /\ \A i \in 1..n : both[i + 1] = ops[i]
    BY <2>1 DEF both
  <2>8. ToSet(both) = {Clear} \cup ToSet(ops)
    BY <2>3, <2>4, <2>5, <2>6, <2>7
  <2> QED BY <2>8 DEF both
<1>9. Bootstrap \in Seq(Ops)
  BY <1>5, <1>6
<1> QED BY <1>5, <1>7, <1>8, <1>9 DEF living

-----------------------------------------------------------------------------
(* Frames *)

StartFrame(base) == [type |-> "start", base |-> base]
PartFrame(patch, id, errors) == [type |-> "part", patch |-> patch, lmid |-> id, errors |-> errors]
EndFrame(end) == [type |-> "end", cursor |-> end]

\* The frames of a poke, position by position.
FramesOf(frames, base, parts, id, errors, end) ==
  LET n == Len(parts)
  IN  /\ Len(frames) = n + 2
      /\ frames[1] = StartFrame(base)
      /\ \A i \in 1..n : frames[i + 1] = PartFrame(parts[i], IF i = 1 THEN id ELSE 0,
                                                   IF i = 1 THEN errors ELSE {})
      /\ frames[n + 2] = EndFrame(end)

Joined(A, x, s, y, q) ==
  /\ q \in Seq(A) /\ Len(q) = Len(s) + 2 /\ q[1] = x /\ q[Len(s) + 2] = y
  /\ \A i \in 1..Len(s) : q[i + 1] = s[i]

LEMMA JoinThree ==
  ASSUME NEW A, NEW x \in A, NEW s \in Seq(A), NEW y \in A
  PROVE  Joined(A, x, s, y, (<<x>> \o s) \o <<y>>)
<1> DEFINE q == (<<x>> \o s) \o <<y>>
<1>1. /\ q \in Seq(A) /\ Len(q) = Len(s) + 2 /\ q[1] = x /\ q[Len(s) + 2] = y
      /\ \A i \in 1..Len(s) : q[i + 1] = s[i]
  OBVIOUS
<1> HIDE DEF q
<1>2. Joined(A, x, s, y, q)
  BY <1>1 DEF Joined
<1> QED BY <1>2 DEF q

LEMMA FramesAre ==
  ASSUME NEW base \in Nat, NEW ops \in Seq(Ops), NEW id \in Nat, NEW errors \in SUBSET Nat, NEW end \in Nat
  PROVE  /\ PokeFrames(base, ops, id, errors, end) \in Seq(Downward)
         /\ FramesOf(PokeFrames(base, ops, id, errors, end), base, Packed(ops), id, errors, end)
<1> DEFINE parts == Packed(ops)
           mid == [i \in DOMAIN parts |-> PartFrame(parts[i], IF i = 1 THEN id ELSE 0,
                                                    IF i = 1 THEN errors ELSE {})]
<1>1. parts \in Seq(Seq(Ops))
  BY PackedAll
<1>2. PokeFrames(base, ops, id, errors, end) = (<<StartFrame(base)>> \o mid) \o <<EndFrame(end)>>
  BY DEF PokeFrames, StartFrame, EndFrame, PartFrame
<1> HIDE DEF parts
<1>3. DOMAIN parts = 1..Len(parts) /\ Len(parts) \in Nat /\ \A i \in 1..Len(parts) : parts[i] \in Seq(Ops)
  BY <1>1
<1>4. \A i \in DOMAIN parts : PartFrame(parts[i], IF i = 1 THEN id ELSE 0, IF i = 1 THEN errors ELSE {}) \in Downward
  BY <1>3 DEF PartFrame, Downward
<1>5. mid \in Seq(Downward) /\ Len(mid) = Len(parts)
  BY <1>3, <1>4
<1>6. \A i \in 1..Len(parts) : mid[i] = PartFrame(parts[i], IF i = 1 THEN id ELSE 0,
                                                  IF i = 1 THEN errors ELSE {})
  BY <1>3
<1>7. StartFrame(base) \in Downward /\ EndFrame(end) \in Downward
  BY DEF StartFrame, EndFrame, Downward
<1> HIDE DEF mid
<1> DEFINE q == (<<StartFrame(base)>> \o mid) \o <<EndFrame(end)>>
<1>10. Joined(Downward, StartFrame(base), mid, EndFrame(end), q)
  BY <1>5, <1>7, JoinThree
<1> HIDE DEF q
<1>8. /\ q \in Seq(Downward) /\ Len(q) = Len(mid) + 2 /\ q[1] = StartFrame(base)
      /\ q[Len(mid) + 2] = EndFrame(end)
      /\ \A i \in 1..Len(mid) : q[i + 1] = mid[i]
  BY <1>10 DEF Joined
<1>9. FramesOf(q, base, parts, id, errors, end)
  BY <1>5, <1>6, <1>8 DEF FramesOf
<1> QED BY <1>2, <1>8, <1>9 DEF q, parts

LEMMA SentTyped ==
  ASSUME down \in Seq(Downward), NEW frames \in Seq(Downward)
  PROVE  Sent(frames) \in Seq(Downward)
  BY DEF Sent

-----------------------------------------------------------------------------
(* Types: the client's local runs *)

LocalRuns(view) ==
  [rows : {view}, ws : [puts : [Keys -> Scalars \cup {None}], dels : SUBSET Keys, before : Seq(Images)],
   verdict : {"ok", "failed", "degraded"}]

LEMMA LocalTyped ==
  ASSUME NEW view, NEW appliers, NEW r \in LocalRuns(view), NEW step \in Steps
  PROVE  TakeLocal(appliers, r, step) \in LocalRuns(view)
<1> DEFINE Ws == [puts : [Keys -> Scalars \cup {None}], dels : SUBSET Keys, before : Seq(Images)]
<1>0. /\ r.ws \in Ws /\ r.ws.puts \in [Keys -> Scalars \cup {None}] /\ r.ws.dels \in SUBSET Keys
      /\ r \in [rows : {view}, ws : Ws, verdict : {"ok", "failed", "degraded"}]
  BY DEF LocalRuns
<1>1. \A ws \in Ws : [r EXCEPT !.ws = ws] \in LocalRuns(view)
  BY DEF LocalRuns
<1>2. \A v \in {"ok", "failed", "degraded"} : [r EXCEPT !.verdict = v] \in LocalRuns(view)
  BY DEF LocalRuns
<1>3. ASSUME NEW k \in Keys, NEW v \in Scalars PROVE BufferPut(r.ws, k, v) \in Ws
  <2> DEFINE puts == [r.ws.puts EXCEPT ![k] = v]
             dels == r.ws.dels \ {k}
  <2>1. puts \in [Keys -> Scalars \cup {None}] /\ dels \in SUBSET Keys
    BY <1>0
  <2>2. BufferPut(r.ws, k, v) = [r.ws EXCEPT !.puts = puts, !.dels = dels]
    BY <1>0 DEF BufferPut
  <2> HIDE DEF puts, dels
  <2> QED BY <1>0, <2>1, <2>2
<1>4. ASSUME NEW k \in Keys PROVE BufferDel(r.ws, k) \in Ws
  <2> DEFINE puts == [r.ws.puts EXCEPT ![k] = None]
             dels == r.ws.dels \cup {k}
  <2>1. puts \in [Keys -> Scalars \cup {None}] /\ dels \in SUBSET Keys
    BY <1>0
  <2>2. BufferDel(r.ws, k) = [r.ws EXCEPT !.puts = puts, !.dels = dels]
    BY <1>0 DEF BufferDel
  <2> HIDE DEF puts, dels
  <2> QED BY <1>0, <2>1, <2>2
<1> HIDE DEF Ws
<1>5. CASE r.verdict # "ok"
  BY <1>5 DEF TakeLocal
<1>6. CASE r.verdict = "ok" /\ step.do = "put" /\ ~Valid(step.input)
  <2>1. TakeLocal(appliers, r, step) = [r EXCEPT !.verdict = "failed"]
    BY <1>6 DEF TakeLocal
  <2> QED BY <1>2, <2>1
<1>7. CASE r.verdict = "ok" /\ StepTable(step) \notin appliers /\ (step.do = "put" => Valid(step.input))
  <2>1. TakeLocal(appliers, r, step) = [r EXCEPT !.verdict = "degraded"]
    BY <1>7 DEF TakeLocal
  <2> QED BY <1>2, <2>1
<1>8. CASE r.verdict = "ok" /\ StepTable(step) \in appliers /\ (step.do = "put" => Valid(step.input))
  <2>0. TakeLocal(appliers, r, step) =
          CASE step.do = "put" -> LocalPut(r, step.key, step.input)
            [] step.do = "del" -> [r EXCEPT !.ws = BufferDel(@, step.key)]
            [] step.do = "flip" -> LocalFlip(r, step.key)
            [] step.do = "sweep" -> LocalSweep(r, step.table, step.filter)
    BY <1>8 DEF TakeLocal
  <2>1. CASE \E k \in Keys, x \in Inputs : step = Put(k, x)
    <3>1. PICK k \in Keys, x \in Inputs : step = Put(k, x)
      BY <2>1
    <3>2. step.do = "put" /\ step.key = k /\ step.input = x
      BY <3>1 DEF Put
    <3>3. Parsed(x) \in Scalars
      BY <1>8, <3>2 DEF Valid, Parsed, Inputs, Scalars
    <3>4. TakeLocal(appliers, r, step) = [r EXCEPT !.ws = BufferPut(r.ws, k, Parsed(x))]
      BY <1>0, <2>0, <3>2 DEF LocalPut
    <3> QED BY <1>1, <1>3, <3>3, <3>4
  <2>2. CASE \E k \in Keys : step = Del(k)
    <3>1. PICK k \in Keys : step = Del(k)
      BY <2>2
    <3>2. step.do = "del" /\ step.key = k
      BY <3>1 DEF Del
    <3>3. TakeLocal(appliers, r, step) = [r EXCEPT !.ws = BufferDel(r.ws, k)]
      BY <1>0, <2>0, <3>2
    <3> QED BY <1>1, <1>4, <3>3
  <2>3. CASE \E k \in Keys : step = Flip(k)
    <3>1. PICK k \in Keys : step = Flip(k)
      BY <2>3
    <3>2. step.do = "flip" /\ step.key = k
      BY <3>1 DEF Flip
    <3> DEFINE v == Flipped(Get(r.rows, r.ws, k))
    <3>3. v \in Scalars
      BY DEF Flipped, Scalars
    <3>4. TakeLocal(appliers, r, step) \in {r, [r EXCEPT !.ws = BufferPut(r.ws, k, v)]}
      BY <1>0, <2>0, <3>2 DEF LocalFlip
    <3> HIDE DEF v
    <3> QED BY <1>1, <1>3, <3>3, <3>4
  <2>4. CASE \E t \in Tables, f \in Filters : step = Sweep(t, f)
    <3>1. PICK t \in Tables, f \in Filters : step = Sweep(t, f)
      BY <2>4
    <3>2. step.do = "sweep" /\ step.table = t /\ step.filter = f
      BY <3>1 DEF Sweep
    <3> DEFINE swept == LocalListed(r, t, f)
               puts == [k \in Keys |-> IF k \in swept THEN None ELSE r.ws.puts[k]]
               dels == r.ws.dels \cup swept
               ws == [r.ws EXCEPT !.puts = puts, !.dels = dels]
    <3>3. swept \subseteq Keys
      BY DEF LocalListed
    <3> HIDE DEF swept
    <3>4. puts \in [Keys -> Scalars \cup {None}] /\ dels \in SUBSET Keys
      BY <1>0, <3>3
    <3>5. TakeLocal(appliers, r, step) = [r EXCEPT !.ws = ws]
      <4>1. TakeLocal(appliers, r, step) = LocalSweep(r, t, f)
        BY <2>0, <3>2
      <4>2. LocalSweep(r, t, f) = [r EXCEPT !.ws.puts = puts, !.ws.dels = dels]
        BY <1>0 DEF LocalSweep, swept
      <4> HIDE DEF puts, dels
      <4> QED BY <1>0, <4>1, <4>2
    <3> HIDE DEF puts, dels
    <3>6. ws \in Ws
      BY <1>0, <3>4 DEF Ws
    <3> HIDE DEF ws
    <3> QED BY <1>1, <3>5, <3>6
  <2> QED BY <2>1, <2>2, <2>3, <2>4 DEF Steps
<1> QED BY <1>5, <1>6, <1>7, <1>8

LEMMA RunLocalTyped ==
  ASSUME NEW view, NEW appliers, NEW program \in Seq(Steps)
  PROVE  RunLocal(view, appliers, program) \in LocalRuns(view)
<1> DEFINE S == LocalRuns(view)
<1>1. BeginLocal(view) \in S
  BY DEF LocalRuns, BeginLocal, NoWrites
<1>2. \A r \in S, step \in Steps : TakeLocal(appliers, r, step) \in S
  BY LocalTyped
<1> HIDE DEF S
<1>3. PICK tr : LocalSteps(view, appliers, program, S, tr)
  BY <1>1, <1>2, LocalTrace
<1>4. Len(program) \in 0..Len(program)
  OBVIOUS
<1> QED BY <1>3, <1>4 DEF LocalSteps, S

Overlays == [Keys -> Scalars \cup {Deleted, None}]

LEMMA OverlayTyped ==
  ASSUME NEW view, NEW r \in LocalRuns(view)
  PROVE  Overlay(r) \in Overlays /\ NoOverlay \in Overlays
<1>1. r.ws.puts \in [Keys -> Scalars \cup {None}]
  BY DEF LocalRuns
<1> DEFINE at(k) == CASE r.ws.puts[k] \notin {None, r.rows[k]} -> r.ws.puts[k]
                      [] k \in r.ws.dels /\ r.rows[k] # Deleted -> Deleted
                      [] OTHER -> None
<1>2. \A k \in Keys : at(k) \in Scalars \cup {Deleted, None}
  <2> TAKE k \in Keys
  <2>1. CASE r.ws.puts[k] \notin {None, r.rows[k]} /\ ~(k \in r.ws.dels /\ r.rows[k] # Deleted)
    BY <1>1, <2>1
  <2>2. CASE r.ws.puts[k] \notin {None, r.rows[k]} /\ (k \in r.ws.dels /\ r.rows[k] # Deleted)
    BY <1>1, <2>2
  <2>3. CASE ~(r.ws.puts[k] \notin {None, r.rows[k]})
    BY <2>3
  <2> QED BY <2>1, <2>2, <2>3
<1>3. Overlay(r) = [k \in Keys |-> at(k)]
  BY DEF Overlay
<1> HIDE DEF at
<1> QED BY <1>2, <1>3 DEF Overlays, NoOverlay

-----------------------------------------------------------------------------
(* Filtered outboxes *)

LEMMA SieveShorter ==
  ASSUME NEW n \in Nat, NEW kept \in SUBSET (1..n), NEW m \in Nat, NEW e \in [1..m -> kept],
         \A i, j \in 1..m : i < j => e[i] < e[j]
  PROVE  m <= n
<1>1. \A i \in 1..m : e[i] \in 1..n
  OBVIOUS
<1>2. \A i, j \in 1..m : e[i] = e[j] => i = j
  <2> SUFFICES ASSUME NEW i \in 1..m, NEW j \in 1..m, e[i] = e[j], i # j PROVE FALSE
    OBVIOUS
  <2>1. i < j \/ j < i
    OBVIOUS
  <2> QED BY <1>1, <2>1
<1>3. e \in Injection(1..m, 1..n)
  BY <1>1, <1>2 DEF Injection, IsInjective
<1>4. IsFiniteSet(1..n) /\ Cardinality(1..n) = n /\ IsFiniteSet(1..m) /\ Cardinality(1..m) = m
  BY FS_Interval
<1> QED BY <1>3, <1>4, FS_Injection

\* A filter picks the kept elements, and no others.
LEMMA FilteredPicks ==
  ASSUME NEW A, NEW q \in Seq(A), NEW kept \in SUBSET (1..Len(q))
  PROVE  /\ Filtered(q, kept) \in Seq(A) /\ Len(Filtered(q, kept)) <= Len(q)
         /\ \A i \in DOMAIN Filtered(q, kept) : \E p \in kept : Filtered(q, kept)[i] = q[p]
         /\ \A p \in kept : \E i \in DOMAIN Filtered(q, kept) : Filtered(q, kept)[i] = q[p]
<1> DEFINE out == Filtered(q, kept)
<1>1. PICK m, e : Sieved(q, kept, m, e, out)
  BY FilteredIs
<1> HIDE DEF out
<1>2. /\ m \in Nat /\ e \in [1..m -> kept] /\ out = [i \in 1..m |-> q[e[i]]]
      /\ \A i, j \in 1..m : i < j => e[i] < e[j]
      /\ \A p \in kept : \E i \in 1..m : e[i] = p
  BY <1>1 DEF Sieved
<1>0. Len(q) \in Nat /\ \A p \in 1..Len(q) : q[p] \in A
  OBVIOUS
<1>3. \A i \in 1..m : e[i] \in kept /\ e[i] \in 1..Len(q) /\ q[e[i]] \in A
  <2> TAKE i \in 1..m
  <2>1. e[i] \in kept
    BY <1>2
  <2> QED BY <1>0, <2>1
<1>4. out \in Seq(A) /\ Len(out) = m /\ DOMAIN out = 1..m
  BY <1>2, <1>3
<1>5. m <= Len(q)
  BY <1>0, <1>2, SieveShorter
<1>6. \A i \in 1..m : out[i] = q[e[i]]
  BY <1>2
<1>7. /\ \A i \in DOMAIN out : \E p \in kept : out[i] = q[p]
      /\ \A p \in kept : \E i \in DOMAIN out : out[i] = q[p]
  BY <1>2, <1>3, <1>4, <1>6
<1> QED BY <1>4, <1>5, <1>7 DEF out

\* What a push carries of an outbox.
Carries(pending, entries, confirmed) ==
  /\ Len(pending) <= Len(entries)
  /\ \A i \in DOMAIN pending : \E p \in DOMAIN entries :
       entries[p].id > confirmed /\ pending[i].id = entries[p].id /\ pending[i].program = entries[p].program
  /\ \A p \in DOMAIN entries : entries[p].id > confirmed =>
       \E i \in DOMAIN pending : pending[i].id = entries[p].id

LEMMA PendingIs ==
  ASSUME NEW entries \in Seq(Entries), NEW confirmed \in Nat
  PROVE  Pending(entries, confirmed) \in Seq(Muts) /\ Carries(Pending(entries, confirmed), entries, confirmed)
<1> DEFINE kept == {i \in DOMAIN entries : entries[i].id > confirmed}
           sent == Filtered(entries, kept)
           cut(x) == [id |-> x.id, program |-> x.program]
           pending == [i \in DOMAIN sent |-> cut(sent[i])]
<1>1. kept \in SUBSET (1..Len(entries))
  OBVIOUS
<1>2. /\ sent \in Seq(Entries) /\ Len(sent) <= Len(entries)
      /\ \A i \in DOMAIN sent : \E p \in kept : sent[i] = entries[p]
      /\ \A p \in kept : \E i \in DOMAIN sent : sent[i] = entries[p]
  <2> HIDE DEF kept
  <2> QED BY <1>1, FilteredPicks
<1> HIDE DEF sent
<1>3. \A i \in DOMAIN sent : sent[i] \in Entries /\ cut(sent[i]) \in Muts
  <2>1. \A i \in DOMAIN sent : sent[i] \in Entries
    BY <1>2
  <2> QED BY <2>1 DEF Entries, Muts
<1>4. pending \in Seq(Muts) /\ DOMAIN pending = DOMAIN sent /\ Len(pending) = Len(sent)
  BY <1>2, <1>3
<1>5. Pending(entries, confirmed) = pending
  BY DEF Pending, sent
<1>6. \A i \in DOMAIN pending : pending[i].id = sent[i].id /\ pending[i].program = sent[i].program
  OBVIOUS
<1> HIDE DEF pending
<1>7. Carries(pending, entries, confirmed)
  <2>1. \A i \in DOMAIN pending : \E p \in DOMAIN entries :
          entries[p].id > confirmed /\ pending[i].id = entries[p].id /\ pending[i].program = entries[p].program
    BY <1>2, <1>4, <1>6
  <2>2. \A p \in DOMAIN entries : entries[p].id > confirmed =>
          \E i \in DOMAIN pending : pending[i].id = entries[p].id
    BY <1>2, <1>4, <1>6
  <2> QED BY <1>2, <1>4, <2>1, <2>2 DEF Carries
<1> QED BY <1>4, <1>5, <1>7

LEMMA FlushedTyped ==
  ASSUME NEW entries \in Seq(Entries), NEW confirmed \in Nat, NEW synced, NEW frames \in Seq(Upward)
  PROVE  Flushed(entries, confirmed, synced, frames) \in Seq(Upward)
<1> DEFINE pending == Pending(entries, confirmed)
           frame == [type |-> "push", mutations |-> pending]
<1>1. pending \in Seq(Muts)
  BY PendingIs
<1> HIDE DEF pending
<1>2. frame \in Upward
  BY <1>1 DEF Upward
<1>3. Flushed(entries, confirmed, synced, frames) \in {frames, Append(frames, frame)}
  BY DEF Flushed, pending
<1> HIDE DEF frame
<1> QED BY <1>2, <1>3

LEMMA HelloTyped ==
  ASSUME NEW frames \in Seq(Upward), NEW cursor \in Nat
  PROVE  Append(frames, Hello(cursor)) \in Seq(Upward) /\ <<Hello(cursor)>> \in Seq(Upward)
<1>1. Hello(cursor) \in Upward
  BY DEF Hello, Upward
<1> QED BY <1>1

-----------------------------------------------------------------------------
(* Types: the workspace *)

LEMMA FirstTyped == ASSUME Init PROVE TypeInv
<1>1. PICK first \in FirstRows : /\ rows = [k \in Keys |-> [val |-> first[k], version |-> 1]]
                                 /\ snaps = <<first>>
  BY DEF Init
<1>2. first \in Rows
  BY CollectionsAssumption
<1>3. snaps \in Seq(Rows) /\ Version = 1
  BY <1>1, <1>2 DEF Version
<1>4. rows \in [Keys -> [val : Cells, version : Nat]]
  BY <1>1, <1>2 DEF Rows, Cells
<1>5. authors = <<0>> /\ authors \in Seq(Nat) /\ Len(authors) = 1
  BY DEF Init
<1>6. push \in Pushing
  BY DEF Init, Pushing, Idle
<1>7. link \in Links
  BY DEF Init, Links, NoPoke, Pokes
<1>8. /\ ready \in BOOLEAN /\ up \in Seq(Upward) /\ down \in Seq(Downward) /\ queue \in Seq(Entries)
      /\ lmid \in Nat /\ issued \in Nat /\ restarts \in Nat /\ cuts \in Nat
  <2>1. /\ ready = FALSE /\ up = <<>> /\ down = <<>> /\ queue = <<>>
        /\ lmid = 0 /\ issued = 0 /\ restarts = 0 /\ cuts = 0
    BY DEF Init
  <2>2. <<>> \in Seq(Upward) /\ <<>> \in Seq(Downward) /\ <<>> \in Seq(Entries)
    OBVIOUS
  <2>3. up \in Seq(Upward) /\ down \in Seq(Downward) /\ queue \in Seq(Entries)
    BY <2>1, <2>2, Zenon
  <2>4. lmid \in Nat /\ issued \in Nat /\ restarts \in Nat /\ cuts \in Nat
    BY <2>1
  <2>5. ready \in BOOLEAN
    BY <2>1
  <2> QED BY <2>3, <2>4, <2>5
<1>9. table \in [Tables -> TableRows]
  <2> DEFINE absent == [NewTable(FALSE) EXCEPT !.status = "absent"]
  <2>1. absent \in TableRows /\ Attached(NewTable(FALSE)) \in TableRows
    BY GateTyped, AttachedTyped DEF TableRows
  <2>2. ASSUME NEW t \in Tables PROVE table[t] \in TableRows
    BY <2>1, FirstTables, GateTyped
  <2> QED BY <2>2, FirstTables
<1> QED BY <1>3, <1>4, <1>5, <1>6, <1>7, <1>8, <1>9 DEF TypeInv

\* What a transaction leaves.
CommittedTo(r, author) ==
  /\ r.ok /\ Written(r) # {}
  /\ rows' = [k \in Keys |-> IF k \in Written(r)
                             THEN [val |-> RowsAfter(r)[k], version |-> Version + 1] ELSE rows[k]]
  /\ snaps' = Append(snaps, RowsAfter(r))
  /\ authors' = Append(authors, author)
  /\ event' = [version |-> Version + 1, changes |-> Changes(r)]

LEMMA CommittedIs ==
  ASSUME NEW r, NEW author, Committed(r, author)
  PROVE  CommittedTo(r, author) \/ (~(r.ok /\ Written(r) # {}) /\ UNCHANGED <<rows, snaps, authors, event>>)
  BY DEF Committed, CommittedTo

HistTyped ==
  /\ snaps \in Seq(Rows) /\ Version \in Nat \ {0}
  /\ rows \in [Keys -> [val : Cells, version : Nat]]
  /\ authors \in Seq(Nat) /\ Len(authors) = Version

LEMMA NowTyped == ASSUME HistTyped PROVE Now \in Rows
  BY DEF HistTyped, Now, Version

LEMMA CommitTyped ==
  ASSUME HistTyped, NEW r, InOrder(Now, r), NEW author \in Nat, Committed(r, author)
  PROVE  HistTyped'
<1>1. CASE UNCHANGED <<rows, snaps, authors, event>>
  BY <1>1 DEF HistTyped, Version
<1>2. CASE CommittedTo(r, author)
  <2>1. RowsAfter(r) \in Rows
    BY AfterRows, NowTyped
  <2>2. /\ rows' = [k \in Keys |-> IF k \in Written(r)
                             THEN [val |-> RowsAfter(r)[k], version |-> Version + 1] ELSE rows[k]]
        /\ snaps' = Append(snaps, RowsAfter(r))
        /\ authors' = Append(authors, author)
    BY <1>2 DEF CommittedTo
  <2>3. snaps' \in Seq(Rows) /\ Len(snaps') = Len(snaps) + 1
    BY <2>1, <2>2 DEF HistTyped
  <2>4. authors' \in Seq(Nat) /\ Len(authors') = Len(authors) + 1
    BY <2>2 DEF HistTyped
  <2>5. rows' \in [Keys -> [val : Cells, version : Nat]]
    <3>1. RowsAfter(r) \in [Keys -> Cells] /\ Version + 1 \in Nat
      BY <2>1 DEF Rows, Cells, HistTyped
    <3> QED BY <2>2, <3>1 DEF HistTyped
  <2> QED BY <2>3, <2>4, <2>5 DEF HistTyped, Version
<1> QED BY <1>1, <1>2, CommittedIs

-----------------------------------------------------------------------------
(* Types: the workspace *)

LEMMA HeadUp ==
  ASSUME NEW q \in Seq(Upward), q # <<>>
  PROVE  /\ Tail(q) \in Seq(Upward) /\ Head(q) \in Upward /\ Head(q) = q[1]
         /\ Head(q).type = "hello" => Head(q).cursor \in Nat
         /\ Head(q).type = "push" => Head(q).mutations \in Seq(Muts)
<1>1. Tail(q) \in Seq(Upward) /\ Head(q) \in Upward /\ Head(q) = q[1]
  OBVIOUS
<1> QED BY <1>1 DEF Upward

LEMMA HeadDown ==
  ASSUME NEW q \in Seq(Downward), q # <<>>
  PROVE  /\ Tail(q) \in Seq(Downward) /\ Head(q) \in Downward /\ Head(q) = q[1]
         /\ Head(q).type = "start" => Head(q).base \in Nat
         /\ Head(q).type = "part" => /\ Head(q).patch \in Seq(Ops) /\ Head(q).lmid \in Nat
                                     /\ Head(q).errors \in SUBSET Nat
         /\ Head(q).type = "end" => Head(q).cursor \in Nat
<1>1. Tail(q) \in Seq(Downward) /\ Head(q) \in Downward /\ Head(q) = q[1]
  OBVIOUS
<1> QED BY <1>1 DEF Downward

LEMMA HeadMuts ==
  ASSUME NEW q \in Seq(Muts), q # <<>>
  PROVE  /\ Tail(q) \in Seq(Muts) /\ Head(q) \in Muts /\ Head(q) = q[1]
         /\ Head(q).id \in Nat /\ Head(q).program \in Programs /\ Head(q).program \in Seq(Steps)
<1>1. Tail(q) \in Seq(Muts) /\ Head(q) \in Muts /\ Head(q) = q[1]
  OBVIOUS
<1> QED BY <1>1, CollectionsAssumption DEF Muts

LEMMA RunTyped ==
  ASSUME HistTyped, NEW program \in Seq(Steps)
  PROVE  InOrder(Now, Run(Now, program))
BY RunInOrder, NowTyped, CollectionsAssumption

LEMMA TypeHist == TypeInv => HistTyped
  BY DEF TypeInv, HistTyped

\* Whatever leaves the workspace's history alone.
LEMMA HistSame == ASSUME HistTyped, UNCHANGED <<rows, snaps, authors>> PROVE HistTyped'
  BY DEF HistTyped, Version

LEMMA TypeOther == ASSUME TypeInv, NEW program \in Others, OtherCommits(program) PROVE TypeInv'
<1>1. HistTyped /\ program \in Seq(Steps)
  BY TypeHist, CollectionsAssumption
<1>2. /\ Committed(Run(Now, program), 0)
      /\ down' = Sent(PokeFrames(Version, PatchSince(rows', Version), 0, {}, Version + 1))
      /\ UNCHANGED <<lmid, push, ready, up, link, queue, issued, table, counts>>
  BY DEF OtherCommits
<1>3. HistTyped'
  BY <1>1, <1>2, RunTyped, CommitTyped
<1>4. rows' \in RowRecords
  BY <1>3 DEF HistTyped, RowRecords
<1>5. PatchSince(rows', Version) \in Seq(Ops)
  BY <1>4, PatchSinceIs
<1>6. Version \in Nat /\ Version + 1 \in Nat /\ {} \in SUBSET Nat /\ 0 \in Nat
  BY <1>1 DEF HistTyped
<1>7. PokeFrames(Version, PatchSince(rows', Version), 0, {}, Version + 1) \in Seq(Downward)
  BY <1>5, <1>6, FramesAre
<1>8. down' \in Seq(Downward)
  BY <1>2, <1>7, SentTyped DEF TypeInv
<1> QED BY <1>2, <1>3, <1>8 DEF TypeInv, HistTyped, counts

LEMMA TypeServe == ASSUME TypeInv, ServeHello PROVE TypeInv'
<1> DEFINE cursor == Head(up).cursor
           ops == IF cursor = 0 THEN Bootstrap ELSE PatchSince(rows, cursor)
           frames == PokeFrames(cursor, ops, lmid, {}, Version)
<1>1. /\ up # <<>> /\ Head(up).type = "hello" /\ up' = Tail(up) /\ ready' = TRUE
      /\ down' = down \o frames
      /\ UNCHANGED <<rows, snaps, authors, event, lmid, push, link, queue, issued, table, restarts, cuts>>
  BY DEF ServeHello, serverVars, counts
<1>2. cursor \in Nat /\ up' \in Seq(Upward)
  BY <1>1, HeadUp DEF TypeInv
<1>3. rows \in RowRecords /\ Version \in Nat /\ lmid \in Nat /\ {} \in SUBSET Nat
  BY DEF TypeInv, RowRecords
<1> HIDE DEF cursor
<1>4. ops \in Seq(Ops)
  BY <1>3, PatchSinceIs, BootstrapIs
<1> HIDE DEF ops
<1>5. frames \in Seq(Downward)
  BY <1>2, <1>3, <1>4, FramesAre
<1> HIDE DEF frames
<1>6. down' \in Seq(Downward)
  BY <1>1, <1>5 DEF TypeInv
<1>7. HistTyped'
  BY <1>1, TypeHist, HistSame
<1> QED BY <1>1, <1>2, <1>6, <1>7 DEF TypeInv, HistTyped

LEMMA TypeStartPush == ASSUME TypeInv, StartPush PROVE TypeInv'
<1>1. /\ up # <<>> /\ Head(up).type = "push" /\ up' = Tail(up)
      /\ push' = [Idle EXCEPT !.todo = Head(up).mutations, !.from = Version]
      /\ UNCHANGED <<rows, snaps, authors, event, lmid, ready, down, link, queue, issued, table, restarts, cuts>>
  BY DEF StartPush, counts
<1>2. Head(up).mutations \in Seq(Muts) /\ up' \in Seq(Upward)
  BY <1>1, HeadUp DEF TypeInv
<1>3. push' \in Pushing
  BY <1>1, <1>2 DEF Idle, Pushing, TypeInv
<1>4. HistTyped'
  BY <1>1, TypeHist, HistSame
<1> QED BY <1>1, <1>2, <1>3, <1>4 DEF TypeInv, HistTyped

\* What handling a mutation does: it is fresh or was handled before, and it may be the last.
Fresh == Head(push.todo).id > lmid
NextRun == Run(Now, Head(push.todo).program)
NextErrors == push.errors \cup (IF Fresh /\ ~NextRun.ok THEN {Head(push.todo).id} ELSE {})

LEMMA HandleIs ==
  ASSUME HandleMutation
  PROVE  /\ push.todo # <<>>
         /\ IF Fresh THEN Committed(NextRun, Head(push.todo).id)
            ELSE UNCHANGED <<rows, snaps, authors, event>>
         /\ lmid' = IF Fresh THEN Head(push.todo).id ELSE lmid
         /\ \/ /\ Len(push.todo) > 1 /\ down' = down
               /\ push' = [push EXCEPT !.todo = Tail(@), !.errors = NextErrors]
            \/ /\ ~(Len(push.todo) > 1) /\ push' = Idle
               /\ down' = Sent(PokeFrames(push.from, PatchSince(rows', push.from), lmid',
                                          NextErrors, Version'))
         /\ UNCHANGED <<ready, up, link, queue, issued, table, restarts, cuts>>
<1>1. lmid' = IF Fresh THEN Head(push.todo).id ELSE lmid
  BY DEF HandleMutation, Fresh
<1> QED BY <1>1 DEF HandleMutation, Fresh, NextRun, NextErrors, counts, Version

LEMMA TypeHandle == ASSUME TypeInv, HandleMutation PROVE TypeInv'
<1> DEFINE next == Head(push.todo)
<1>1. /\ push.todo # <<>>
      /\ IF Fresh THEN Committed(NextRun, next.id) ELSE UNCHANGED <<rows, snaps, authors, event>>
      /\ lmid' = IF Fresh THEN next.id ELSE lmid
      /\ UNCHANGED <<ready, up, link, queue, issued, table, restarts, cuts>>
  BY HandleIs
<1>2. /\ push \in Pushing /\ push.todo \in Seq(Muts) /\ push.from \in Nat /\ push.errors \in SUBSET Nat
  BY DEF TypeInv, Pushing
<1>3. Tail(push.todo) \in Seq(Muts) /\ next.id \in Nat /\ next.program \in Seq(Steps)
  BY <1>1, <1>2, HeadMuts
<1>4. lmid' \in Nat /\ NextErrors \in SUBSET Nat
  BY <1>1, <1>2, <1>3 DEF TypeInv, NextErrors
<1>5. HistTyped'
  BY <1>1, <1>3, TypeHist, RunTyped, CommitTyped, HistSame DEF NextRun
<1>6. push' \in Pushing
  <2>1. CASE push' = [push EXCEPT !.todo = Tail(@), !.errors = NextErrors]
    BY <1>2, <1>3, <1>4, <2>1 DEF Pushing
  <2>2. CASE push' = Idle
    BY <2>2 DEF Pushing, Idle
  <2> QED BY <2>1, <2>2, HandleIs
<1>7. down' \in Seq(Downward)
  <2>1. CASE down' = down
    BY <2>1 DEF TypeInv
  <2>2. CASE down' = Sent(PokeFrames(push.from, PatchSince(rows', push.from), lmid', NextErrors, Version'))
    <3>1. rows' \in RowRecords /\ Version' \in Nat
      BY <1>5 DEF HistTyped, RowRecords
    <3>2. PatchSince(rows', push.from) \in Seq(Ops)
      BY <3>1, PatchSinceIs
    <3>3. PokeFrames(push.from, PatchSince(rows', push.from), lmid', NextErrors, Version') \in Seq(Downward)
      BY <1>2, <1>4, <3>1, <3>2, FramesAre
    <3> QED BY <2>2, <3>3, SentTyped DEF TypeInv
  <2> QED BY <2>1, <2>2, HandleIs
<1> QED BY <1>1, <1>4, <1>5, <1>6, <1>7 DEF TypeInv, HistTyped

-----------------------------------------------------------------------------
(* Types: the client *)

\* A client's step leaves the workspace alone.
LEMMA TypeClient ==
  ASSUME TypeInv, UNCHANGED serverVars, ready' \in BOOLEAN,
         up' \in Seq(Upward), down' \in Seq(Downward), link' \in Links, queue' \in Seq(Entries),
         issued' \in Nat, restarts' \in Nat, cuts' \in Nat, table' \in [Tables -> TableRows]
  PROVE  TypeInv'
<1>1. UNCHANGED <<rows, snaps, authors, lmid, push>>
  BY DEF serverVars
<1>2. HistTyped'
  BY <1>1, TypeHist, HistSame
<1> QED BY <1>1, <1>2 DEF TypeInv, HistTyped

LEMMA RegisterTyped ==
  ASSUME TypeInv, Register
  PROVE  link' \in Links /\ up' \in Seq(Upward)
<1>1. CASE link.synced
  <2>1. link' = [link EXCEPT !.cursor = 0, !.awaiting = link.socket = "open"]
    BY <1>1 DEF Register
  <2>2. up' \in {up, Append(up, Hello(0))}
    BY <1>1 DEF Register
  <2>3. link' \in Links
    BY <2>1 DEF TypeInv, Links
  <2> QED BY <2>2, <2>3, HelloTyped DEF TypeInv
<1>2. CASE ~link.synced
  BY <1>2 DEF Register, TypeInv
<1> QED BY <1>1, <1>2

LEMMA TypeTables ==
  ASSUME TypeInv, NEW t \in Tables, Create(t) \/ Start(t) \/ Cleanup(t) \/ Restart(t)
  PROVE  TypeInv'
<1>0. table[t] \in TableRows
  BY DEF TypeInv
<1>1. CASE Create(t)
  <2>1. PICK applier \in BOOLEAN : table' = [table EXCEPT ![t] = NewTable(applier)]
    BY <1>1 DEF Create
  <2>4. Register /\ UNCHANGED <<serverVars, ready, down, queue, issued, restarts, cuts>>
    BY <1>1 DEF Create, counts
  <2>2. table' \in [Tables -> TableRows]
    BY <2>1, GateTyped DEF TypeInv
  <2>3. link' \in Links /\ up' \in Seq(Upward)
    BY <2>4, RegisterTyped
  <2> QED BY <2>2, <2>3, <2>4, TypeClient DEF TypeInv
<1>2. CASE Start(t)
  <2>1. table' = [table EXCEPT ![t] = Attached(table[t])]
        /\ UNCHANGED <<serverVars, ready, up, down, link, queue, issued, restarts, cuts>>
    BY <1>2 DEF Start, counts
  <2>2. table' \in [Tables -> TableRows]
    BY <1>0, <2>1, AttachedTyped DEF TypeInv
  <2> QED BY <2>1, <2>2, TypeClient DEF TypeInv
<1>3. CASE Cleanup(t)
  <2> DEFINE off == [table[t] EXCEPT !.status = "off", !.shown = Empty, !.keys = {}, !.ready = FALSE]
  <2>1. table' = [table EXCEPT ![t] = off] /\ restarts' = restarts + 1
        /\ UNCHANGED <<serverVars, ready, up, down, link, queue, issued, cuts>>
    BY <1>3 DEF Cleanup
  <2>2. off \in TableRows
    BY <1>0 DEF TableRows, Empty, Cells
  <2> HIDE DEF off
  <2>3. table' \in [Tables -> TableRows]
    BY <2>1, <2>2 DEF TypeInv
  <2> QED BY <2>1, <2>3, TypeClient DEF TypeInv
<1>4. CASE Restart(t)
  <2>1. table' = [table EXCEPT ![t] = Attached(table[t])] /\ Register
        /\ UNCHANGED <<serverVars, ready, down, queue, issued, restarts, cuts>>
    BY <1>4 DEF Restart, counts
  <2>2. table' \in [Tables -> TableRows]
    BY <1>0, <2>1, AttachedTyped DEF TypeInv
  <2>3. link' \in Links /\ up' \in Seq(Upward)
    BY <2>1, RegisterTyped
  <2> QED BY <2>1, <2>2, <2>3, TypeClient DEF TypeInv
<1> QED BY <1>1, <1>2, <1>3, <1>4

LEMMA LastNat ==
  ASSUME TypeInv
  PROVE  LastId \in Nat /\ LastId >= link.confirmed /\ link.confirmed \in Nat
         /\ \A i \in DOMAIN queue : queue[i].id \in Nat /\ LastId >= queue[i].id
<1>1. link.confirmed \in Nat /\ queue \in Seq(Entries)
  BY DEF TypeInv, Links
<1> QED BY <1>1, LastIs, LastIdIs

\* The entry an intent is queued with.
EntryOf(program, entry) ==
  /\ entry.id = (IF link.synced THEN LastId + 1 ELSE 0) /\ entry.program = program
  /\ entry.overlay = (IF RunLocal(View, Appliers, program).verdict = "ok"
                      THEN Overlay(RunLocal(View, Appliers, program)) ELSE NoOverlay)
  /\ entry.base = (IF RunLocal(View, Appliers, program).verdict = "ok" /\ queue = <<>> THEN link.cursor ELSE 0)
  /\ entry \in Entries

LEMMA MutateIs ==
  ASSUME TypeInv, NEW program \in Programs, Mutate(program)
  PROVE  \E entry : /\ EntryOf(program, entry) /\ queue' = Append(queue, entry)
                    /\ up' = Flushed(queue', link.confirmed, link.synced, up)
                    /\ queue' \in Seq(Entries)
                    /\ push = Idle /\ issued < MaxIntents /\ issued' = issued + 1
                    /\ UNCHANGED <<serverVars, ready, down, link, table, restarts, cuts>>
<1> DEFINE r == RunLocal(View, Appliers, program)
           laid == r.verdict = "ok"
           entry == [id |-> IF link.synced THEN LastId + 1 ELSE 0, program |-> program,
                     overlay |-> IF laid THEN Overlay(r) ELSE NoOverlay,
                     base |-> IF laid /\ queue = <<>> THEN link.cursor ELSE 0,
                     blind |-> Blind(program)]
<1>1. program \in Seq(Steps)
  BY CollectionsAssumption
<1>2. r \in LocalRuns(View)
  BY <1>1, RunLocalTyped
<1>3. Overlay(r) \in Overlays /\ NoOverlay \in Overlays
  BY <1>2, OverlayTyped
<1>4. LastId + 1 \in Nat /\ link.cursor \in Nat
  BY LastNat DEF TypeInv, Links
<1>9. Blind(program) \in BOOLEAN
  BY DEF Blind
<1>5. entry \in Entries
  <2> HIDE DEF laid, r
  <2> QED BY <1>3, <1>4, <1>9 DEF Entries, Overlays
<1>6. EntryOf(program, entry)
  BY <1>5 DEF EntryOf
<1>7. /\ queue' = Append(queue, entry) /\ issued' = issued + 1 /\ push = Idle /\ issued < MaxIntents
      /\ up' = Flushed(queue', link.confirmed, link.synced, up)
      /\ UNCHANGED <<serverVars, ready, down, link, table, restarts, cuts>>
  BY DEF Mutate, counts
<1> HIDE DEF entry
<1>8. queue' \in Seq(Entries)
  BY <1>5, <1>7 DEF TypeInv
<1> QED BY <1>6, <1>7, <1>8

LEMMA TypeMutate == ASSUME TypeInv, NEW program \in Programs, Mutate(program) PROVE TypeInv'
<1>1. /\ queue' \in Seq(Entries) /\ issued' = issued + 1
      /\ up' = Flushed(queue', link.confirmed, link.synced, up)
      /\ UNCHANGED <<serverVars, ready, down, link, table, restarts, cuts>>
  BY MutateIs
<1>2. up' \in Seq(Upward)
  BY <1>1, LastNat, FlushedTyped DEF TypeInv
<1> QED BY <1>1, <1>2, TypeClient DEF TypeInv

HydrateOps(cursor, t) == [i \in Ids |-> LET row == snaps[cursor][<<t, i>>]
                                       IN  IF row = Deleted THEN None ELSE row]

LEMMA HydrateOpsTyped ==
  ASSUME TypeInv, NEW cursor \in 1..Version, NEW t \in Tables
  PROVE  HydrateOps(cursor, t) \in FieldOps
<1>1. snaps[cursor] \in Rows
  BY DEF TypeInv, Version
<1>2. \A i \in Ids : snaps[cursor][<<t, i>>] \in Scalars \cup {Deleted}
  BY <1>1 DEF Rows, Keys
<1> QED BY <1>2 DEF HydrateOps, FieldOps

LEMMA HydrateIs ==
  ASSUME NEW cursor, Hydrate(cursor)
  PROVE  /\ ~link.started /\ push = Idle
         /\ link' = [link EXCEPT !.started = TRUE, !.cursor = cursor]
         /\ table' = IF cursor = 0 THEN table
                     ELSE [t \in Tables |-> MarkedReady(Received(table[t], FALSE, HydrateOps(cursor, t)))]
         /\ UNCHANGED <<serverVars, ready, up, down, queue, issued, restarts, cuts>>
  BY DEF Hydrate, HydrateOps, counts

LEMMA TypeHydrate ==
  ASSUME TypeInv, NEW cursor \in {0} \cup (IF Cached THEN 1..Version ELSE {}), Hydrate(cursor)
  PROVE  TypeInv'
<1>1. /\ link' = [link EXCEPT !.started = TRUE, !.cursor = cursor]
      /\ table' = IF cursor = 0 THEN table
                  ELSE [t \in Tables |-> MarkedReady(Received(table[t], FALSE, HydrateOps(cursor, t)))]
      /\ UNCHANGED <<serverVars, ready, up, down, queue, issued, restarts, cuts>>
  BY HydrateIs
<1>2. cursor \in Nat /\ (cursor = 0 \/ cursor \in 1..Version)
  BY DEF TypeInv
<1>3. link' \in Links
  BY <1>1, <1>2 DEF TypeInv, Links
<1>4. table' \in [Tables -> TableRows]
  <2>1. CASE cursor = 0
    BY <1>1, <2>1 DEF TypeInv
  <2>2. CASE cursor # 0
    <3>1. ASSUME NEW t \in Tables
          PROVE  MarkedReady(Received(table[t], FALSE, HydrateOps(cursor, t))) \in TableRows
      <4>1. table[t] \in TableRows /\ HydrateOps(cursor, t) \in FieldOps
        BY <1>2, <2>2, HydrateOpsTyped DEF TypeInv
      <4> QED BY <4>1, ReceivedTyped, MarkedTyped
    <3> QED BY <1>1, <2>2, <3>1
  <2> QED BY <2>1, <2>2
<1> QED BY <1>1, <1>3, <1>4, TypeClient DEF TypeInv

LEMMA TypeLink ==
  ASSUME TypeInv, Dial \/ Open \/ Cut
  PROVE  TypeInv'
<1>1. CASE Dial
  <2>1. link' = [link EXCEPT !.socket = "dialling", !.synced = FALSE]
        /\ UNCHANGED <<serverVars, ready, up, down, queue, issued, table, restarts, cuts>>
    BY <1>1 DEF Dial, counts
  <2>2. link' \in Links
    BY <2>1 DEF TypeInv, Links
  <2> QED BY <2>1, <2>2, TypeClient DEF TypeInv
<1>2. CASE Open
  <2>1. link' = [link EXCEPT !.socket = "open", !.awaiting = TRUE] /\ up' = <<Hello(link.cursor)>>
        /\ UNCHANGED <<serverVars, ready, down, queue, issued, table, restarts, cuts>>
    BY <1>2 DEF Open, counts
  <2>2. link' \in Links /\ link.cursor \in Nat
    BY <2>1 DEF TypeInv, Links
  <2>3. up' \in Seq(Upward)
    BY <2>1, <2>2, HelloTyped DEF TypeInv
  <2> QED BY <2>1, <2>2, <2>3, TypeClient DEF TypeInv
<1>3. CASE Cut
  <2>1. link' = [link EXCEPT !.socket = "none", !.awaiting = FALSE, !.poke = NoPoke]
        /\ ready' = FALSE /\ up' = <<>> /\ down' = <<>> /\ cuts' = cuts + 1
        /\ UNCHANGED <<serverVars, queue, issued, table, restarts>>
    BY <1>3 DEF Cut
  <2>2. NoPoke \in Pokes
    BY DEF NoPoke, Pokes
  <2>3. link' \in Links
    BY <2>1, <2>2 DEF TypeInv, Links
  <2>4. up' \in Seq(Upward) /\ down' \in Seq(Downward)
    BY <2>1
  <2>5. cuts' \in Nat /\ queue' \in Seq(Entries) /\ issued' \in Nat
        /\ restarts' \in Nat /\ table' \in [Tables -> TableRows]
    <3>1. /\ cuts \in Nat /\ queue \in Seq(Entries) /\ issued \in Nat /\ restarts \in Nat
          /\ table \in [Tables -> TableRows]
      BY DEF TypeInv
    <3>2. /\ cuts' = cuts + 1 /\ queue' = queue /\ issued' = issued /\ restarts' = restarts
          /\ table' = table
      BY <2>1
    <3> QED BY <3>1, <3>2
  <2>6. UNCHANGED serverVars
    BY <2>1
  <2>7. ready' \in BOOLEAN
    <3>1. ready' = FALSE
      BY <2>1
    <3> QED BY <3>1
  <2> QED BY <2>3, <2>4, <2>5, <2>6, <2>7, TypeClient
<1> QED BY <1>1, <1>2, <1>3

\* What reading a frame does.
LEMMA StartIs ==
  ASSUME PokeStart
  PROVE  /\ push = Idle /\ down # <<>> /\ Head(down).type = "start" /\ down' = Tail(down)
         /\ link' = [link EXCEPT !.poke = [NoPoke EXCEPT !.base = Head(down).base,
                                                  !.mismatch = Head(down).base # link.cursor]]
         /\ UNCHANGED <<serverVars, ready, up, queue, issued, table, restarts, cuts>>
  BY DEF PokeStart, Reads, counts

PartRead == [link.poke EXCEPT !.patch = @ \o Head(down).patch,
                              !.lmid = IF Head(down).lmid = 0 THEN @ ELSE Head(down).lmid,
                              !.errors = @ \cup Head(down).errors]

LEMMA PartIs ==
  ASSUME TypeInv, PokePart
  PROVE  /\ push = Idle /\ down # <<>> /\ Head(down).type = "part" /\ down' = Tail(down)
         /\ PartRead \in Pokes /\ link' = [link EXCEPT !.poke = PartRead]
         /\ UNCHANGED <<serverVars, ready, up, queue, issued, table, restarts, cuts>>
<1>1. /\ push = Idle /\ down # <<>> /\ Head(down).type = "part" /\ down' = Tail(down)
      /\ UNCHANGED <<serverVars, ready, up, queue, issued, table, restarts, cuts>>
  BY DEF PokePart, Reads, counts
<1>2. link.poke \in Pokes /\ link.poke.patch \in Seq(Ops) /\ link.poke.lmid \in Nat /\ link.poke.errors \in SUBSET Nat
  BY DEF TypeInv, Links, Pokes
<1>3. Head(down).patch \in Seq(Ops) /\ Head(down).lmid \in Nat /\ Head(down).errors \in SUBSET Nat
  BY <1>1, HeadDown DEF TypeInv
<1>4. PartRead \in Pokes
  <2> DEFINE patch == link.poke.patch \o Head(down).patch
             id == IF Head(down).lmid = 0 THEN link.poke.lmid ELSE Head(down).lmid
             errors == link.poke.errors \cup Head(down).errors
  <2>1. patch \in Seq(Ops) /\ id \in Nat /\ errors \in SUBSET Nat
    BY <1>2, <1>3
  <2>2. PartRead = [link.poke EXCEPT !.patch = patch, !.lmid = id, !.errors = errors]
    BY DEF PartRead
  <2> HIDE DEF patch, id, errors
  <2> QED BY <1>2, <2>1, <2>2 DEF Pokes
<1>5. link' = [link EXCEPT !.poke = PartRead]
  BY <1>2 DEF PokePart, PartRead, TypeInv, Links
<1> QED BY <1>1, <1>4, <1>5

LEMMA DropIs ==
  ASSUME DropPoke
  PROVE  /\ push = Idle /\ down # <<>> /\ Head(down).type = "end" /\ down' = Tail(down)
         /\ Mismatched /\ link' = [link EXCEPT !.poke = NoPoke, !.awaiting = TRUE]
         /\ up' = IF link.awaiting THEN up ELSE Append(up, Hello(link.cursor))
         /\ UNCHANGED <<serverVars, ready, queue, issued, table, restarts, cuts>>
  BY DEF DropPoke, Reads, counts

LEMMA TypeReads ==
  ASSUME TypeInv, PokeStart \/ PokePart \/ DropPoke
  PROVE  TypeInv'
<1>1. NoPoke \in Pokes
  BY DEF NoPoke, Pokes
<1>2. CASE PokeStart
  <2> DEFINE poke == [NoPoke EXCEPT !.base = Head(down).base, !.mismatch = Head(down).base # link.cursor]
  <2>1. /\ down # <<>> /\ Head(down).type = "start" /\ down' = Tail(down)
        /\ link' = [link EXCEPT !.poke = poke]
        /\ UNCHANGED <<serverVars, ready, up, queue, issued, table, restarts, cuts>>
    BY <1>2, StartIs
  <2>2. Head(down).base \in Nat /\ down' \in Seq(Downward)
    BY <2>1, HeadDown DEF TypeInv
  <2>3. poke \in Pokes
    <3> DEFINE base == Head(down).base
               off == Head(down).base # link.cursor
    <3>1. poke = [base |-> base, mismatch |-> off, patch |-> <<>>, lmid |-> 0, errors |-> {}]
      <4> HIDE DEF base, off
      <4>1. poke = [[base |-> 0, mismatch |-> FALSE, patch |-> <<>>, lmid |-> 0, errors |-> {}]
                      EXCEPT !.base = base, !.mismatch = off]
        BY DEF NoPoke, base, off
      <4> HIDE DEF poke
      <4> QED BY <4>1
    <3>2. base \in Nat /\ off \in BOOLEAN
      BY <2>2
    <3> HIDE DEF base, off, poke
    <3> QED BY <3>1, <3>2 DEF Pokes
  <2> HIDE DEF poke
  <2>4. link' \in Links
    BY <2>1, <2>3 DEF TypeInv, Links
  <2> QED BY <2>1, <2>2, <2>4, TypeClient DEF TypeInv
<1>3. CASE PokePart
  <2>1. /\ down # <<>> /\ Head(down).type = "part" /\ down' = Tail(down)
        /\ PartRead \in Pokes /\ link' = [link EXCEPT !.poke = PartRead]
        /\ UNCHANGED <<serverVars, ready, up, queue, issued, table, restarts, cuts>>
    BY <1>3, PartIs
  <2>2. down' \in Seq(Downward)
    BY <2>1, HeadDown DEF TypeInv
  <2>3. link' \in Links
    BY <2>1 DEF TypeInv, Links
  <2> QED BY <2>1, <2>2, <2>3, TypeClient DEF TypeInv
<1>4. CASE DropPoke
  <2>1. /\ down # <<>> /\ down' = Tail(down)
        /\ link' = [link EXCEPT !.poke = NoPoke, !.awaiting = TRUE]
        /\ up' = IF link.awaiting THEN up ELSE Append(up, Hello(link.cursor))
        /\ UNCHANGED <<serverVars, ready, queue, issued, table, restarts, cuts>>
    BY <1>4, DropIs
  <2>2. down' \in Seq(Downward)
    BY <2>1, HeadDown DEF TypeInv
  <2>3. link' \in Links /\ link.cursor \in Nat
    BY <1>1, <2>1 DEF TypeInv, Links
  <2>4. up' \in Seq(Upward)
    BY <2>1, <2>3, HelloTyped DEF TypeInv
  <2> QED BY <2>1, <2>2, <2>3, <2>4, TypeClient DEF TypeInv
<1> QED BY <1>2, <1>3, <1>4

-----------------------------------------------------------------------------
(* Types: applying a poke *)

\* What applying a poke makes of the confirmation, the outbox and a table.
ConfirmedNow == IF link.poke.lmid > link.confirmed THEN link.poke.lmid ELSE link.confirmed
Unsettled == Filtered(queue, {i \in DOMAIN queue : queue[i].id = 0 \/ queue[i].id > ConfirmedNow})
TopId == IF ConfirmedNow > LastId THEN ConfirmedNow ELSE LastId
Earlier(q, i) == {j \in 1..i : q[j].id = 0}
Numbered == [i \in DOMAIN Unsettled |->
               IF Unsettled[i].id # 0 THEN Unsettled[i]
               ELSE [Unsettled[i] EXCEPT !.id = TopId + Cardinality(Earlier(Unsettled, i))]]
Patched(t) == Received(table[t], Clears(link.poke.patch), OpsOf(link.poke.patch, t))
Fed(t) == IF link.synced THEN Patched(t) ELSE MarkedReady(Patched(t))

LEMMA ApplyIs ==
  ASSUME ApplyPoke
  PROVE  /\ push = Idle /\ down # <<>> /\ Head(down).type = "end" /\ down' = Tail(down) /\ ~Mismatched
         /\ link' = [link EXCEPT !.poke = NoPoke, !.cursor = Head(down).cursor, !.awaiting = FALSE,
                                 !.synced = TRUE, !.confirmed = ConfirmedNow]
         /\ table' = [t \in Tables |-> Fed(t)]
         /\ queue' = IF link.synced THEN Unsettled ELSE Numbered
         /\ up' = Flushed(queue', ConfirmedNow, TRUE, up)
         /\ UNCHANGED <<serverVars, ready, issued, restarts, cuts>>
  BY DEF ApplyPoke, Reads, counts, ConfirmedNow, Unsettled, TopId, Earlier, Numbered, Patched, Fed

Blank(q) == {i \in DOMAIN q : q[i].id = 0}

\* The entries a poke leaves are among the ones there were; numbering fills in their ids.
LEMMA UnsettledIs ==
  ASSUME TypeInv
  PROVE  /\ ConfirmedNow \in Nat /\ ConfirmedNow >= link.confirmed /\ ConfirmedNow >= link.poke.lmid
         /\ ConfirmedNow = link.confirmed \/ ConfirmedNow = link.poke.lmid
         /\ Unsettled \in Seq(Entries) /\ Len(Unsettled) <= Len(queue)
         /\ \A i \in DOMAIN Unsettled : \E p \in DOMAIN queue :
              Unsettled[i] = queue[p] /\ (queue[p].id = 0 \/ queue[p].id > ConfirmedNow)
         /\ \A p \in DOMAIN queue : queue[p].id = 0 \/ queue[p].id > ConfirmedNow =>
              \E i \in DOMAIN Unsettled : Unsettled[i] = queue[p]
         /\ TopId \in Nat /\ TopId >= ConfirmedNow /\ TopId >= LastId /\ (TopId = LastId \/ TopId = ConfirmedNow)
<1> DEFINE kept == {i \in DOMAIN queue : queue[i].id = 0 \/ queue[i].id > ConfirmedNow}
<1>1. link.confirmed \in Nat /\ link.poke.lmid \in Nat /\ queue \in Seq(Entries) /\ LastId \in Nat
  BY LastNat DEF TypeInv, Links, Pokes
<1>2. /\ ConfirmedNow \in Nat /\ ConfirmedNow >= link.confirmed /\ ConfirmedNow >= link.poke.lmid
      /\ ConfirmedNow = link.confirmed \/ ConfirmedNow = link.poke.lmid
  BY <1>1 DEF ConfirmedNow
<1>3. TopId \in Nat /\ TopId >= ConfirmedNow /\ TopId >= LastId /\ (TopId = LastId \/ TopId = ConfirmedNow)
  BY <1>1, <1>2 DEF TopId
<1>4. kept \in SUBSET (1..Len(queue))
  BY <1>1
<1> HIDE DEF kept
<1>5. /\ Unsettled \in Seq(Entries) /\ Len(Unsettled) <= Len(queue)
      /\ \A i \in DOMAIN Unsettled : \E p \in kept : Unsettled[i] = queue[p]
      /\ \A p \in kept : \E i \in DOMAIN Unsettled : Unsettled[i] = queue[p]
  <2> DEFINE out == Filtered(queue, kept)
  <2>1. /\ out \in Seq(Entries) /\ Len(out) <= Len(queue)
        /\ \A i \in DOMAIN out : \E p \in kept : out[i] = queue[p]
        /\ \A p \in kept : \E i \in DOMAIN out : out[i] = queue[p]
    BY <1>1, <1>4, FilteredPicks
  <2>2. Unsettled = out
    BY DEF Unsettled, kept
  <2> HIDE DEF out
  <2> QED BY <2>1, <2>2
<1> QED BY <1>2, <1>3, <1>5 DEF kept

LEMMA NumberedIs ==
  ASSUME TypeInv
  PROVE  /\ Numbered \in Seq(Entries) /\ DOMAIN Numbered = DOMAIN Unsettled
         /\ Len(Numbered) = Len(Unsettled)
         /\ \A i \in DOMAIN Unsettled :
              /\ Unsettled[i].id # 0 => Numbered[i] = Unsettled[i]
              /\ Unsettled[i].id = 0 => /\ Numbered[i].id > TopId
                                        /\ Numbered[i].id <= TopId + Cardinality(Blank(Unsettled))
                                        /\ Numbered[i].program = Unsettled[i].program
                                        /\ Numbered[i].overlay = Unsettled[i].overlay
                                        /\ Numbered[i].base = Unsettled[i].base
         /\ IsFiniteSet(Blank(Unsettled)) /\ Cardinality(Blank(Unsettled)) \in Nat
<1> DEFINE u == Unsettled
<1>1. u \in Seq(Entries) /\ TopId \in Nat
  BY UnsettledIs
<1> HIDE DEF u
<1>2. DOMAIN u = 1..Len(u) /\ Len(u) \in Nat /\ \A i \in DOMAIN u : u[i] \in Entries
  BY <1>1
<1>3. IsFiniteSet(Blank(u)) /\ Cardinality(Blank(u)) \in Nat
  <2>1. IsFiniteSet(1..Len(u))
    BY <1>2, FS_Interval
  <2>2. Blank(u) \subseteq 1..Len(u)
    BY <1>2 DEF Blank
  <2> QED BY <2>1, <2>2, FS_Subset, FS_CardinalityType
<1>4. ASSUME NEW i \in DOMAIN u, u[i].id = 0
      PROVE  /\ Cardinality(Earlier(u, i)) \in Nat /\ Cardinality(Earlier(u, i)) >= 1
             /\ Cardinality(Earlier(u, i)) <= Cardinality(Blank(u))
  <2>1. Earlier(u, i) \subseteq Blank(u) /\ i \in Earlier(u, i)
    BY <1>2, <1>4 DEF Earlier, Blank
  <2>2. IsFiniteSet(Earlier(u, i)) /\ Cardinality(Earlier(u, i)) <= Cardinality(Blank(u))
    BY <1>3, <2>1, FS_Subset
  <2>3. Cardinality(Earlier(u, i)) \in Nat
    BY <2>2, FS_CardinalityType
  <2>4. Cardinality(Earlier(u, i)) # 0
    BY <2>1, <2>2, FS_EmptySet
  <2> QED BY <2>2, <2>3, <2>4
<1> DEFINE at(i) == IF u[i].id # 0 THEN u[i]
                    ELSE [u[i] EXCEPT !.id = TopId + Cardinality(Earlier(u, i))]
<1>5. ASSUME NEW i \in DOMAIN u
      PROVE  /\ at(i) \in Entries
             /\ u[i].id # 0 => at(i) = u[i]
             /\ u[i].id = 0 => /\ at(i).id > TopId
                               /\ at(i).id <= TopId + Cardinality(Blank(u))
                               /\ at(i).program = u[i].program
                               /\ at(i).overlay = u[i].overlay
                               /\ at(i).base = u[i].base
  <2>1. u[i] \in Entries
    BY <1>2
  <2>2. CASE u[i].id # 0
    BY <2>1, <2>2
  <2>3. CASE u[i].id = 0
    <3> DEFINE id == TopId + Cardinality(Earlier(u, i))
    <3>1. id \in Nat /\ id > TopId /\ id <= TopId + Cardinality(Blank(u))
      BY <1>1, <1>3, <1>4, <2>3
    <3>2. at(i) = [u[i] EXCEPT !.id = id]
      BY <2>3
    <3> HIDE DEF id, at
    <3> QED BY <2>1, <2>3, <3>1, <3>2 DEF Entries
  <2> QED BY <2>2, <2>3
<1>6. Numbered = [i \in DOMAIN u |-> at(i)]
  BY DEF Numbered, u
<1> HIDE DEF at
<1>7. Numbered \in Seq(Entries) /\ DOMAIN Numbered = DOMAIN u /\ Len(Numbered) = Len(u)
  BY <1>2, <1>5, <1>6
<1> QED BY <1>3, <1>5, <1>6, <1>7 DEF u

LEMMA TypeApply == ASSUME TypeInv, ApplyPoke PROVE TypeInv'
<1>1. /\ down # <<>> /\ Head(down).type = "end" /\ down' = Tail(down)
      /\ link' = [link EXCEPT !.poke = NoPoke, !.cursor = Head(down).cursor, !.awaiting = FALSE,
                              !.synced = TRUE, !.confirmed = ConfirmedNow]
      /\ table' = [t \in Tables |-> Fed(t)]
      /\ queue' = IF link.synced THEN Unsettled ELSE Numbered
      /\ up' = Flushed(queue', ConfirmedNow, TRUE, up)
      /\ UNCHANGED <<serverVars, ready, issued, restarts, cuts>>
  BY ApplyIs
<1>2. ConfirmedNow \in Nat
  BY UnsettledIs
<1>3. queue' \in Seq(Entries)
  BY <1>1, UnsettledIs, NumberedIs
<1>4. up' \in Seq(Upward)
  BY <1>1, <1>2, <1>3, FlushedTyped DEF TypeInv
<1>5. down' \in Seq(Downward) /\ Head(down).cursor \in Nat
  BY <1>1, HeadDown DEF TypeInv
<1>6. link' \in Links
  <2>1. NoPoke \in Pokes
    BY DEF NoPoke, Pokes
  <2> QED BY <1>1, <1>2, <1>5, <2>1 DEF TypeInv, Links
<1>7. table' \in [Tables -> TableRows]
  <2>1. ASSUME NEW t \in Tables PROVE Fed(t) \in TableRows
    <3>1. table[t] \in TableRows /\ link.poke.patch \in Seq(Ops)
      BY DEF TypeInv, Links, Pokes
    <3>2. Patched(t) \in TableRows
      BY <3>1, OpsOfTyped, ReceivedTyped DEF Patched
    <3> QED BY <3>2, MarkedTyped DEF Fed
  <2> QED BY <1>1, <2>1
<1> QED BY <1>1, <1>3, <1>4, <1>5, <1>6, <1>7, TypeClient DEF TypeInv

LEMMA TypeStep == ASSUME TypeInv, Next PROVE TypeInv'
<1>1. CASE Server
  BY <1>1, TypeOther, TypeServe, TypeStartPush, TypeHandle DEF Server
<1>2. CASE TableEvents
  BY <1>2, TypeTables DEF TableEvents
<1>3. CASE Client
  BY <1>3, TypeMutate, TypeHydrate, TypeLink, TypeReads, TypeApply DEF Client
<1> QED BY <1>1, <1>2, <1>3 DEF Next

LEMMA TypeStutter == ASSUME TypeInv, UNCHANGED vars PROVE TypeInv'
<1>1. UNCHANGED <<rows, snaps, authors, lmid, push, ready, up, down, link, queue, issued, table,
                  restarts, cuts>>
  BY DEF vars, serverVars, counts
<1>2. HistTyped'
  BY <1>1, TypeHist, HistSame
<1> QED BY <1>1, <1>2 DEF TypeInv, HistTyped

\* The types of the variables, in every reachable state.
THEOREM CollectionsTyped == Spec => []TypeInv
<1>1. TypeInv /\ [Next]_vars => TypeInv'
  BY TypeStep, TypeStutter
<1> QED BY FirstTyped, <1>1, PTL DEF Spec

-----------------------------------------------------------------------------
(* Rows and their versions *)

\* The rows are those of the newest version, and each has been what it is since its own version.
HistInv ==
  \A k \in Keys : /\ rows[k].val = Now[k] /\ rows[k].version \in 1..Version
                  /\ \A v \in rows[k].version..Version : snaps[v][k] = Now[k]

\* The workspace changes by the transactions of its clients' mutations only.
LEMMA CommitsOnly ==
  ASSUME TypeInv, [Next]_vars
  PROVE  \/ UNCHANGED <<rows, snaps, authors, event>>
         \/ \E program \in Programs \cup Others, author \in Nat :
              Committed(Run(Now, program), author)
<1>1. CASE \E program \in Others : OtherCommits(program)
  <2>1. PICK program \in Others : Committed(Run(Now, program), 0)
    BY <1>1 DEF OtherCommits
  <2> QED BY <2>1
<1>2. CASE HandleMutation
  <2>1. /\ push.todo # <<>>
        /\ IF Fresh THEN Committed(NextRun, Head(push.todo).id)
           ELSE UNCHANGED <<rows, snaps, authors, event>>
    BY <1>2, HandleIs
  <2>2. Head(push.todo).id \in Nat /\ Head(push.todo).program \in Programs
    BY <2>1, HeadMuts DEF TypeInv, Pushing
  <2> QED BY <2>1, <2>2 DEF NextRun
<1>3. CASE ServeHello \/ StartPush
  BY <1>3 DEF ServeHello, StartPush, serverVars
<1>4. CASE TableEvents
  BY <1>4 DEF TableEvents, Create, Start, Cleanup, Restart, serverVars
<1>5. CASE Client
  BY <1>5 DEF Client, Mutate, Hydrate, Dial, Open, Cut, PokeStart, PokePart, DropPoke, ApplyPoke, serverVars
<1>6. CASE UNCHANGED vars
  BY <1>6 DEF vars, serverVars
<1> QED BY <1>1, <1>2, <1>3, <1>4, <1>5, <1>6 DEF Next, Server

LEMMA ProgramSteps == \A program \in Programs \cup Others : program \in Seq(Steps)
  BY CollectionsAssumption

\* A transaction makes one version more.
LEMMA CommitSnaps ==
  ASSUME HistTyped, NEW r, InOrder(Now, r), NEW author, CommittedTo(r, author)
  PROVE  /\ Version' = Version + 1 /\ Now' = RowsAfter(r) /\ Now' \in Rows
         /\ \A v \in 1..Version : snaps'[v] = snaps[v]
         /\ authors \in Seq(Nat) /\ author \in Nat =>
              authors'[Version + 1] = author /\ \A v \in 1..Version : authors'[v] = authors[v]
<1>1. RowsAfter(r) \in Rows
  BY AfterRows, NowTyped
<1>2. snaps' = Append(snaps, RowsAfter(r)) /\ snaps \in Seq(Rows) /\ authors' = Append(authors, author)
      /\ Len(authors) = Len(snaps)
  BY DEF CommittedTo, HistTyped, Version
<1>3. /\ Len(snaps') = Len(snaps) + 1 /\ snaps'[Len(snaps) + 1] = RowsAfter(r)
      /\ \A v \in 1..Len(snaps) : snaps'[v] = snaps[v]
  BY <1>1, <1>2
<1>4. authors \in Seq(Nat) /\ author \in Nat =>
        authors'[Len(snaps) + 1] = author /\ \A v \in 1..Len(snaps) : authors'[v] = authors[v]
  BY <1>2
<1> QED BY <1>1, <1>3, <1>4 DEF Version, Now

LEMMA InitHist == ASSUME Init PROVE HistInv
<1>1. PICK first \in FirstRows : /\ rows = [k \in Keys |-> [val |-> first[k], version |-> 1]]
                                 /\ snaps = <<first>>
  BY DEF Init
<1>2. Version = 1 /\ Now = first /\ snaps[1] = first
  BY <1>1 DEF Version, Now
<1>3. ASSUME NEW k \in Keys
      PROVE  /\ rows[k].val = Now[k] /\ rows[k].version \in 1..Version
             /\ \A v \in rows[k].version..Version : snaps[v][k] = Now[k]
  <2>1. rows[k].val = first[k] /\ rows[k].version = 1
    BY <1>1
  <2>2. \A v \in 1..1 : v = 1
    OBVIOUS
  <2> QED BY <1>2, <2>1, <2>2
<1> QED BY <1>3 DEF HistInv

LEMMA CommitHist ==
  ASSUME HistTyped, HistInv, NEW r, InOrder(Now, r), NEW author, Committed(r, author)
  PROVE  HistInv'
<1>1. CASE UNCHANGED <<rows, snaps, authors, event>>
  BY <1>1 DEF HistInv, Now, Version
<1>2. CASE CommittedTo(r, author)
  <2>1. /\ Version' = Version + 1 /\ Now' = RowsAfter(r) /\ Version \in Nat \ {0}
        /\ \A v \in 1..Version : snaps'[v] = snaps[v]
    BY <1>2, CommitSnaps DEF HistTyped
  <2>2. rows' = [k \in Keys |-> IF k \in Written(r)
                                THEN [val |-> RowsAfter(r)[k], version |-> Version + 1] ELSE rows[k]]
    BY <1>2 DEF CommittedTo
  <2>3. snaps'[Version + 1] = Now'
    BY <2>1 DEF Now
  <2>4. ASSUME NEW k \in Keys
        PROVE  /\ rows'[k].val = Now'[k] /\ rows'[k].version \in 1..Version'
               /\ \A v \in rows'[k].version..Version' : snaps'[v][k] = Now'[k]
    <3>1. CASE k \in Written(r)
      <4>1. rows'[k].val = RowsAfter(r)[k] /\ rows'[k].version = Version + 1
        BY <2>2, <3>1
      <4>2. \A v \in (Version + 1)..Version' : v = Version + 1
        BY <2>1
      <4> QED BY <2>1, <2>3, <4>1, <4>2
    <3>2. CASE k \notin Written(r)
      <4>1. rows'[k] = rows[k]
        BY <2>2, <3>2
      <4>2. Now'[k] = Now[k]
        BY <2>1, <3>2, NowTyped, Unwritten
      <4>3. /\ rows[k].val = Now[k] /\ rows[k].version \in 1..Version
            /\ \A v \in rows[k].version..Version : snaps[v][k] = Now[k]
        BY DEF HistInv
      <4>4. \A v \in rows[k].version..Version' : v = Version + 1 \/ (v \in 1..Version /\ v \in rows[k].version..Version)
        BY <2>1, <4>3
      <4>5. \A v \in rows[k].version..Version' : snaps'[v][k] = Now'[k]
        BY <2>1, <2>3, <4>2, <4>3, <4>4
      <4> QED BY <2>1, <4>1, <4>2, <4>3, <4>5
    <3> QED BY <3>1, <3>2
  <2> QED BY <2>4 DEF HistInv
<1> QED BY <1>1, <1>2, CommittedIs

LEMMA StepHist == ASSUME TypeInv, HistInv, [Next]_vars PROVE HistInv'
<1>1. CASE UNCHANGED <<rows, snaps, authors, event>>
  BY <1>1 DEF HistInv, Now, Version
<1>2. CASE \E program \in Programs \cup Others, author \in Nat : Committed(Run(Now, program), author)
  BY <1>2, ProgramSteps, RunTyped, TypeHist, CommitHist
<1> QED BY <1>1, <1>2, CommitsOnly

-----------------------------------------------------------------------------
(* What the hook hears *)

LEMMA InitChanges == ASSUME Init PROVE ChangesNet
<1>1. Version = 1
  BY DEF Init, Version
<1> QED BY <1>1 DEF ChangesNet

LEMMA CommitChanges ==
  ASSUME HistTyped, HistInv, ChangesNet, NEW r, InOrder(Now, r), NEW author, Committed(r, author)
  PROVE  ChangesNet'
<1>1. CASE UNCHANGED <<rows, snaps, authors, event>>
  BY <1>1 DEF ChangesNet, Now, Version
<1>2. CASE CommittedTo(r, author)
  <2> DEFINE list == Changes(r)
  <2>1. /\ Version' = Version + 1 /\ Now' = RowsAfter(r) /\ Version \in Nat \ {0}
        /\ \A v \in 1..Version : snaps'[v] = snaps[v]
    BY <1>2, CommitSnaps DEF HistTyped
  <2>2. /\ rows' = [k \in Keys |-> IF k \in Written(r)
                                   THEN [val |-> RowsAfter(r)[k], version |-> Version + 1] ELSE rows[k]]
        /\ event' = [version |-> Version + 1, changes |-> list]
    BY <1>2 DEF CommittedTo
  <2>3. ChangesOf(Now, r, list)
    BY ChangesAre, NowTyped
  <2> HIDE DEF list
  <2>4. event'.version = Version' /\ event'.changes = list
    BY <2>1, <2>2
  <2>5. Written(r) = {k \in Keys : rows'[k].version = Version'}
    <3>1. \A k \in Keys : rows[k].version \in 1..Version
      BY DEF HistInv
    <3>2. \A k \in Keys : rows'[k].version = IF k \in Written(r) THEN Version + 1 ELSE rows[k].version
      BY <2>2
    <3>3. Written(r) \subseteq Keys
      BY DEF Written
    <3>4. \A k \in Keys : rows'[k].version = Version' <=> k \in Written(r)
      BY <2>1, <3>1, <3>2
    <3> QED BY <3>3, <3>4
  <2>6. snaps'[Version' - 1] = Now
    BY <2>1 DEF Now
  <2>7. {list[i].key : i \in DOMAIN list} = Written(r)
    BY <2>3 DEF ChangesOf
  <2>8. \A i, j \in DOMAIN list : list[i].key = list[j].key => i = j
    BY <2>3 DEF ChangesOf
  <2>9. \A i \in DOMAIN list : list[i].before = Now[list[i].key] /\ list[i].after = RowsAfter(r)[list[i].key]
    BY <2>3 DEF ChangesOf
  <2>10. /\ {event'.changes[i].key : i \in DOMAIN event'.changes} = {k \in Keys : rows'[k].version = Version'}
         /\ \A i, j \in DOMAIN event'.changes : event'.changes[i].key = event'.changes[j].key => i = j
    BY <2>4, <2>5, <2>7, <2>8
  <2>11. \A i \in DOMAIN event'.changes :
           /\ event'.changes[i].before = snaps'[Version' - 1][event'.changes[i].key]
           /\ event'.changes[i].after = Now'[event'.changes[i].key]
    BY <2>1, <2>4, <2>6, <2>9
  <2> QED BY <2>4, <2>10, <2>11 DEF ChangesNet
<1> QED BY <1>1, <1>2, CommittedIs

LEMMA StepChanges == ASSUME TypeInv, HistInv, ChangesNet, [Next]_vars PROVE ChangesNet'
<1>1. CASE UNCHANGED <<rows, snaps, authors, event>>
  BY <1>1 DEF ChangesNet, Now, Version
<1>2. CASE \E program \in Programs \cup Others, author \in Nat : Committed(Run(Now, program), author)
  BY <1>2, ProgramSteps, RunTyped, TypeHist, CommitChanges
<1> QED BY <1>1, <1>2, CommitsOnly

\* Each row has been what it is since the version it says it was written at.
THEOREM RowsSinceVersion == Spec => []HistInv
<1>1. TypeInv /\ HistInv /\ [Next]_vars => HistInv'
  BY StepHist
<1> QED BY InitHist, <1>1, CollectionsTyped, PTL DEF Spec

\* The hook hears of exactly the rows a version wrote, as they were and as they are.
THEOREM HookHearsNet == Spec => []ChangesNet
<1>1. TypeInv /\ HistInv /\ ChangesNet /\ [Next]_vars => ChangesNet'
  BY StepChanges
<1> QED BY InitChanges, <1>1, CollectionsTyped, RowsSinceVersion, PTL DEF Spec

-----------------------------------------------------------------------------
(* Whole mutations *)

DefinedFilters == \A program \in Programs \cup Others : Defined(program)

LEMMA InitAtomic == ASSUME Init PROVE Atomic!Init
<1>1. Now \in Rows
  BY FirstTyped, TypeHist, NowTyped
<1> QED BY <1>1 DEF Atomic!Init, Atomic!Rows, Atomic!Keys, Atomic!Scalars, Rows, Keys, Scalars

LEMMA StepAtomic ==
  ASSUME DefinedFilters, TypeInv, [Next]_vars
  PROVE  [Atomic!Next]_Now
<1>1. CASE UNCHANGED <<rows, snaps, authors, event>>
  BY <1>1 DEF Now, Version
<1>2. CASE \E program \in Programs \cup Others, author \in Nat : Committed(Run(Now, program), author)
  <2>1. PICK program \in Programs \cup Others, author \in Nat : Committed(Run(Now, program), author)
    BY <1>2
  <2> DEFINE r == Run(Now, program)
  <2>2. program \in Seq(Steps) /\ InOrder(Now, r) /\ HistTyped /\ Now \in Rows
    BY ProgramSteps, RunTyped, TypeHist, NowTyped
  <2>3. /\ r.ok <=> \A i \in DOMAIN program : Allowed(program[i])
        /\ r.ok => RowsAfter(r) = FoldLeft(Effect, Now, program)
    BY <2>2, RunIs, CollectionsAssumption DEF DefinedFilters
  <2>4. CASE CommittedTo(r, author)
    <3>1. Now' = RowsAfter(r) /\ r.ok
      BY <2>2, <2>4, CommitSnaps DEF CommittedTo
    <3> HIDE DEF r
    <3>2. Now' = FoldLeft(Effect, Now, program) /\ \A i \in DOMAIN program : Allowed(program[i])
      BY <2>3, <3>1
    <3>3. \A i \in DOMAIN program : Atomic!Allowed(program[i])
      BY <3>2 DEF Allowed, Atomic!Allowed, Valid, Fits, Atomic!Valid, Atomic!Fits
    <3>4. Atomic!FoldLeft(Atomic!Effect, Now, program) = FoldLeft(Effect, Now, program)
      <4>1. \A seen, step : Atomic!Effect(seen, step) = Effect(seen, step)
        BY DEF Effect, Atomic!Effect, Parsed, Atomic!Parsed, Flipped, Atomic!Flipped, Live, Atomic!Live,
               Matches, Atomic!Matches, Keys, Atomic!Keys
      <4>2. Atomic!FoldLeft(Atomic!Effect, Now, program) = FoldLeft(Atomic!Effect, Now, program)
        BY DEF FoldLeft, Atomic!FoldLeft, MapThenFoldSet, Atomic!MapThenFoldSet, Max, Atomic!Max
      <4>3. FoldLeft(Atomic!Effect, Now, program) = FoldLeft(Effect, Now, program)
        BY <4>1 DEF FoldLeft, MapThenFoldSet
      <4> QED BY <4>2, <4>3
    <3>5. Atomic!Mutation(program)
      BY <3>2, <3>3, <3>4 DEF Atomic!Mutation
    <3>6. CASE Now' = Now
      BY <3>6
    <3>7. CASE Now' # Now
      BY <3>5, <3>7 DEF Atomic!Next
    <3> QED BY <3>6, <3>7
  <2>5. CASE UNCHANGED <<rows, snaps, authors, event>>
    BY <2>5 DEF Now, Version
  <2> QED BY <2>1, <2>4, <2>5, CommittedIs
<1> QED BY <1>1, <1>2, CommitsOnly

\* The workspace's rows go from version to version by whole mutations, each as its steps say.
THEOREM MutationsAtomic == ASSUME DefinedFilters PROVE Spec => WritesAtomically
<1>1. TypeInv /\ [Next]_vars => [Atomic!Next]_Now
  BY StepAtomic
<1> QED BY InitAtomic, <1>1, CollectionsTyped, PTL DEF Spec, WritesAtomically, Atomic!Spec

-----------------------------------------------------------------------------
(* Bounds *)

\* What a frame to the workspace and one to the client may say.
UpBound(frame, version, last) ==
  /\ frame.type = "hello" => frame.cursor <= version
  /\ frame.type = "push" =>
       /\ Len(frame.mutations) \in 1..MaxIntents
       /\ \A i \in DOMAIN frame.mutations : frame.mutations[i].id \in 1..last
DownBound(frame, version, id) ==
  /\ frame.type = "part" => frame.lmid <= id
  /\ frame.type = "end" => frame.cursor <= version

UpFits(q, version, last) == \A i \in DOMAIN q : UpBound(q[i], version, last)
DownFits(q, version, id) == \A i \in DOMAIN q : DownBound(q[i], version, id)
TodoFits(q, last) == \A i \in DOMAIN q : q[i].id \in 1..last

\* No id is past the last one given out, no LMID past the workspace's, no cursor past its version.
BoundInv ==
  /\ Version <= MaxVersion + lmid
  /\ issued <= MaxIntents /\ Len(queue) <= issued
  /\ LastId + Cardinality(Blank(queue)) <= issued
  /\ link.synced => Blank(queue) = {}
  /\ lmid <= LastId /\ link.confirmed <= lmid /\ link.poke.lmid <= lmid /\ link.cursor <= Version
  /\ UpFits(up, Version, LastId) /\ DownFits(down, Version, lmid) /\ TodoFits(push.todo, LastId)
  /\ \A v \in 1..Version : authors[v] <= LastId

-----------------------------------------------------------------------------
(* Sequences of frames *)

LEMMA TailIs ==
  ASSUME NEW A, NEW q \in Seq(A), q # <<>>
  PROVE  /\ Tail(q) \in Seq(A) /\ Len(Tail(q)) = Len(q) - 1 /\ Len(q) \in Nat \ {0}
         /\ DOMAIN Tail(q) = 1..(Len(q) - 1) /\ DOMAIN q = 1..Len(q)
         /\ \A i \in 1..(Len(q) - 1) : i + 1 \in 1..Len(q) /\ Tail(q)[i] = q[i + 1]
         /\ Head(q) = q[1] /\ Head(q) \in A
  OBVIOUS

LEMMA UpTail ==
  ASSUME NEW q \in Seq(Upward), q # <<>>, NEW version, NEW last, UpFits(q, version, last)
  PROVE  UpFits(Tail(q), version, last) /\ UpBound(Head(q), version, last)
<1>1. /\ DOMAIN Tail(q) = 1..(Len(q) - 1) /\ DOMAIN q = 1..Len(q) /\ Len(q) \in Nat \ {0}
      /\ \A i \in 1..(Len(q) - 1) : i + 1 \in 1..Len(q) /\ Tail(q)[i] = q[i + 1]
      /\ Head(q) = q[1]
  BY TailIs
<1>2. 1 \in DOMAIN q
  BY <1>1
<1> QED BY <1>1, <1>2 DEF UpFits

LEMMA DownTail ==
  ASSUME NEW q \in Seq(Downward), q # <<>>, NEW version, NEW id, DownFits(q, version, id)
  PROVE  DownFits(Tail(q), version, id) /\ DownBound(Head(q), version, id)
<1>1. /\ DOMAIN Tail(q) = 1..(Len(q) - 1) /\ DOMAIN q = 1..Len(q) /\ Len(q) \in Nat \ {0}
      /\ \A i \in 1..(Len(q) - 1) : i + 1 \in 1..Len(q) /\ Tail(q)[i] = q[i + 1]
      /\ Head(q) = q[1]
  BY TailIs
<1>2. 1 \in DOMAIN q
  BY <1>1
<1> QED BY <1>1, <1>2 DEF DownFits

LEMMA TodoTail ==
  ASSUME NEW q \in Seq(Muts), q # <<>>, NEW last, TodoFits(q, last)
  PROVE  TodoFits(Tail(q), last) /\ Head(q).id \in 1..last
<1>1. /\ DOMAIN Tail(q) = 1..(Len(q) - 1) /\ DOMAIN q = 1..Len(q) /\ Len(q) \in Nat \ {0}
      /\ \A i \in 1..(Len(q) - 1) : i + 1 \in 1..Len(q) /\ Tail(q)[i] = q[i + 1]
      /\ Head(q) = q[1]
  BY TailIs
<1>2. 1 \in DOMAIN q
  BY <1>1
<1> QED BY <1>1, <1>2 DEF TodoFits

\* Later versions and ids only make room.
LEMMA UpGrows ==
  ASSUME NEW q \in Seq(Upward), NEW version \in Nat, NEW version2 \in Nat, version <= version2,
         NEW last \in Nat, NEW last2 \in Nat, last <= last2, UpFits(q, version, last)
  PROVE  UpFits(q, version2, last2)
<1>1. ASSUME NEW i \in DOMAIN q PROVE UpBound(q[i], version2, last2)
  <2>1. q[i] \in Upward /\ UpBound(q[i], version, last)
    BY DEF UpFits
  <2>2. q[i].type = "hello" => q[i].cursor \in Nat
    BY <2>1 DEF Upward
  <2>3. 1..last \subseteq 1..last2
    OBVIOUS
  <2> QED BY <2>1, <2>2, <2>3 DEF UpBound
<1> QED BY <1>1 DEF UpFits

LEMMA DownGrows ==
  ASSUME NEW q \in Seq(Downward), NEW version \in Nat, NEW version2 \in Nat, version <= version2,
         NEW id \in Nat, NEW id2 \in Nat, id <= id2, DownFits(q, version, id)
  PROVE  DownFits(q, version2, id2)
<1>1. ASSUME NEW i \in DOMAIN q PROVE DownBound(q[i], version2, id2)
  <2>1. q[i] \in Downward /\ DownBound(q[i], version, id)
    BY DEF DownFits
  <2>2. /\ q[i].type = "part" => q[i].lmid \in Nat
        /\ q[i].type = "end" => q[i].cursor \in Nat
    BY <2>1 DEF Downward
  <2> QED BY <2>1, <2>2 DEF DownBound
<1> QED BY <1>1 DEF DownFits

LEMMA UpMore ==
  ASSUME NEW q \in Seq(Upward), NEW frame \in Upward, NEW version, NEW last,
         UpFits(q, version, last), UpBound(frame, version, last)
  PROVE  UpFits(Append(q, frame), version, last)
<1>1. /\ DOMAIN Append(q, frame) = DOMAIN q \cup {Len(q) + 1}
      /\ \A i \in DOMAIN q : Append(q, frame)[i] = q[i]
      /\ Append(q, frame)[Len(q) + 1] = frame
  OBVIOUS
<1> QED BY <1>1 DEF UpFits

\* Two sequences one after the other.
LEMMA JoinIs ==
  ASSUME NEW A, NEW q \in Seq(A), NEW f \in Seq(A)
  PROVE  /\ q \o f \in Seq(A) /\ Len(q \o f) = Len(q) + Len(f) /\ DOMAIN (q \o f) = 1..(Len(q) + Len(f))
         /\ Len(q) \in Nat /\ Len(f) \in Nat
         /\ \A i \in 1..Len(q) : (q \o f)[i] = q[i]
         /\ \A i \in 1..Len(f) : (q \o f)[Len(q) + i] = f[i]
         /\ \A i \in 1..(Len(q) + Len(f)) : i \in 1..Len(q) \/ (i - Len(q) \in 1..Len(f) /\ i = Len(q) + (i - Len(q)))
  OBVIOUS

LEMMA DownMore ==
  ASSUME NEW q \in Seq(Downward), NEW f \in Seq(Downward), NEW version, NEW id,
         DownFits(q, version, id), DownFits(f, version, id)
  PROVE  DownFits(q \o f, version, id)
<1>1. /\ DOMAIN (q \o f) = 1..(Len(q) + Len(f))
      /\ \A i \in 1..Len(q) : (q \o f)[i] = q[i]
      /\ \A i \in 1..Len(f) : (q \o f)[Len(q) + i] = f[i]
      /\ \A i \in 1..(Len(q) + Len(f)) : i \in 1..Len(q) \/ (i - Len(q) \in 1..Len(f) /\ i = Len(q) + (i - Len(q)))
  BY JoinIs
<1>2. DOMAIN q = 1..Len(q) /\ DOMAIN f = 1..Len(f)
  OBVIOUS
<1> QED BY <1>1, <1>2 DEF DownFits

\* A poke says the LMID and the cursor it was made with.
LEMMA FramesFit ==
  ASSUME NEW base \in Nat, NEW ops \in Seq(Ops), NEW id \in Nat, NEW errors \in SUBSET Nat, NEW end \in Nat,
         NEW version \in Nat, end <= version, NEW most \in Nat, id <= most
  PROVE  DownFits(PokeFrames(base, ops, id, errors, end), version, most)
<1> DEFINE f == PokeFrames(base, ops, id, errors, end)
           parts == Packed(ops)
           n == Len(parts)
<1>1. f \in Seq(Downward) /\ FramesOf(f, base, parts, id, errors, end)
  BY FramesAre
<1>2. n \in Nat
  BY PackedAll
<1> HIDE DEF f, parts
<1>3. /\ Len(f) = n + 2 /\ f[1] = StartFrame(base) /\ f[n + 2] = EndFrame(end)
      /\ \A i \in 1..n : f[i + 1] = PartFrame(parts[i], IF i = 1 THEN id ELSE 0, IF i = 1 THEN errors ELSE {})
  BY <1>1 DEF FramesOf
<1> HIDE DEF n
<1>4. DOMAIN f = 1..(n + 2)
  BY <1>1, <1>3
<1>5. \A i \in 1..(n + 2) : i = 1 \/ i = n + 2 \/ (i - 1 \in 1..n /\ i = (i - 1) + 1)
  BY <1>2
<1>6. DownBound(f[1], version, most) /\ DownBound(f[n + 2], version, most)
  BY <1>3 DEF StartFrame, EndFrame, DownBound
<1>7. \A i \in 1..n : DownBound(f[i + 1], version, most)
  <2>1. \A patch, m, e : m <= most => DownBound(PartFrame(patch, m, e), version, most)
    BY DEF PartFrame, DownBound
  <2>2. \A i \in 1..n : (IF i = 1 THEN id ELSE 0) <= most
    OBVIOUS
  <2> QED BY <1>3, <2>1, <2>2
<1>8. DownFits(f, version, most)
  BY <1>4, <1>5, <1>6, <1>7 DEF DownFits
<1> QED BY <1>8 DEF f

LEMMA LastIdNext == (LastId = LastOf(link.confirmed, queue))'
  BY LastIdIs, PTL

LEMMA LastSame ==
  ASSUME link'.confirmed = link.confirmed, queue' = queue
  PROVE  LastId' = LastId
  BY LastIdIs, LastIdNext

\* What a poke leaves of the outbox has no more entries without an id than there were.
LEMMA BlanksLess ==
  ASSUME TypeInv
  PROVE  /\ IsFiniteSet(Blank(queue)) /\ Cardinality(Blank(queue)) \in Nat
         /\ Cardinality(Blank(Unsettled)) <= Cardinality(Blank(queue))
<1> DEFINE kept == {i \in DOMAIN queue : queue[i].id = 0 \/ queue[i].id > ConfirmedNow}
           out == Filtered(queue, kept)
<1>1. queue \in Seq(Entries) /\ DOMAIN queue = 1..Len(queue) /\ Len(queue) \in Nat
  BY DEF TypeInv
<1>2. IsFiniteSet(Blank(queue)) /\ Cardinality(Blank(queue)) \in Nat
  <2>1. IsFiniteSet(1..Len(queue))
    BY <1>1, FS_Interval
  <2>2. Blank(queue) \subseteq 1..Len(queue)
    BY <1>1 DEF Blank
  <2> QED BY <2>1, <2>2, FS_Subset, FS_CardinalityType
<1>3. kept \in SUBSET (1..Len(queue))
  BY <1>1
<1>4. Unsettled = out
  BY DEF Unsettled
<1> HIDE DEF kept
<1>5. PICK m, e : Sieved(queue, kept, m, e, out)
  BY <1>1, <1>3, FilteredIs
<1> HIDE DEF out
<1>6. /\ m \in Nat /\ e \in [1..m -> kept] /\ out = [i \in 1..m |-> queue[e[i]]]
      /\ \A i, j \in 1..m : i < j => e[i] < e[j]
  BY <1>5 DEF Sieved
<1> DEFINE f == [i \in Blank(out) |-> e[i]]
<1>7. Blank(out) = {i \in 1..m : queue[e[i]].id = 0}
  BY <1>6 DEF Blank
<1>8. \A i \in Blank(out) : i \in 1..m /\ e[i] \in 1..Len(queue) /\ e[i] \in Blank(queue)
  <2> TAKE i \in Blank(out)
  <2>1. i \in 1..m /\ queue[e[i]].id = 0
    BY <1>7
  <2>2. e[i] \in kept
    BY <1>6, <2>1
  <2> QED BY <1>1, <1>3, <2>1, <2>2 DEF Blank
<1>9. \A i, j \in Blank(out) : e[i] = e[j] => i = j
  <2> SUFFICES ASSUME NEW i \in Blank(out), NEW j \in Blank(out), e[i] = e[j], i # j PROVE FALSE
    OBVIOUS
  <2>1. i \in 1..m /\ j \in 1..m /\ e[i] \in 1..Len(queue)
    BY <1>8
  <2>2. i < j \/ j < i
    BY <1>6, <2>1
  <2>3. e[i] < e[j] \/ e[j] < e[i]
    BY <1>6, <2>1, <2>2
  <2> QED BY <2>1, <2>3
<1>10. f \in Injection(Blank(out), Blank(queue))
  BY <1>8, <1>9 DEF Injection, IsInjective
<1> HIDE DEF f
<1> QED BY <1>2, <1>4, <1>10, FS_Injection

-----------------------------------------------------------------------------
(* Bounds *)

LEMMA FlushFits ==
  ASSUME NEW entries \in Seq(Entries), NEW confirmed \in Nat, NEW synced, NEW frames \in Seq(Upward),
         NEW version, NEW last \in Nat, UpFits(frames, version, last),
         Len(entries) <= MaxIntents, \A i \in DOMAIN entries : entries[i].id <= last
  PROVE  UpFits(Flushed(entries, confirmed, synced, frames), version, last)
<1> DEFINE pending == Pending(entries, confirmed)
           frame == [type |-> "push", mutations |-> pending]
<1>1. pending \in Seq(Muts) /\ Carries(pending, entries, confirmed)
  BY PendingIs
<1> HIDE DEF pending
<1>2. CASE Flushed(entries, confirmed, synced, frames) = frames
  BY <1>2
<1>3. CASE pending # <<>> /\ Flushed(entries, confirmed, synced, frames) = Append(frames, frame)
  <2>1. Len(pending) \in 1..MaxIntents
    <3>1. Len(pending) <= Len(entries) /\ Len(entries) \in Nat /\ MaxIntents \in Nat
      BY <1>1, CollectionsAssumption DEF Carries
    <3>2. Len(pending) \in Nat \ {0}
      BY <1>1, <1>3
    <3> QED BY <3>1, <3>2
  <2>2. ASSUME NEW i \in DOMAIN pending PROVE pending[i].id \in 1..last
    <3>1. PICK p \in DOMAIN entries : entries[p].id > confirmed /\ pending[i].id = entries[p].id
      BY <1>1 DEF Carries
    <3>2. entries[p] \in Entries
      OBVIOUS
    <3>3. entries[p].id \in Nat
      BY <3>2 DEF Entries
    <3> QED BY <3>1, <3>3
  <2>3. UpBound(frame, version, last) /\ frame \in Upward
    BY <1>1, <2>1, <2>2 DEF UpBound, Upward
  <2> HIDE DEF frame
  <2> QED BY <1>3, <2>3, UpMore
<1>4. \/ Flushed(entries, confirmed, synced, frames) = frames
      \/ pending # <<>> /\ Flushed(entries, confirmed, synced, frames) = Append(frames, frame)
  BY DEF Flushed, pending
<1> QED BY <1>2, <1>3, <1>4

LEMMA BoundNats ==
  ASSUME TypeInv
  PROVE  /\ Version \in Nat \ {0} /\ lmid \in Nat /\ LastId \in Nat /\ link.cursor \in Nat
         /\ link.confirmed \in Nat /\ link.poke.lmid \in Nat /\ issued \in Nat
         /\ Cardinality(Blank(queue)) \in Nat /\ Len(queue) \in Nat
         /\ MaxVersion \in Nat /\ MaxIntents \in Nat
<1>1. /\ LastId \in Nat /\ Cardinality(Blank(queue)) \in Nat
  BY BlanksLess, LastNat
<1>2. Version \in Nat \ {0} /\ lmid \in Nat /\ issued \in Nat
  BY DEF TypeInv
<1>3. link.cursor \in Nat /\ link.confirmed \in Nat /\ link.poke.lmid \in Nat
  BY DEF TypeInv, Links, Pokes
<1>4. Len(queue) \in Nat
  BY DEF TypeInv
<1>5. MaxVersion \in Nat /\ MaxIntents \in Nat
  BY CollectionsAssumption
<1> QED BY <1>1, <1>2, <1>3, <1>4, <1>5

LEMMA BoundServer ==
  ASSUME TypeInv, BoundInv, UNCHANGED <<link, queue, issued>>,
         Version' <= MaxVersion + lmid', lmid' <= LastId, Version' \in Nat, lmid' \in Nat,
         Version' >= Version, lmid' >= lmid,
         UpFits(up', Version', LastId), DownFits(down', Version', lmid'), TodoFits(push'.todo, LastId),
         \A v \in 1..Version' : authors'[v] <= LastId
  PROVE  BoundInv'
<1>1. LastId' = LastId
  BY LastSame
<1>2. link.confirmed <= lmid /\ link.poke.lmid <= lmid /\ link.cursor <= Version
  BY DEF BoundInv
<1>3. link.confirmed <= lmid' /\ link.poke.lmid <= lmid' /\ link.cursor <= Version'
  BY <1>2, BoundNats
<1>4. /\ issued <= MaxIntents /\ Len(queue) <= issued /\ LastId + Cardinality(Blank(queue)) <= issued
      /\ link.synced => Blank(queue) = {}
  BY DEF BoundInv
<1>5. Blank(queue)' = Blank(queue)
  BY DEF Blank
<1> QED BY <1>1, <1>3, <1>4, <1>5 DEF BoundInv

LEMMA CommitGrows ==
  ASSUME HistTyped, NEW r, InOrder(Now, r), NEW author \in Nat, Committed(r, author),
         NEW last, author <= last, \A v \in 1..Version : authors[v] <= last
  PROVE  /\ Version' \in Nat /\ (Version' = Version \/ Version' = Version + 1)
         /\ \A v \in 1..Version' : authors'[v] <= last
         /\ \A v \in 1..Version : snaps'[v] = snaps[v]
<1>1. CASE UNCHANGED <<rows, snaps, authors, event>>
  BY <1>1 DEF Version, HistTyped
<1>2. CASE CommittedTo(r, author)
  <2>1. /\ Version' = Version + 1 /\ authors'[Version + 1] = author
        /\ \A v \in 1..Version : authors'[v] = authors[v] /\ snaps'[v] = snaps[v]
    BY <1>2, CommitSnaps DEF HistTyped
  <2>2. Version \in Nat /\ \A v \in 1..(Version + 1) : v \in 1..Version \/ v = Version + 1
    BY DEF HistTyped
  <2> QED BY <2>1, <2>2
<1> QED BY <1>1, <1>2, CommittedIs

\* What a client's step must show: the workspace has not moved.
LEMMA BoundClient ==
  ASSUME TypeInv, BoundInv, UNCHANGED serverVars,
         LastId' \in Nat, LastId' >= LastId, link'.confirmed <= lmid, link'.poke.lmid <= lmid,
         link'.cursor <= Version, issued' <= MaxIntents, Len(queue') <= issued',
         LastId' + Cardinality(Blank(queue')) <= issued', link'.synced => Blank(queue') = {},
         UpFits(up', Version, LastId'), DownFits(down', Version, lmid)
  PROVE  BoundInv'
<1>1. Version' = Version /\ lmid' = lmid /\ authors' = authors /\ push' = push
  BY DEF serverVars, Version
<1>2. /\ Version <= MaxVersion + lmid /\ lmid <= LastId /\ TodoFits(push.todo, LastId)
      /\ \A v \in 1..Version : authors[v] <= LastId
  BY DEF BoundInv
<1>3. lmid <= LastId'
  BY <1>2, BoundNats
<1>4. \A v \in 1..Version : authors[v] <= LastId'
  <2>1. \A v \in 1..Version : authors[v] \in Nat
    BY DEF TypeInv
  <2> QED BY <1>2, <2>1, BoundNats
<1>5. TodoFits(push.todo, LastId')
  <2>1. 1..LastId \subseteq 1..LastId'
    BY BoundNats
  <2> QED BY <1>2, <2>1 DEF TodoFits
<1> QED BY <1>1, <1>2, <1>3, <1>4, <1>5 DEF BoundInv, Blank

LEMMA BoundOther ==
  ASSUME TypeInv, BoundInv, HistInv, NEW program \in Others, OtherCommits(program)
  PROVE  BoundInv'
<1>1. /\ push = Idle /\ Version < MaxVersion /\ Committed(Run(Now, program), 0)
      /\ down' = Sent(PokeFrames(Version, PatchSince(rows', Version), 0, {}, Version + 1))
      /\ UNCHANGED <<lmid, push, ready, up, link, queue, issued, table, counts>>
      /\ Run(Now, program).ok /\ Written(Run(Now, program)) # {}
  BY DEF OtherCommits
<1>2. InOrder(Now, Run(Now, program)) /\ HistTyped
  BY RunTyped, TypeHist, ProgramSteps
<1>3. HistTyped'
  BY <1>1, <1>2, CommitTyped
<1>4. \A v \in 1..Version : authors[v] <= LastId
  BY DEF BoundInv
<1>5. /\ Version' \in Nat /\ (Version' = Version \/ Version' = Version + 1)
      /\ \A v \in 1..Version' : authors'[v] <= LastId
  <2>1. 0 \in Nat /\ 0 <= LastId
    BY BoundNats
  <2> QED BY <1>1, <1>2, <1>4, <2>1, CommitGrows
<1>6. Version + 1 = Version'
  <2>1. CommittedTo(Run(Now, program), 0)
    BY <1>1, CommittedIs
  <2> QED BY <1>2, <2>1, CommitSnaps
<1>7. DownFits(down', Version', lmid)
  <2> DEFINE frames == PokeFrames(Version, PatchSince(rows', Version), 0, {}, Version + 1)
  <2>1. PatchSince(rows', Version) \in Seq(Ops)
    BY <1>3, PatchSinceIs DEF HistTyped, RowRecords
  <2>2. frames \in Seq(Downward) /\ DownFits(frames, Version', lmid)
    <3>1. Version \in Nat /\ Version + 1 \in Nat /\ 0 \in Nat /\ {} \in SUBSET Nat /\ 0 <= lmid /\ lmid \in Nat
          /\ Version + 1 <= Version' /\ Version' \in Nat
      BY <1>6, BoundNats
    <3> QED BY <2>1, <3>1, FramesFit, FramesAre
  <2> HIDE DEF frames
  <2>3. DownFits(down, Version, lmid) /\ down \in Seq(Downward)
    BY DEF BoundInv, TypeInv
  <2>4. DownFits(down, Version', lmid)
    BY <2>3, <1>5, BoundNats, DownGrows
  <2>5. down' = frames \/ down' = down \o frames \/ down' = down
    BY <1>1 DEF Sent, frames
  <2> QED BY <2>2, <2>3, <2>4, <2>5, DownMore
<1>8. UpFits(up', Version', LastId) /\ TodoFits(push'.todo, LastId)
  <2>1. UpFits(up, Version, LastId) /\ up \in Seq(Upward) /\ TodoFits(push.todo, LastId)
    BY DEF BoundInv, TypeInv
  <2>2. UpFits(up, Version', LastId)
    BY <2>1, <1>5, BoundNats, UpGrows
  <2> QED BY <1>1, <2>1, <2>2
<1>9. Version' <= MaxVersion + lmid' /\ lmid' <= LastId /\ lmid' = lmid /\ lmid' >= lmid /\ Version' >= Version
  <2>1. lmid <= LastId
    BY DEF BoundInv
  <2> QED BY <1>1, <1>6, <2>1, BoundNats
<1> QED BY <1>1, <1>5, <1>7, <1>8, <1>9, BoundNats, BoundServer

LEMMA BoundServe ==
  ASSUME TypeInv, BoundInv, ServeHello
  PROVE  BoundInv'
<1> DEFINE cursor == Head(up).cursor
           ops == IF cursor = 0 THEN Bootstrap ELSE PatchSince(rows, cursor)
           frames == PokeFrames(cursor, ops, lmid, {}, Version)
<1>1. /\ up # <<>> /\ Head(up).type = "hello" /\ down' = down \o frames
      /\ up' = Tail(up) /\ UNCHANGED <<serverVars, link, queue, issued, table, counts>>
  BY DEF ServeHello
<1>2. UpFits(up, Version, LastId) /\ DownFits(down, Version, lmid)
      /\ up \in Seq(Upward) /\ down \in Seq(Downward)
  BY DEF BoundInv, TypeInv
<1>3. UpFits(up', Version, LastId)
  BY <1>1, <1>2, UpTail
<1>4. DownFits(down', Version, lmid)
  <2>1. cursor \in Nat
    BY <1>1, <1>2, HeadUp
  <2>2. ops \in Seq(Ops)
    BY <2>1, PatchSinceIs, BootstrapIs DEF TypeInv, RowRecords
  <2>3. Version \in Nat /\ lmid \in Nat /\ {} \in SUBSET Nat /\ Version <= Version /\ lmid <= lmid
    BY BoundNats
  <2> HIDE DEF cursor, ops
  <2>4. frames \in Seq(Downward) /\ DownFits(frames, Version, lmid)
    BY <2>1, <2>2, <2>3, FramesFit, FramesAre
  <2> HIDE DEF frames
  <2> QED BY <1>1, <1>2, <2>4, DownMore
<1>5. link' = link /\ queue' = queue /\ issued' = issued /\ UNCHANGED serverVars
  BY <1>1
<1>6. LastId' = LastId
  BY <1>5, LastSame
<1>7. /\ link.confirmed <= lmid /\ link.poke.lmid <= lmid
      /\ link.cursor <= Version /\ issued <= MaxIntents /\ Len(queue) <= issued
      /\ LastId + Cardinality(Blank(queue)) <= issued /\ (link.synced => Blank(queue) = {})
  BY DEF BoundInv
<1>8. LastId \in Nat /\ LastId >= LastId
  BY BoundNats
<1> HIDE DEF frames, ops, cursor
<1> QED BY <1>3, <1>4, <1>5, <1>6, <1>7, <1>8, BoundClient

LEMMA BoundPush ==
  ASSUME TypeInv, BoundInv, StartPush
  PROVE  BoundInv'
<1>1. /\ up # <<>> /\ Head(up).type = "push" /\ up' = Tail(up)
      /\ push' = [Idle EXCEPT !.todo = Head(up).mutations, !.from = Version]
      /\ UNCHANGED <<rows, snaps, authors, event, lmid, ready, down, link, queue, issued, table, counts>>
  BY DEF StartPush
<1>2. UpFits(up, Version, LastId) /\ up \in Seq(Upward)
  BY DEF BoundInv, TypeInv
<1>3. UpFits(up', Version, LastId) /\ UpBound(Head(up), Version, LastId)
  BY <1>1, <1>2, UpTail
<1>4. TodoFits(push'.todo, LastId)
  <2>1. push'.todo = Head(up).mutations
    BY <1>1 DEF Idle
  <2> QED BY <1>1, <1>3, <2>1 DEF UpBound, TodoFits
<1>5. Version' = Version
  BY <1>1 DEF Version
<1>6. Version <= MaxVersion + lmid /\ lmid <= LastId /\ DownFits(down, Version, lmid)
      /\ \A v \in 1..Version : authors[v] <= LastId
  BY DEF BoundInv
<1>7. Version >= Version /\ lmid >= lmid /\ Version \in Nat /\ lmid \in Nat
  BY BoundNats
<1> QED BY <1>1, <1>3, <1>4, <1>5, <1>6, <1>7, BoundServer

LEMMA BoundHandle ==
  ASSUME TypeInv, BoundInv, HandleMutation
  PROVE  BoundInv'
<1> DEFINE next == Head(push.todo)
           frames == PokeFrames(push.from, PatchSince(rows', push.from), lmid', NextErrors, Version')
<1>1. /\ push.todo # <<>>
      /\ IF Fresh THEN Committed(NextRun, next.id) ELSE UNCHANGED <<rows, snaps, authors, event>>
      /\ lmid' = IF Fresh THEN next.id ELSE lmid
      /\ \/ /\ Len(push.todo) > 1 /\ down' = down
            /\ push' = [push EXCEPT !.todo = Tail(@), !.errors = NextErrors]
         \/ ~(Len(push.todo) > 1) /\ push' = Idle /\ down' = Sent(frames)
      /\ UNCHANGED <<ready, up, link, queue, issued, table, restarts, cuts>>
  BY HandleIs
<1>2. push \in Pushing /\ push.todo \in Seq(Muts) /\ push.from \in Nat /\ push.errors \in SUBSET Nat
  BY DEF TypeInv, Pushing
<1>3. /\ Version <= MaxVersion + lmid /\ lmid <= LastId /\ TodoFits(push.todo, LastId)
      /\ \A v \in 1..Version : authors[v] <= LastId
      /\ UpFits(up, Version, LastId) /\ DownFits(down, Version, lmid)
  BY DEF BoundInv
<1>4. next.id \in 1..LastId /\ TodoFits(Tail(push.todo), LastId) /\ next.program \in Seq(Steps)
      /\ next.id \in Nat
  BY <1>1, <1>2, <1>3, TodoTail, HeadMuts
<1>5. /\ lmid' \in Nat /\ lmid' >= lmid /\ lmid' <= LastId /\ (Fresh => lmid' >= lmid + 1)
  BY <1>1, <1>3, <1>4, BoundNats DEF Fresh
<1>6. HistTyped' /\ Version' \in Nat /\ (Version' = Version \/ (Fresh /\ Version' = Version + 1))
      /\ \A v \in 1..Version' : authors'[v] <= LastId
  <2>1. HistTyped /\ InOrder(Now, NextRun)
    BY <1>4, TypeHist, RunTyped DEF NextRun
  <2>2. CASE Fresh
    <3>1. Committed(NextRun, next.id) /\ next.id <= LastId
      BY <1>1, <1>4, <2>2, BoundNats
    <3>2. HistTyped'
      BY <1>4, <2>1, <3>1, CommitTyped
    <3>3. /\ Version' \in Nat /\ (Version' = Version \/ Version' = Version + 1)
          /\ \A v \in 1..Version' : authors'[v] <= LastId
      BY <1>3, <1>4, <2>1, <3>1, CommitGrows
    <3> QED BY <2>2, <3>2, <3>3
  <2>3. CASE ~Fresh
    <3>1. UNCHANGED <<rows, snaps, authors>>
      BY <1>1, <2>3
    <3>2. Version' = Version
      BY <3>1 DEF Version
    <3> QED BY <1>3, <2>1, <3>1, <3>2, HistSame, BoundNats
  <2> QED BY <2>2, <2>3
<1>7. Version' <= MaxVersion + lmid' /\ Version' >= Version
  BY <1>3, <1>5, <1>6, BoundNats
<1>8. DownFits(down, Version', lmid') /\ UpFits(up, Version', LastId) /\ down \in Seq(Downward)
      /\ up \in Seq(Upward)
  BY <1>3, <1>5, <1>6, <1>7, BoundNats, DownGrows, UpGrows DEF TypeInv
<1>9. frames \in Seq(Downward) /\ DownFits(frames, Version', lmid')
  <2>1. PatchSince(rows', push.from) \in Seq(Ops)
    BY <1>6, PatchSinceIs DEF HistTyped, RowRecords
  <2>2. NextErrors \in SUBSET Nat
    BY <1>2, <1>4 DEF NextErrors
  <2>3. Version' <= Version' /\ lmid' <= lmid'
    BY <1>5, <1>6
  <2> QED BY <1>2, <1>5, <1>6, <2>1, <2>2, <2>3, FramesFit, FramesAre
<1> HIDE DEF frames, next
<1>10. DownFits(down', Version', lmid')
  <2>1. down' = down \/ down' = Sent(frames)
    BY <1>1
  <2>2. down' = down \/ down' = down \o frames
    BY <2>1 DEF Sent
  <2> QED BY <1>8, <1>9, <2>2, DownMore
<1>11. TodoFits(push'.todo, LastId)
  <2>1. push'.todo = Tail(push.todo) \/ push'.todo = <<>>
    <3>1. push' = Idle \/ push' = [push EXCEPT !.todo = Tail(@), !.errors = NextErrors]
      BY <1>1
    <3>2. [push EXCEPT !.todo = Tail(@), !.errors = NextErrors].todo = Tail(push.todo)
      BY <1>2 DEF Pushing
    <3>3. Idle.todo = <<>>
      BY DEF Idle
    <3> QED BY <3>1, <3>2, <3>3
  <2>2. TodoFits(<<>>, LastId)
    BY DEF TodoFits
  <2> QED BY <1>4, <2>1, <2>2
<1>12. UpFits(up', Version', LastId)
  BY <1>1, <1>8
<1> QED BY <1>1, <1>5, <1>6, <1>7, <1>10, <1>11, <1>12, BoundServer

\* What is not touched by a step of the client keeps its bounds.
BoundNow ==
  /\ LastId \in Nat /\ LastId >= LastId
  /\ link.confirmed <= lmid /\ link.poke.lmid <= lmid
  /\ link.cursor <= Version /\ issued <= MaxIntents /\ Len(queue) <= issued
  /\ LastId + Cardinality(Blank(queue)) <= issued /\ (link.synced => Blank(queue) = {})
  /\ UpFits(up, Version, LastId) /\ DownFits(down, Version, lmid)
  /\ up \in Seq(Upward) /\ down \in Seq(Downward) /\ link \in Links
  /\ Version \in Nat /\ lmid \in Nat

LEMMA BoundIs == ASSUME TypeInv, BoundInv PROVE BoundNow
<1>1. LastId \in Nat /\ Version \in Nat /\ lmid \in Nat
  BY BoundNats
<1> QED BY <1>1 DEF BoundNow, BoundInv, TypeInv

\* A step that leaves the outbox and the confirmation alone.
LEMMA BoundQuiet ==
  ASSUME TypeInv, BoundInv, UNCHANGED <<serverVars, queue, issued>>,
         link'.confirmed = link.confirmed, link'.poke.lmid <= lmid,
         link'.cursor <= Version, link'.synced => link.synced,
         UpFits(up', Version, LastId), DownFits(down', Version, lmid)
  PROVE  BoundInv'
<1>1. LastId' = LastId
  BY LastSame
<1>2. BoundNow
  BY BoundIs
<1>3. UNCHANGED serverVars /\ queue' = queue /\ issued' = issued
  OBVIOUS
<1>4. LastId' \in Nat /\ LastId' >= LastId /\ link'.confirmed <= lmid /\ issued' <= MaxIntents
      /\ Len(queue') <= issued' /\ LastId' + Cardinality(Blank(queue')) <= issued'
      /\ (link'.synced => Blank(queue') = {}) /\ UpFits(up', Version, LastId')
  BY <1>1, <1>2, <1>3 DEF BoundNow
<1> QED BY <1>3, <1>4, BoundClient

LEMMA HelloFits ==
  ASSUME NEW cursor \in Nat, NEW version, cursor <= version, NEW last
  PROVE  UpBound(Hello(cursor), version, last) /\ UpFits(<<Hello(cursor)>>, version, last)
  BY DEF UpBound, Hello, UpFits

LEMMA RegisterFits ==
  ASSUME TypeInv, BoundInv, Register
  PROVE  /\ link'.confirmed = link.confirmed /\ link'.poke = link.poke /\ link'.synced = link.synced
         /\ link'.cursor <= Version /\ UpFits(up', Version, LastId)
<1>1. BoundNow
  BY BoundIs
<1>2. CASE link.synced
  <2>1. link' = [link EXCEPT !.cursor = 0, !.awaiting = link.socket = "open"]
        /\ (up' = up \/ up' = Append(up, Hello(0)))
    BY <1>2 DEF Register
  <2>2. UpBound(Hello(0), Version, LastId) /\ Hello(0) \in Upward
    <3>1. 0 \in Nat /\ 0 <= Version
      BY BoundNats
    <3>2. Hello(0) \in Upward
      BY DEF Hello, Upward
    <3> QED BY <3>1, <3>2, HelloFits
  <2>3. UpFits(up', Version, LastId)
    BY <1>1, <2>1, <2>2, UpMore DEF BoundNow
  <2>4. link'.confirmed = link.confirmed /\ link'.poke = link.poke /\ link'.synced = link.synced /\ link'.cursor = 0
    BY <1>1, <2>1 DEF BoundNow, Links
  <2>5. 0 <= Version
    BY BoundNats
  <2> QED BY <2>3, <2>4, <2>5
<1>3. CASE ~link.synced
  <2>1. link' = link /\ up' = up
    BY <1>3 DEF Register
  <2> QED BY <1>1, <2>1 DEF BoundNow
<1> QED BY <1>2, <1>3

LEMMA BoundTables ==
  ASSUME TypeInv, BoundInv, NEW t \in Tables, Create(t) \/ Start(t) \/ Cleanup(t) \/ Restart(t)
  PROVE  BoundInv'
<1>1. BoundNow
  BY BoundIs
<1>2. CASE Create(t) \/ Restart(t)
  <2>1. Register /\ UNCHANGED <<serverVars, ready, down, queue, issued, counts>>
    BY <1>2 DEF Create, Restart
  <2>2. UNCHANGED <<serverVars, queue, issued>> /\ down' = down
    BY <2>1
  <2>3. link'.confirmed = link.confirmed /\ link'.poke = link.poke /\ link'.synced = link.synced
        /\ link'.cursor <= Version /\ UpFits(up', Version, LastId)
    BY <2>1, RegisterFits
  <2>4. link.poke.lmid <= lmid /\ DownFits(down, Version, lmid)
    BY <1>1 DEF BoundNow
  <2>5. DownFits(down', Version, lmid) /\ link'.poke.lmid <= lmid
    BY <2>2, <2>3, <2>4
  <2> QED BY <2>2, <2>3, <2>5, BoundQuiet
<1>3. CASE Start(t) \/ Cleanup(t)
  <2>1. UNCHANGED <<serverVars, queue, issued>> /\ link' = link /\ up' = up /\ down' = down
    BY <1>3 DEF Start, Cleanup
  <2>2. /\ link.poke.lmid <= lmid /\ link.cursor <= Version
        /\ UpFits(up, Version, LastId) /\ DownFits(down, Version, lmid)
    BY <1>1 DEF BoundNow
  <2> QED BY <2>1, <2>2, BoundQuiet
<1> QED BY <1>2, <1>3

LEMMA BoundHydrate ==
  ASSUME TypeInv, BoundInv, NEW cursor \in {0} \cup (IF Cached THEN 1..Version ELSE {}), Hydrate(cursor)
  PROVE  BoundInv'
<1>1. BoundNow
  BY BoundIs
<1>2. /\ link' = [link EXCEPT !.started = TRUE, !.cursor = cursor]
      /\ UNCHANGED <<serverVars, queue, issued>> /\ up' = up /\ down' = down
  BY HydrateIs
<1>3. link'.confirmed = link.confirmed /\ link'.poke = link.poke /\ link'.synced = link.synced /\ link'.cursor = cursor
  BY <1>1, <1>2 DEF BoundNow, Links
<1>4. cursor <= Version
  BY BoundNats
<1>5. /\ link.poke.lmid <= lmid /\ UpFits(up, Version, LastId) /\ DownFits(down, Version, lmid)
  BY <1>1 DEF BoundNow
<1>6. UpFits(up', Version, LastId) /\ DownFits(down', Version, lmid) /\ link'.poke.lmid <= lmid /\ link'.cursor <= Version
  BY <1>2, <1>3, <1>4, <1>5
<1> QED BY <1>2, <1>3, <1>6, BoundQuiet

LEMMA BoundLink ==
  ASSUME TypeInv, BoundInv, Dial \/ Open \/ Cut
  PROVE  BoundInv'
<1>1. BoundNow
  BY BoundIs
<1>2. /\ UNCHANGED <<serverVars, queue, issued>>
      /\ \/ link' = [link EXCEPT !.socket = "dialling", !.synced = FALSE]
         \/ link' = [link EXCEPT !.socket = "open", !.awaiting = TRUE]
         \/ link' = [link EXCEPT !.socket = "none", !.awaiting = FALSE, !.poke = NoPoke]
      /\ up' = up \/ up' = <<Hello(link.cursor)>> \/ up' = <<>>
      /\ down' = down \/ down' = <<>>
  BY DEF Dial, Open, Cut
<1>3. link'.confirmed = link.confirmed /\ (link'.poke = link.poke \/ link'.poke = NoPoke)
      /\ (link'.synced => link.synced) /\ link'.cursor = link.cursor /\ link.cursor \in Nat
  BY <1>1, <1>2 DEF BoundNow, Links
<1>4. /\ link.poke.lmid <= lmid /\ UpFits(up, Version, LastId) /\ DownFits(down, Version, lmid)
      /\ link.cursor <= Version
  BY <1>1 DEF BoundNow
<1>5. UpFits(<<>>, Version, LastId) /\ DownFits(<<>>, Version, lmid)
  BY DEF UpFits, DownFits
<1>6. NoPoke.lmid <= lmid
  BY BoundNats DEF NoPoke
<1>7. UpFits(<<Hello(link.cursor)>>, Version, LastId)
  BY <1>3, <1>4, HelloFits
<1>8. UpFits(up', Version, LastId) /\ DownFits(down', Version, lmid) /\ link'.poke.lmid <= lmid /\ link'.cursor <= Version
  BY <1>2, <1>3, <1>4, <1>5, <1>6, <1>7
<1> QED BY <1>2, <1>3, <1>8, BoundQuiet

LEMMA BoundReads ==
  ASSUME TypeInv, BoundInv, PokeStart \/ PokePart \/ DropPoke
  PROVE  BoundInv'
<1>1. BoundNow
  BY BoundIs
<1>2. DownFits(down, Version, lmid) /\ UpFits(up, Version, LastId) /\ link.cursor <= Version
      /\ link \in Links /\ up \in Seq(Upward) /\ down \in Seq(Downward) /\ link.poke.lmid <= lmid
  BY <1>1 DEF BoundNow
<1>3. down # <<>> /\ down' = Tail(down) /\ UNCHANGED <<serverVars, queue, issued>>
  BY StartIs, PartIs, DropIs
<1>4. DownFits(down', Version, lmid) /\ DownBound(Head(down), Version, lmid)
  BY <1>2, <1>3, DownTail
<1>5. NoPoke.lmid <= lmid
  BY BoundNats DEF NoPoke
<1>6. link.poke \in Pokes
  BY <1>2 DEF Links
<1>7. CASE PokeStart
  <2>1. up' = up /\ link' = [link EXCEPT !.poke = [NoPoke EXCEPT !.base = Head(down).base,
                                                  !.mismatch = Head(down).base # link.cursor]]
    BY <1>7, StartIs
  <2>2. [NoPoke EXCEPT !.base = Head(down).base, !.mismatch = Head(down).base # link.cursor].lmid = NoPoke.lmid
    BY DEF NoPoke
  <2>3. link'.confirmed = link.confirmed /\ link'.poke.lmid <= lmid /\ link'.cursor <= Version
        /\ link'.synced = link.synced
    BY <1>2, <1>5, <2>1, <2>2 DEF Links
  <2> QED BY <1>2, <1>3, <1>4, <2>1, <2>3, BoundQuiet
<1>8. CASE PokePart
  <2>1. up' = up /\ link' = [link EXCEPT !.poke = PartRead] /\ Head(down).type = "part"
    BY <1>8, PartIs
  <2>2. PartRead.lmid = (IF Head(down).lmid = 0 THEN link.poke.lmid ELSE Head(down).lmid)
    BY <1>6 DEF PartRead, Pokes
  <2>3. PartRead.lmid <= lmid
    BY <1>2, <1>4, <2>1, <2>2 DEF DownBound
  <2>4. link'.confirmed = link.confirmed /\ link'.poke.lmid <= lmid /\ link'.cursor <= Version
        /\ link'.synced = link.synced
    BY <1>2, <2>1, <2>3 DEF Links
  <2> QED BY <1>2, <1>3, <1>4, <2>1, <2>4, BoundQuiet
<1>9. CASE DropPoke
  <2>1. link' = [link EXCEPT !.poke = NoPoke, !.awaiting = TRUE]
        /\ (up' = up \/ up' = Append(up, Hello(link.cursor)))
    BY <1>9, DropIs
  <2>2. link'.confirmed = link.confirmed /\ link'.poke.lmid <= lmid /\ link'.cursor <= Version
        /\ link'.synced = link.synced
    BY <1>2, <1>5, <2>1 DEF Links
  <2>3. link.cursor \in Nat
    BY <1>2 DEF Links
  <2>4. UpBound(Hello(link.cursor), Version, LastId) /\ Hello(link.cursor) \in Upward
    <3>1. Hello(link.cursor) \in Upward
      BY <2>3 DEF Hello, Upward
    <3> QED BY <1>2, <2>3, <3>1, HelloFits
  <2>5. UpFits(up', Version, LastId)
    BY <1>2, <2>1, <2>4, UpMore
  <2> QED BY <1>3, <1>4, <2>2, <2>5, BoundQuiet
<1> QED BY <1>7, <1>8, <1>9

\* One entry more in an outbox.
LEMMA LastMore ==
  ASSUME NEW confirmed \in Nat, NEW q \in Seq(Entries), NEW entry \in Entries
  PROVE  /\ LastOf(confirmed, Append(q, entry)) \in Nat
         /\ LastOf(confirmed, Append(q, entry)) >= LastOf(confirmed, q)
         /\ LastOf(confirmed, Append(q, entry)) <= IF entry.id > LastOf(confirmed, q) THEN entry.id ELSE LastOf(confirmed, q)
         /\ LastOf(confirmed, q) \in Nat /\ entry.id \in Nat
<1> DEFINE new == Append(q, entry)
<1>1. new \in Seq(Entries) /\ DOMAIN new = DOMAIN q \cup {Len(q) + 1}
      /\ (\A i \in DOMAIN q : new[i] = q[i]) /\ new[Len(q) + 1] = entry
  OBVIOUS
<1> HIDE DEF new
<1>2. /\ LastOf(confirmed, new) \in Nat /\ LastOf(confirmed, new) >= confirmed
      /\ \A i \in DOMAIN new : new[i].id \in Nat /\ LastOf(confirmed, new) >= new[i].id
      /\ LastOf(confirmed, new) = confirmed \/ \E i \in DOMAIN new : LastOf(confirmed, new) = new[i].id
  BY <1>1, LastIs
<1>3. /\ LastOf(confirmed, q) \in Nat /\ LastOf(confirmed, q) >= confirmed
      /\ \A i \in DOMAIN q : q[i].id \in Nat /\ LastOf(confirmed, q) >= q[i].id
      /\ LastOf(confirmed, q) = confirmed \/ \E i \in DOMAIN q : LastOf(confirmed, q) = q[i].id
  BY LastIs
<1>4. entry.id \in Nat
  BY DEF Entries
<1>5. LastOf(confirmed, new) >= LastOf(confirmed, q)
  <2>1. CASE LastOf(confirmed, q) = confirmed
    BY <1>2, <2>1
  <2>2. ASSUME NEW i \in DOMAIN q, LastOf(confirmed, q) = q[i].id PROVE LastOf(confirmed, new) >= LastOf(confirmed, q)
    BY <1>1, <1>2, <2>2
  <2> QED BY <1>3, <2>1, <2>2
<1>6. LastOf(confirmed, new) <= IF entry.id > LastOf(confirmed, q) THEN entry.id ELSE LastOf(confirmed, q)
  <2>1. CASE LastOf(confirmed, new) = confirmed
    BY <1>3, <1>4, <2>1
  <2>2. ASSUME NEW i \in DOMAIN new, LastOf(confirmed, new) = new[i].id
        PROVE LastOf(confirmed, new) <= IF entry.id > LastOf(confirmed, q) THEN entry.id ELSE LastOf(confirmed, q)
    <3>1. CASE i \in DOMAIN q
      BY <1>1, <1>3, <1>4, <2>2, <3>1
    <3>2. CASE i = Len(q) + 1
      BY <1>1, <1>3, <1>4, <2>2, <3>2
    <3> QED BY <1>1, <3>1, <3>2
  <2> QED BY <1>2, <2>1, <2>2
<1> QED BY <1>2, <1>3, <1>4, <1>5, <1>6 DEF new

LEMMA BlankMore ==
  ASSUME NEW q \in Seq(Entries), NEW entry \in Entries, IsFiniteSet(Blank(q))
  PROVE  /\ entry.id # 0 => Blank(Append(q, entry)) = Blank(q)
         /\ Cardinality(Blank(Append(q, entry))) <= Cardinality(Blank(q)) + 1
         /\ Cardinality(Blank(Append(q, entry))) \in Nat
<1> DEFINE new == Append(q, entry)
<1>1. new \in Seq(Entries) /\ DOMAIN new = DOMAIN q \cup {Len(q) + 1}
      /\ (\A i \in DOMAIN q : new[i] = q[i]) /\ new[Len(q) + 1] = entry
  OBVIOUS
<1> HIDE DEF new
<1>2. entry.id # 0 => Blank(new) = Blank(q)
  BY <1>1 DEF Blank
<1>3. entry.id = 0 => Blank(new) = Blank(q) \cup {Len(q) + 1}
  BY <1>1 DEF Blank
<1>4. Cardinality(Blank(q)) \in Nat
  BY FS_CardinalityType
<1>5. ASSUME entry.id = 0
      PROVE  Cardinality(Blank(new)) \in Nat /\ Cardinality(Blank(new)) <= Cardinality(Blank(q)) + 1
  <2>1. Cardinality(Blank(q) \cup {Len(q) + 1}) =
          IF Len(q) + 1 \in Blank(q) THEN Cardinality(Blank(q)) ELSE Cardinality(Blank(q)) + 1
    BY FS_AddElement
  <2>2. Cardinality(Blank(new)) = IF Len(q) + 1 \in Blank(q) THEN Cardinality(Blank(q)) ELSE Cardinality(Blank(q)) + 1
    BY <1>3, <1>5, <2>1
  <2> QED BY <1>4, <2>2
<1>6. ASSUME entry.id # 0
      PROVE  Cardinality(Blank(new)) \in Nat /\ Cardinality(Blank(new)) <= Cardinality(Blank(q)) + 1
  BY <1>2, <1>4, <1>6
<1>7. Cardinality(Blank(new)) \in Nat /\ Cardinality(Blank(new)) <= Cardinality(Blank(q)) + 1
  BY <1>5, <1>6
<1> QED BY <1>2, <1>7 DEF new

LEMMA BoundMutate ==
  ASSUME TypeInv, BoundInv, NEW program \in Programs, Mutate(program)
  PROVE  BoundInv'
<1>1. BoundNow
  BY BoundIs
<1>2. PICK entry : /\ EntryOf(program, entry) /\ queue' = Append(queue, entry)
                   /\ up' = Flushed(queue', link.confirmed, link.synced, up)
                   /\ queue' \in Seq(Entries)
                   /\ push = Idle /\ issued < MaxIntents /\ issued' = issued + 1
                   /\ UNCHANGED <<serverVars, ready, down, link, table, restarts, cuts>>
  BY MutateIs
<1>3. entry \in Entries /\ entry.id = (IF link.synced THEN LastId + 1 ELSE 0)
  BY <1>2 DEF EntryOf
<1>4. queue \in Seq(Entries) /\ link.confirmed \in Nat /\ Len(queue') = Len(queue) + 1 /\ Len(queue) \in Nat
      /\ Len(queue') \in Nat
  BY <1>2, BoundNats DEF TypeInv
<1>5. LastId' = LastOf(link.confirmed, queue')
  BY <1>2, LastIdNext
<1>6. LastId = LastOf(link.confirmed, queue)
  BY LastIdIs
<1>7. LastId' \in Nat /\ LastId' >= LastId /\ LastId' <= (IF entry.id > LastId THEN entry.id ELSE LastId)
  BY <1>2, <1>3, <1>4, <1>5, <1>6, LastMore
<1>8. /\ entry.id # 0 => Blank(queue') = Blank(queue)
      /\ Cardinality(Blank(queue')) <= Cardinality(Blank(queue)) + 1
      /\ Cardinality(Blank(queue')) \in Nat
  BY <1>2, <1>3, <1>4, BlankMore, BlanksLess
<1>9. /\ LastId + Cardinality(Blank(queue)) <= issued /\ (link.synced => Blank(queue) = {})
      /\ LastId \in Nat /\ Len(queue) <= issued /\ link.confirmed <= lmid /\ link.poke.lmid <= lmid
      /\ link.cursor <= Version
  BY <1>1 DEF BoundNow
<1>10. LastId' + Cardinality(Blank(queue')) <= issued'
  <2>1. CASE link.synced
    <3>1. LastId' <= LastId + 1 /\ Blank(queue') = Blank(queue)
      BY <1>3, <1>7, <1>8, <1>9, <2>1
    <3>2. Cardinality(Blank(queue')) = Cardinality(Blank(queue)) /\ Cardinality(Blank(queue)) \in Nat
      BY <3>1, BlanksLess
    <3>3. LastId \in Nat /\ LastId' \in Nat /\ issued \in Nat /\ issued' = issued + 1
          /\ LastId + Cardinality(Blank(queue)) <= issued /\ LastId' <= LastId + 1
      BY <1>2, <1>7, <1>9, <3>1, BoundNats
    <3> QED BY <3>2, <3>3
  <2>2. CASE ~link.synced
    <3>1. LastId' <= LastId
      BY <1>3, <1>7, <1>9, <2>2
    <3>2. LastId \in Nat /\ LastId' \in Nat /\ issued \in Nat /\ issued' = issued + 1
          /\ LastId + Cardinality(Blank(queue)) <= issued /\ Cardinality(Blank(queue)) \in Nat
      BY <1>2, <1>7, <1>9, BoundNats
    <3> QED BY <1>8, <3>1, <3>2
  <2> QED BY <2>1, <2>2
<1>11. link.synced => Blank(queue') = {}
  BY <1>3, <1>8, <1>9
<1>12. issued' <= MaxIntents /\ Len(queue') <= issued'
  BY <1>2, <1>4, <1>9, BoundNats
<1>13. UpFits(up', Version, LastId')
  <2>1. \A i \in DOMAIN queue' : queue'[i].id <= LastId'
    BY <1>2, <1>4, <1>5, LastIs
  <2>2. Len(queue') <= MaxIntents
    BY <1>2, <1>4, <1>12, BoundNats
  <2>3. UpFits(up, Version, LastId')
    <3>1. UpFits(up, Version, LastId) /\ up \in Seq(Upward) /\ Version \in Nat /\ Version <= Version
      BY <1>1 DEF BoundNow
    <3> QED BY <1>7, <1>9, <3>1, UpGrows
  <2>4. up \in Seq(Upward)
    BY <1>1 DEF BoundNow
  <2> QED BY <1>2, <1>4, <1>7, <2>1, <2>2, <2>3, <2>4, FlushFits
<1>14. link' = link /\ down' = down /\ UNCHANGED serverVars /\ DownFits(down, Version, lmid)
  BY <1>1, <1>2 DEF BoundNow
<1> QED BY <1>7, <1>9, <1>10, <1>11, <1>12, <1>13, <1>14, BoundClient

\* The outbox after a poke: no entry is without an id, and the last one has grown by as many as
\* had none.
LEMMA LastApplied ==
  ASSUME TypeInv, BoundInv, ApplyPoke
  PROVE  /\ LastId' \in Nat /\ LastId' >= LastId /\ Blank(queue') = {}
         /\ LastId' <= LastId + Cardinality(Blank(queue))
         /\ queue' \in Seq(Entries) /\ Len(queue') <= Len(queue) /\ ConfirmedNow <= lmid
<1>1. /\ link' = [link EXCEPT !.poke = NoPoke, !.cursor = Head(down).cursor, !.awaiting = FALSE,
                              !.synced = TRUE, !.confirmed = ConfirmedNow]
      /\ queue' = IF link.synced THEN Unsettled ELSE Numbered
  BY ApplyIs
<1>2. /\ ConfirmedNow \in Nat /\ ConfirmedNow >= link.confirmed
      /\ ConfirmedNow = link.confirmed \/ ConfirmedNow = link.poke.lmid
      /\ Unsettled \in Seq(Entries) /\ Len(Unsettled) <= Len(queue)
      /\ \A i \in DOMAIN Unsettled : \E p \in DOMAIN queue :
           Unsettled[i] = queue[p] /\ (queue[p].id = 0 \/ queue[p].id > ConfirmedNow)
      /\ \A p \in DOMAIN queue : queue[p].id = 0 \/ queue[p].id > ConfirmedNow =>
           \E i \in DOMAIN Unsettled : Unsettled[i] = queue[p]
      /\ TopId \in Nat /\ TopId >= ConfirmedNow /\ TopId >= LastId /\ (TopId = LastId \/ TopId = ConfirmedNow)
  BY UnsettledIs
<1>3. /\ Numbered \in Seq(Entries) /\ DOMAIN Numbered = DOMAIN Unsettled
      /\ Len(Numbered) = Len(Unsettled)
      /\ \A i \in DOMAIN Unsettled :
           /\ Unsettled[i].id # 0 => Numbered[i] = Unsettled[i]
           /\ Unsettled[i].id = 0 => /\ Numbered[i].id > TopId
                                     /\ Numbered[i].id <= TopId + Cardinality(Blank(Unsettled))
      /\ Cardinality(Blank(Unsettled)) \in Nat
  BY NumberedIs
<1>4. /\ lmid <= LastId /\ link.confirmed <= lmid /\ link.poke.lmid <= lmid
      /\ link.synced => Blank(queue) = {}
  BY DEF BoundInv
<1>5. ConfirmedNow <= lmid /\ ConfirmedNow <= LastId /\ TopId = LastId
  BY <1>2, <1>4, BoundNats
<1>6. Cardinality(Blank(Unsettled)) <= Cardinality(Blank(queue)) /\ Cardinality(Blank(queue)) \in Nat
  BY BlanksLess
<1>7. link.synced => Blank(Unsettled) = {}
  <2> SUFFICES ASSUME link.synced, NEW i \in Blank(Unsettled) PROVE FALSE
    OBVIOUS
  <2>1. i \in DOMAIN Unsettled /\ Unsettled[i].id = 0
    BY DEF Blank
  <2>2. PICK p \in DOMAIN queue : Unsettled[i] = queue[p]
    BY <1>2, <2>1
  <2>3. p \in Blank(queue)
    BY <2>1, <2>2 DEF Blank
  <2> QED BY <1>4, <2>3
<1>8. queue' \in Seq(Entries) /\ Len(queue') = Len(Unsettled) /\ DOMAIN queue' = DOMAIN Unsettled
  BY <1>1, <1>2, <1>3
<1>9. \A i \in DOMAIN queue' : queue'[i].id \in Nat \ {0} /\ queue'[i].id <= LastId + Cardinality(Blank(queue))
  <2> TAKE i \in DOMAIN queue'
  <2>1. i \in DOMAIN Unsettled
    BY <1>8
  <2>2. PICK p \in DOMAIN queue : Unsettled[i] = queue[p]
    BY <1>2, <2>1
  <2>3. queue[p].id \in Nat /\ queue[p].id <= LastId
    BY LastNat
  <2>4. queue'[i].id \in Nat
    <3>1. queue'[i] \in Entries
      BY <1>8
    <3> QED BY <3>1 DEF Entries
  <2>5. CASE Unsettled[i].id # 0
    <3>1. queue'[i] = Unsettled[i]
      BY <1>1, <1>3, <2>1, <2>5
    <3> QED BY <1>6, <2>2, <2>3, <2>5, <3>1, BoundNats
  <2>6. CASE Unsettled[i].id = 0
    <3>1. i \in Blank(Unsettled)
      BY <2>1, <2>6 DEF Blank
    <3>2. queue'[i] = Numbered[i]
      BY <1>1, <1>7, <3>1
    <3>3. Numbered[i].id > TopId /\ Numbered[i].id <= TopId + Cardinality(Blank(Unsettled))
      BY <1>3, <2>1, <2>6
    <3> QED BY <1>3, <1>5, <1>6, <2>4, <3>2, <3>3, BoundNats
  <2> QED BY <2>5, <2>6
<1>10. Blank(queue') = {}
  BY <1>9 DEF Blank
<1>11. link'.confirmed = ConfirmedNow
  BY <1>1 DEF TypeInv, Links
<1>12. LastId' = LastOf(ConfirmedNow, queue')
  BY <1>11, LastIdNext
<1>13. /\ LastId' \in Nat /\ LastId' >= ConfirmedNow /\ \A i \in DOMAIN queue' : LastId' >= queue'[i].id
       /\ LastId' = ConfirmedNow \/ \E i \in DOMAIN queue' : LastId' = queue'[i].id
  BY <1>2, <1>8, <1>12, LastIs
<1>14. LastId' <= LastId + Cardinality(Blank(queue))
  BY <1>5, <1>6, <1>9, <1>13, BoundNats, <1>2
<1>15. LastId' >= LastId
  <2>1. LastId = link.confirmed \/ \E p \in DOMAIN queue : LastId = queue[p].id
    BY BoundNats, LastIdIs, LastIs DEF TypeInv
  <2>2. CASE LastId <= ConfirmedNow
    BY <1>13, <2>2, <1>2, BoundNats
  <2>3. CASE ~(LastId <= ConfirmedNow)
    <3>1. LastId # link.confirmed
      BY <1>2, <2>3, BoundNats
    <3>2. PICK p \in DOMAIN queue : LastId = queue[p].id
      BY <2>1, <3>1
    <3>3. queue[p].id > ConfirmedNow
      BY <2>3, <3>2, <1>2, BoundNats
    <3>4. PICK i \in DOMAIN Unsettled : Unsettled[i] = queue[p]
      BY <1>2, <3>3
    <3>5. Unsettled[i].id # 0
      BY <1>2, <3>3, <3>4
    <3>6. queue'[i] = Unsettled[i]
      BY <1>1, <1>3, <3>5
    <3> QED BY <1>8, <1>13, <3>2, <3>4, <3>6
  <2> QED BY <2>2, <2>3
<1> QED BY <1>2, <1>5, <1>8, <1>10, <1>13, <1>14, <1>15

LEMMA BoundApply ==
  ASSUME TypeInv, BoundInv, ApplyPoke
  PROVE  BoundInv'
<1>1. BoundNow
  BY BoundIs
<1>2. /\ down # <<>> /\ Head(down).type = "end" /\ down' = Tail(down)
      /\ link' = [link EXCEPT !.poke = NoPoke, !.cursor = Head(down).cursor, !.awaiting = FALSE,
                              !.synced = TRUE, !.confirmed = ConfirmedNow]
      /\ up' = Flushed(queue', ConfirmedNow, TRUE, up) /\ UNCHANGED serverVars /\ issued' = issued
  BY ApplyIs
<1>3. /\ LastId' \in Nat /\ LastId' >= LastId /\ Blank(queue') = {}
      /\ LastId' <= LastId + Cardinality(Blank(queue))
      /\ queue' \in Seq(Entries) /\ Len(queue') <= Len(queue) /\ ConfirmedNow <= lmid
  BY LastApplied
<1>4. /\ LastId + Cardinality(Blank(queue)) <= issued /\ issued <= MaxIntents /\ Len(queue) <= issued
      /\ UpFits(up, Version, LastId) /\ DownFits(down, Version, lmid)
      /\ up \in Seq(Upward) /\ down \in Seq(Downward) /\ link \in Links
  BY <1>1 DEF BoundNow
<1>5. DownFits(down', Version, lmid) /\ DownBound(Head(down), Version, lmid)
  BY <1>2, <1>4, DownTail
<1>6. link'.cursor <= Version /\ link'.poke.lmid <= lmid /\ link'.confirmed <= lmid
  <2>1. link'.cursor = Head(down).cursor /\ link'.poke = NoPoke /\ link'.confirmed = ConfirmedNow
    BY <1>2, <1>4 DEF Links
  <2>2. NoPoke.lmid <= lmid
    BY BoundNats DEF NoPoke
  <2> QED BY <1>2, <1>3, <1>5, <2>1, <2>2 DEF DownBound
<1>7. Cardinality(Blank(queue')) = 0
  BY <1>3, FS_EmptySet
<1>8. LastId' + Cardinality(Blank(queue')) <= issued' /\ issued' <= MaxIntents /\ Len(queue') <= issued'
      /\ Len(queue') <= MaxIntents
  <2>1. Len(queue') \in Nat
    BY <1>3
  <2> QED BY <1>2, <1>3, <1>4, <1>7, <2>1, BoundNats
<1>9. UpFits(up', Version, LastId')
  <2>1. Version <= Version /\ Version \in Nat /\ LastId \in Nat /\ ConfirmedNow \in Nat
    BY BoundNats, UnsettledIs
  <2>2. UpFits(up, Version, LastId')
    BY <1>3, <1>4, <2>1, UpGrows
  <2>3. \A i \in DOMAIN queue' : queue'[i].id <= LastId'
    <3>1. link'.confirmed = ConfirmedNow
      BY <1>2, <1>4 DEF Links
    <3> QED BY <1>3, <2>1, <3>1, LastIdNext, LastIs
  <2> QED BY <1>2, <1>3, <1>4, <1>8, <2>1, <2>2, <2>3, FlushFits
<1> QED BY <1>2, <1>3, <1>5, <1>6, <1>8, <1>9, BoundClient

LEMMA BoundInit == ASSUME Init PROVE BoundInv
<1>1. TypeInv
  BY FirstTyped
<1>2. /\ queue = <<>> /\ issued = 0 /\ lmid = 0 /\ up = <<>> /\ down = <<>> /\ push = Idle
      /\ link.confirmed = 0 /\ link.cursor = 0 /\ link.poke = NoPoke /\ link.synced = FALSE
      /\ authors = <<0>>
  BY DEF Init
<1>3. Version = 1
  BY DEF Init, Version
<1>4. LastId = 0
  <2>1. LastId = link.confirmed \/ \E p \in DOMAIN queue : LastId = queue[p].id
    BY <1>1, BoundNats, LastIdIs, LastIs DEF TypeInv
  <2> QED BY <1>2, <2>1
<1>5. Blank(queue) = {} /\ Cardinality(Blank(queue)) = 0
  <2>1. Blank(queue) = {}
    BY <1>2 DEF Blank
  <2> QED BY <2>1, FS_EmptySet
<1>6. NoPoke.lmid = 0 /\ Idle.todo = <<>>
  BY DEF NoPoke, Idle
<1>7. UpFits(up, Version, LastId) /\ DownFits(down, Version, lmid) /\ TodoFits(push.todo, LastId)
  BY <1>2, <1>6 DEF UpFits, DownFits, TodoFits
<1>8. \A v \in 1..Version : authors[v] <= LastId
  <2>1. \A v \in 1..1 : v = 1
    OBVIOUS
  <2> QED BY <1>2, <1>3, <1>4, <2>1
<1>9. /\ Version <= MaxVersion + lmid /\ issued <= MaxIntents /\ Len(queue) <= issued
      /\ LastId + Cardinality(Blank(queue)) <= issued
      /\ lmid <= LastId /\ link.confirmed <= lmid /\ link.poke.lmid <= lmid /\ link.cursor <= Version
  BY <1>2, <1>3, <1>4, <1>5, <1>6, CollectionsAssumption
<1> QED BY <1>5, <1>7, <1>8, <1>9 DEF BoundInv

LEMMA BoundStep == ASSUME TypeInv, HistInv, BoundInv, [Next]_vars PROVE BoundInv'
<1>1. CASE UNCHANGED vars
  <2>1. UNCHANGED <<serverVars, up, down, link, queue, issued>>
    BY <1>1 DEF vars
  <2>2. BoundNow
    BY BoundIs
  <2>3. link'.confirmed = link.confirmed /\ link'.poke.lmid <= lmid /\ link'.cursor <= Version
        /\ UpFits(up', Version, LastId) /\ DownFits(down', Version, lmid)
    BY <2>1, <2>2 DEF BoundNow
  <2> QED BY <2>1, <2>3, BoundQuiet
<1>2. CASE Server
  BY <1>2, BoundOther, BoundServe, BoundPush, BoundHandle DEF Server
<1>3. CASE TableEvents
  BY <1>3, BoundTables DEF TableEvents
<1>4. CASE Client
  BY <1>4, BoundMutate, BoundHydrate, BoundLink, BoundReads, BoundApply DEF Client
<1> QED BY <1>1, <1>2, <1>3, <1>4 DEF Next

\* No id, LMID, cursor or frame is past what has been given out, in any reachable state.
THEOREM BoundsHold == Spec => []BoundInv
<1>1. Init => TypeInv /\ HistInv /\ BoundInv
  BY FirstTyped, InitHist, BoundInit
<1>2. TypeInv /\ HistInv /\ BoundInv /\ [Next]_vars => (TypeInv /\ HistInv /\ BoundInv)'
  BY TypeStep, TypeStutter, StepHist, BoundStep
<1> QED BY <1>1, <1>2, PTL DEF Spec

LEMMA CollTyped == ASSUME TypeInv, HistInv, BoundInv PROVE CollTypeOK
<1>1. BoundNow
  BY BoundIs
<1>2. /\ LastId + Cardinality(Blank(queue)) <= issued /\ issued <= MaxIntents /\ lmid <= LastId
      /\ Version <= MaxVersion + lmid /\ (\A v \in 1..Version : authors[v] <= LastId)
      /\ UpFits(up, Version, LastId) /\ link.cursor <= Version
  BY DEF BoundInv
<1>3. LastId <= MaxIntents /\ lmid <= MaxIntents /\ lmid \in 0..MaxIntents
  BY <1>2, BoundNats
<1>4. rows \in [Keys -> [val : Scalars \cup {Deleted}, version : 1..Version]]
  <2>1. rows \in [Keys -> [val : Cells, version : Nat]] /\ Cells = Scalars \cup {Deleted}
    BY DEF TypeInv, Cells
  <2>2. \A k \in Keys : rows[k].version \in 1..Version
    BY DEF HistInv
  <2>3. \A k \in Keys : rows[k] \in [val : Scalars \cup {Deleted}, version : 1..Version]
    BY <2>1, <2>2
  <2> QED BY <2>1, <2>3
<1>5. Version <= MaxVersion + MaxIntents /\ Len(authors) = Version
  BY <1>2, <1>3, BoundNats DEF TypeInv
<1>6. \A v \in 1..Version : snaps[v] \in Rows /\ authors[v] \in 0..MaxIntents
  <2>1. \A v \in 1..Version : snaps[v] \in Rows /\ authors[v] \in Nat
    BY DEF TypeInv, Version
  <2> QED BY <1>2, <1>3, <2>1, BoundNats
<1>7. ASSUME NEW i \in DOMAIN up PROVE up[i] \in Hellos \cup Pushes
  <2>1. up[i] \in Upward /\ UpBound(up[i], Version, LastId)
    BY <1>2 DEF TypeInv, UpFits
  <2>2. CASE up[i] \in [type : {"hello"}, cursor : Nat]
    <3>1. up[i].cursor \in 0..Version
      BY <2>1, <2>2, BoundNats DEF UpBound
    <3> QED BY <2>2, <3>1 DEF Hellos
  <2>3. CASE up[i] \in [type : {"push"}, mutations : Seq(Muts)]
    <3> DEFINE m == up[i].mutations
               n == Len(m)
    <3>1. m \in Seq(Muts) /\ up[i] = [type |-> "push", mutations |-> m] /\ up[i].type = "push"
      BY <2>3
    <3>2. n \in 1..MaxIntents /\ \A p \in DOMAIN m : m[p].id \in 1..LastId
      BY <2>1, <3>1 DEF UpBound
    <3> HIDE DEF m
    <3>3. m \in [1..n -> [id : 1..MaxIntents, program : Programs]]
      <4>1. m \in [1..n -> Muts] /\ DOMAIN m = 1..n
        BY <3>1
      <4>2. 1..LastId \subseteq 1..MaxIntents
        BY <1>3, BoundNats
      <4>3. \A p \in 1..n : m[p].id \in 1..MaxIntents
        BY <3>2, <4>1, <4>2
      <4>4. \A p \in 1..n : m[p] \in [id : 1..MaxIntents, program : Programs]
        BY <4>1, <4>3 DEF Muts
      <4> QED BY <4>1, <4>4
    <3> HIDE DEF n
    <3> QED BY <3>1, <3>2, <3>3 DEF Pushes
  <2> QED BY <2>1, <2>2, <2>3 DEF Upward
<1>8. link.socket \in {"none", "dialling", "open"} /\ link.cursor \in 0..Version
  <2>1. link \in Links
    BY DEF TypeInv
  <2> QED BY <1>2, <2>1, BoundNats DEF Links
<1>9. \A i \in DOMAIN queue : queue[i].overlay \in [Keys -> Scalars \cup {Deleted, None}]
  <2>1. \A i \in DOMAIN queue : queue[i] \in Entries
    BY DEF TypeInv
  <2> QED BY <2>1 DEF Entries
<1>10. \A t \in Tables : /\ table[t].status \in {"absent", "created", "on", "off"}
                         /\ table[t].gate \in Gates
                         /\ table[t].shown \in [Ids -> Scalars \cup {Deleted}]
                         /\ table[t].keys \subseteq Ids
  <2>1. \A t \in Tables : table[t] \in TableRows
    BY DEF TypeInv
  <2> QED BY <2>1 DEF TableRows, Cells
<1> QED BY <1>3, <1>4, <1>5, <1>6, <1>7, <1>8, <1>9, <1>10 DEF CollTypeOK

\* Every variable stays in the set the runs check, bounds included.
THEOREM CollectionsInRange == Spec => []CollTypeOK
<1>1. TypeInv /\ HistInv /\ BoundInv => CollTypeOK
  BY CollTyped
<1> QED BY <1>1, CollectionsTyped, RowsSinceVersion, BoundsHold, PTL

-----------------------------------------------------------------------------
(* What is on the wire *)

\* The frames to the client are whole pokes, after what is left of the one it puts together.
Ordered(q, poke) ==
  /\ \A i \in 1..Len(q) :
       /\ q[i].type # "end" => i < Len(q) /\ q[i + 1].type # "start"
       /\ q[i].type = "end" /\ i < Len(q) => q[i + 1].type = "start"
       /\ i > 1 /\ q[i].type = "part" /\ q[i].lmid # 0 => q[i - 1].type = "start"
  /\ q = <<>> \/ q[1].type = "start" => poke = NoPoke
  /\ q # <<>> /\ q[1].type = "part" /\ q[1].lmid # 0 => poke.lmid = 0

\* What connection, frames and push have to do with one another.
WireInv ==
  /\ Ordered(down, link.poke)
  /\ link.socket # "open" => up = <<>> /\ down = <<>> /\ ~ready /\ ~link.awaiting
  /\ ~link.started => link.socket = "none" /\ link.cursor = 0
  /\ link.socket = "dialling" => ~link.synced
  /\ ~ready => down = <<>>
  /\ link.socket = "open" /\ ~ready => link.awaiting /\ ~link.synced
  /\ push.todo # <<>> => push.from \in 1..Version

LEMMA OrderTail ==
  ASSUME NEW q \in Seq(Downward), q # <<>>, NEW poke, Ordered(q, poke), NEW new,
         Head(q).type = "end" => new = NoPoke, Head(q).type = "start" => new.lmid = 0
  PROVE  Ordered(Tail(q), new)
<1> DEFINE r == Tail(q)
<1>1. /\ Len(r) = Len(q) - 1 /\ Len(q) \in Nat \ {0}
      /\ \A i \in 1..(Len(q) - 1) : i + 1 \in 1..Len(q) /\ r[i] = q[i + 1]
      /\ Head(q) = q[1]
  BY TailIs
<1>2a. Len(r) = 0 => r = <<>>
  OBVIOUS
<1> HIDE DEF r
<1>2. r = <<>> => Len(r) = 0
  OBVIOUS
<1>3. \A i \in 1..Len(q) :
       /\ q[i].type # "end" => i < Len(q) /\ q[i + 1].type # "start"
       /\ q[i].type = "end" /\ i < Len(q) => q[i + 1].type = "start"
       /\ i > 1 /\ q[i].type = "part" /\ q[i].lmid # 0 => q[i - 1].type = "start"
  BY DEF Ordered
<1>4. ASSUME NEW i \in 1..Len(r)
      PROVE  /\ r[i].type # "end" => i < Len(r) /\ r[i + 1].type # "start"
             /\ r[i].type = "end" /\ i < Len(r) => r[i + 1].type = "start"
             /\ i > 1 /\ r[i].type = "part" /\ r[i].lmid # 0 => r[i - 1].type = "start"
  <2>1. i + 1 \in 1..Len(q) /\ r[i] = q[i + 1]
    BY <1>1
  <2>2. i < Len(r) => i + 1 \in 1..(Len(q) - 1) /\ r[i + 1] = q[i + 2]
    BY <1>1
  <2>3. i > 1 => i - 1 \in 1..(Len(q) - 1) /\ r[i - 1] = q[i]
    BY <1>1
  <2>4. /\ q[i + 1].type # "end" => i + 1 < Len(q) /\ q[i + 2].type # "start"
        /\ q[i + 1].type = "end" /\ i + 1 < Len(q) => q[i + 2].type = "start"
        /\ i + 1 > 1 /\ q[i + 1].type = "part" /\ q[i + 1].lmid # 0 => q[i].type = "start"
    <3>1. (i + 1) + 1 = i + 2 /\ (i + 1) - 1 = i
      OBVIOUS
    <3> QED BY <1>3, <2>1, <3>1
  <2>5. (i + 1 < Len(q)) <=> (i < Len(r))
    BY <1>1
  <2>6. i > 1 => i + 1 > 1
    OBVIOUS
  <2> QED BY <2>1, <2>2, <2>3, <2>4, <2>5, <2>6
<1>5. 1 \in 1..Len(q) /\ (r # <<>> => 1 < Len(q) /\ 2 \in 1..Len(q) /\ r[1] = q[2])
  BY <1>1, <1>2a
<1>6. /\ q[1].type # "end" => 1 < Len(q) /\ q[2].type # "start"
      /\ 2 \in 1..Len(q) /\ q[2].type = "part" /\ q[2].lmid # 0 => q[1].type = "start"
  <2>1. 1 + 1 = 2 /\ 2 - 1 = 1 /\ 2 > 1
    OBVIOUS
  <2> QED BY <1>3, <1>5, <2>1
<1>7. r = <<>> \/ r[1].type = "start" => new = NoPoke
  <2>1. CASE q[1].type = "end"
    BY <1>1, <2>1
  <2>2. CASE q[1].type # "end"
    <3>1. 1 < Len(q) /\ q[2].type # "start"
      BY <1>6, <2>2
    <3>2. r # <<>>
      BY <1>1, <1>2, <3>1
    <3> QED BY <1>5, <3>1, <3>2
  <2> QED BY <2>1, <2>2
<1>8. r # <<>> /\ r[1].type = "part" /\ r[1].lmid # 0 => new.lmid = 0
  BY <1>1, <1>5, <1>6
<1> QED BY <1>4, <1>7, <1>8 DEF Ordered, r

\* A poke's frames, by type.
PokeShaped(f, id) ==
  /\ f \in Seq(Downward) /\ Len(f) \in Nat /\ Len(f) >= 3
  /\ f[1].type = "start" /\ f[Len(f)].type = "end"
  /\ \A i \in 2..(Len(f) - 1) : f[i].type = "part" /\ f[i].lmid = (IF i = 2 THEN id ELSE 0)

LEMMA FramesShaped ==
  ASSUME NEW base \in Nat, NEW ops \in Seq(Ops), NEW id \in Nat, NEW errors \in SUBSET Nat, NEW end \in Nat
  PROVE  PokeShaped(PokeFrames(base, ops, id, errors, end), id)
<1> DEFINE f == PokeFrames(base, ops, id, errors, end)
           parts == Packed(ops)
           n == Len(parts)
<1>1. f \in Seq(Downward) /\ FramesOf(f, base, parts, id, errors, end)
  BY FramesAre
<1>2. n \in Nat /\ n >= 1
  BY PackedAll
<1> HIDE DEF f, parts
<1>3. /\ Len(f) = n + 2 /\ f[1] = StartFrame(base) /\ f[n + 2] = EndFrame(end)
      /\ \A i \in 1..n : f[i + 1] = PartFrame(parts[i], IF i = 1 THEN id ELSE 0, IF i = 1 THEN errors ELSE {})
  BY <1>1 DEF FramesOf
<1> HIDE DEF n
<1>4. f[1].type = "start" /\ f[Len(f)].type = "end"
  BY <1>3 DEF StartFrame, EndFrame
<1>5. ASSUME NEW i \in 2..(Len(f) - 1) PROVE f[i].type = "part" /\ f[i].lmid = IF i = 2 THEN id ELSE 0
  <2>1. i - 1 \in 1..n /\ (i - 1) + 1 = i /\ (i - 1 = 1 <=> i = 2)
    BY <1>2, <1>3
  <2>2. f[i] = PartFrame(parts[i - 1], IF i - 1 = 1 THEN id ELSE 0, IF i - 1 = 1 THEN errors ELSE {})
    BY <1>3, <2>1
  <2> QED BY <2>1, <2>2 DEF PartFrame
<1>6. Len(f) \in Nat /\ Len(f) >= 3
  BY <1>2, <1>3
<1>7. PokeShaped(f, id)
  BY <1>1, <1>4, <1>5, <1>6 DEF PokeShaped
<1> QED BY <1>7 DEF f

LEMMA OrderJoin ==
  ASSUME NEW q \in Seq(Downward), NEW poke, Ordered(q, poke), NEW f, NEW id, PokeShaped(f, id)
  PROVE  Ordered(q \o f, poke)
<1> DEFINE r == q \o f
           n == Len(q)
           m == Len(f)
<1>1. /\ f \in Seq(Downward) /\ m \in Nat /\ m >= 3
      /\ f[1].type = "start" /\ f[m].type = "end"
      /\ \A i \in 2..(m - 1) : f[i].type = "part" /\ f[i].lmid = (IF i = 2 THEN id ELSE 0)
  BY DEF PokeShaped
<1>2. /\ Len(r) = n + m /\ n \in Nat
      /\ \A i \in 1..n : r[i] = q[i]
      /\ \A i \in 1..m : r[n + i] = f[i]
      /\ \A i \in 1..(n + m) : i \in 1..n \/ (i - n \in 1..m /\ i = n + (i - n))
  BY <1>1, JoinIs
<1>2a. /\ \A i \in 1..n :
           /\ q[i].type # "end" => i < n /\ q[i + 1].type # "start"
           /\ q[i].type = "end" /\ i < n => q[i + 1].type = "start"
           /\ i > 1 /\ q[i].type = "part" /\ q[i].lmid # 0 => q[i - 1].type = "start"
       /\ q = <<>> \/ q[1].type = "start" => poke = NoPoke
       /\ q # <<>> /\ q[1].type = "part" /\ q[1].lmid # 0 => poke.lmid = 0
       /\ q = <<>> <=> n = 0
  BY DEF Ordered
<1> HIDE DEF r, n, m
<1>3. ASSUME NEW i \in 1..n
      PROVE  /\ r[i].type # "end" => i < n + m /\ r[i + 1].type # "start"
             /\ r[i].type = "end" /\ i < n + m => r[i + 1].type = "start"
             /\ i > 1 /\ r[i].type = "part" /\ r[i].lmid # 0 => r[i - 1].type = "start"
  <2>1. r[i] = q[i] /\ (i < n => r[i + 1] = q[i + 1]) /\ (i > 1 => r[i - 1] = q[i - 1])
    <3>1. (i < n => i + 1 \in 1..n) /\ (i > 1 => i - 1 \in 1..n)
      BY <1>2
    <3> QED BY <1>2, <3>1
  <2>2. i = n => r[i + 1] = f[1]
    <3>1. 1 \in 1..m
      BY <1>1
    <3> QED BY <1>2, <3>1
  <2>3. i < n \/ i = n
    BY <1>2
  <2>4. i < n => i < n + m
    BY <1>1, <1>2
  <2> QED BY <1>1, <1>2a, <2>1, <2>2, <2>3, <2>4
<1>4. ASSUME NEW k \in 1..m, NEW i, i = n + k
      PROVE  /\ r[i].type # "end" => i < n + m /\ r[i + 1].type # "start"
             /\ r[i].type = "end" /\ i < n + m => r[i + 1].type = "start"
             /\ i > 1 /\ r[i].type = "part" /\ r[i].lmid # 0 => r[i - 1].type = "start"
  <2>1. r[i] = f[k] /\ (k < m => r[i + 1] = f[k + 1]) /\ (k > 1 => r[i - 1] = f[k - 1])
    <3>1. (k < m => k + 1 \in 1..m /\ n + (k + 1) = i + 1) /\ (k > 1 => k - 1 \in 1..m /\ n + (k - 1) = i - 1)
      BY <1>1, <1>2, <1>4
    <3> QED BY <1>2, <1>4, <3>1
  <2>2. k = 1 \/ k = m \/ k \in 2..(m - 1)
    BY <1>1
  <2>3. CASE k = 1
    <3>1. 2 \in 2..(m - 1) /\ 1 < m /\ i < n + m /\ k + 1 = 2
      BY <1>1, <1>2, <1>4, <2>3
    <3>2. f[2].type = "part"
      BY <1>1, <3>1
    <3> QED BY <1>1, <2>1, <2>3, <3>1, <3>2
  <2>4. CASE k = m
    <3>1. ~(i < n + m)
      BY <1>1, <1>2, <1>4, <2>4
    <3> QED BY <1>1, <2>1, <2>4, <3>1
  <2>5. CASE k \in 2..(m - 1)
    <3>1. i < n + m /\ k < m /\ k > 1 /\ (k + 1 = m \/ k + 1 \in 2..(m - 1)) /\ (k = 2 => k - 1 = 1)
      BY <1>1, <1>2, <1>4, <2>5
    <3>2. f[k].type = "part" /\ f[k + 1].type # "start"
      BY <1>1, <2>5, <3>1
    <3>3. f[k].lmid # 0 => k = 2
      BY <1>1, <2>5
    <3> QED BY <1>1, <2>1, <3>1, <3>2, <3>3
  <2> QED BY <2>2, <2>3, <2>4, <2>5
<1>5. \A i \in 1..(n + m) :
       /\ r[i].type # "end" => i < n + m /\ r[i + 1].type # "start"
       /\ r[i].type = "end" /\ i < n + m => r[i + 1].type = "start"
       /\ i > 1 /\ r[i].type = "part" /\ r[i].lmid # 0 => r[i - 1].type = "start"
  BY <1>2, <1>3, <1>4
<1>6. r # <<>> /\ (n = 0 => r[1] = f[1]) /\ (n # 0 => r[1] = q[1])
  <2>1. 1 \in 1..m /\ n + m # 0 /\ (n # 0 => 1 \in 1..n) /\ (n = 0 => n + 1 = 1)
    BY <1>1, <1>2
  <2>2. r # <<>>
    <3>1. r = <<>> => Len(r) = 0
      OBVIOUS
    <3> QED BY <1>2, <2>1, <3>1
  <2> QED BY <1>2, <2>1, <2>2
<1>7. r = <<>> \/ r[1].type = "start" => poke = NoPoke
  BY <1>2a, <1>6
<1>8. r # <<>> /\ r[1].type = "part" /\ r[1].lmid # 0 => poke.lmid = 0
  BY <1>1, <1>2a, <1>6
<1> QED BY <1>2, <1>5, <1>7, <1>8 DEF Ordered, r

LEMMA WireInit == ASSUME Init PROVE WireInv
<1>1. /\ push = Idle /\ up = <<>> /\ down = <<>> /\ ready = FALSE
      /\ link.started = FALSE /\ link.socket = "none" /\ link.synced = FALSE /\ link.awaiting = FALSE
      /\ link.cursor = 0 /\ link.poke = NoPoke
  BY DEF Init
<1>2. Idle.todo = <<>>
  BY DEF Idle
<1>3. Ordered(<<>>, NoPoke)
  BY DEF Ordered
<1> QED BY <1>1, <1>2, <1>3 DEF WireInv

\* The workspace sends nothing, or a poke to a client that has said hello.
Extended ==
  \/ down' = down
  \/ /\ \E f, id : PokeShaped(f, id) /\ down' = down \o f
     /\ ready \/ (up # <<>> /\ ready')

\* What the workspace's steps may do to the connection.
LEMMA WireServer ==
  ASSUME WireInv, TypeInv, UNCHANGED link, up' = up \/ (up # <<>> /\ up' \in Seq(Upward)),
         ready' = ready \/ (ready' = TRUE /\ up # <<>>),
         Extended,
         push'.todo # <<>> => push'.from \in 1..Version'
  PROVE  WireInv'
<1>1. /\ Ordered(down, link.poke)
      /\ link.socket # "open" => up = <<>> /\ down = <<>> /\ ~ready /\ ~link.awaiting
      /\ ~link.started => link.socket = "none" /\ link.cursor = 0
      /\ link.socket = "dialling" => ~link.synced
      /\ ~ready => down = <<>>
      /\ link.socket = "open" /\ ~ready => link.awaiting /\ ~link.synced
      /\ ready \in BOOLEAN
  BY DEF WireInv, TypeInv
<1>2. Ordered(down', link.poke)
  BY <1>1, OrderJoin DEF TypeInv, Extended
<1>3. link' = link
  OBVIOUS
<1>4. link.socket # "open" => up' = <<>> /\ down' = <<>> /\ ~ready' /\ ~link.awaiting
  BY <1>1 DEF Extended
<1>5. ~ready' => down' = <<>>
  BY <1>1 DEF Extended
<1>6. link.socket = "open" /\ ~ready' => link.awaiting /\ ~link.synced
  BY <1>1
<1> QED BY <1>1, <1>2, <1>3, <1>4, <1>5, <1>6 DEF WireInv

LEMMA WireOther ==
  ASSUME TypeInv, WireInv, NEW program \in Others, OtherCommits(program)
  PROVE  WireInv'
<1> DEFINE f == PokeFrames(Version, PatchSince(rows', Version), 0, {}, Version + 1)
<1>1. /\ push = Idle /\ Committed(Run(Now, program), 0) /\ down' = Sent(f)
      /\ UNCHANGED <<lmid, push, ready, up, link, queue, issued, table, counts>>
  BY DEF OtherCommits
<1>2. HistTyped'
  BY <1>1, RunTyped, TypeHist, ProgramSteps, CommitTyped
<1>3. PokeShaped(f, 0)
  <2>1. PatchSince(rows', Version) \in Seq(Ops)
    BY <1>2, PatchSinceIs DEF HistTyped, RowRecords
  <2>2. Version \in Nat /\ Version + 1 \in Nat /\ 0 \in Nat /\ {} \in SUBSET Nat
    BY BoundNats
  <2> QED BY <2>1, <2>2, FramesShaped
<1> HIDE DEF f
<1>4. Idle.todo = <<>>
  BY DEF Idle
<1>5. down' = down \/ (down' = down \o f /\ ready)
  BY <1>1 DEF Sent
<1>6. UNCHANGED link /\ up' = up /\ ready' = ready /\ push'.todo = <<>>
  BY <1>1, <1>4
<1>7. Extended
  BY <1>3, <1>5 DEF Extended
<1> QED BY <1>6, <1>7, WireServer

LEMMA WireServe ==
  ASSUME TypeInv, WireInv, ServeHello
  PROVE  WireInv'
<1> DEFINE cursor == Head(up).cursor
           ops == IF cursor = 0 THEN Bootstrap ELSE PatchSince(rows, cursor)
           f == PokeFrames(cursor, ops, lmid, {}, Version)
<1>1. /\ push = Idle /\ up # <<>> /\ Head(up).type = "hello" /\ down' = down \o f
      /\ ready' = TRUE /\ up' = Tail(up) /\ UNCHANGED <<serverVars, link, queue, issued, table, counts>>
  BY DEF ServeHello
<1>2. up \in Seq(Upward)
  BY DEF TypeInv
<1>3. PokeShaped(f, lmid)
  <2>1. cursor \in Nat
    BY <1>1, <1>2, HeadUp
  <2>2. ops \in Seq(Ops)
    BY <2>1, PatchSinceIs, BootstrapIs DEF TypeInv, RowRecords
  <2>3. Version \in Nat /\ lmid \in Nat /\ {} \in SUBSET Nat
    BY BoundNats
  <2> HIDE DEF cursor, ops
  <2> QED BY <2>1, <2>2, <2>3, FramesShaped
<1> HIDE DEF f, cursor, ops
<1>4. Idle.todo = <<>> /\ push' = push /\ up' \in Seq(Upward)
  BY <1>1, <1>2, HeadUp DEF Idle, serverVars
<1>5. Extended
  BY <1>1, <1>3 DEF Extended
<1> QED BY <1>1, <1>4, <1>5, WireServer

LEMMA WirePush ==
  ASSUME TypeInv, WireInv, StartPush
  PROVE  WireInv'
<1>1. /\ up # <<>> /\ up' = Tail(up)
      /\ push' = [Idle EXCEPT !.todo = Head(up).mutations, !.from = Version]
      /\ UNCHANGED <<rows, snaps, authors, event, lmid, ready, down, link, queue, issued, table, counts>>
  BY DEF StartPush
<1>2. push'.from = Version /\ Version' = Version
  BY <1>1 DEF Idle, Version
<1>3. Version \in 1..Version
  BY BoundNats
<1>4. up' \in Seq(Upward)
  BY <1>1, HeadUp DEF TypeInv
<1>5. Extended
  BY <1>1 DEF Extended
<1> QED BY <1>1, <1>2, <1>3, <1>4, <1>5, WireServer

LEMMA WireHandle ==
  ASSUME TypeInv, WireInv, HandleMutation
  PROVE  WireInv'
<1> DEFINE next == Head(push.todo)
           f == PokeFrames(push.from, PatchSince(rows', push.from), lmid', NextErrors, Version')
<1>1. /\ push.todo # <<>>
      /\ IF Fresh THEN Committed(NextRun, next.id) ELSE UNCHANGED <<rows, snaps, authors, event>>
      /\ lmid' = IF Fresh THEN next.id ELSE lmid
      /\ \/ /\ Len(push.todo) > 1 /\ down' = down
            /\ push' = [push EXCEPT !.todo = Tail(@), !.errors = NextErrors]
         \/ ~(Len(push.todo) > 1) /\ push' = Idle /\ down' = Sent(f)
      /\ UNCHANGED <<ready, up, link, queue, issued, table, restarts, cuts>>
  BY HandleIs
<1>2. push \in Pushing /\ push.todo \in Seq(Muts) /\ push.from \in Nat /\ push.errors \in SUBSET Nat
  BY DEF TypeInv, Pushing
<1>3. next.id \in Nat /\ next.program \in Seq(Steps)
  BY <1>1, <1>2, HeadMuts
<1>4. HistTyped' /\ Version' >= Version /\ Version \in Nat /\ Version' \in Nat
  <2>1. HistTyped /\ InOrder(Now, NextRun)
    BY <1>3, TypeHist, RunTyped DEF NextRun
  <2>2. CASE Fresh
    <3>1. Committed(NextRun, next.id)
      BY <1>1, <2>2
    <3>2. HistTyped'
      BY <1>3, <2>1, <3>1, CommitTyped
    <3>3. CASE CommittedTo(NextRun, next.id)
      BY <2>1, <3>2, <3>3, CommitSnaps DEF HistTyped
    <3>4. CASE UNCHANGED <<rows, snaps, authors, event>>
      BY <2>1, <3>2, <3>4 DEF Version, HistTyped
    <3> QED BY <3>1, <3>2, <3>3, <3>4, CommittedIs
  <2>3. CASE ~Fresh
    <3>1. UNCHANGED <<rows, snaps, authors>>
      BY <1>1, <2>3
    <3>2. Version' = Version
      BY <3>1 DEF Version
    <3> QED BY <2>1, <3>1, <3>2, HistSame, BoundNats
  <2> QED BY <2>2, <2>3
<1>5. PokeShaped(f, lmid')
  <2>1. PatchSince(rows', push.from) \in Seq(Ops)
    BY <1>4, PatchSinceIs DEF HistTyped, RowRecords
  <2>2. NextErrors \in SUBSET Nat
    BY <1>2, <1>3 DEF NextErrors
  <2>3. lmid' \in Nat
    BY <1>1, <1>3, BoundNats
  <2> QED BY <1>2, <1>4, <2>1, <2>2, <2>3, FramesShaped
<1>6. push'.todo # <<>> => push'.from \in 1..Version'
  <2>1. CASE push' = Idle
    BY <2>1 DEF Idle
  <2>2. CASE push' = [push EXCEPT !.todo = Tail(@), !.errors = NextErrors]
    <3>1. push'.from = push.from
      BY <1>2, <2>2 DEF Pushing
    <3>2. push.from \in 1..Version
      BY <1>1 DEF WireInv
    <3> QED BY <1>4, <3>1, <3>2
  <2> QED BY <1>1, <2>1, <2>2
<1> HIDE DEF f, next
<1>7. down' = down \/ (down' = down \o f /\ ready)
  BY <1>1 DEF Sent
<1>8. UNCHANGED link /\ up' = up /\ ready' = ready
  BY <1>1
<1>9. Extended
  BY <1>5, <1>7 DEF Extended
<1> QED BY <1>6, <1>8, <1>9, WireServer

\* What a client's step leaves of the frames to it: none, all, or all but the first.
LEMMA WireClient ==
  ASSUME WireInv, TypeInv, UNCHANGED serverVars, link' \in Links, ready' \in BOOLEAN,
         \/ down' = down /\ link'.poke = link.poke
         \/ down' = <<>> /\ link'.poke = NoPoke
         \/ /\ down # <<>> /\ down' = Tail(down)
            /\ Head(down).type = "end" => link'.poke = NoPoke
            /\ Head(down).type = "start" => link'.poke.lmid = 0,
         link'.socket # "open" => up' = <<>> /\ down' = <<>> /\ ~ready' /\ ~link'.awaiting,
         ~link'.started => link'.socket = "none" /\ link'.cursor = 0,
         link'.socket = "dialling" => ~link'.synced,
         ~ready' => down' = <<>>,
         link'.socket = "open" /\ ~ready' => link'.awaiting /\ ~link'.synced
  PROVE  WireInv'
<1>1. Ordered(down, link.poke) /\ (push.todo # <<>> => push.from \in 1..Version) /\ down \in Seq(Downward)
  BY DEF WireInv, TypeInv
<1>2. Ordered(down', link'.poke)
  <2>1. CASE down' = down /\ link'.poke = link.poke
    BY <1>1, <2>1
  <2>2. CASE down' = <<>> /\ link'.poke = NoPoke
    BY <2>2 DEF Ordered
  <2>3. CASE /\ down # <<>> /\ down' = Tail(down)
             /\ Head(down).type = "end" => link'.poke = NoPoke
             /\ Head(down).type = "start" => link'.poke.lmid = 0
    BY <1>1, <2>3, OrderTail
  <2> QED BY <2>1, <2>2, <2>3
<1>3. push' = push /\ Version' = Version
  BY DEF serverVars, Version
<1> QED BY <1>1, <1>2, <1>3 DEF WireInv

\* The conditions of the connection, in one name.
WireNow ==
  /\ link.socket # "open" => up = <<>> /\ down = <<>> /\ ~ready /\ ~link.awaiting
  /\ ~link.started => link.socket = "none" /\ link.cursor = 0
  /\ link.socket = "dialling" => ~link.synced
  /\ ~ready => down = <<>>
  /\ link.socket = "open" /\ ~ready => link.awaiting /\ ~link.synced
  /\ ready \in BOOLEAN /\ link \in Links
  /\ down = <<>> => link.poke = NoPoke

LEMMA WireIs == ASSUME WireInv, TypeInv PROVE WireNow
  BY DEF WireInv, TypeInv, WireNow, Ordered

LEMMA WireTables ==
  ASSUME TypeInv, WireInv, NEW t \in Tables, Create(t) \/ Start(t) \/ Cleanup(t) \/ Restart(t)
  PROVE  WireInv'
<1>1. WireNow
  BY WireIs
<1>2. UNCHANGED <<serverVars, ready, down>> /\ (Register \/ UNCHANGED <<link, up>>)
  BY DEF Create, Start, Cleanup, Restart
<1>3. CASE UNCHANGED <<link, up>>
  BY <1>1, <1>2, <1>3, WireClient DEF WireNow
<1>4. CASE link.synced /\ Register
  <2>1. link' = [link EXCEPT !.cursor = 0, !.awaiting = link.socket = "open"]
        /\ (link.socket # "open" => up' = up)
    BY <1>4 DEF Register
  <2>2. /\ link'.started = link.started /\ link'.socket = link.socket /\ link'.synced = link.synced
        /\ link'.cursor = 0 /\ link'.awaiting = (link.socket = "open") /\ link'.poke = link.poke
        /\ link' \in Links
    BY <1>1, <2>1 DEF WireNow, Links
  <2>3. ready' = ready /\ down' = down /\ UNCHANGED serverVars
    BY <1>2
  <2>4. ready' \in BOOLEAN /\ down' = down /\ link'.poke = link.poke
    BY <1>1, <2>2, <2>3 DEF WireNow
  <2>5. link'.socket # "open" => up' = <<>> /\ down' = <<>> /\ ~ready' /\ ~link'.awaiting
    BY <1>1, <2>1, <2>2, <2>3 DEF WireNow
  <2>6. /\ ~link'.started => link'.socket = "none" /\ link'.cursor = 0
        /\ link'.socket = "dialling" => ~link'.synced
        /\ ~ready' => down' = <<>>
        /\ link'.socket = "open" /\ ~ready' => link'.awaiting /\ ~link'.synced
    BY <1>1, <2>2, <2>3 DEF WireNow
  <2> QED BY <2>2, <2>3, <2>4, <2>5, <2>6, WireClient
<1>5. CASE ~link.synced /\ Register
  <2>1. UNCHANGED <<link, up>>
    BY <1>5 DEF Register
  <2> QED BY <1>3, <2>1
<1> QED BY <1>2, <1>3, <1>4, <1>5

LEMMA WireMutate ==
  ASSUME TypeInv, WireInv, NEW program \in Programs, Mutate(program)
  PROVE  WireInv'
<1>1. WireNow
  BY WireIs
<1>2. /\ up' = Flushed(queue', link.confirmed, link.synced, up)
      /\ UNCHANGED <<serverVars, ready, down, link>>
  BY MutateIs
<1>3. link.socket # "open" => up' = up
  BY <1>2 DEF Flushed
<1>4. UNCHANGED serverVars /\ ready' = ready /\ down' = down /\ link' = link
  BY <1>2
<1> QED BY <1>1, <1>3, <1>4, WireClient DEF WireNow

LEMMA WireHydrate ==
  ASSUME TypeInv, WireInv, NEW cursor \in {0} \cup (IF Cached THEN 1..Version ELSE {}), Hydrate(cursor)
  PROVE  WireInv'
<1>1. WireNow
  BY WireIs
<1>2. /\ link' = [link EXCEPT !.started = TRUE, !.cursor = cursor] /\ ~link.started
      /\ UNCHANGED serverVars /\ ready' = ready /\ up' = up /\ down' = down
  BY HydrateIs
<1>3. link' \in Links
  BY <1>1, <1>2, TypeHydrate DEF TypeInv
<1>4. link'.started = TRUE /\ link'.socket = link.socket /\ link'.synced = link.synced
      /\ link'.awaiting = link.awaiting /\ link'.poke = link.poke
  BY <1>1, <1>2 DEF WireNow, Links
<1> QED BY <1>1, <1>2, <1>3, <1>4, WireClient DEF WireNow

LEMMA WireLink ==
  ASSUME TypeInv, WireInv, Dial \/ Open \/ Cut
  PROVE  WireInv'
<1>1. WireNow
  BY WireIs
<1>2. link' \in Links
  BY TypeLink DEF TypeInv
<1>3. CASE Dial
  <2>1. /\ link.started /\ link.socket = "none" /\ link' = [link EXCEPT !.socket = "dialling", !.synced = FALSE]
        /\ UNCHANGED serverVars /\ ready' = ready /\ up' = up /\ down' = down
    BY <1>3 DEF Dial
  <2>2. link'.started = link.started /\ link'.socket = "dialling" /\ link'.synced = FALSE
        /\ link'.awaiting = link.awaiting /\ link'.poke = link.poke
    BY <1>1, <2>1 DEF WireNow, Links
  <2> QED BY <1>1, <1>2, <2>1, <2>2, WireClient DEF WireNow
<1>4. CASE Open
  <2>1. /\ link.socket = "dialling" /\ link' = [link EXCEPT !.socket = "open", !.awaiting = TRUE]
        /\ UNCHANGED serverVars /\ ready' = ready /\ down' = down
    BY <1>4 DEF Open
  <2>2. link'.started = link.started /\ link'.socket = "open" /\ link'.synced = link.synced
        /\ link'.awaiting = TRUE /\ link'.poke = link.poke
    BY <1>1, <2>1 DEF WireNow, Links
  <2> QED BY <1>1, <1>2, <2>1, <2>2, WireClient DEF WireNow
<1>5. CASE Cut
  <2>1. /\ link.socket # "none" /\ link' = [link EXCEPT !.socket = "none", !.awaiting = FALSE, !.poke = NoPoke]
        /\ UNCHANGED serverVars /\ ready' = FALSE /\ up' = <<>> /\ down' = <<>>
    BY <1>5 DEF Cut
  <2>2. link'.started = link.started /\ link'.socket = "none" /\ link'.cursor = link.cursor
        /\ link'.awaiting = FALSE /\ link'.poke = NoPoke
    BY <1>1, <2>1 DEF WireNow, Links
  <2> QED BY <1>1, <1>2, <2>1, <2>2, WireClient DEF WireNow
<1> QED BY <1>3, <1>4, <1>5

LEMMA WireReads ==
  ASSUME TypeInv, WireInv, PokeStart \/ PokePart \/ DropPoke \/ ApplyPoke
  PROVE  WireInv'
<1>1. WireNow
  BY WireIs
<1>2. link' \in Links
  BY TypeReads, TypeApply DEF TypeInv
<1>3. /\ down # <<>> /\ down' = Tail(down) /\ UNCHANGED serverVars /\ ready' = ready
  BY StartIs, PartIs, DropIs, ApplyIs
<1>4. link.socket = "open" /\ ready /\ link.started
  BY <1>1, <1>3 DEF WireNow
<1>5. CASE PokeStart
  <2>1. link' = [link EXCEPT !.poke = [NoPoke EXCEPT !.base = Head(down).base,
                                                  !.mismatch = Head(down).base # link.cursor]]
        /\ Head(down).type = "start"
    BY <1>5, StartIs
  <2>2. [NoPoke EXCEPT !.base = Head(down).base, !.mismatch = Head(down).base # link.cursor].lmid = 0
    BY DEF NoPoke
  <2>3. link'.started = link.started /\ link'.socket = link.socket /\ link'.poke.lmid = 0
    BY <1>1, <2>1, <2>2 DEF WireNow, Links
  <2> QED BY <1>2, <1>3, <1>4, <2>1, <2>3, WireClient
<1>6. CASE PokePart
  <2>1. link' = [link EXCEPT !.poke = PartRead] /\ Head(down).type = "part"
    BY <1>6, PartIs
  <2>2. link'.started = link.started /\ link'.socket = link.socket
    BY <1>1, <2>1 DEF WireNow, Links
  <2> QED BY <1>2, <1>3, <1>4, <2>1, <2>2, WireClient
<1>7. CASE DropPoke \/ ApplyPoke
  <2>1. Head(down).type = "end"
        /\ \/ link' = [link EXCEPT !.poke = NoPoke, !.awaiting = TRUE]
           \/ link' = [link EXCEPT !.poke = NoPoke, !.cursor = Head(down).cursor, !.awaiting = FALSE,
                                   !.synced = TRUE, !.confirmed = ConfirmedNow]
    BY <1>7, DropIs, ApplyIs
  <2>2. link'.started = link.started /\ link'.socket = link.socket /\ link'.poke = NoPoke
    BY <1>1, <2>1 DEF WireNow, Links
  <2> QED BY <1>2, <1>3, <1>4, <2>1, <2>2, WireClient
<1> QED BY <1>5, <1>6, <1>7

LEMMA WireStep == ASSUME TypeInv, WireInv, [Next]_vars PROVE WireInv'
<1>1. CASE UNCHANGED vars
  <2>1. UNCHANGED <<serverVars, ready, up, down, link>>
    BY <1>1 DEF vars
  <2>2. Version' = Version /\ push' = push
    BY <2>1 DEF serverVars, Version
  <2> QED BY <2>1, <2>2 DEF WireInv
<1>2. CASE Server
  BY <1>2, WireOther, WireServe, WirePush, WireHandle DEF Server
<1>3. CASE TableEvents
  BY <1>3, WireTables DEF TableEvents
<1>4. CASE Client
  BY <1>4, WireMutate, WireHydrate, WireLink, WireReads DEF Client
<1> QED BY <1>1, <1>2, <1>3, <1>4 DEF Next

-----------------------------------------------------------------------------
(* Whole pokes *)

LEMMA JoinSet ==
  ASSUME NEW A, NEW q \in Seq(A), NEW f \in Seq(A)
  PROVE  ToSet(q \o f) = ToSet(q) \cup ToSet(f)
<1>1. /\ DOMAIN (q \o f) = 1..(Len(q) + Len(f)) /\ Len(q) \in Nat /\ Len(f) \in Nat
      /\ \A i \in 1..Len(q) : (q \o f)[i] = q[i]
      /\ \A i \in 1..Len(f) : (q \o f)[Len(q) + i] = f[i]
      /\ \A i \in 1..(Len(q) + Len(f)) : i \in 1..Len(q) \/ (i - Len(q) \in 1..Len(f) /\ i = Len(q) + (i - Len(q)))
  BY JoinIs
<1>2. DOMAIN q = 1..Len(q) /\ DOMAIN f = 1..Len(f)
  OBVIOUS
<1> DEFINE r == q \o f
<1>3. ToSet(r) \subseteq ToSet(q) \cup ToSet(f)
  BY <1>1, <1>2 DEF ToSet
<1>4. \A i \in 1..Len(q) : i \in 1..(Len(q) + Len(f))
  BY <1>1
<1>5. \A i \in 1..Len(f) : Len(q) + i \in 1..(Len(q) + Len(f))
  BY <1>1
<1>6. ToSet(q) \subseteq ToSet(r) /\ ToSet(f) \subseteq ToSet(r)
  BY <1>1, <1>2, <1>4, <1>5 DEF ToSet
<1> QED BY <1>3, <1>6

\* A piece of the frames to the client, from the start at i to the end at j; from what the client
\* has put together already if i is 0.
Begins(q, i) == IF i = 0 THEN q # <<>> /\ q[1].type # "start" ELSE q[i].type = "start"
Piece(q, i, j) ==
  /\ i \in 0..Len(q) /\ j \in 1..Len(q) /\ i < j /\ Begins(q, i) /\ q[j].type = "end"
  /\ \A k \in (i + 1)..(j - 1) : q[k].type = "part"
BaseAt(q, poke, i) == IF i = 0 THEN poke.base ELSE q[i].base
Between(q, i, j) == UNION {ToSet(q[k].patch) : k \in (i + 1)..(j - 1)}
Content(q, poke, i, j) == (IF i = 0 THEN ToSet(poke.patch) ELSE {}) \cup Between(q, i, j)

\* A poke onto no base is the rows of its version, one onto a base every row that changed since.
ChangeAt(past, v, k) == IF past[v][k] = Deleted THEN [op |-> "del", key |-> k]
                        ELSE [op |-> "put", key |-> k, val |-> past[v][k]]
Whole(past, base, ops, end) ==
  /\ end \in 1..Len(past)
  /\ IF base = 0
     THEN ops = {Clear} \cup {ChangeAt(past, end, k) : k \in {j \in Keys : past[end][j] # Deleted}}
     ELSE /\ base \in 1..end
          /\ \E C \in SUBSET Keys : /\ ops = {ChangeAt(past, end, k) : k \in C}
                                    /\ \A k \in Keys \ C : past[base][k] = past[end][k]
AllWhole(past, q, poke) ==
  \A i \in 0..Len(q), j \in 1..Len(q) : Piece(q, i, j) =>
    Whole(past, BaseAt(q, poke, i), Content(q, poke, i, j), q[j].cursor)

\* Every poke on its way is a whole one.
PiecesInv == AllWhole(snaps, down, link.poke)

LEMMA BetweenTail ==
  ASSUME NEW q \in Seq(Downward), q # <<>>, NEW i \in Nat, NEW j \in 1..Len(Tail(q))
  PROVE  Between(Tail(q), i, j) = Between(q, i + 1, j + 1)
<1> DEFINE r == Tail(q)
<1>1. /\ Len(r) = Len(q) - 1 /\ Len(q) \in Nat \ {0}
      /\ \A k \in 1..(Len(q) - 1) : k + 1 \in 1..Len(q) /\ r[k] = q[k + 1]
  BY TailIs
<1>2. j \in 1..Len(r)
  OBVIOUS
<1> HIDE DEF r
<1>3. \A k \in (i + 1)..(j - 1) : k + 1 \in (i + 1 + 1)..(j + 1 - 1) /\ r[k] = q[k + 1]
  BY <1>1, <1>2
<1>4. \A k \in (i + 1 + 1)..(j + 1 - 1) : k - 1 \in (i + 1)..(j - 1) /\ q[k] = r[k - 1]
  <2> TAKE k \in (i + 1 + 1)..(j + 1 - 1)
  <2>1. k - 1 \in (i + 1)..(j - 1) /\ (k - 1) + 1 = k
    BY <1>1, <1>2
  <2> QED BY <1>3, <2>1
<1> DEFINE S == {ToSet(r[k].patch) : k \in (i + 1)..(j - 1)}
           T == {ToSet(q[k].patch) : k \in (i + 1 + 1)..(j + 1 - 1)}
<1>5. S = T
  <2>1. S \subseteq T
    BY <1>3
  <2>2. T \subseteq S
    BY <1>4
  <2> QED BY <2>1, <2>2
<1>6. UNION S = UNION T
  BY <1>5
<1> QED BY <1>6 DEF Between, r

LEMMA BetweenHead ==
  ASSUME NEW q, NEW j \in Nat, j >= 1
  PROVE  Between(q, 0, j + 1) = ToSet(q[1].patch) \cup Between(q, 1, j + 1)
<1>1. (0 + 1)..(j + 1 - 1) = {1} \cup (1 + 1)..(j + 1 - 1)
  OBVIOUS
<1> DEFINE h(k) == ToSet(q[k].patch)
<1>2. UNION {h(k) : k \in {1} \cup (1 + 1)..(j + 1 - 1)} = h(1) \cup UNION {h(k) : k \in (1 + 1)..(j + 1 - 1)}
  <2> HIDE DEF h
  <2> QED OBVIOUS
<1> QED BY <1>1, <1>2 DEF Between

\* The client reads a frame.
LEMMA WholeTail ==
  ASSUME NEW q \in Seq(Downward), q # <<>>, NEW poke \in Pokes, NEW new \in Pokes, NEW past,
         Ordered(q, poke), AllWhole(past, q, poke),
         Head(q).type = "start" => new.patch = <<>> /\ new.base = Head(q).base,
         Head(q).type = "part" => new.patch = poke.patch \o Head(q).patch /\ new.base = poke.base
  PROVE  AllWhole(past, Tail(q), new)
<1> DEFINE r == Tail(q)
<1>1. /\ Len(r) = Len(q) - 1 /\ Len(q) \in Nat \ {0}
      /\ \A k \in 1..(Len(q) - 1) : k + 1 \in 1..Len(q) /\ r[k] = q[k + 1]
      /\ Head(q) = q[1] /\ Head(q) \in Downward
  BY TailIs
<1> SUFFICES ASSUME NEW i \in 0..Len(r), NEW j \in 1..Len(r), Piece(r, i, j)
             PROVE  Whole(past, BaseAt(r, new, i), Content(r, new, i, j), r[j].cursor)
  BY DEF AllWhole
<1>2. Between(r, i, j) = Between(q, i + 1, j + 1)
  <2>1. i \in Nat
    BY <1>1
  <2> QED BY <2>1, BetweenTail
<1> HIDE DEF r
<1>3. /\ j + 1 \in 1..Len(q) /\ r[j] = q[j + 1] /\ i < j /\ j \in Nat /\ j >= 1 /\ i \in Nat
      /\ r[j].type = "end" /\ Begins(r, i)
      /\ \A k \in (i + 1)..(j - 1) : r[k].type = "part"
  BY <1>1 DEF Piece
<1>4. \A k \in (i + 1 + 1)..(j + 1 - 1) : q[k].type = "part"
  <2> TAKE k \in (i + 1 + 1)..(j + 1 - 1)
  <2>1. k - 1 \in (i + 1)..(j - 1) /\ (k - 1) + 1 = k /\ k - 1 \in 1..(Len(q) - 1)
    BY <1>1, <1>3
  <2> QED BY <1>1, <1>3, <2>1
<1>5. CASE i # 0
  <2>1. i \in 1..(Len(q) - 1) /\ r[i] = q[i + 1] /\ i + 1 \in 0..Len(q) /\ i + 1 # 0 /\ i + 1 < j + 1
    BY <1>1, <1>3, <1>5
  <2>2. Piece(q, i + 1, j + 1)
    BY <1>3, <1>4, <1>5, <2>1 DEF Piece, Begins
  <2>3. Whole(past, BaseAt(q, poke, i + 1), Content(q, poke, i + 1, j + 1), q[j + 1].cursor)
    BY <1>3, <2>1, <2>2 DEF AllWhole
  <2>4. BaseAt(q, poke, i + 1) = BaseAt(r, new, i) /\ Content(q, poke, i + 1, j + 1) = Content(r, new, i, j)
    BY <1>2, <1>5, <2>1 DEF BaseAt, Content
  <2> QED BY <1>3, <2>3, <2>4
<1>6. CASE i = 0 /\ q[1].type = "start"
  <2>1. Piece(q, 1, j + 1) /\ 1 \in 0..Len(q)
    <3>1. 1 \in 0..Len(q) /\ 1 < j + 1 /\ 0 + 1 = 1
      BY <1>1, <1>3
    <3> QED BY <1>3, <1>4, <1>6, <3>1 DEF Piece, Begins
  <2>2. Whole(past, BaseAt(q, poke, 1), Content(q, poke, 1, j + 1), q[j + 1].cursor)
    BY <1>3, <2>1 DEF AllWhole
  <2>3. ToSet(<<>>) = {}
    BY DEF ToSet
  <2>4. BaseAt(q, poke, 1) = BaseAt(r, new, 0)
    BY <1>1, <1>6 DEF BaseAt
  <2>5. Content(q, poke, 1, j + 1) = Content(r, new, 0, j)
    <3>1. 0 + 1 = 1 /\ new.patch = <<>>
      BY <1>1, <1>6
    <3> QED BY <1>2, <1>6, <2>3, <3>1 DEF Content
  <2> QED BY <1>3, <1>6, <2>2, <2>4, <2>5
<1>7. CASE i = 0 /\ q[1].type = "part"
  <2>1. Piece(q, 0, j + 1) /\ 0 \in 0..Len(q)
    <3>1. 0 \in 0..Len(q) /\ 0 < j + 1
      BY <1>1, <1>3
    <3>2. \A k \in (0 + 1)..(j + 1 - 1) : k = 1 \/ k \in (i + 1 + 1)..(j + 1 - 1)
      BY <1>3, <1>7
    <3>3. \A k \in (0 + 1)..(j + 1 - 1) : q[k].type = "part"
      BY <1>4, <1>7, <3>2
    <3> QED BY <1>3, <1>7, <3>1, <3>3 DEF Piece, Begins
  <2>2. Whole(past, BaseAt(q, poke, 0), Content(q, poke, 0, j + 1), q[j + 1].cursor)
    BY <1>3, <2>1 DEF AllWhole
  <2>3. ToSet(new.patch) = ToSet(poke.patch) \cup ToSet(q[1].patch)
    <3>1. poke.patch \in Seq(Ops)
      BY DEF Pokes
    <3>2. q[1].patch \in Seq(Ops)
      BY <1>1, <1>7 DEF Downward
    <3>3. new.patch = poke.patch \o q[1].patch
      BY <1>1, <1>7
    <3> QED BY <3>1, <3>2, <3>3, JoinSet
  <2>4. BaseAt(q, poke, 0) = BaseAt(r, new, 0)
    BY <1>1, <1>7 DEF BaseAt
  <2>5. Content(q, poke, 0, j + 1) = Content(r, new, 0, j)
    <3>1. Between(q, 0, j + 1) = ToSet(q[1].patch) \cup Between(q, 1, j + 1) /\ 0 + 1 = 1
      BY <1>3, BetweenHead
    <3> QED BY <1>2, <1>7, <2>3, <3>1 DEF Content
  <2> QED BY <1>3, <1>7, <2>2, <2>4, <2>5
<1>8. CASE i = 0 /\ q[1].type = "end"
  <2>1. r # <<>> /\ r[1].type # "start"
    BY <1>3, <1>8 DEF Begins
  <2>2. 1 \in 1..(Len(q) - 1) /\ r[1] = q[2] /\ 1 \in 1..Len(q) /\ 1 < Len(q) /\ 1 + 1 = 2
    BY <1>1, <1>3
  <2>3. q[2].type = "start"
    BY <1>8, <2>2 DEF Ordered
  <2> QED BY <2>1, <2>2, <2>3
<1>9. q[1].type \in {"start", "part", "end"}
  BY <1>1 DEF Downward
<1> QED BY <1>5, <1>6, <1>7, <1>8, <1>9

\* A whole poke's frames, in any order of its parts.
PokeOf(f, base, ops, end) ==
  f[1].base = base /\ f[Len(f)].cursor = end /\ Between(f, 1, Len(f)) = ops

LEMMA BetweenJoin ==
  ASSUME NEW q \in Seq(Downward), NEW f \in Seq(Downward)
  PROVE  Between(q \o f, Len(q) + 1, Len(q) + Len(f)) = Between(f, 1, Len(f))
<1> DEFINE r == q \o f
           n == Len(q)
           m == Len(f)
<1>1. n \in Nat /\ m \in Nat /\ \A i \in 1..m : r[n + i] = f[i]
  BY JoinIs
<1> HIDE DEF r, n, m
<1>2. \A k \in (1 + 1)..(m - 1) : n + k \in (n + 1 + 1)..((n + m) - 1) /\ r[n + k] = f[k]
  BY <1>1
<1>3. \A k \in (n + 1 + 1)..((n + m) - 1) : k - n \in (1 + 1)..(m - 1) /\ n + (k - n) = k
  BY <1>1
<1> DEFINE S == {ToSet(r[k].patch) : k \in (n + 1 + 1)..((n + m) - 1)}
           T == {ToSet(f[k].patch) : k \in (1 + 1)..(m - 1)}
<1>4. S \subseteq T
  <2> SUFFICES ASSUME NEW k \in (n + 1 + 1)..((n + m) - 1) PROVE ToSet(r[k].patch) \in T
    OBVIOUS
  <2>1. r[k] = f[k - n] /\ k - n \in (1 + 1)..(m - 1)
    BY <1>2, <1>3
  <2> QED BY <2>1
<1>5. T \subseteq S
  BY <1>2
<1>6. UNION S = UNION T
  BY <1>4, <1>5
<1>7. Between(r, n + 1, n + m) = Between(f, 1, m)
  <2>1. Between(r, n + 1, n + m) = UNION S
    BY Zenon DEF Between
  <2>2. Between(f, 1, m) = UNION T
    BY Zenon DEF Between
  <2> HIDE DEF S, T
  <2> QED BY <1>6, <2>1, <2>2
<1> QED BY <1>7 DEF r, n, m

LEMMA BetweenSame ==
  ASSUME NEW q \in Seq(Downward), NEW f \in Seq(Downward), NEW i \in Nat, NEW j \in 1..Len(q)
  PROVE  Between(q \o f, i, j) = Between(q, i, j)
<1> DEFINE r == q \o f
<1>1. \A k \in 1..Len(q) : r[k] = q[k]
  BY JoinIs
<1> HIDE DEF r
<1>2. \A k \in (i + 1)..(j - 1) : k \in 1..Len(q)
  OBVIOUS
<1>3. {ToSet(r[k].patch) : k \in (i + 1)..(j - 1)} = {ToSet(q[k].patch) : k \in (i + 1)..(j - 1)}
  BY <1>1, <1>2
<1> QED BY <1>3 DEF Between, r

\* The workspace sends a poke more.
LEMMA WholeJoin ==
  ASSUME NEW q \in Seq(Downward), NEW poke, NEW past, AllWhole(past, q, poke),
         NEW f, NEW id, PokeShaped(f, id), NEW base, NEW ops, NEW end, PokeOf(f, base, ops, end),
         Whole(past, base, ops, end)
  PROVE  AllWhole(past, q \o f, poke)
<1> DEFINE r == q \o f
           n == Len(q)
           m == Len(f)
<1>1. /\ f \in Seq(Downward) /\ m \in Nat /\ m >= 3
      /\ f[1].type = "start" /\ f[m].type = "end"
      /\ \A i \in 2..(m - 1) : f[i].type = "part"
  BY DEF PokeShaped
<1>2. /\ Len(r) = n + m /\ n \in Nat
      /\ \A i \in 1..n : r[i] = q[i]
      /\ \A i \in 1..m : r[n + i] = f[i]
      /\ \A i \in 1..(n + m) : i \in 1..n \/ (i - n \in 1..m /\ i = n + (i - n))
  BY <1>1, JoinIs
<1> SUFFICES ASSUME NEW i \in 0..Len(r), NEW j \in 1..Len(r), Piece(r, i, j)
             PROVE  Whole(past, BaseAt(r, poke, i), Content(r, poke, i, j), r[j].cursor)
  BY DEF AllWhole
<1>3. j \in 1..n => Between(r, i, j) = Between(q, i, j)
  <2>1. i \in Nat
    BY <1>2
  <2> QED BY <1>1, <2>1, BetweenSame
<1>4. Between(r, n + 1, n + m) = Between(f, 1, m)
  BY <1>1, BetweenJoin
<1>4a. n = 0 => q = <<>>
  OBVIOUS
<1>4b. q = <<>> => n = 0
  OBVIOUS
<1> HIDE DEF r, n, m
<1>5. /\ i < j /\ i \in Nat /\ j \in Nat /\ j >= 1 /\ r[j].type = "end" /\ Begins(r, i)
      /\ \A k \in (i + 1)..(j - 1) : r[k].type = "part"
  BY <1>1, <1>2 DEF Piece
<1>6. CASE j \in 1..n
  <2>1. q # <<>> /\ 1 \in 1..n /\ i \in 0..n /\ (i # 0 => i \in 1..n)
    BY <1>2, <1>4b, <1>5, <1>6
  <2>2. r[1] = q[1] /\ r[j] = q[j] /\ (i # 0 => r[i] = q[i])
    BY <1>2, <1>6, <2>1
  <2>3. \A k \in (i + 1)..(j - 1) : k \in 1..n /\ r[k] = q[k]
    BY <1>2, <1>5, <1>6
  <2>4. Begins(q, i)
    BY <1>5, <2>1, <2>2 DEF Begins
  <2>5. Piece(q, i, j)
    BY <1>5, <1>6, <2>1, <2>2, <2>3, <2>4 DEF Piece, n
  <2>6. Whole(past, BaseAt(q, poke, i), Content(q, poke, i, j), q[j].cursor)
    BY <1>6, <2>1, <2>5 DEF AllWhole, n
  <2>7. BaseAt(q, poke, i) = BaseAt(r, poke, i)
    BY <2>2 DEF BaseAt
  <2>8. Content(q, poke, i, j) = Content(r, poke, i, j)
    BY <1>3, <1>6 DEF Content
  <2> QED BY <2>2, <2>6, <2>7, <2>8
<1>7. CASE ~(j \in 1..n)
  <2>1. j - n \in 1..m /\ j = n + (j - n) /\ j > n
    BY <1>2, <1>7
  <2>2. r[j] = f[j - n] /\ 1 \in 1..m /\ r[n + 1] = f[1]
    BY <1>1, <1>2, <2>1
  <2>3. j = n + m
    <3>1. f[j - n].type = "end"
      BY <1>5, <2>2
    <3>2. j - n = 1 \/ j - n = m \/ j - n \in 2..(m - 1)
      BY <1>1, <2>1
    <3>3. j - n = m
      BY <1>1, <3>1, <3>2
    <3> QED BY <2>1, <3>3
  <2>4. i >= n + 1
    <3> SUFFICES ASSUME ~(i >= n + 1) PROVE FALSE
      OBVIOUS
    <3>1. n + 1 \in (i + 1)..(j - 1)
      BY <1>1, <1>2, <1>5, <2>3
    <3> QED BY <1>1, <1>5, <2>2, <3>1
  <2>5. i = n + 1
    <3>1. i - n \in 1..(m - 1) /\ i = n + (i - n) /\ i - n \in 1..m /\ i # 0
      BY <1>1, <1>2, <1>5, <2>3, <2>4
    <3>2. r[i] = f[i - n]
      BY <1>2, <3>1
    <3>3. f[i - n].type = "start"
      BY <1>5, <3>1, <3>2 DEF Begins
    <3>4. i - n = 1 \/ i - n \in 2..(m - 1)
      BY <1>1, <3>1
    <3>5. i - n = 1
      BY <1>1, <3>3, <3>4
    <3> QED BY <3>1, <3>5
  <2>6. BaseAt(r, poke, i) = base
    <3>1. i # 0
      BY <1>2, <2>5
    <3> QED BY <2>2, <2>5, <3>1 DEF BaseAt, PokeOf
  <2>7. Content(r, poke, i, j) = ops
    <3>1. i # 0
      BY <1>2, <2>5
    <3>2. Between(f, 1, m) = ops
      BY DEF PokeOf, m
    <3> QED BY <1>4, <2>3, <2>5, <3>1, <3>2 DEF Content
  <2>8. r[j].cursor = end
    <3>1. j - n = m
      BY <1>1, <1>2, <2>3
    <3> QED BY <2>2, <3>1 DEF PokeOf, m
  <2> QED BY <2>6, <2>7, <2>8
<1> QED BY <1>6, <1>7

LEMMA FramesOfPoke ==
  ASSUME NEW base \in Nat, NEW ops \in Seq(Ops), NEW id \in Nat, NEW errors \in SUBSET Nat, NEW end \in Nat
  PROVE  PokeOf(PokeFrames(base, ops, id, errors, end), base, ToSet(ops), end)
<1> DEFINE f == PokeFrames(base, ops, id, errors, end)
           parts == Packed(ops)
           n == Len(parts)
<1>1. f \in Seq(Downward) /\ FramesOf(f, base, parts, id, errors, end)
  BY FramesAre
<1>2. n \in Nat /\ n >= 1 /\ AllOf(parts) = ToSet(ops) /\ DOMAIN parts = 1..n
  BY PackedAll
<1> HIDE DEF f, parts
<1>3. /\ Len(f) = n + 2 /\ f[1] = StartFrame(base) /\ f[n + 2] = EndFrame(end)
      /\ \A i \in 1..n : f[i + 1] = PartFrame(parts[i], IF i = 1 THEN id ELSE 0, IF i = 1 THEN errors ELSE {})
  BY <1>1 DEF FramesOf
<1> HIDE DEF n
<1>4. f[1].base = base /\ f[Len(f)].cursor = end
  BY <1>3 DEF StartFrame, EndFrame
<1>5. \A i \in 1..n : f[i + 1].patch = parts[i]
  <2>1. \A patch, m, e : PartFrame(patch, m, e).patch = patch
    BY DEF PartFrame
  <2> QED BY <1>3, <2>1
<1> DEFINE S == {ToSet(f[k].patch) : k \in (1 + 1)..(Len(f) - 1)}
           T == {ToSet(parts[i]) : i \in 1..n}
<1>6. S \subseteq T
  <2> SUFFICES ASSUME NEW k \in (1 + 1)..(Len(f) - 1) PROVE ToSet(f[k].patch) \in T
    OBVIOUS
  <2>1. k - 1 \in 1..n /\ (k - 1) + 1 = k
    BY <1>2, <1>3
  <2>2. f[k].patch = parts[k - 1]
    BY <1>5, <2>1
  <2> QED BY <2>1, <2>2
<1>7. T \subseteq S
  <2> SUFFICES ASSUME NEW i \in 1..n PROVE ToSet(parts[i]) \in S
    OBVIOUS
  <2>1. i + 1 \in (1 + 1)..(Len(f) - 1)
    BY <1>2, <1>3
  <2> QED BY <1>5, <2>1
<1>8. Between(f, 1, Len(f)) = ToSet(ops)
  <2>1. UNION S = UNION T
    BY <1>6, <1>7
  <2>2. UNION T = AllOf(parts)
    BY <1>2 DEF AllOf
  <2> QED BY <1>2, <2>1, <2>2 DEF Between
<1>9. PokeOf(f, base, ToSet(ops), end)
  BY <1>4, <1>8 DEF PokeOf
<1> QED BY <1>9 DEF f

\* What was a whole poke still is one when the workspace has gone on.
Longer(past, now) ==
  /\ Len(past) \in Nat /\ Len(now) \in Nat /\ Len(past) <= Len(now)
  /\ \A v \in 1..Len(past) : now[v] = past[v]

LEMMA WholeLater ==
  ASSUME NEW past, NEW now, Longer(past, now), NEW base, NEW ops, NEW end, Whole(past, base, ops, end)
  PROVE  Whole(now, base, ops, end)
<1>1. end \in 1..Len(past) /\ end \in 1..Len(now) /\ now[end] = past[end]
  BY DEF Whole, Longer
<1>2. \A k \in Keys : ChangeAt(now, end, k) = ChangeAt(past, end, k)
  BY <1>1 DEF ChangeAt
<1>3. CASE base = 0
  <2>1. ops = {Clear} \cup {ChangeAt(past, end, k) : k \in {j \in Keys : past[end][j] # Deleted}}
    BY <1>3 DEF Whole
  <2>2. ops = {Clear} \cup {ChangeAt(now, end, k) : k \in {j \in Keys : now[end][j] # Deleted}}
    BY <1>1, <1>2, <2>1
  <2> QED BY <1>1, <1>3, <2>2 DEF Whole
<1>4. CASE base # 0
  <2>1. base \in 1..end /\ \E C \in SUBSET Keys : /\ ops = {ChangeAt(past, end, k) : k \in C}
                                    /\ \A k \in Keys \ C : past[base][k] = past[end][k]
    BY <1>4 DEF Whole
  <2>2. PICK C \in SUBSET Keys : /\ ops = {ChangeAt(past, end, k) : k \in C}
                                 /\ \A k \in Keys \ C : past[base][k] = past[end][k]
    BY <2>1
  <2>3. now[base] = past[base]
    BY <1>1, <2>1 DEF Longer
  <2>4. ops = {ChangeAt(now, end, k) : k \in C}
    BY <1>2, <2>2
  <2>5. \A k \in Keys \ C : now[base][k] = now[end][k]
    BY <1>1, <2>2, <2>3
  <2> QED BY <1>1, <1>4, <2>1, <2>4, <2>5 DEF Whole
<1> QED BY <1>3, <1>4

LEMMA AllLater ==
  ASSUME NEW past, NEW now, Longer(past, now), NEW q, NEW poke, AllWhole(past, q, poke)
  PROVE  AllWhole(now, q, poke)
  BY WholeLater DEF AllWhole

-----------------------------------------------------------------------------
(* The pokes the workspace makes are whole *)

LEMMA SinceWhole ==
  ASSUME NEW past \in Seq(Rows), NEW current \in RowRecords, NEW base \in 1..Len(past),
         \A k \in Keys : /\ current[k].val = past[Len(past)][k] /\ current[k].version \in 1..Len(past)
                         /\ \A v \in current[k].version..Len(past) : past[v][k] = past[Len(past)][k]
  PROVE  Whole(past, base, ToSet(PatchSince(current, base)), Len(past))
<1> DEFINE end == Len(past)
           C == {j \in Keys : current[j].version > base}
<1>1. end \in Nat /\ base \in Nat /\ end \in 1..end /\ base \in 1..end /\ base # 0
  OBVIOUS
<1>2. ToSet(PatchSince(current, base)) = {ChangeOf(current, k) : k \in C}
  BY PatchSinceIs
<1>3. \A k \in Keys : ChangeOf(current, k) = ChangeAt(past, end, k)
  BY DEF ChangeOf, ChangeAt
<1>4. {ChangeOf(current, k) : k \in C} = {ChangeAt(past, end, k) : k \in C}
  BY <1>3
<1>5. \A k \in Keys \ C : past[base][k] = past[end][k]
  <2> TAKE k \in Keys \ C
  <2>1. current[k].version \in 1..end /\ ~(current[k].version > base)
    OBVIOUS
  <2>2. base \in current[k].version..end
    BY <1>1, <2>1
  <2> QED BY <2>2
<1>6. C \in SUBSET Keys
  OBVIOUS
<1> HIDE DEF C
<1>7. \E D \in SUBSET Keys : /\ ToSet(PatchSince(current, base)) = {ChangeAt(past, end, k) : k \in D}
                             /\ \A k \in Keys \ D : past[base][k] = past[end][k]
  BY <1>2, <1>4, <1>5, <1>6
<1> QED BY <1>1, <1>7 DEF Whole

LEMMA BootstrapWhole ==
  ASSUME HistTyped, HistInv
  PROVE  Whole(snaps, 0, ToSet(Bootstrap), Version)
<1>1. ToSet(Bootstrap) = {Clear} \cup {ChangeOf(rows, k) : k \in {j \in Keys : rows[j].val # Deleted}}
  BY BootstrapIs DEF HistTyped, RowRecords
<1>2. \A k \in Keys : rows[k].val = snaps[Version][k] /\ ChangeOf(rows, k) = ChangeAt(snaps, Version, k)
  BY DEF HistInv, Now, ChangeOf, ChangeAt
<1>3. {ChangeOf(rows, k) : k \in {j \in Keys : rows[j].val # Deleted}}
        = {ChangeAt(snaps, Version, k) : k \in {j \in Keys : snaps[Version][j] # Deleted}}
  BY <1>2
<1>4. Version \in 1..Version /\ Version = Len(snaps)
  BY DEF HistTyped, Version
<1> QED BY <1>1, <1>3, <1>4 DEF Whole

LEMMA NowWhole ==
  ASSUME HistTyped, HistInv, NEW base \in 1..Version
  PROVE  Whole(snaps, base, ToSet(PatchSince(rows, base)), Version)
<1>1. \A k \in Keys : /\ rows[k].val = snaps[Len(snaps)][k] /\ rows[k].version \in 1..Len(snaps)
                      /\ \A v \in rows[k].version..Len(snaps) : snaps[v][k] = snaps[Len(snaps)][k]
  BY DEF HistInv, Now, Version
<1>2. snaps \in Seq(Rows) /\ rows \in RowRecords /\ base \in 1..Len(snaps)
  BY DEF HistTyped, RowRecords, Version
<1> QED BY <1>1, <1>2, SinceWhole DEF Version

LEMMA NowWholeNext ==
  ASSUME HistTyped', HistInv', NEW base, base \in 1..Version'
  PROVE  Whole(snaps', base, ToSet(PatchSince(rows', base)), Version')
<1>1. \A k \in Keys : /\ rows'[k].val = snaps'[Len(snaps')][k] /\ rows'[k].version \in 1..Len(snaps')
                      /\ \A v \in rows'[k].version..Len(snaps') : snaps'[v][k] = snaps'[Len(snaps')][k]
  BY DEF HistInv, Now, Version
<1>2. snaps' \in Seq(Rows) /\ rows' \in RowRecords /\ base \in 1..Len(snaps')
  BY DEF HistTyped, RowRecords, Version
<1> QED BY <1>1, <1>2, SinceWhole DEF Version

LEMMA CommitLonger ==
  ASSUME HistTyped, NEW r, InOrder(Now, r), NEW author \in Nat, Committed(r, author)
  PROVE  Longer(snaps, snaps')
<1>1. HistTyped'
  BY CommitTyped
<1>2. CASE CommittedTo(r, author)
  BY <1>1, <1>2, CommitSnaps DEF HistTyped, Longer, Version
<1>3. CASE UNCHANGED <<rows, snaps, authors, event>>
  BY <1>3 DEF Longer, Version, HistTyped
<1> QED BY <1>2, <1>3, CommittedIs

-----------------------------------------------------------------------------
(* Every poke on its way is whole *)

\* The workspace sends nothing, or a whole poke.
SentWhole ==
  \/ down' = down
  \/ \E f, id, base, ops : /\ PokeShaped(f, id) /\ PokeOf(f, base, ops, Version')
                           /\ Whole(snaps', base, ops, Version') /\ down' = down \o f

LEMMA PiecesServer ==
  ASSUME TypeInv, PiecesInv, Longer(snaps, snaps'), link' = link, SentWhole
  PROVE  PiecesInv'
<1>1. AllWhole(snaps', down, link.poke)
  BY AllLater DEF PiecesInv
<1>2. CASE down' = down
  BY <1>1, <1>2 DEF PiecesInv
<1>3. CASE \E f, id, base, ops : /\ PokeShaped(f, id) /\ PokeOf(f, base, ops, Version')
                                 /\ Whole(snaps', base, ops, Version') /\ down' = down \o f
  <2>1. PICK f, id, base, ops : /\ PokeShaped(f, id) /\ PokeOf(f, base, ops, Version')
                                /\ Whole(snaps', base, ops, Version') /\ down' = down \o f
    BY <1>3
  <2>2. down \in Seq(Downward)
    BY DEF TypeInv
  <2>3. AllWhole(snaps', down \o f, link.poke)
    BY <1>1, <2>1, <2>2, WholeJoin
  <2> QED BY <2>1, <2>3 DEF PiecesInv
<1> QED BY <1>2, <1>3 DEF SentWhole

LEMMA LongerSame == ASSUME TypeInv, snaps' = snaps PROVE Longer(snaps, snaps')
  BY DEF TypeInv, Version, Longer

\* What another client's commit, or one of a push, sends.
LEMMA PatchSent ==
  ASSUME HistTyped', HistInv', NEW base, base \in 1..Version', NEW id \in Nat, NEW errors \in SUBSET Nat,
         down' = Sent(PokeFrames(base, PatchSince(rows', base), id, errors, Version'))
  PROVE  SentWhole
<1> DEFINE f == PokeFrames(base, PatchSince(rows', base), id, errors, Version')
<1>1. PatchSince(rows', base) \in Seq(Ops) /\ base \in Nat /\ Version' \in Nat
  BY PatchSinceIs DEF HistTyped, RowRecords
<1>2. PokeShaped(f, id) /\ PokeOf(f, base, ToSet(PatchSince(rows', base)), Version')
  BY <1>1, FramesShaped, FramesOfPoke
<1>3. Whole(snaps', base, ToSet(PatchSince(rows', base)), Version')
  BY NowWholeNext
<1>4. down' = down \/ down' = down \o f
  BY DEF Sent
<1> HIDE DEF f
<1> QED BY <1>2, <1>3, <1>4 DEF SentWhole

LEMMA PiecesOther ==
  ASSUME TypeInv, HistInv, PiecesInv, NEW program \in Others, OtherCommits(program)
  PROVE  PiecesInv'
<1>1. /\ Committed(Run(Now, program), 0)
      /\ Run(Now, program).ok /\ Written(Run(Now, program)) # {}
      /\ down' = Sent(PokeFrames(Version, PatchSince(rows', Version), 0, {}, Version + 1))
      /\ UNCHANGED <<lmid, push, ready, up, link, queue, issued, table, counts>>
  BY DEF OtherCommits
<1>2. HistTyped /\ InOrder(Now, Run(Now, program))
  BY RunTyped, TypeHist, ProgramSteps
<1>3. HistTyped' /\ HistInv' /\ Longer(snaps, snaps')
  BY <1>1, <1>2, CommitTyped, CommitHist, CommitLonger
<1>4. Version' = Version + 1
  <2>1. CommittedTo(Run(Now, program), 0)
    BY <1>1, CommittedIs
  <2> QED BY <1>2, <2>1, CommitSnaps
<1>5. Version \in 1..Version'
  BY <1>4, BoundNats
<1>6. SentWhole
  BY <1>1, <1>3, <1>4, <1>5, PatchSent
<1> QED BY <1>1, <1>3, <1>6, PiecesServer

LEMMA PiecesServe ==
  ASSUME TypeInv, HistInv, BoundInv, PiecesInv, ServeHello
  PROVE  PiecesInv'
<1> DEFINE cursor == Head(up).cursor
           ops == IF cursor = 0 THEN Bootstrap ELSE PatchSince(rows, cursor)
           f == PokeFrames(cursor, ops, lmid, {}, Version)
<1>1. /\ up # <<>> /\ Head(up).type = "hello" /\ down' = down \o f
      /\ UNCHANGED <<serverVars, link, queue, issued, table, counts>>
  BY DEF ServeHello
<1>2. up \in Seq(Upward) /\ UpFits(up, Version, LastId) /\ HistTyped
  BY TypeHist DEF TypeInv, BoundInv
<1>3. cursor \in 0..Version
  <2>1. cursor \in Nat /\ cursor <= Version
    BY <1>1, <1>2, HeadUp, UpTail DEF UpBound
  <2> QED BY <2>1, BoundNats
<1>4. Whole(snaps, cursor, ToSet(ops), Version)
  <2>1. CASE cursor = 0
    BY <1>2, <2>1, BootstrapWhole
  <2>2. CASE cursor # 0
    <3>1. cursor \in 1..Version
      BY <1>3, <2>2, BoundNats
    <3> QED BY <1>2, <2>2, <3>1, NowWhole
  <2> QED BY <2>1, <2>2
<1>5. PokeShaped(f, lmid) /\ PokeOf(f, cursor, ToSet(ops), Version)
  <2>1. ops \in Seq(Ops)
    BY PatchSinceIs, BootstrapIs DEF TypeInv, RowRecords
  <2>2. Version \in Nat /\ lmid \in Nat /\ {} \in SUBSET Nat /\ cursor \in Nat
    BY <1>3, BoundNats
  <2> HIDE DEF cursor, ops
  <2> QED BY <2>1, <2>2, FramesShaped, FramesOfPoke
<1> HIDE DEF f, cursor, ops
<1>6. snaps' = snaps /\ Version' = Version /\ link' = link
  BY <1>1 DEF serverVars, Version
<1>7. SentWhole
  BY <1>1, <1>4, <1>5, <1>6 DEF SentWhole
<1> QED BY <1>6, <1>7, LongerSame, PiecesServer

\* What a mutation of a push makes of the history.
LEMMA HandleGrows ==
  ASSUME TypeInv, HistInv, HandleMutation
  PROVE  HistTyped' /\ HistInv' /\ Longer(snaps, snaps') /\ Version' >= Version /\ Version' \in Nat /\ lmid' \in Nat
         /\ NextErrors \in SUBSET Nat /\ push.from \in Nat
<1> DEFINE next == Head(push.todo)
<1>1. /\ push.todo # <<>>
      /\ IF Fresh THEN Committed(NextRun, next.id) ELSE UNCHANGED <<rows, snaps, authors, event>>
      /\ lmid' = IF Fresh THEN next.id ELSE lmid
  BY HandleIs
<1>2. push \in Pushing /\ push.todo \in Seq(Muts) /\ push.errors \in SUBSET Nat /\ push.from \in Nat
  BY DEF TypeInv, Pushing
<1>3. next.id \in Nat /\ next.program \in Seq(Steps)
  BY <1>1, <1>2, HeadMuts
<1>4. HistTyped /\ InOrder(Now, NextRun)
  BY <1>3, TypeHist, RunTyped DEF NextRun
<1>5. CASE Fresh
  <2>1. Committed(NextRun, next.id)
    BY <1>1, <1>5
  <2>2. HistTyped' /\ HistInv' /\ Longer(snaps, snaps')
    BY <1>3, <1>4, <2>1, CommitTyped, CommitHist, CommitLonger
  <2> QED BY <2>2, <1>1, <1>2, <1>3, BoundNats DEF Longer, Version, NextErrors
<1>6. CASE ~Fresh
  <2>1. UNCHANGED <<rows, snaps, authors>>
    BY <1>1, <1>6
  <2>2. HistTyped' /\ Version' = Version /\ Longer(snaps, snaps')
    BY <1>4, <2>1, HistSame, LongerSame DEF Version
  <2>3. HistInv'
    BY <2>1, <2>2 DEF HistInv, Now, Version
  <2> QED BY <1>1, <1>2, <1>3, <1>6, <2>2, <2>3, BoundNats DEF NextErrors
<1> QED BY <1>5, <1>6

LEMMA PiecesHandle ==
  ASSUME TypeInv, HistInv, WireInv, PiecesInv, HandleMutation
  PROVE  PiecesInv'
<1>1. /\ push.todo # <<>>
      /\ \/ /\ Len(push.todo) > 1 /\ down' = down
            /\ push' = [push EXCEPT !.todo = Tail(@), !.errors = NextErrors]
         \/ /\ ~(Len(push.todo) > 1) /\ push' = Idle
            /\ down' = Sent(PokeFrames(push.from, PatchSince(rows', push.from), lmid', NextErrors, Version'))
      /\ UNCHANGED <<ready, up, link, queue, issued, table, restarts, cuts>>
  BY HandleIs
<1>2. HistTyped' /\ HistInv' /\ Longer(snaps, snaps') /\ Version' >= Version /\ Version' \in Nat /\ lmid' \in Nat
      /\ NextErrors \in SUBSET Nat
  BY HandleGrows
<1>3. push.from \in 1..Version'
  <2>1. push.from \in 1..Version
    BY <1>1 DEF WireInv
  <2> QED BY <1>2, <2>1, BoundNats
<1>4. SentWhole
  <2>1. CASE down' = down
    BY <2>1 DEF SentWhole
  <2>2. CASE down' = Sent(PokeFrames(push.from, PatchSince(rows', push.from), lmid', NextErrors, Version'))
    BY <1>2, <1>3, <2>2, PatchSent
  <2> QED BY <1>1, <2>1, <2>2
<1> QED BY <1>1, <1>2, <1>4, PiecesServer

\* The client reads frames in order, or loses them all.
LEMMA PiecesClient ==
  ASSUME TypeInv, PiecesInv, snaps' = snaps,
         \/ down' = down /\ link'.poke = link.poke
         \/ down' = <<>>
  PROVE  PiecesInv'
<1>1. AllWhole(snaps, down, link.poke)
  BY DEF PiecesInv
<1>2. AllWhole(snaps, <<>>, link'.poke)
  <2>1. \A j \in 1..Len(<<>>) : FALSE
    OBVIOUS
  <2> QED BY <2>1 DEF AllWhole
<1> QED BY <1>1, <1>2 DEF PiecesInv

LEMMA PiecesReads ==
  ASSUME TypeInv, WireInv, PiecesInv, PokeStart \/ PokePart \/ DropPoke \/ ApplyPoke
  PROVE  PiecesInv'
<1>1. /\ down # <<>> /\ down' = Tail(down) /\ snaps' = snaps
      /\ down \in Seq(Downward) /\ link \in Links /\ link.poke \in Pokes /\ Ordered(down, link.poke)
      /\ AllWhole(snaps, down, link.poke)
  BY StartIs, PartIs, DropIs, ApplyIs DEF TypeInv, Links, WireInv, PiecesInv, serverVars
<1>2. link'.poke \in Pokes
  BY TypeReads, TypeApply DEF TypeInv, Links
<1>3. CASE PokeStart
  <2>1. Head(down).type = "start" /\ link'.poke = [NoPoke EXCEPT !.base = Head(down).base,
                                                  !.mismatch = Head(down).base # link.cursor]
    BY <1>1, <1>3, StartIs DEF Links
  <2>2. link'.poke.patch = <<>> /\ link'.poke.base = Head(down).base
    BY <2>1 DEF NoPoke
  <2>3. AllWhole(snaps, Tail(down), link'.poke)
    BY <1>1, <1>2, <2>1, <2>2, WholeTail
  <2> QED BY <1>1, <2>3 DEF PiecesInv
<1>4. CASE PokePart
  <2>1. Head(down).type = "part" /\ link'.poke = PartRead
    BY <1>1, <1>4, PartIs DEF Links
  <2>2. link'.poke.patch = link.poke.patch \o Head(down).patch /\ link'.poke.base = link.poke.base
    BY <1>1, <2>1 DEF PartRead, Pokes
  <2>3. AllWhole(snaps, Tail(down), link'.poke)
    BY <1>1, <1>2, <2>1, <2>2, WholeTail
  <2> QED BY <1>1, <2>3 DEF PiecesInv
<1>5. CASE DropPoke \/ ApplyPoke
  <2>1. Head(down).type = "end"
    BY <1>5, DropIs, ApplyIs
  <2>2. AllWhole(snaps, Tail(down), link'.poke)
    BY <1>1, <1>2, <2>1, WholeTail
  <2> QED BY <1>1, <2>2 DEF PiecesInv
<1> QED BY <1>3, <1>4, <1>5

LEMMA PiecesInit == ASSUME Init PROVE PiecesInv
<1>1. down = <<>>
  BY DEF Init
<1>2. \A j \in 1..Len(<<>>) : FALSE
  OBVIOUS
<1> QED BY <1>1, <1>2 DEF PiecesInv, AllWhole

LEMMA PiecesStep ==
  ASSUME TypeInv, HistInv, BoundInv, WireInv, PiecesInv, [Next]_vars
  PROVE  PiecesInv'
<1>1. CASE UNCHANGED vars
  <2>1. snaps' = snaps /\ down' = down /\ link' = link
    BY <1>1 DEF vars, serverVars
  <2> QED BY <2>1, PiecesClient
<1>2. CASE Server
  <2>1. ASSUME StartPush PROVE PiecesInv'
    <3>1. snaps' = snaps /\ down' = down /\ link' = link
      BY <2>1 DEF StartPush
    <3> QED BY <3>1, PiecesClient
  <2> QED BY <1>2, <2>1, PiecesOther, PiecesServe, PiecesHandle DEF Server
<1>3. ASSUME NEW t \in Tables, Create(t) \/ Start(t) \/ Cleanup(t) \/ Restart(t) PROVE PiecesInv'
  <2>1. snaps' = snaps /\ down' = down /\ (Register \/ link' = link)
    BY <1>3 DEF Create, Start, Cleanup, Restart, serverVars
  <2>2. link'.poke = link.poke
    BY <2>1 DEF Register, TypeInv, Links
  <2> QED BY <2>1, <2>2, PiecesClient
<1>4. ASSUME NEW program \in Programs, Mutate(program) PROVE PiecesInv'
  <2>1. snaps' = snaps /\ down' = down /\ link' = link
    BY <1>4, MutateIs DEF serverVars
  <2> QED BY <2>1, PiecesClient
<1>5. ASSUME NEW cursor, Hydrate(cursor) PROVE PiecesInv'
  <2>1. snaps' = snaps /\ down' = down /\ link' = [link EXCEPT !.started = TRUE, !.cursor = cursor]
    BY <1>5, HydrateIs DEF serverVars
  <2>2. link'.poke = link.poke
    BY <2>1 DEF TypeInv, Links
  <2> QED BY <2>1, <2>2, PiecesClient
<1>6. ASSUME Dial \/ Open \/ Cut PROVE PiecesInv'
  <2>1. snaps' = snaps
        /\ \/ down' = <<>>
           \/ down' = down /\ (link' = [link EXCEPT !.socket = "dialling", !.synced = FALSE]
                               \/ link' = [link EXCEPT !.socket = "open", !.awaiting = TRUE])
    BY <1>6 DEF Dial, Open, Cut, serverVars
  <2>2. down' = <<>> \/ (down' = down /\ link'.poke = link.poke)
    BY <2>1 DEF TypeInv, Links
  <2> QED BY <2>1, <2>2, PiecesClient
<1> QED BY <1>1, <1>2, <1>3, <1>4, <1>5, <1>6, PiecesReads DEF Next, TableEvents, Client

\* Every poke on its way to the client holds the rows of its version, or every row that changed
\* since its base, split into frames and half read or not.
THEOREM PokesWhole == Spec => []PiecesInv
<1>1. Init => TypeInv /\ HistInv /\ BoundInv /\ WireInv /\ PiecesInv
  BY FirstTyped, InitHist, BoundInit, WireInit, PiecesInit
<1>2. TypeInv /\ HistInv /\ BoundInv /\ WireInv /\ PiecesInv /\ [Next]_vars
        => (TypeInv /\ HistInv /\ BoundInv /\ WireInv /\ PiecesInv)'
  BY TypeStep, TypeStutter, StepHist, BoundStep, WireStep, PiecesStep
<1> QED BY <1>1, <1>2, PTL DEF Spec

-----------------------------------------------------------------------------
(* What a table holds *)

\* The rows a collection has, or will have once its gate is emptied.
HeldOf(tb) == IF tb.status = "on" THEN tb.shown ELSE Attached(tb).shown
PastAt(past, v, t) == [i \in Ids |-> past[v][<<t, i>>]]

\* What a write shows.
LEMMA WriteShows ==
  ASSUME NEW tb \in TableRows, NEW clear \in BOOLEAN, NEW ops \in FieldOps,
         tb.keys = {i \in Ids : tb.shown[i] # Deleted}
  PROVE  Write(tb, clear, ops).shown =
           [i \in Ids |-> IF ops[i] # None THEN ops[i] ELSE IF clear THEN Deleted ELSE tb.shown[i]]
<1> DEFINE shown == IF clear THEN Empty ELSE tb.shown
           keys == IF clear THEN {} ELSE tb.keys
           put == {i \in Ids : ops[i] \notin {None, Deleted}}
           deleted == {i \in keys : ops[i] = Deleted}
           cells == [i \in Ids |-> IF i \in put THEN ops[i] ELSE IF i \in deleted THEN Deleted ELSE shown[i]]
           new == [tb EXCEPT !.shown = cells, !.keys = (keys \cup put) \ deleted]
<1>1. Write(tb, clear, ops) = new
  BY DEF Write
<1>2. new.shown = cells
  BY DEF TableRows
<1>3. Deleted # None
  BY MutatorsAssumption
<1>4. ASSUME NEW i \in Ids
      PROVE  cells[i] = IF ops[i] # None THEN ops[i] ELSE IF clear THEN Deleted ELSE tb.shown[i]
  BY <1>3 DEF Empty
<1> HIDE DEF new
<1>5. cells = [i \in Ids |-> IF ops[i] # None THEN ops[i] ELSE IF clear THEN Deleted ELSE tb.shown[i]]
  BY <1>4
<1> QED BY <1>1, <1>2, <1>5

\* What a gate holds comes out when it is emptied.
LEMMA AttachedShows ==
  ASSUME NEW tb \in TableRows
  PROVE  /\ Attached(tb).shown = [i \in Ids |-> IF tb.gate.ops[i] # None THEN tb.gate.ops[i] ELSE Deleted]
         /\ Attached(tb).gate = NewGate /\ Attached(tb).status = "on"
         /\ Attached(tb).ready = IF tb.gate.ready THEN TRUE ELSE tb.ready
<1> DEFINE fresh == [tb EXCEPT !.status = "on", !.applier = TRUE, !.shown = Empty, !.keys = {},
                          !.gate = NewGate]
           drained == Write(fresh, tb.gate.clear, tb.gate.ops)
<1>1. fresh \in TableRows /\ fresh.status = "on" /\ fresh.shown = Empty /\ fresh.keys = {}
      /\ fresh.gate = NewGate /\ fresh.ready = tb.ready
  <2>1. Empty \in [Ids -> Cells] /\ NewGate \in Gates
    BY GateTyped DEF Empty, Cells
  <2> QED BY <2>1 DEF TableRows
<1>2. tb.gate.clear \in BOOLEAN /\ tb.gate.ops \in FieldOps
  BY DEF TableRows, Gates
<1>3. Attached(tb) = IF tb.gate.ready THEN [drained EXCEPT !.ready = TRUE] ELSE drained
  BY DEF Attached
<1> HIDE DEF fresh
<1>4. fresh.keys = {i \in Ids : fresh.shown[i] # Deleted}
  BY <1>1 DEF Empty
<1>5. drained.shown = [i \in Ids |-> IF tb.gate.ops[i] # None THEN tb.gate.ops[i]
                                     ELSE IF tb.gate.clear THEN Deleted ELSE fresh.shown[i]]
  BY <1>1, <1>2, <1>4, WriteShows
<1>6. drained.shown = [i \in Ids |-> IF tb.gate.ops[i] # None THEN tb.gate.ops[i] ELSE Deleted]
  BY <1>1, <1>5 DEF Empty
<1>7. drained \in TableRows /\ drained.status = "on"
  BY <1>1, <1>2, WriteTyped
<1>8. drained.gate = NewGate /\ drained.ready = tb.ready
  BY <1>1 DEF Write, TableRows
<1> HIDE DEF drained
<1>9. [drained EXCEPT !.ready = TRUE].shown = drained.shown /\ [drained EXCEPT !.ready = TRUE].gate = drained.gate
      /\ [drained EXCEPT !.ready = TRUE].status = drained.status /\ [drained EXCEPT !.ready = TRUE].ready = TRUE
  BY <1>7 DEF TableRows
<1> QED BY <1>3, <1>6, <1>7, <1>8, <1>9

LEMMA HoldShows ==
  ASSUME NEW tb \in TableRows, NEW clear \in BOOLEAN, NEW ops \in FieldOps
  PROVE  /\ Hold(tb, clear, ops).gate.ops =
              [i \in Ids |-> IF ops[i] # None THEN ops[i] ELSE IF clear THEN None ELSE tb.gate.ops[i]]
         /\ Hold(tb, clear, ops).ready = tb.ready /\ Hold(tb, clear, ops).gate.ready = tb.gate.ready
  BY DEF Hold, TableRows, Gates

\* A batch changes the rows it names and, after a clear, leaves no others.
LEMMA HeldReceived ==
  ASSUME NEW tb \in TableRows, InStep(tb), tb.status \in {"created", "on"},
         NEW clear \in BOOLEAN, NEW ops \in FieldOps
  PROVE  HeldOf(Received(tb, clear, ops)) =
           [i \in Ids |-> IF ops[i] # None THEN ops[i] ELSE IF clear THEN Deleted ELSE HeldOf(tb)[i]]
<1>1. CASE tb.status = "on"
  <2>1. Received(tb, clear, ops) = Write(tb, clear, ops)
    BY <1>1 DEF Received
  <2>2. Write(tb, clear, ops).status = "on"
    BY <1>1, WriteTyped
  <2>3. Write(tb, clear, ops).shown =
           [i \in Ids |-> IF ops[i] # None THEN ops[i] ELSE IF clear THEN Deleted ELSE tb.shown[i]]
    BY <1>1, WriteShows DEF InStep
  <2> QED BY <1>1, <2>1, <2>2, <2>3 DEF HeldOf
<1>2. CASE tb.status = "created"
  <2> DEFINE new == Hold(tb, clear, ops)
  <2>1. Received(tb, clear, ops) = new
    BY <1>2 DEF Received
  <2>2. new \in TableRows /\ new.status = "created"
    BY <1>2, HoldTyped
  <2>3. new.gate.ops = [i \in Ids |-> IF ops[i] # None THEN ops[i] ELSE IF clear THEN None ELSE tb.gate.ops[i]]
    BY HoldShows
  <2> HIDE DEF new
  <2>4. HeldOf(new) = [i \in Ids |-> IF new.gate.ops[i] # None THEN new.gate.ops[i] ELSE Deleted]
    BY <2>2, AttachedShows DEF HeldOf
  <2>5. HeldOf(tb) = [i \in Ids |-> IF tb.gate.ops[i] # None THEN tb.gate.ops[i] ELSE Deleted]
    BY <1>2, AttachedShows DEF HeldOf
  <2>6. \A i \in Ids : (IF new.gate.ops[i] # None THEN new.gate.ops[i] ELSE Deleted)
                       = IF ops[i] # None THEN ops[i] ELSE IF clear THEN Deleted ELSE HeldOf(tb)[i]
    BY <2>3, <2>5
  <2> QED BY <2>1, <2>4, <2>6
<1> QED BY <1>1, <1>2

LEMMA MarkedIs ==
  ASSUME NEW tb \in TableRows
  PROVE  /\ MarkedReady(tb).status = tb.status /\ HeldOf(MarkedReady(tb)) = HeldOf(tb)
         /\ tb.status # "created" => MarkedReady(tb).gate = tb.gate
         /\ tb.status # "on" => MarkedReady(tb).ready = tb.ready
<1> DEFINE new == MarkedReady(tb)
<1>1. new \in TableRows /\ new.status = tb.status
  BY MarkedTyped
<1>2. CASE tb.status = "on"
  <2>1. new = [tb EXCEPT !.ready = TRUE]
    BY <1>2 DEF MarkedReady
  <2>2. new.shown = tb.shown /\ new.gate = tb.gate
    BY <2>1 DEF TableRows
  <2> QED BY <1>1, <1>2, <2>2 DEF HeldOf
<1>3. CASE tb.status = "created"
  <2>1. new = [tb EXCEPT !.gate.ready = TRUE]
    BY <1>3 DEF MarkedReady
  <2>2. new.gate.ops = tb.gate.ops /\ new.ready = tb.ready
    BY <2>1 DEF TableRows, Gates
  <2>3. HeldOf(new) = HeldOf(tb)
    <3> HIDE DEF new
    <3>1. HeldOf(new) = [i \in Ids |-> IF new.gate.ops[i] # None THEN new.gate.ops[i] ELSE Deleted]
      BY <1>1, <1>3, AttachedShows DEF HeldOf
    <3>2. HeldOf(tb) = [i \in Ids |-> IF tb.gate.ops[i] # None THEN tb.gate.ops[i] ELSE Deleted]
      BY <1>3, AttachedShows DEF HeldOf
    <3> QED BY <2>2, <3>1, <3>2
  <2> QED BY <1>1, <1>3, <2>2, <2>3
<1>4. CASE tb.status \notin {"on", "created"}
  <2>1. new = tb
    BY <1>4 DEF MarkedReady
  <2> QED BY <2>1
<1> QED BY <1>2, <1>3, <1>4

LEMMA ReceivedIs ==
  ASSUME NEW tb \in TableRows, NEW clear \in BOOLEAN, NEW ops \in FieldOps
  PROVE  /\ tb.status # "created" => Received(tb, clear, ops).gate = tb.gate
         /\ tb.status # "on" => Received(tb, clear, ops).ready = tb.ready
         /\ tb.status \notin {"on", "created"} => Received(tb, clear, ops) = tb
<1>1. CASE tb.status = "on"
  BY <1>1 DEF Received, Write, TableRows
<1>2. CASE tb.status = "created"
  BY <1>2, HoldShows DEF Received
<1>3. CASE tb.status \notin {"on", "created"}
  BY <1>3 DEF Received
<1> QED BY <1>1, <1>2, <1>3

-----------------------------------------------------------------------------
(* What a whole poke makes of a table *)

\* A patch that says the change of each row in C, once.
Tells(patch, past, v, C) == ToSet(patch) \ {Clear} = {ChangeAt(past, v, k) : k \in C}

LEMMA OpsTold ==
  ASSUME NEW patch, NEW past, NEW v, NEW C \in SUBSET Keys, Tells(patch, past, v, C), NEW t \in Tables
  PROVE  OpsOf(patch, t) = [i \in Ids |-> IF <<t, i>> \in C THEN past[v][<<t, i>>] ELSE None]
<1> DEFINE mine == {op \in ToSet(patch) : op.op # "clear" /\ op.key[1] = t}
           pick(i) == CHOOSE op \in mine : op.key[2] = i
           at(i) == IF \E op \in mine : op.key[2] = i
                    THEN IF pick(i).op = "put" THEN pick(i).val ELSE Deleted ELSE None
<1>1. OpsOf(patch, t) = [i \in Ids |-> at(i)]
  BY DEF OpsOf
<1>2. \A k : ChangeAt(past, v, k).key = k /\ ChangeAt(past, v, k).op \in {"put", "del"}
             /\ (IF ChangeAt(past, v, k).op = "put" THEN ChangeAt(past, v, k).val ELSE Deleted) = past[v][k]
  BY DEF ChangeAt
<1>3. Clear.op = "clear"
  BY DEF Clear
<1>4. \A op \in mine : \E k \in C : op = ChangeAt(past, v, k) /\ k[1] = t
  <2> TAKE op \in mine
  <2>1. op \in ToSet(patch) \ {Clear} /\ op.key[1] = t
    BY <1>3
  <2>2. PICK k \in C : op = ChangeAt(past, v, k)
    BY <2>1 DEF Tells
  <2> QED BY <1>2, <2>1, <2>2
<1>5. \A k \in C : k[1] = t => ChangeAt(past, v, k) \in mine
  <2> SUFFICES ASSUME NEW k \in C, k[1] = t PROVE ChangeAt(past, v, k) \in mine
    OBVIOUS
  <2>1. ChangeAt(past, v, k) \in ToSet(patch)
    BY DEF Tells
  <2>2. ChangeAt(past, v, k).key[1] = t /\ ChangeAt(past, v, k).op # "clear"
    BY <1>2
  <2> QED BY <2>1, <2>2
<1> HIDE DEF mine
<1>6. ASSUME NEW i \in Ids PROVE at(i) = IF <<t, i>> \in C THEN past[v][<<t, i>>] ELSE None
  <2>1. CASE <<t, i>> \in C
    <3>1. <<t, i>>[1] = t /\ <<t, i>>[2] = i
      OBVIOUS
    <3>2. \E op \in mine : op.key[2] = i
      BY <1>2, <1>5, <2>1, <3>1
    <3>3. pick(i) \in mine /\ pick(i).key[2] = i
      BY <3>2
    <3> HIDE DEF pick
    <3>4. PICK k \in C : pick(i) = ChangeAt(past, v, k) /\ k[1] = t
      BY <1>4, <3>3
    <3>5. k = <<t, i>>
      <4>1. k[2] = i
        BY <1>2, <3>3, <3>4
      <4>2. k \in Tables \X Ids
        BY DEF Keys
      <4> QED BY <3>4, <4>1, <4>2
    <3>6. (IF pick(i).op = "put" THEN pick(i).val ELSE Deleted) = past[v][<<t, i>>]
      BY <1>2, <3>4, <3>5
    <3> QED BY <2>1, <3>2, <3>6
  <2>2. CASE <<t, i>> \notin C
    <3>1. ~\E op \in mine : op.key[2] = i
      <4> SUFFICES ASSUME NEW op \in mine, op.key[2] = i PROVE FALSE
        OBVIOUS
      <4>1. PICK k \in C : op = ChangeAt(past, v, k) /\ k[1] = t
        BY <1>4
      <4>2. k[2] = i /\ k \in Tables \X Ids
        BY <1>2, <4>1 DEF Keys
      <4>3. k = <<t, i>>
        BY <4>1, <4>2
      <4> QED BY <2>2, <4>3
    <3> QED BY <2>2, <3>1
  <2> QED BY <2>1, <2>2
<1> HIDE DEF at
<1> QED BY <1>1, <1>6

\* What the client holds of a table: the rows of the version its cursor names or, without a
\* cursor, none or those of some version; and nothing says it is ready without rows.
TableHolds(tb, t, past, started, cursor) ==
  /\ tb.status # "created" => tb.gate = NewGate
  /\ tb.status # "on" => ~tb.ready
  /\ tb.status \in {"created", "on"} =>
       /\ IF cursor # 0 THEN HeldOf(tb) = PastAt(past, cursor, t)
          ELSE HeldOf(tb) = Empty \/ \E v \in 1..Len(past) : HeldOf(tb) = PastAt(past, v, t)
       /\ ~started => HeldOf(tb) = Empty
       /\ tb.ready \/ tb.gate.ready => \E v \in 1..Len(past) : HeldOf(tb) = PastAt(past, v, t)

\* A poke onto a base is marked when the base is not the client's cursor, and the tables hold
\* whole versions.
TablesInv ==
  /\ link.poke.base # 0 => (link.poke.mismatch <=> link.poke.base # link.cursor)
  /\ \A t \in Tables : TableHolds(table[t], t, snaps, link.started, link.cursor)

LEMMA HoldsLater ==
  ASSUME NEW past, NEW now, Longer(past, now), NEW started, NEW cursor \in 0..Len(past), NEW t, NEW tb,
         TableHolds(tb, t, past, started, cursor)
  PROVE  TableHolds(tb, t, now, started, cursor)
<1>1. \A v \in 1..Len(past) : v \in 1..Len(now) /\ PastAt(now, v, t) = PastAt(past, v, t)
  BY DEF Longer, PastAt
<1>2. cursor # 0 => cursor \in 1..Len(past)
  BY DEF Longer
<1>3. \A x : (\E v \in 1..Len(past) : x = PastAt(past, v, t)) => \E v \in 1..Len(now) : x = PastAt(now, v, t)
  BY <1>1
<1>4. cursor # 0 => PastAt(now, cursor, t) = PastAt(past, cursor, t)
  BY <1>1, <1>2
<1> QED BY <1>3, <1>4 DEF TableHolds

\* The cursor is forgotten.
LEMMA HoldsReset ==
  ASSUME NEW past, Len(past) \in Nat, NEW started, NEW cursor \in 0..Len(past), NEW t, NEW tb,
         TableHolds(tb, t, past, started, cursor)
  PROVE  TableHolds(tb, t, past, started, 0)
<1>1. cursor # 0 => cursor \in 1..Len(past)
  OBVIOUS
<1>2. cursor # 0 /\ HeldOf(tb) = PastAt(past, cursor, t) => \E v \in 1..Len(past) : HeldOf(tb) = PastAt(past, v, t)
  BY <1>1
<1> QED BY <1>2 DEF TableHolds

LEMMA HeldEmpty ==
  ASSUME NEW tb \in TableRows, tb.gate = NewGate
  PROVE  Attached(tb).shown = Empty
<1>1. tb.gate.ops = NoOps
  BY DEF NewGate
<1> QED BY <1>1, AttachedShows DEF NoOps, Empty

LEMMA HoldsNew ==
  ASSUME NEW past, NEW started, NEW t, NEW applier \in BOOLEAN
  PROVE  TableHolds(NewTable(applier), t, past, started, 0)
<1> DEFINE new == NewTable(applier)
<1>1. new \in TableRows /\ new.status = "created" /\ new.gate = NewGate /\ ~new.ready /\ ~new.gate.ready
  BY GateTyped DEF NewTable, NewGate
<1> HIDE DEF new
<1>2. HeldOf(new) = Empty
  BY <1>1, HeldEmpty DEF HeldOf
<1>3. TableHolds(new, t, past, started, 0)
  BY <1>1, <1>2 DEF TableHolds
<1> QED BY <1>3 DEF new

\* A collection starts: what its gate held is what it holds.
LEMMA HoldsStart ==
  ASSUME NEW tb \in TableRows, tb.status = "created", NEW past, NEW started, NEW cursor, NEW t,
         TableHolds(tb, t, past, started, cursor)
  PROVE  TableHolds(Attached(tb), t, past, started, cursor)
<1> DEFINE new == Attached(tb)
<1>1. new.gate = NewGate /\ new.status = "on" /\ new.ready = (IF tb.gate.ready THEN TRUE ELSE tb.ready)
  BY AttachedShows
<1>2. HeldOf(new) = HeldOf(tb)
  BY <1>1 DEF HeldOf
<1>3. ~NewGate.ready
  BY DEF NewGate
<1> HIDE DEF new
<1>4. new.ready => tb.ready \/ tb.gate.ready
  BY <1>1
<1>5. TableHolds(new, t, past, started, cursor)
  BY <1>1, <1>2, <1>3, <1>4 DEF TableHolds
<1> QED BY <1>5 DEF new

\* A collection that comes back starts empty.
LEMMA HoldsRestart ==
  ASSUME NEW tb \in TableRows, tb.status = "off", NEW past, NEW started, NEW cursor, NEW t,
         TableHolds(tb, t, past, started, cursor)
  PROVE  TableHolds(Attached(tb), t, past, started, 0)
<1> DEFINE new == Attached(tb)
<1>1. new.gate = NewGate /\ new.status = "on" /\ new.ready = (IF tb.gate.ready THEN TRUE ELSE tb.ready)
  BY AttachedShows
<1>2. tb.gate = NewGate /\ ~tb.ready
  BY DEF TableHolds
<1>3. HeldOf(new) = Empty
  BY <1>1, <1>2, HeldEmpty DEF HeldOf
<1>4. ~NewGate.ready
  BY DEF NewGate
<1> HIDE DEF new
<1>5. TableHolds(new, t, past, started, 0)
  BY <1>1, <1>2, <1>3, <1>4 DEF TableHolds
<1> QED BY <1>5 DEF new

\* A table that has been given the rows of a version.
LEMMA HoldsAt ==
  ASSUME NEW tb, NEW new, NEW past, Len(past) \in Nat, NEW started, NEW cursor \in 1..Len(past), NEW t,
         new.status = tb.status,
         tb.status # "created" => tb.gate = NewGate, tb.status # "on" => ~tb.ready,
         tb.status # "created" => new.gate = tb.gate, tb.status # "on" => new.ready = tb.ready,
         tb.status \in {"created", "on"} => HeldOf(new) = PastAt(past, cursor, t)
  PROVE  TableHolds(new, t, past, TRUE, cursor)
<1>1. cursor # 0
  OBVIOUS
<1> QED BY <1>1 DEF TableHolds

LEMMA HydrateHeld ==
  ASSUME TypeInv, NEW cursor \in 1..Version, NEW t \in Tables, NEW tb \in TableRows, InStep(tb),
         tb.status \in {"created", "on"}, HeldOf(tb) = Empty
  PROVE  HeldOf(Received(tb, FALSE, HydrateOps(cursor, t))) = PastAt(snaps, cursor, t)
<1> DEFINE ops == HydrateOps(cursor, t)
<1>1. ops \in FieldOps
  BY HydrateOpsTyped
<1>2. HeldOf(Received(tb, FALSE, ops)) =
        [i \in Ids |-> IF ops[i] # None THEN ops[i] ELSE IF FALSE THEN Deleted ELSE HeldOf(tb)[i]]
  <2> HIDE DEF ops
  <2> QED BY <1>1, HeldReceived
<1>3. \A i \in Ids : ops[i] = IF snaps[cursor][<<t, i>>] = Deleted THEN None ELSE snaps[cursor][<<t, i>>]
  BY DEF HydrateOps
<1>4. \A i \in Ids : snaps[cursor][<<t, i>>] # None
  <2>1. snaps[cursor] \in Rows
    BY DEF TypeInv, Version
  <2>2. \A i \in Ids : <<t, i>> \in Keys
    BY DEF Keys
  <2>3. \A i \in Ids : snaps[cursor][<<t, i>>] \in Scalars \cup {Deleted}
    BY <2>1, <2>2 DEF Rows
  <2> QED BY <2>3, MutatorsAssumption
<1> HIDE DEF ops
<1>5. \A i \in Ids : HeldOf(tb)[i] = Deleted
  BY DEF Empty
<1>6. \A i \in Ids : (IF ops[i] # None THEN ops[i] ELSE IF FALSE THEN Deleted ELSE HeldOf(tb)[i])
                     = snaps[cursor][<<t, i>>]
  BY <1>3, <1>4, <1>5
<1>7. HeldOf(Received(tb, FALSE, ops)) = PastAt(snaps, cursor, t)
  BY <1>2, <1>6 DEF PastAt
<1> QED BY <1>7 DEF ops

\* A whole poke brings a table from the version of its base, or from any, to its own.
LEMMA PokeHeld ==
  ASSUME NEW past \in Seq(Rows), NEW base, NEW end, NEW patch \in Seq(Ops), Whole(past, base, ToSet(patch), end),
         NEW t \in Tables, NEW tb \in TableRows, InStep(tb), tb.status \in {"created", "on"},
         base # 0 => HeldOf(tb) = PastAt(past, base, t)
  PROVE  HeldOf(Received(tb, Clears(patch), OpsOf(patch, t))) = PastAt(past, end, t)
<1> DEFINE ops == OpsOf(patch, t)
           clear == Clears(patch)
<1>1. ops \in FieldOps /\ clear \in BOOLEAN
  BY OpsOfTyped
<1>2. HeldOf(Received(tb, clear, ops)) =
        [i \in Ids |-> IF ops[i] # None THEN ops[i] ELSE IF clear THEN Deleted ELSE HeldOf(tb)[i]]
  <2> HIDE DEF ops, clear
  <2> QED BY <1>1, HeldReceived
<1>3. end \in 1..Len(past) /\ past[end] \in Rows
  BY DEF Whole
<1>4. \A i \in Ids : <<t, i>> \in Keys /\ past[end][<<t, i>>] # None
  <2>1. \A i \in Ids : <<t, i>> \in Keys
    BY DEF Keys
  <2>2. \A i \in Ids : past[end][<<t, i>>] \in Scalars \cup {Deleted}
    BY <1>3, <2>1 DEF Rows
  <2> QED BY <2>1, <2>2, MutatorsAssumption
<1>5. \A k : ChangeAt(past, end, k) # Clear
  <2>1. Clear.op = "clear"
    BY DEF Clear
  <2>2. \A k : ChangeAt(past, end, k).op # "clear"
    BY DEF ChangeAt
  <2> QED BY <2>1, <2>2
<1>6. CASE base = 0
  <2> DEFINE C == {j \in Keys : past[end][j] # Deleted}
  <2>1. ToSet(patch) = {Clear} \cup {ChangeAt(past, end, k) : k \in C}
    BY <1>6 DEF Whole
  <2>2. C \in SUBSET Keys /\ \A i \in Ids : <<t, i>> \in C <=> past[end][<<t, i>>] # Deleted
    BY <1>4
  <2> HIDE DEF C
  <2>3. clear = TRUE
    BY <2>1 DEF Clears
  <2>4. Tells(patch, past, end, C)
    BY <1>5, <2>1 DEF Tells
  <2>5. \A i \in Ids : ops[i] = IF <<t, i>> \in C THEN past[end][<<t, i>>] ELSE None
    BY <2>2, <2>4, OpsTold
  <2> HIDE DEF ops, clear
  <2>6. \A i \in Ids : (IF ops[i] # None THEN ops[i] ELSE IF clear THEN Deleted ELSE HeldOf(tb)[i])
                       = past[end][<<t, i>>]
    BY <1>4, <2>2, <2>3, <2>5
  <2>7. HeldOf(Received(tb, clear, ops)) = PastAt(past, end, t)
    BY <1>2, <2>6 DEF PastAt
  <2> QED BY <2>7 DEF ops, clear
<1>7. CASE base # 0
  <2>1. \E C \in SUBSET Keys : /\ ToSet(patch) = {ChangeAt(past, end, k) : k \in C}
                               /\ \A k \in Keys \ C : past[base][k] = past[end][k]
    BY <1>7 DEF Whole
  <2>2. PICK C \in SUBSET Keys : /\ ToSet(patch) = {ChangeAt(past, end, k) : k \in C}
                                 /\ \A k \in Keys \ C : past[base][k] = past[end][k]
    BY <2>1
  <2>3. clear = FALSE
    BY <1>5, <2>2 DEF Clears
  <2>4. Tells(patch, past, end, C)
    BY <1>5, <2>2 DEF Tells
  <2>5. \A i \in Ids : ops[i] = IF <<t, i>> \in C THEN past[end][<<t, i>>] ELSE None
    BY <2>4, OpsTold
  <2>6. \A i \in Ids : HeldOf(tb)[i] = past[base][<<t, i>>]
    BY <1>7 DEF PastAt
  <2>7. \A i \in Ids : <<t, i>> \notin C => past[base][<<t, i>>] = past[end][<<t, i>>]
    BY <1>4, <2>2
  <2> HIDE DEF ops, clear
  <2>8. \A i \in Ids : (IF ops[i] # None THEN ops[i] ELSE IF clear THEN Deleted ELSE HeldOf(tb)[i])
                       = past[end][<<t, i>>]
    BY <1>4, <2>3, <2>5, <2>6, <2>7
  <2>9. HeldOf(Received(tb, clear, ops)) = PastAt(past, end, t)
    BY <1>2, <2>8 DEF PastAt
  <2> QED BY <2>9 DEF ops, clear
<1> QED BY <1>6, <1>7

LEMMA WholeClears ==
  ASSUME NEW past, NEW base, NEW end, NEW patch, Whole(past, base, ToSet(patch), end)
  PROVE  Clears(patch) <=> base = 0
<1>1. \A k : ChangeAt(past, end, k) # Clear
  <2>1. Clear.op = "clear"
    BY DEF Clear
  <2>2. \A k : ChangeAt(past, end, k).op # "clear"
    BY DEF ChangeAt
  <2> QED BY <2>1, <2>2
<1>2. CASE base = 0
  BY <1>2 DEF Whole, Clears
<1>3. CASE base # 0
  <2>1. \E C \in SUBSET Keys : ToSet(patch) = {ChangeAt(past, end, k) : k \in C}
    BY <1>3 DEF Whole
  <2> QED BY <1>1, <1>3, <2>1 DEF Clears
<1> QED BY <1>2, <1>3

-----------------------------------------------------------------------------
(* Tables hold whole versions *)

LEMMA TablesNow ==
  ASSUME TypeInv, BoundInv, KeysInv
  PROVE  /\ link \in Links /\ link.poke \in Pokes /\ link.cursor \in 0..Len(snaps) /\ Len(snaps) \in Nat \ {0}
         /\ Longer(snaps, snaps) /\ \A t \in Tables : table[t] \in TableRows /\ InStep(table[t])
<1>1. link.cursor <= Version
  BY DEF BoundInv
<1>2. link \in Links /\ link.poke \in Pokes /\ link.cursor \in Nat /\ Len(snaps) \in Nat \ {0}
  BY DEF TypeInv, Links, Version
<1>3. \A t \in Tables : table[t] \in TableRows /\ InStep(table[t])
  BY DEF TypeInv, KeysInv, Sound
<1>4. Longer(snaps, snaps) /\ link.cursor \in 0..Len(snaps)
  BY <1>1, <1>2 DEF Longer, Version
<1> QED BY <1>2, <1>3, <1>4

LEMMA TablesServer ==
  ASSUME TypeInv, BoundInv, KeysInv, TablesInv, Longer(snaps, snaps'), table' = table, link' = link
  PROVE  TablesInv'
<1>1. link.cursor \in 0..Len(snaps)
  BY TablesNow
<1>2. \A t \in Tables : TableHolds(table[t], t, snaps', link.started, link.cursor)
  BY <1>1, HoldsLater DEF TablesInv
<1>3. link.poke.base # 0 => (link.poke.mismatch <=> link.poke.base # link.cursor)
  BY DEF TablesInv
<1> QED BY <1>2, <1>3 DEF TablesInv

\* The connection changes and the tables do not.
LEMMA TablesLink ==
  ASSUME TypeInv, BoundInv, KeysInv, TablesInv, snaps' = snaps, table' = table,
         link'.cursor = link.cursor, link'.started = link.started,
         link'.poke.base # 0 => (link'.poke.mismatch <=> link'.poke.base # link.cursor)
  PROVE  TablesInv'
  BY DEF TablesInv

\* A table is registered only when its rows will be sent: the cursor is 0 then, or becomes so.
LEMMA RegisterCursor ==
  ASSUME TypeInv, TablesInv, Register, ~Unserved
  PROVE  /\ link'.cursor = 0 /\ link'.started = link.started /\ link'.poke = link.poke
         /\ link.poke.base # 0 => (link.poke.mismatch <=> link.poke.base # 0)
<1>1. link \in Links /\ link.poke \in Pokes /\ link.synced \in BOOLEAN
  BY DEF TypeInv, Links
<1>2. link.poke.base # 0 => (link.poke.mismatch <=> link.poke.base # link.cursor)
  BY DEF TablesInv
<1>3. link.cursor = 0 \/ (link.synced /\ (link.poke = NoPoke \/ link.poke.mismatch))
  BY <1>1 DEF Unserved
<1>4. NoPoke.base = 0
  BY DEF NoPoke
<1>5. link.poke.base # 0 => (link.poke.mismatch <=> link.poke.base # 0)
  <2>1. CASE link.cursor = 0
    BY <1>2, <2>1
  <2>2. CASE link.poke = NoPoke
    BY <1>4, <2>2
  <2>3. CASE link.poke.mismatch
    BY <2>3
  <2> QED BY <1>3, <2>1, <2>2, <2>3
<1>6. CASE link.synced
  <2>1. link' = [link EXCEPT !.cursor = 0, !.awaiting = link.socket = "open"]
    BY <1>6 DEF Register
  <2>2. link'.cursor = 0 /\ link'.started = link.started /\ link'.poke = link.poke
    BY <1>1, <2>1 DEF Links
  <2> QED BY <1>5, <2>2
<1>7. CASE ~link.synced
  <2>1. link' = link
    BY <1>7 DEF Register
  <2>2. link.cursor = 0
    BY <1>3, <1>7
  <2> QED BY <1>5, <2>1, <2>2
<1> QED BY <1>1, <1>6, <1>7

LEMMA TablesTables ==
  ASSUME Late = FALSE, TypeInv, BoundInv, KeysInv, TablesInv,
         NEW t \in Tables, Create(t) \/ Start(t) \/ Cleanup(t) \/ Restart(t)
  PROVE  TablesInv'
<1>1. /\ link \in Links /\ link.cursor \in 0..Len(snaps) /\ Len(snaps) \in Nat
      /\ table[t] \in TableRows /\ table \in [Tables -> TableRows]
  BY TablesNow DEF TypeInv
<1>2. snaps' = snaps
  BY DEF Create, Start, Cleanup, Restart, serverVars
<1>3. /\ \A u \in Tables : TableHolds(table[u], u, snaps, link.started, link.cursor)
      /\ link.poke.base # 0 => (link.poke.mismatch <=> link.poke.base # link.cursor)
  BY DEF TablesInv
<1>4. \A u \in Tables : TableHolds(table[u], u, snaps, link.started, 0)
  BY <1>1, <1>3, HoldsReset
<1>5. CASE Create(t) \/ Restart(t)
  <2>1. Register /\ ~Unserved
        /\ \/ \E applier \in BOOLEAN : table' = [table EXCEPT ![t] = NewTable(applier)]
           \/ table[t].status = "off" /\ table' = [table EXCEPT ![t] = Attached(table[t])]
    BY <1>5 DEF Create, Restart
  <2>2. /\ link'.cursor = 0 /\ link'.started = link.started /\ link'.poke = link.poke
        /\ link.poke.base # 0 => (link.poke.mismatch <=> link.poke.base # 0)
    BY <2>1, RegisterCursor
  <2>3. \/ \E applier \in BOOLEAN : table'[t] = NewTable(applier)
        \/ (table[t].status = "off" /\ table'[t] = Attached(table[t]))
    BY <1>1, <2>1
  <2>4. \A u \in Tables \ {t} : table'[u] = table[u]
    BY <1>1, <2>1
  <2>5. TableHolds(table'[t], t, snaps, link.started, 0)
    BY <1>1, <1>3, <2>3, HoldsNew, HoldsRestart
  <2>6. \A u \in Tables : TableHolds(table'[u], u, snaps, link.started, 0)
    BY <1>4, <2>4, <2>5
  <2> QED BY <1>2, <2>2, <2>6 DEF TablesInv
<1>6. CASE Start(t)
  <2>1. table[t].status = "created" /\ table' = [table EXCEPT ![t] = Attached(table[t])] /\ link' = link
    BY <1>6 DEF Start
  <2>2. table'[t] = Attached(table[t]) /\ \A u \in Tables \ {t} : table'[u] = table[u]
    BY <1>1, <2>1
  <2>3. TableHolds(table'[t], t, snaps, link.started, link.cursor)
    BY <1>1, <1>3, <2>1, <2>2, HoldsStart
  <2>4. \A u \in Tables : TableHolds(table'[u], u, snaps, link.started, link.cursor)
    BY <1>3, <2>2, <2>3
  <2> QED BY <1>2, <1>3, <2>1, <2>4 DEF TablesInv
<1>7. CASE Cleanup(t)
  <2> DEFINE new == [table[t] EXCEPT !.status = "off", !.shown = Empty, !.keys = {}, !.ready = FALSE]
  <2>1. table[t].status = "on" /\ table' = [table EXCEPT ![t] = new] /\ link' = link
    BY <1>7 DEF Cleanup
  <2>2. new.status = "off" /\ new.gate = table[t].gate /\ ~new.ready
    BY <1>1 DEF TableRows
  <2> HIDE DEF new
  <2>3. table'[t] = new /\ \A u \in Tables \ {t} : table'[u] = table[u]
    BY <1>1, <2>1
  <2>4. TableHolds(table[t], t, snaps, link.started, link.cursor)
    BY <1>3
  <2>5. TableHolds(new, t, snaps, link.started, link.cursor)
    BY <2>1, <2>2, <2>4 DEF TableHolds
  <2>6. \A u \in Tables : TableHolds(table'[u], u, snaps, link.started, link.cursor)
    BY <1>3, <2>3, <2>5
  <2> QED BY <1>2, <1>3, <2>1, <2>6 DEF TablesInv
<1> QED BY <1>5, <1>6, <1>7

LEMMA TablesHydrate ==
  ASSUME TypeInv, BoundInv, KeysInv, WireInv, TablesInv,
         NEW cursor \in {0} \cup (IF Cached THEN 1..Version ELSE {}), Hydrate(cursor)
  PROVE  TablesInv'
<1>1. /\ link \in Links /\ link.cursor \in 0..Len(snaps) /\ Len(snaps) \in Nat
      /\ \A t \in Tables : table[t] \in TableRows /\ InStep(table[t])
  BY TablesNow
<1>2. /\ ~link.started /\ push = Idle
      /\ link' = [link EXCEPT !.started = TRUE, !.cursor = cursor]
      /\ table' = IF cursor = 0 THEN table
                  ELSE [t \in Tables |-> MarkedReady(Received(table[t], FALSE, HydrateOps(cursor, t)))]
      /\ snaps' = snaps
  BY HydrateIs DEF serverVars
<1>3. link'.started = TRUE /\ link'.cursor = cursor /\ link'.poke = link.poke
  BY <1>1, <1>2 DEF Links
<1>4. link.cursor = 0 /\ link.poke = NoPoke /\ NoPoke.base = 0
  <2>1. WireNow
    BY WireIs
  <2> QED BY <1>2, <2>1 DEF WireNow, NoPoke
<1>5. \A t \in Tables : TableHolds(table[t], t, snaps, FALSE, 0)
  <2>1. link.started = FALSE
    BY <1>1, <1>2 DEF Links
  <2> QED BY <1>4, <2>1 DEF TablesInv
<1>6. CASE cursor = 0
  <2>1. \A t \in Tables : TableHolds(table[t], t, snaps, TRUE, 0)
    BY <1>5 DEF TableHolds
  <2> QED BY <1>2, <1>3, <1>4, <1>6, <2>1 DEF TablesInv
<1>7. CASE cursor # 0
  <2>1. cursor \in 1..Version /\ cursor \in 1..Len(snaps)
    BY <1>7 DEF Version
  <2>2. ASSUME NEW t \in Tables PROVE TableHolds(table'[t], t, snaps, TRUE, cursor)
    <3> DEFINE mid == Received(table[t], FALSE, HydrateOps(cursor, t))
               new == MarkedReady(mid)
    <3>1. table'[t] = new
      BY <1>2, <1>7
    <3>2. FALSE \in BOOLEAN /\ HydrateOps(cursor, t) \in FieldOps
      BY <2>1, HydrateOpsTyped
    <3>3. mid \in TableRows /\ mid.status = table[t].status
      BY <1>1, <3>2, ReceivedTyped
    <3>4. /\ table[t].status # "created" => mid.gate = table[t].gate
          /\ table[t].status # "on" => mid.ready = table[t].ready
      BY <1>1, <3>2, ReceivedIs
    <3>5. TableHolds(table[t], t, snaps, FALSE, 0)
      BY <1>5
    <3>6. table[t].status \in {"created", "on"} => HeldOf(table[t]) = Empty
      BY <3>5 DEF TableHolds
    <3>7. table[t].status \in {"created", "on"} => HeldOf(mid) = PastAt(snaps, cursor, t)
      BY <1>1, <2>1, <3>6, HydrateHeld
    <3> HIDE DEF mid
    <3>8. /\ new.status = mid.status /\ HeldOf(new) = HeldOf(mid)
          /\ mid.status # "created" => new.gate = mid.gate
          /\ mid.status # "on" => new.ready = mid.ready
      BY <3>3, MarkedIs
    <3> HIDE DEF new
    <3>9. /\ table[t].status # "created" => table[t].gate = NewGate
          /\ table[t].status # "on" => ~table[t].ready
      BY <3>5 DEF TableHolds
    <3>10. /\ new.status = table[t].status
           /\ table[t].status # "created" => new.gate = table[t].gate
           /\ table[t].status # "on" => new.ready = table[t].ready
           /\ table[t].status \in {"created", "on"} => HeldOf(new) = PastAt(snaps, cursor, t)
      BY <3>3, <3>4, <3>7, <3>8
    <3>11. TableHolds(new, t, snaps, TRUE, cursor)
      BY <1>1, <2>1, <3>9, <3>10, HoldsAt
    <3> QED BY <3>1, <3>11
  <2>3. link'.poke.base = 0
    BY <1>3, <1>4
  <2> QED BY <1>2, <1>3, <2>2, <2>3 DEF TablesInv
<1> QED BY <1>6, <1>7

LEMMA TablesReads ==
  ASSUME TypeInv, BoundInv, KeysInv, TablesInv, Dial \/ Open \/ Cut \/ PokeStart \/ PokePart \/ DropPoke
  PROVE  TablesInv'
<1>1. link \in Links /\ link.poke \in Pokes
  BY TablesNow
<1>2. link.poke.base # 0 => (link.poke.mismatch <=> link.poke.base # link.cursor)
  BY DEF TablesInv
<1>3. NoPoke.base = 0
  BY DEF NoPoke
<1>4. CASE Dial \/ Open \/ Cut \/ DropPoke
  <2>1. /\ snaps' = snaps /\ table' = table
        /\ \/ link' = [link EXCEPT !.socket = "dialling", !.synced = FALSE]
           \/ link' = [link EXCEPT !.socket = "open", !.awaiting = TRUE]
           \/ link' = [link EXCEPT !.socket = "none", !.awaiting = FALSE, !.poke = NoPoke]
           \/ link' = [link EXCEPT !.poke = NoPoke, !.awaiting = TRUE]
    BY <1>4 DEF Dial, Open, Cut, DropPoke, serverVars
  <2>2. link'.cursor = link.cursor /\ link'.started = link.started /\ (link'.poke = link.poke \/ link'.poke = NoPoke)
    BY <1>1, <2>1 DEF Links
  <2> QED BY <1>2, <1>3, <2>1, <2>2, TablesLink
<1>5. CASE PokeStart
  <2>1. snaps' = snaps /\ table' = table
        /\ link' = [link EXCEPT !.poke = [NoPoke EXCEPT !.base = Head(down).base,
                                                  !.mismatch = Head(down).base # link.cursor]]
    BY <1>5, StartIs DEF serverVars
  <2> DEFINE poke == [NoPoke EXCEPT !.base = Head(down).base, !.mismatch = Head(down).base # link.cursor]
  <2>2. poke.mismatch = (poke.base # link.cursor)
    BY DEF NoPoke
  <2> HIDE DEF poke
  <2>3. link'.cursor = link.cursor /\ link'.started = link.started /\ link'.poke = poke
    BY <1>1, <2>1 DEF Links, poke
  <2> QED BY <2>1, <2>2, <2>3, TablesLink
<1>6. CASE PokePart
  <2>1. snaps' = snaps /\ table' = table /\ link' = [link EXCEPT !.poke = PartRead]
    BY <1>6, PartIs DEF serverVars
  <2>2. PartRead.base = link.poke.base /\ PartRead.mismatch = link.poke.mismatch
    BY <1>1 DEF PartRead, Pokes
  <2>3. link'.cursor = link.cursor /\ link'.started = link.started /\ link'.poke = PartRead
    BY <1>1, <2>1 DEF Links
  <2> QED BY <1>2, <2>1, <2>2, <2>3, TablesLink
<1> QED BY <1>4, <1>5, <1>6

\* What is put together when its end comes.
LEMMA HeadWhole ==
  ASSUME TypeInv, PiecesInv, down # <<>>, Head(down).type = "end"
  PROVE  Whole(snaps, link.poke.base, ToSet(link.poke.patch), Head(down).cursor)
<1>1. down \in Seq(Downward) /\ Head(down) = down[1] /\ Len(down) \in Nat \ {0}
  BY TailIs DEF TypeInv
<1>2. Piece(down, 0, 1) /\ 0 \in 0..Len(down) /\ 1 \in 1..Len(down)
  <2>1. \A k \in (0 + 1)..(1 - 1) : FALSE
    OBVIOUS
  <2>2. 0 \in 0..Len(down) /\ 1 \in 1..Len(down) /\ 0 < 1
    BY <1>1
  <2> QED BY <1>1, <2>1, <2>2 DEF Piece, Begins
<1>3. Whole(snaps, BaseAt(down, link.poke, 0), Content(down, link.poke, 0, 1), down[1].cursor)
  BY <1>2 DEF PiecesInv, AllWhole
<1>4. Between(down, 0, 1) = {}
  <2>1. \A k \in (0 + 1)..(1 - 1) : FALSE
    OBVIOUS
  <2>2. {ToSet(down[k].patch) : k \in (0 + 1)..(1 - 1)} = {}
    BY <2>1
  <2> QED BY <2>2 DEF Between
<1> QED BY <1>1, <1>3, <1>4 DEF BaseAt, Content

\* The poke the client applies is a whole one, onto its cursor or onto no base.
LEMMA AppliedWhole ==
  ASSUME TypeInv, PiecesInv, TablesInv, ApplyPoke
  PROVE  /\ Whole(snaps, link.poke.base, ToSet(link.poke.patch), Head(down).cursor)
         /\ link.poke.base = 0 \/ link.poke.base = link.cursor
<1>1. down # <<>> /\ Head(down).type = "end" /\ ~Mismatched
  BY ApplyIs
<1>2. Whole(snaps, link.poke.base, ToSet(link.poke.patch), Head(down).cursor)
  BY <1>1, HeadWhole
<1>3. link.poke.base = 0 \/ link.poke.base = link.cursor
  <2>1. link.poke.base # 0 => ~Clears(link.poke.patch)
    BY <1>2, WholeClears
  <2>2. link.poke.base # 0 => ~link.poke.mismatch
    BY <1>1, <2>1 DEF Mismatched
  <2>3. link.poke.base # 0 => (link.poke.mismatch <=> link.poke.base # link.cursor)
    BY DEF TablesInv
  <2> QED BY <2>2, <2>3
<1> QED BY <1>2, <1>3

LEMMA TablesApply ==
  ASSUME TypeInv, BoundInv, KeysInv, WireInv, PiecesInv, TablesInv, ApplyPoke
  PROVE  TablesInv'
<1>1. /\ link \in Links /\ link.poke \in Pokes /\ Len(snaps) \in Nat /\ snaps \in Seq(Rows)
      /\ link.cursor \in 0..Len(snaps)
      /\ \A t \in Tables : table[t] \in TableRows /\ InStep(table[t])
  BY TablesNow DEF TypeInv
<1>2. /\ down # <<>>
      /\ link' = [link EXCEPT !.poke = NoPoke, !.cursor = Head(down).cursor, !.awaiting = FALSE,
                              !.synced = TRUE, !.confirmed = ConfirmedNow]
      /\ table' = [t \in Tables |-> Fed(t)] /\ snaps' = snaps
  BY ApplyIs DEF serverVars
<1>3. Whole(snaps, link.poke.base, ToSet(link.poke.patch), Head(down).cursor)
      /\ (link.poke.base = 0 \/ link.poke.base = link.cursor)
  BY AppliedWhole
<1>4. link'.cursor = Head(down).cursor /\ link'.started = TRUE /\ link'.poke = NoPoke
  <2>1. link.started = TRUE
    <3>1. WireNow
      BY WireIs
    <3> QED BY <1>1, <1>2, <3>1 DEF WireNow, Links
  <2> QED BY <1>1, <1>2, <2>1 DEF Links
<1>5. Head(down).cursor \in 1..Len(snaps)
  BY <1>3 DEF Whole
<1>6. link.poke.patch \in Seq(Ops)
  BY <1>1 DEF Pokes
<1>7. ASSUME NEW t \in Tables PROVE TableHolds(Fed(t), t, snaps, TRUE, Head(down).cursor)
  <2> DEFINE mid == Patched(t)
             marked == MarkedReady(mid)
  <2>1. OpsOf(link.poke.patch, t) \in FieldOps /\ Clears(link.poke.patch) \in BOOLEAN
    BY <1>6, OpsOfTyped
  <2>2. TableHolds(table[t], t, snaps, link.started, link.cursor)
    BY DEF TablesInv
  <2>3. mid \in TableRows /\ mid.status = table[t].status
    BY <1>1, <2>1, ReceivedTyped DEF Patched
  <2>4. /\ table[t].status # "created" => mid.gate = table[t].gate
        /\ table[t].status # "on" => mid.ready = table[t].ready
    BY <1>1, <2>1, ReceivedIs DEF Patched
  <2>5. table[t].status \in {"created", "on"} /\ link.poke.base # 0 =>
          HeldOf(table[t]) = PastAt(snaps, link.poke.base, t)
    BY <1>3, <2>2 DEF TableHolds
  <2>6. table[t].status \in {"created", "on"} => HeldOf(mid) = PastAt(snaps, Head(down).cursor, t)
    BY <1>1, <1>3, <1>6, <2>5, PokeHeld DEF Patched
  <2> HIDE DEF mid
  <2>7. /\ marked.status = mid.status /\ HeldOf(marked) = HeldOf(mid)
        /\ mid.status # "created" => marked.gate = mid.gate
        /\ mid.status # "on" => marked.ready = mid.ready
    BY <2>3, MarkedIs
  <2> HIDE DEF marked
  <2>8. /\ table[t].status # "created" => table[t].gate = NewGate
        /\ table[t].status # "on" => ~table[t].ready
    BY <2>2 DEF TableHolds
  <2>9. TableHolds(mid, t, snaps, TRUE, Head(down).cursor)
    BY <1>1, <1>5, <2>3, <2>4, <2>6, <2>8, HoldsAt
  <2>10. /\ marked.status = table[t].status
         /\ table[t].status # "created" => marked.gate = table[t].gate
         /\ table[t].status # "on" => marked.ready = table[t].ready
         /\ table[t].status \in {"created", "on"} => HeldOf(marked) = PastAt(snaps, Head(down).cursor, t)
    BY <2>3, <2>4, <2>6, <2>7
  <2>11. TableHolds(marked, t, snaps, TRUE, Head(down).cursor)
    BY <1>1, <1>5, <2>8, <2>10, HoldsAt
  <2> QED BY <2>9, <2>11 DEF Fed, mid, marked
<1>8. NoPoke.base = 0
  BY DEF NoPoke
<1> QED BY <1>2, <1>4, <1>7, <1>8 DEF TablesInv

LEMMA TablesInit == ASSUME Init PROVE TablesInv
<1>1. /\ link.started = FALSE /\ link.cursor = 0 /\ link.poke = NoPoke
  BY DEF Init
<1>2. ASSUME NEW t \in Tables PROVE TableHolds(table[t], t, snaps, FALSE, 0)
  <2>1. \A applier \in BOOLEAN : TableHolds(NewTable(applier), t, snaps, FALSE, 0)
    BY HoldsNew
  <2> DEFINE new == NewTable(FALSE)
             absent == [NewTable(FALSE) EXCEPT !.status = "absent"]
  <2>2. new \in TableRows /\ new.status = "created"
    BY GateTyped DEF NewTable
  <2>3. TableHolds(Attached(new), t, snaps, FALSE, 0)
    <3>1. TableHolds(new, t, snaps, FALSE, 0)
      BY <2>1
    <3> HIDE DEF new
    <3> QED BY <2>2, <3>1, HoldsStart
  <2>4. absent.status = "absent" /\ absent.gate = NewGate /\ ~absent.ready
    BY DEF NewTable
  <2> HIDE DEF absent
  <2>5. TableHolds(absent, t, snaps, FALSE, 0)
    BY <2>4 DEF TableHolds
  <2>6. table[t] = absent \/ (\E applier \in BOOLEAN : table[t] = NewTable(applier)) \/ table[t] = Attached(new)
    BY FirstTables DEF absent
  <2> QED BY <2>1, <2>3, <2>5, <2>6
<1>3. NoPoke.base = 0
  BY DEF NoPoke
<1> QED BY <1>1, <1>2, <1>3 DEF TablesInv

LEMMA TablesStep ==
  ASSUME Late = FALSE, TypeInv, HistInv, BoundInv, KeysInv, WireInv, PiecesInv, TablesInv, [Next]_vars
  PROVE  TablesInv'
<1>1. CASE UNCHANGED vars
  <2>1. snaps' = snaps /\ table' = table /\ link' = link
    BY <1>1 DEF vars, serverVars
  <2> QED BY <2>1, LongerSame, TablesServer
<1>2. CASE Server
  <2>1. table' = table /\ link' = link
    BY <1>2 DEF Server, OtherCommits, ServeHello, StartPush, HandleMutation
  <2>2. ASSUME NEW program \in Others, OtherCommits(program) PROVE Longer(snaps, snaps')
    <3>1. Committed(Run(Now, program), 0)
      BY <2>2 DEF OtherCommits
    <3>2. HistTyped /\ InOrder(Now, Run(Now, program))
      BY RunTyped, TypeHist, ProgramSteps
    <3> QED BY <3>1, <3>2, CommitLonger
  <2>3. ASSUME ServeHello \/ StartPush PROVE Longer(snaps, snaps')
    <3>1. snaps' = snaps
      BY <2>3 DEF ServeHello, StartPush, serverVars
    <3> QED BY <3>1, LongerSame
  <2>4. Longer(snaps, snaps')
    BY <1>2, <2>2, <2>3, HandleGrows DEF Server
  <2> QED BY <2>1, <2>4, TablesServer
<1>3. CASE TableEvents
  BY <1>3, TablesTables DEF TableEvents
<1>4. ASSUME NEW program \in Programs, Mutate(program) PROVE TablesInv'
  <2>1. snaps' = snaps /\ table' = table /\ link' = link
    BY <1>4, MutateIs DEF serverVars
  <2> QED BY <2>1, LongerSame, TablesServer
<1>5. CASE Client
  BY <1>4, <1>5, TablesHydrate, TablesReads, TablesApply DEF Client
<1> QED BY <1>1, <1>2, <1>3, <1>5 DEF Next

LEMMA TablesShow ==
  ASSUME TypeInv, TablesInv
  PROVE  WholePokes /\ ReadyHolds
<1>1. \A v, t : RowsAt(v, t) = PastAt(snaps, v, t)
  BY DEF RowsAt, PastAt
<1>2. \A t \in Tables : Held(t) = HeldOf(table[t]) /\ TableHolds(table[t], t, snaps, link.started, link.cursor)
  BY DEF Held, HeldOf, TablesInv
<1>3. WholePokes
  BY <1>1, <1>2 DEF WholePokes, TableHolds, Registered, Version
<1>4. ASSUME NEW t \in Tables, table[t].status = "on" /\ table[t].ready
      PROVE  \E v \in 1..Version : table[t].shown = RowsAt(v, t)
  BY <1>1, <1>2, <1>4 DEF TableHolds, HeldOf, Version
<1> QED BY <1>3, <1>4 DEF ReadyHolds

\* When a table is registered only while its rows will be sent, every registered table holds the
\* rows of one version, the one the cursor names if there is a cursor.
THEOREM TablesHoldVersions == ASSUME Late = FALSE PROVE Spec => []TablesInv
<1>1. Init => TypeInv /\ HistInv /\ BoundInv /\ KeysInv /\ WireInv /\ PiecesInv /\ TablesInv
  BY FirstTyped, InitHist, BoundInit, InitKeys, WireInit, PiecesInit, TablesInit
<1>2. TypeInv /\ HistInv /\ BoundInv /\ KeysInv /\ WireInv /\ PiecesInv /\ TablesInv /\ [Next]_vars
        => (TypeInv /\ HistInv /\ BoundInv /\ KeysInv /\ WireInv /\ PiecesInv /\ TablesInv)'
  <2>1. KeysInv /\ UNCHANGED vars => KeysInv'
    BY DEF KeysInv, vars
  <2> QED BY <2>1, TypeStep, TypeStutter, StepHist, BoundStep, StepKeys, WireStep, PiecesStep, TablesStep
<1> QED BY <1>1, <1>2, PTL DEF Spec

\* A table never holds half of a poke.
THEOREM PokesAtomic == ASSUME Late = FALSE PROVE Spec => []WholePokes
<1>1. TypeInv /\ TablesInv => WholePokes
  BY TablesShow
<1> QED BY <1>1, CollectionsTyped, TablesHoldVersions, PTL

\* A collection that says it is ready has the rows of a version.
THEOREM ReadyHasRows == ASSUME Late = FALSE PROVE Spec => []ReadyHolds
<1>1. TypeInv /\ TablesInv => ReadyHolds
  BY TablesShow
<1> QED BY <1>1, CollectionsTyped, TablesHoldVersions, PTL

-----------------------------------------------------------------------------
(* The order of pokes *)

\* The poke that starts at i, or is put together already, will be applied at the cursor.
Good(q, poke, cursor, i) == Begins(q, i) /\ BaseAt(q, poke, i) \in {0, cursor}
\* Each poke is onto the end of the one before, or onto none.
Chained(q) == \A i \in 1..(Len(q) - 1) : q[i].type = "end" => q[i + 1].base \in {0, q[i].cursor}

LEMMA GoodTail ==
  ASSUME NEW q \in Seq(Downward), q # <<>>, NEW poke, Ordered(q, poke), NEW cursor, NEW new,
         Head(q).type = "start" => new.base = Head(q).base,
         Head(q).type = "part" => new.base = poke.base,
         NEW i \in 0..Len(q), Good(q, poke, cursor, i), Head(q).type = "end" => i # 0,
         NEW j, j = IF i = 0 THEN 0 ELSE i - 1
  PROVE  j \in 0..Len(Tail(q)) /\ Good(Tail(q), new, cursor, j)
<1> DEFINE r == Tail(q)
<1>1. /\ Len(r) = Len(q) - 1 /\ Len(q) \in Nat \ {0}
      /\ \A k \in 1..(Len(q) - 1) : k + 1 \in 1..Len(q) /\ r[k] = q[k + 1]
      /\ Head(q) = q[1] /\ Head(q) \in Downward
  BY TailIs
<1> HIDE DEF r
<1>2. r = <<>> => Len(r) = 0
  OBVIOUS
<1>3. q[1].type \in {"start", "part", "end"}
  BY <1>1 DEF Downward
<1>4. q[1].type # "end" => /\ 1 < Len(q) /\ q[2].type # "start" /\ r # <<>> /\ r[1] = q[2]
  <2>1. q[1].type # "end" => 1 < Len(q) /\ q[1 + 1].type # "start"
    <3>1. 1 \in 1..Len(q)
      BY <1>1
    <3> QED BY <3>1 DEF Ordered
  <2>2. 1 < Len(q) => r # <<>> /\ r[1] = q[2]
    <3>1. 1 < Len(q) => 1 \in 1..(Len(q) - 1) /\ 1 + 1 = 2 /\ Len(r) # 0
      BY <1>1
    <3> QED BY <1>1, <1>2, <3>1
  <2>3. 1 + 1 = 2
    OBVIOUS
  <2> QED BY <2>1, <2>2, <2>3
<1>5. CASE i >= 2
  <2>1. j \in 1..(Len(q) - 1) /\ j + 1 = i /\ j # 0 /\ j \in 0..Len(r) /\ i # 0
    BY <1>1, <1>5
  <2>2. r[j] = q[i]
    BY <1>1, <2>1
  <2> QED BY <2>1, <2>2 DEF Good, Begins, BaseAt, r
<1>6. CASE i = 1
  <2>1. j = 0 /\ j \in 0..Len(r)
    BY <1>1, <1>6
  <2>2. q[1].type = "start" /\ q[1].base \in {0, cursor}
    BY <1>6 DEF Good, Begins, BaseAt
  <2>3. r # <<>> /\ r[1].type # "start" /\ new.base = q[1].base
    BY <1>1, <1>4, <2>2
  <2> QED BY <2>1, <2>2, <2>3 DEF Good, Begins, BaseAt, r
<1>7. CASE i = 0
  <2>1. j = 0 /\ j \in 0..Len(r)
    BY <1>1, <1>7
  <2>2. q[1].type # "start" /\ poke.base \in {0, cursor}
    BY <1>7 DEF Good, Begins, BaseAt
  <2>3. q[1].type = "part"
    BY <1>1, <1>3, <1>7, <2>2
  <2>4. r # <<>> /\ r[1].type # "start" /\ new.base = poke.base
    BY <1>1, <1>4, <2>3
  <2> QED BY <2>1, <2>2, <2>4 DEF Good, Begins, BaseAt, r
<1>8. i >= 2 \/ i = 1 \/ i = 0
  BY <1>1
<1> QED BY <1>5, <1>6, <1>7, <1>8

LEMMA GoodJoin ==
  ASSUME NEW q \in Seq(Downward), NEW f \in Seq(Downward), NEW poke, NEW cursor,
         NEW i \in 0..Len(q), Good(q, poke, cursor, i)
  PROVE  i \in 0..Len(q \o f) /\ Good(q \o f, poke, cursor, i)
<1> DEFINE r == q \o f
<1>1. /\ Len(r) = Len(q) + Len(f) /\ Len(q) \in Nat /\ Len(f) \in Nat
      /\ \A k \in 1..Len(q) : r[k] = q[k]
  BY JoinIs
<1>2. q # <<>> => Len(q) # 0
  OBVIOUS
<1>2a. r = <<>> => Len(r) = 0
  OBVIOUS
<1> HIDE DEF r
<1>3. i \in 0..Len(r)
  BY <1>1
<1>4. CASE i = 0
  <2>1. q # <<>> /\ q[1].type # "start" /\ poke.base \in {0, cursor}
    BY <1>4 DEF Good, Begins, BaseAt
  <2>2. 1 \in 1..Len(q) /\ r # <<>>
    BY <1>1, <1>2, <1>2a, <2>1
  <2>3. r[1] = q[1]
    BY <1>1, <2>2
  <2> QED BY <1>3, <1>4, <2>1, <2>2, <2>3 DEF Good, Begins, BaseAt, r
<1>5. CASE i # 0
  <2>1. i \in 1..Len(q)
    BY <1>1, <1>5
  <2>2. r[i] = q[i]
    BY <1>1, <2>1
  <2> QED BY <1>3, <1>5, <2>2 DEF Good, Begins, BaseAt, r
<1> QED BY <1>4, <1>5

LEMMA GoodNew ==
  ASSUME NEW q \in Seq(Downward), NEW f, NEW id, PokeShaped(f, id), NEW poke, NEW cursor, f[1].base \in {0, cursor}
  PROVE  /\ Len(q) + 1 \in 0..Len(q \o f) /\ Good(q \o f, poke, cursor, Len(q) + 1)
         /\ Len(q) + 2 \in 1..Len(q \o f) /\ (q \o f)[Len(q) + 2].type = "part" /\ (q \o f)[Len(q) + 2].lmid = id
<1>1. /\ f \in Seq(Downward) /\ Len(f) \in Nat /\ Len(f) >= 3 /\ f[1].type = "start"
      /\ \A i \in 2..(Len(f) - 1) : f[i].type = "part" /\ f[i].lmid = (IF i = 2 THEN id ELSE 0)
  BY DEF PokeShaped
<1> DEFINE r == q \o f
           n == Len(q)
           m == Len(f)
<1>2. /\ Len(r) = n + m /\ n \in Nat /\ m \in Nat /\ \A k \in 1..m : r[n + k] = f[k]
  BY <1>1, JoinIs
<1> HIDE DEF r, n
<1>3. 1 \in 1..m /\ 2 \in 1..m /\ 2 \in 2..(m - 1)
  BY <1>1
<1>4. r[n + 1] = f[1] /\ r[n + 2] = f[2] /\ f[2].type = "part" /\ f[2].lmid = id
  BY <1>1, <1>2, <1>3
<1>5. n + 1 \in 0..Len(r) /\ n + 2 \in 1..Len(r) /\ n + 1 # 0
  BY <1>1, <1>2
<1> QED BY <1>1, <1>4, <1>5 DEF Good, Begins, BaseAt, r, n

LEMMA ChainTail ==
  ASSUME NEW q \in Seq(Downward), q # <<>>, Chained(q)
  PROVE  Chained(Tail(q))
<1> DEFINE r == Tail(q)
<1>1. /\ Len(r) = Len(q) - 1 /\ Len(q) \in Nat \ {0}
      /\ \A k \in 1..(Len(q) - 1) : k + 1 \in 1..Len(q) /\ r[k] = q[k + 1]
  BY TailIs
<1> HIDE DEF r
<1>2. ASSUME NEW i \in 1..(Len(r) - 1), r[i].type = "end" PROVE r[i + 1].base \in {0, r[i].cursor}
  <2>1. i \in 1..(Len(q) - 1) /\ i + 1 \in 1..(Len(q) - 1)
    BY <1>1
  <2>2. r[i] = q[i + 1] /\ r[i + 1] = q[(i + 1) + 1]
    BY <1>1, <2>1
  <2> QED BY <1>2, <2>1, <2>2 DEF Chained
<1> QED BY <1>2 DEF Chained, r

LEMMA ChainJoin ==
  ASSUME NEW q \in Seq(Downward), Chained(q), NEW f, NEW id, PokeShaped(f, id),
         q # <<>> => f[1].base \in {0, q[Len(q)].cursor}
  PROVE  Chained(q \o f) /\ q \o f # <<>> /\ (q \o f)[Len(q \o f)] = f[Len(f)]
<1>1. /\ f \in Seq(Downward) /\ Len(f) \in Nat /\ Len(f) >= 3 /\ f[1].type = "start"
      /\ \A i \in 2..(Len(f) - 1) : f[i].type = "part"
  BY DEF PokeShaped
<1> DEFINE r == q \o f
           n == Len(q)
           m == Len(f)
<1>2. /\ Len(r) = n + m /\ n \in Nat /\ m \in Nat
      /\ \A k \in 1..n : r[k] = q[k]
      /\ \A k \in 1..m : r[n + k] = f[k]
      /\ \A k \in 1..(n + m) : k \in 1..n \/ (k - n \in 1..m /\ k = n + (k - n))
  BY <1>1, JoinIs
<1>2a. q = <<>> => n = 0
  OBVIOUS
<1>2b. r = <<>> => Len(r) = 0
  OBVIOUS
<1>2c. q # <<>> => f[1].base \in {0, q[n].cursor}
  OBVIOUS
<1>2d. \A i \in 1..(n - 1) : q[i].type = "end" => q[i + 1].base \in {0, q[i].cursor}
  BY DEF Chained
<1> HIDE DEF r, n, m
<1>3. ASSUME NEW i \in 1..(Len(r) - 1), r[i].type = "end" PROVE r[i + 1].base \in {0, r[i].cursor}
  <2>1. CASE i < n
    <3>1. i \in 1..(n - 1) /\ i \in 1..n /\ i + 1 \in 1..n
      BY <1>2, <2>1
    <3>2. r[i] = q[i] /\ r[i + 1] = q[i + 1]
      BY <1>2, <3>1
    <3> QED BY <1>2d, <1>3, <3>1, <3>2
  <2>2. CASE i = n
    <3>1. i \in 1..n /\ 1 \in 1..m /\ n # 0
      BY <1>1, <1>2, <2>2 DEF m
    <3>2. r[i] = q[n] /\ r[i + 1] = f[1] /\ q # <<>>
      BY <1>2, <1>2a, <2>2, <3>1
    <3> QED BY <1>2c, <3>2
  <2>3. CASE i > n
    <3>1. i - n \in 1..(m - 1) /\ i = n + (i - n) /\ i - n \in 1..m /\ (i - n = 1 \/ i - n \in 2..(m - 1))
      BY <1>1, <1>2, <2>3 DEF m
    <3>2. r[i] = f[i - n]
      BY <1>2, <3>1
    <3>3. f[i - n].type # "end"
      BY <1>1, <3>1 DEF m
    <3> QED BY <1>3, <3>2, <3>3
  <2> QED BY <1>2, <2>1, <2>2, <2>3
<1>4. m \in 1..m /\ Len(r) # 0
  BY <1>1, <1>2 DEF m
<1>5. r[Len(r)] = f[m]
  BY <1>2, <1>4
<1> QED BY <1>2b, <1>3, <1>4, <1>5 DEF Chained, r, m

AnyGood(q, poke, cursor) == \E i \in 0..Len(q) : Good(q, poke, cursor, i)
FirstGood(q, poke, cursor) == Good(q, poke, cursor, 0) \/ Good(q, poke, cursor, 1)
Asks(u) == \E i \in DOMAIN u : u[i].type = "hello"
\* A hello that names a cursor is the first frame of its connection, and nothing follows it.
Renews(u, cursor, isReady) ==
  \A i \in DOMAIN u : u[i].type = "hello" /\ u[i].cursor # 0 => ~isReady /\ u = <<Hello(cursor)>>

\* The frames q to the client and u to the workspace take the client to the target: each poke is
\* onto the end of the one before, the last one ends there, and the first will be applied, or
\* one that will be is asked for.
Current(q, u, poke, cursor, awaiting, isReady, target) ==
  /\ Chained(q)
  /\ isReady /\ q # <<>> => q[Len(q)].cursor = target
  /\ isReady /\ q = <<>> /\ ~awaiting => cursor = target
  /\ q # <<>> /\ ~awaiting => FirstGood(q, poke, cursor)
  /\ awaiting => Asks(u) \/ AnyGood(q, poke, cursor)
  /\ Renews(u, cursor, isReady)

\* The version the next poke will be onto.
Target == IF push.todo = <<>> THEN Version ELSE push.from

CurrentInv == Current(down, up, link.poke, link.cursor, link.awaiting, ready, Target)

LEMMA CurrentNone ==
  ASSUME NEW poke, NEW cursor, NEW target
  PROVE  Current(<<>>, <<>>, poke, cursor, FALSE, FALSE, target)
<1>1. Chained(<<>>)
  <2>1. \A i \in 1..(Len(<<>>) - 1) : FALSE
    OBVIOUS
  <2> QED BY <2>1 DEF Chained
<1>2. Renews(<<>>, cursor, FALSE)
  BY DEF Renews
<1> QED BY <1>1, <1>2 DEF Current

LEMMA CurrentOpen ==
  ASSUME NEW poke, NEW cursor, NEW target
  PROVE  Current(<<>>, <<Hello(cursor)>>, poke, cursor, TRUE, FALSE, target)
<1>1. Chained(<<>>)
  <2>1. \A i \in 1..(Len(<<>>) - 1) : FALSE
    OBVIOUS
  <2> QED BY <2>1 DEF Chained
<1>2. Renews(<<Hello(cursor)>>, cursor, FALSE)
  BY DEF Renews
<1>3. Asks(<<Hello(cursor)>>)
  <2>1. 1 \in DOMAIN <<Hello(cursor)>> /\ <<Hello(cursor)>>[1] = Hello(cursor)
    OBVIOUS
  <2>2. Hello(cursor).type = "hello"
    BY DEF Hello
  <2> QED BY <2>1, <2>2 DEF Asks
<1> QED BY <1>1, <1>2, <1>3 DEF Current

LEMMA AnyJoin ==
  ASSUME NEW q \in Seq(Downward), NEW f \in Seq(Downward), NEW poke, NEW cursor
  PROVE  AnyGood(q, poke, cursor) => AnyGood(q \o f, poke, cursor)
  BY GoodJoin DEF AnyGood

LEMMA FirstJoin ==
  ASSUME NEW q \in Seq(Downward), q # <<>>, NEW f \in Seq(Downward), NEW poke, NEW cursor
  PROVE  FirstGood(q, poke, cursor) => FirstGood(q \o f, poke, cursor)
<1>1. 0 \in 0..Len(q) /\ 1 \in 0..Len(q)
  OBVIOUS
<1> QED BY <1>1, GoodJoin DEF FirstGood

\* The workspace sends a poke from the target to a new one.
LEMMA CurrentSent ==
  ASSUME NEW q \in Seq(Downward), NEW u, NEW poke, NEW cursor, NEW awaiting \in BOOLEAN, NEW target, NEW new,
         Current(q, u, poke, cursor, awaiting, TRUE, target),
         NEW f, NEW id, PokeShaped(f, id), f[1].base = target, f[Len(f)].cursor = new
  PROVE  Current(q \o f, u, poke, cursor, awaiting, TRUE, new)
<1>1. /\ Chained(q)
      /\ q # <<>> => q[Len(q)].cursor = target
      /\ q = <<>> /\ ~awaiting => cursor = target
      /\ q # <<>> /\ ~awaiting => FirstGood(q, poke, cursor)
      /\ awaiting => Asks(u) \/ AnyGood(q, poke, cursor)
      /\ Renews(u, cursor, TRUE)
  BY DEF Current
<1>2. f \in Seq(Downward)
  BY DEF PokeShaped
<1>3. Chained(q \o f) /\ q \o f # <<>> /\ (q \o f)[Len(q \o f)] = f[Len(f)]
  BY <1>1, ChainJoin
<1>4. ~awaiting => FirstGood(q \o f, poke, cursor)
  <2>1. CASE q # <<>>
    BY <1>1, <1>2, <2>1, FirstJoin
  <2>2. CASE q = <<>> /\ ~awaiting
    <3>0. f[1].base \in {0, cursor}
      BY <1>1, <2>2
    <3>1. Good(q \o f, poke, cursor, Len(q) + 1)
      BY <3>0, GoodNew
    <3>2. Len(q) + 1 = 1
      BY <2>2
    <3> QED BY <3>1, <3>2 DEF FirstGood
  <2> QED BY <2>1, <2>2
<1>5. awaiting => Asks(u) \/ AnyGood(q \o f, poke, cursor)
  BY <1>1, <1>2, AnyJoin
<1> QED BY <1>1, <1>3, <1>4, <1>5 DEF Current

LEMMA AsksTail ==
  ASSUME NEW u \in Seq(Upward), u # <<>>
  PROVE  /\ Asks(u) /\ Head(u).type # "hello" => Asks(Tail(u))
         /\ Asks(Tail(u)) => Asks(u)
<1>1. /\ DOMAIN Tail(u) = 1..(Len(u) - 1) /\ DOMAIN u = 1..Len(u) /\ Len(u) \in Nat \ {0}
      /\ \A i \in 1..(Len(u) - 1) : i + 1 \in 1..Len(u) /\ Tail(u)[i] = u[i + 1]
      /\ Head(u) = u[1]
  BY TailIs
<1> DEFINE r == Tail(u)
<1> HIDE DEF r
<1>2. \A i \in 1..Len(u) : i = 1 \/ (i - 1 \in 1..(Len(u) - 1) /\ (i - 1) + 1 = i)
  BY <1>1
<1>3. ASSUME NEW i \in DOMAIN u, u[i].type = "hello", Head(u).type # "hello" PROVE Asks(Tail(u))
  <2>1. i # 1
    BY <1>1, <1>3
  <2>2. i - 1 \in DOMAIN Tail(u) /\ Tail(u)[i - 1] = u[i]
    BY <1>1, <1>2, <2>1
  <2> QED BY <1>3, <2>2 DEF Asks
<1>4. Asks(Tail(u)) => Asks(u)
  BY <1>1 DEF Asks
<1> QED BY <1>3, <1>4 DEF Asks

\* What the frames to the workspace say of renewal, when one is read.
LEMMA RenewsTail ==
  ASSUME NEW u \in Seq(Upward), u # <<>>, NEW cursor, NEW isReady \in BOOLEAN, Renews(u, cursor, isReady)
  PROVE  /\ Renews(Tail(u), cursor, isReady)
         /\ Head(u).type = "hello" => Renews(Tail(u), cursor, TRUE)
         /\ Head(u).type = "hello" => Head(u).cursor \in {0, cursor}
         /\ Head(u).type = "hello" /\ isReady => Head(u).cursor = 0
<1>1. /\ DOMAIN Tail(u) = 1..(Len(u) - 1) /\ DOMAIN u = 1..Len(u) /\ Len(u) \in Nat \ {0}
      /\ \A i \in 1..(Len(u) - 1) : i + 1 \in 1..Len(u) /\ Tail(u)[i] = u[i + 1]
      /\ Head(u) = u[1] /\ 1 \in 1..Len(u)
  BY TailIs
<1>2. \A i \in DOMAIN Tail(u) : ~(Tail(u)[i].type = "hello" /\ Tail(u)[i].cursor # 0)
  <2> SUFFICES ASSUME NEW i \in DOMAIN Tail(u), Tail(u)[i].type = "hello", Tail(u)[i].cursor # 0 PROVE FALSE
    OBVIOUS
  <2>1. i + 1 \in DOMAIN u /\ Tail(u)[i] = u[i + 1]
    BY <1>1
  <2>2. u = <<Hello(cursor)>>
    BY <2>1 DEF Renews
  <2>3. Len(u) = 1
    BY <2>2
  <2> QED BY <1>1, <2>3
<1>3. ASSUME Head(u).type = "hello", Head(u).cursor # 0 PROVE ~isReady /\ Head(u).cursor = cursor
  <2>1. ~isReady /\ u = <<Hello(cursor)>>
    BY <1>1, <1>3 DEF Renews
  <2>2. Head(u) = Hello(cursor)
    BY <2>1
  <2>3. Hello(cursor).cursor = cursor
    BY DEF Hello
  <2> QED BY <2>1, <2>2, <2>3
<1>4. \A b : Renews(Tail(u), cursor, b)
  BY <1>2 DEF Renews
<1> QED BY <1>3, <1>4

\* The workspace answers a hello.
LEMMA CurrentServed ==
  ASSUME NEW q \in Seq(Downward), NEW u \in Seq(Upward), NEW poke, NEW cursor, NEW awaiting \in BOOLEAN,
         NEW isReady \in BOOLEAN, NEW target, Current(q, u, poke, cursor, awaiting, isReady, target),
         u # <<>>, Head(u).type = "hello", ~isReady => q = <<>>,
         NEW f, NEW id, PokeShaped(f, id), NEW base, base = Head(u).cursor, f[1].base = base,
         f[Len(f)].cursor = target
  PROVE  Current(q \o f, Tail(u), poke, cursor, awaiting, TRUE, target)
<1>1. /\ Chained(q)
      /\ q # <<>> /\ ~awaiting => FirstGood(q, poke, cursor)
      /\ Renews(u, cursor, isReady)
  BY DEF Current
<1>2. Renews(Tail(u), cursor, TRUE) /\ Head(u).cursor \in {0, cursor} /\ (isReady => Head(u).cursor = 0)
  BY <1>1, RenewsTail
<1>3. f \in Seq(Downward)
  BY DEF PokeShaped
<1>4. q # <<>> => f[1].base \in {0, q[Len(q)].cursor}
  BY <1>2
<1>5. Chained(q \o f) /\ q \o f # <<>> /\ (q \o f)[Len(q \o f)] = f[Len(f)]
  BY <1>1, <1>4, ChainJoin
<1>6. Len(q) + 1 \in 0..Len(q \o f) /\ Good(q \o f, poke, cursor, Len(q) + 1)
  BY <1>2, GoodNew
<1>7. AnyGood(q \o f, poke, cursor)
  BY <1>6 DEF AnyGood
<1>8. ~awaiting => FirstGood(q \o f, poke, cursor)
  <2>1. CASE q # <<>>
    BY <1>1, <1>3, <2>1, FirstJoin
  <2>2. CASE q = <<>>
    <3>1. Len(q) + 1 = 1
      BY <2>2
    <3> QED BY <1>6, <3>1 DEF FirstGood
  <2> QED BY <2>1, <2>2
<1> QED BY <1>2, <1>5, <1>7, <1>8 DEF Current

\* The workspace takes up a push.
LEMMA CurrentTaken ==
  ASSUME NEW q, NEW u \in Seq(Upward), NEW poke, NEW cursor, NEW awaiting \in BOOLEAN,
         NEW isReady \in BOOLEAN, NEW target, Current(q, u, poke, cursor, awaiting, isReady, target),
         u # <<>>, Head(u).type # "hello"
  PROVE  Current(q, Tail(u), poke, cursor, awaiting, isReady, target)
<1>1. awaiting => Asks(Tail(u)) \/ AnyGood(q, poke, cursor)
  BY AsksTail DEF Current
<1>2. Renews(Tail(u), cursor, isReady)
  BY RenewsTail DEF Current
<1> QED BY <1>1, <1>2 DEF Current

LEMMA ChainEnd ==
  ASSUME NEW q \in Seq(Downward), q # <<>>, NEW poke, Ordered(q, poke)
  PROVE  /\ Len(Tail(q)) = Len(q) - 1 /\ Len(q) \in Nat \ {0} /\ Head(q) = q[1]
         /\ Tail(q) # <<>> => Tail(q)[Len(Tail(q))] = q[Len(q)] /\ Tail(q)[1] = q[2] /\ 1 < Len(q)
         /\ Head(q).type # "end" => Tail(q) # <<>>
         /\ Tail(q) = <<>> => Len(q) = 1
<1> DEFINE r == Tail(q)
<1>1. /\ Len(r) = Len(q) - 1 /\ Len(q) \in Nat \ {0} /\ Head(q) = q[1]
      /\ \A i \in 1..(Len(q) - 1) : i + 1 \in 1..Len(q) /\ r[i] = q[i + 1]
  BY TailIs
<1>2. r \in Seq(Downward)
  BY TailIs
<1> HIDE DEF r
<1>3. r # <<>> <=> Len(r) # 0
  BY <1>2
<1>4. Head(q).type # "end" => 1 < Len(q)
  <2>1. 1 \in 1..Len(q)
    BY <1>1
  <2> QED BY <1>1, <2>1 DEF Ordered
<1>5. r # <<>> => r[Len(r)] = q[Len(q)] /\ r[1] = q[2] /\ 1 < Len(q)
  <2> SUFFICES ASSUME r # <<>> PROVE r[Len(r)] = q[Len(q)] /\ r[1] = q[2] /\ 1 < Len(q)
    OBVIOUS
  <2>1. Len(q) - 1 \in 1..(Len(q) - 1) /\ 1 \in 1..(Len(q) - 1) /\ (Len(q) - 1) + 1 = Len(q) /\ 1 + 1 = 2 /\ 1 < Len(q)
    BY <1>1, <1>3
  <2> QED BY <1>1, <2>1
<1>6. Head(q).type # "end" => r # <<>>
  BY <1>1, <1>3, <1>4
<1>7. r = <<>> => Len(q) = 1
  BY <1>1, <1>3
<1> QED BY <1>1, <1>5, <1>6, <1>7 DEF r

LEMMA AnyTail ==
  ASSUME NEW q \in Seq(Downward), q # <<>>, NEW poke, Ordered(q, poke), NEW cursor, NEW new,
         Head(q).type = "start" => new.base = Head(q).base,
         Head(q).type = "part" => new.base = poke.base,
         Head(q).type = "end" => ~Good(q, poke, cursor, 0)
  PROVE  /\ AnyGood(q, poke, cursor) => AnyGood(Tail(q), new, cursor)
         /\ FirstGood(q, poke, cursor) => Head(q).type # "end" /\ FirstGood(Tail(q), new, cursor)
<1>1. Len(q) \in Nat \ {0} /\ Head(q) = q[1]
  BY TailIs
<1>2. ASSUME NEW i \in 0..Len(q), Good(q, poke, cursor, i)
      PROVE  \E j \in 0..Len(Tail(q)) : Good(Tail(q), new, cursor, j) /\ (i \in {0, 1} => j = 0)
  <2>1. Head(q).type = "end" => i # 0
    BY <1>2
  <2> DEFINE j == IF i = 0 THEN 0 ELSE i - 1
  <2>2. i \in {0, 1} => j = 0
    OBVIOUS
  <2>3. j = IF i = 0 THEN 0 ELSE i - 1
    OBVIOUS
  <2> HIDE DEF j
  <2>4. j \in 0..Len(Tail(q)) /\ Good(Tail(q), new, cursor, j)
    BY <1>2, <2>1, <2>3, GoodTail
  <2> QED BY <2>2, <2>4
<1>3. ASSUME FirstGood(q, poke, cursor) PROVE Head(q).type # "end" /\ FirstGood(Tail(q), new, cursor)
  <2>1. PICK i \in 0..Len(q) : Good(q, poke, cursor, i) /\ i \in {0, 1}
    <3>1. 0 \in 0..Len(q) /\ 1 \in 0..Len(q)
      BY <1>1
    <3> QED BY <1>3, <3>1 DEF FirstGood
  <2>2. Good(Tail(q), new, cursor, 0)
    BY <1>2, <2>1
  <2>3. Head(q).type # "end"
    <3>1. CASE i = 0
      BY <2>1, <3>1
    <3>2. CASE i = 1
      <4>1. q[1].type = "start"
        BY <2>1, <3>2 DEF Good, Begins
      <4> QED BY <1>1, <4>1
    <3> QED BY <2>1, <3>1, <3>2
  <2> QED BY <2>2, <2>3 DEF FirstGood
<1>4. AnyGood(q, poke, cursor) => AnyGood(Tail(q), new, cursor)
  BY <1>2 DEF AnyGood
<1> QED BY <1>3, <1>4

\* The client reads a start or a part, or drops what it put together.
LEMMA CurrentRead ==
  ASSUME NEW q \in Seq(Downward), q # <<>>, NEW u, NEW poke, Ordered(q, poke), NEW cursor,
         NEW awaiting \in BOOLEAN, NEW target, Current(q, u, poke, cursor, awaiting, TRUE, target), NEW new,
         Head(q).type = "start" => new.base = Head(q).base,
         Head(q).type = "part" => new.base = poke.base,
         Head(q).type = "end" => ~Good(q, poke, cursor, 0)
  PROVE  /\ Current(Tail(q), u, new, cursor, awaiting, TRUE, target)
         /\ Head(q).type = "end" => awaiting
<1>1. /\ Chained(q)
      /\ q[Len(q)].cursor = target
      /\ ~awaiting => FirstGood(q, poke, cursor)
      /\ awaiting => Asks(u) \/ AnyGood(q, poke, cursor)
      /\ Renews(u, cursor, TRUE)
  BY DEF Current
<1>2. /\ AnyGood(q, poke, cursor) => AnyGood(Tail(q), new, cursor)
      /\ FirstGood(q, poke, cursor) => Head(q).type # "end" /\ FirstGood(Tail(q), new, cursor)
  BY AnyTail
<1>3. /\ Tail(q) # <<>> => Tail(q)[Len(Tail(q))] = q[Len(q)]
      /\ Head(q).type # "end" => Tail(q) # <<>>
  BY ChainEnd
<1>4. Chained(Tail(q))
  BY <1>1, ChainTail
<1> QED BY <1>1, <1>2, <1>3, <1>4 DEF Current

\* The client applies a poke.
LEMMA CurrentApplied ==
  ASSUME NEW q \in Seq(Downward), q # <<>>, NEW u, NEW poke, Ordered(q, poke), NEW cursor,
         NEW awaiting \in BOOLEAN, NEW target, Current(q, u, poke, cursor, awaiting, TRUE, target), NEW new,
         Head(q).type = "end"
  PROVE  Current(Tail(q), u, new, Head(q).cursor, FALSE, TRUE, target)
<1>1. /\ Chained(q)
      /\ q[Len(q)].cursor = target
      /\ Renews(u, cursor, TRUE)
  BY DEF Current
<1>2. /\ Tail(q) # <<>> => Tail(q)[Len(Tail(q))] = q[Len(q)] /\ Tail(q)[1] = q[2] /\ 1 < Len(q)
      /\ Tail(q) = <<>> => Len(q) = 1
      /\ Head(q) = q[1] /\ Len(q) \in Nat \ {0}
  BY ChainEnd
<1>3. Chained(Tail(q))
  BY <1>1, ChainTail
<1>4. Tail(q) # <<>> => FirstGood(Tail(q), new, Head(q).cursor)
  <2> SUFFICES ASSUME Tail(q) # <<>> PROVE Good(Tail(q), new, Head(q).cursor, 1)
    BY DEF FirstGood
  <2>1. 1 \in 1..(Len(q) - 1) /\ 1 \in 1..Len(q) /\ 1 + 1 = 2
    BY <1>2
  <2>2. q[2].type = "start"
    BY <1>2, <2>1 DEF Ordered
  <2>3. q[2].base \in {0, q[1].cursor}
    BY <1>1, <1>2, <2>1 DEF Chained
  <2> QED BY <1>2, <2>2, <2>3 DEF Good, Begins, BaseAt
<1>5. Renews(u, Head(q).cursor, TRUE)
  BY <1>1 DEF Renews
<1> QED BY <1>1, <1>2, <1>3, <1>4, <1>5 DEF Current

\* A push is sent, or everything is asked for again.
LEMMA AsksMore ==
  ASSUME NEW u \in Seq(Upward), NEW frame \in Upward
  PROVE  /\ Asks(u) => Asks(Append(u, frame))
         /\ frame.type = "hello" => Asks(Append(u, frame))
         /\ \A i \in DOMAIN Append(u, frame) : (i \in DOMAIN u /\ Append(u, frame)[i] = u[i]) \/ Append(u, frame)[i] = frame
<1> DEFINE r == Append(u, frame)
<1>1. DOMAIN r = DOMAIN u \cup {Len(u) + 1} /\ (\A i \in DOMAIN u : r[i] = u[i]) /\ r[Len(u) + 1] = frame
  OBVIOUS
<1> HIDE DEF r
<1> QED BY <1>1 DEF Asks, r

LEMMA RenewsMore ==
  ASSUME NEW u \in Seq(Upward), NEW frame \in Upward, NEW cursor, NEW next, Renews(u, cursor, TRUE),
         frame.type = "hello" => frame.cursor = 0
  PROVE  Renews(Append(u, frame), next, TRUE)
<1>1. \A i \in DOMAIN u : ~(u[i].type = "hello" /\ u[i].cursor # 0)
  BY DEF Renews
<1>2. \A i \in DOMAIN Append(u, frame) : (i \in DOMAIN u /\ Append(u, frame)[i] = u[i]) \/ Append(u, frame)[i] = frame
  BY AsksMore
<1>3. \A i \in DOMAIN Append(u, frame) : ~(Append(u, frame)[i].type = "hello" /\ Append(u, frame)[i].cursor # 0)
  BY <1>1, <1>2
<1> QED BY <1>3 DEF Renews

LEMMA CurrentPushed ==
  ASSUME NEW q, NEW u \in Seq(Upward), NEW poke, NEW cursor, NEW awaiting \in BOOLEAN, NEW target,
         Current(q, u, poke, cursor, awaiting, TRUE, target), NEW frame \in Upward, frame.type = "push"
  PROVE  Current(q, Append(u, frame), poke, cursor, awaiting, TRUE, target)
<1>1. Renews(Append(u, frame), cursor, TRUE)
  BY RenewsMore DEF Current
<1>2. awaiting => Asks(Append(u, frame)) \/ AnyGood(q, poke, cursor)
  BY AsksMore DEF Current
<1> QED BY <1>1, <1>2 DEF Current

LEMMA CurrentAsked ==
  ASSUME NEW q, NEW u \in Seq(Upward), NEW poke, NEW cursor, NEW awaiting \in BOOLEAN, NEW target,
         Current(q, u, poke, cursor, awaiting, TRUE, target)
  PROVE  Current(q, Append(u, Hello(0)), poke, 0, TRUE, TRUE, target)
<1>0. Hello(0) \in Upward /\ Hello(0).type = "hello" /\ Hello(0).cursor = 0
  BY DEF Hello, Upward
<1>1. Renews(Append(u, Hello(0)), 0, TRUE)
  BY <1>0, RenewsMore DEF Current
<1>2. Asks(Append(u, Hello(0)))
  BY <1>0, AsksMore
<1> QED BY <1>1, <1>2 DEF Current

-----------------------------------------------------------------------------
(* The client catches up *)

LEMMA CurrentUnready ==
  ASSUME NEW q, NEW u, NEW poke, NEW cursor, NEW awaiting, NEW target, NEW new,
         Current(q, u, poke, cursor, awaiting, FALSE, target)
  PROVE  Current(q, u, poke, cursor, awaiting, FALSE, new)
  BY DEF Current

LEMMA CurrentNow ==
  ASSUME TypeInv, WireInv, CurrentInv
  PROVE  /\ down \in Seq(Downward) /\ up \in Seq(Upward) /\ link \in Links /\ link.awaiting \in BOOLEAN
         /\ ready \in BOOLEAN /\ Ordered(down, link.poke) /\ (~ready => down = <<>>)
         /\ Current(down, up, link.poke, link.cursor, link.awaiting, ready, Target)
         /\ ready => Current(down, up, link.poke, link.cursor, link.awaiting, TRUE, Target)
         /\ ~ready => Current(down, up, link.poke, link.cursor, link.awaiting, FALSE, Target)
<1>1. ready \in BOOLEAN /\ link \in Links
  BY DEF TypeInv
<1>2. link.awaiting \in BOOLEAN
  BY <1>1 DEF Links
<1>3. Current(down, up, link.poke, link.cursor, link.awaiting, ready, Target)
  BY DEF CurrentInv
<1>4. ready => ready = TRUE
  BY <1>1
<1>5. ~ready => ready = FALSE
  BY <1>1
<1>6. ready => Current(down, up, link.poke, link.cursor, link.awaiting, TRUE, Target)
  BY <1>3, <1>4
<1>7. ~ready => Current(down, up, link.poke, link.cursor, link.awaiting, FALSE, Target)
  BY <1>3, <1>5
<1>8. Ordered(down, link.poke) /\ (~ready => down = <<>>)
  BY DEF WireInv
<1>9. down \in Seq(Downward) /\ up \in Seq(Upward)
  BY DEF TypeInv
<1> QED BY <1>1, <1>2, <1>3, <1>6, <1>7, <1>8, <1>9

\* Nothing the invariant is about changes, but perhaps the poke that is being read.
LEMMA CurrentStays ==
  ASSUME CurrentInv, down' = down, up' = up, ready' = ready, Target' = Target, link'.cursor = link.cursor,
         link'.awaiting = link.awaiting, link'.poke = link.poke
  PROVE  CurrentInv'
  BY DEF CurrentInv

LEMMA CurrentIs ==
  ASSUME NEW q, NEW u, NEW poke, NEW cursor, NEW awaiting, NEW isReady, NEW target,
         Current(q, u, poke, cursor, awaiting, isReady, target),
         down' = q, up' = u, link'.poke = poke, link'.cursor = cursor, link'.awaiting = awaiting,
         ready' = isReady, Target' = target
  PROVE  CurrentInv'
  BY DEF CurrentInv

\* A commit's poke.
LEMMA CurrentMore ==
  ASSUME TypeInv, WireInv, CurrentInv, up' = up, link' = link, ready' = ready,
         NEW f, NEW id, PokeShaped(f, id), f[1].base = Target, f[Len(f)].cursor = Target', down' = Sent(f)
  PROVE  CurrentInv'
<1>1. CASE ready
  <2>1. ready' = TRUE /\ down' = down \o f
    BY <1>1, CurrentNow DEF Sent
  <2>2. Current(down, up, link.poke, link.cursor, link.awaiting, TRUE, Target)
    BY <1>1, CurrentNow
  <2>3. Current(down \o f, up, link.poke, link.cursor, link.awaiting, TRUE, Target')
    BY <2>2, CurrentNow, CurrentSent
  <2> QED BY <2>1, <2>3, CurrentIs
<1>2. CASE ~ready
  <2>1. ready' = FALSE /\ down' = down
    BY <1>2, CurrentNow DEF Sent
  <2>2. Current(down, up, link.poke, link.cursor, link.awaiting, FALSE, Target)
    BY <1>2, CurrentNow
  <2>3. Current(down, up, link.poke, link.cursor, link.awaiting, FALSE, Target')
    BY <2>2, CurrentUnready
  <2> QED BY <2>1, <2>3, CurrentIs
<1> QED BY <1>1, <1>2

LEMMA TargetIdle == ASSUME push = Idle PROVE Target = Version
  BY DEF Target, Idle

LEMMA TargetIdleNext == ASSUME push' = Idle PROVE Target' = Version'
  BY DEF Target, Idle

LEMMA CurrentOther ==
  ASSUME TypeInv, HistInv, WireInv, CurrentInv, NEW program \in Others, OtherCommits(program)
  PROVE  CurrentInv'
<1> DEFINE f == PokeFrames(Version, PatchSince(rows', Version), 0, {}, Version + 1)
<1>1. /\ push = Idle /\ Committed(Run(Now, program), 0)
      /\ Run(Now, program).ok /\ Written(Run(Now, program)) # {} /\ down' = Sent(f)
      /\ UNCHANGED <<lmid, push, ready, up, link, queue, issued, table, counts>>
  BY DEF OtherCommits
<1>2. HistTyped /\ InOrder(Now, Run(Now, program))
  BY RunTyped, TypeHist, ProgramSteps
<1>3. HistTyped'
  BY <1>1, <1>2, CommitTyped
<1>4. Version' = Version + 1
  <2>1. CommittedTo(Run(Now, program), 0)
    BY <1>1, CommittedIs
  <2> QED BY <1>2, <2>1, CommitSnaps
<1>5. PokeShaped(f, 0) /\ PokeOf(f, Version, ToSet(PatchSince(rows', Version)), Version + 1)
  <2>1. PatchSince(rows', Version) \in Seq(Ops)
    BY <1>3, PatchSinceIs DEF HistTyped, RowRecords
  <2>2. Version \in Nat /\ Version + 1 \in Nat /\ 0 \in Nat /\ {} \in SUBSET Nat
    BY BoundNats
  <2> QED BY <2>1, <2>2, FramesShaped, FramesOfPoke
<1> HIDE DEF f
<1>6. Target = Version /\ Target' = Version + 1
  BY <1>1, <1>4, TargetIdle, TargetIdleNext
<1>7. f[1].base = Target /\ f[Len(f)].cursor = Target'
  BY <1>5, <1>6 DEF PokeOf
<1> QED BY <1>1, <1>5, <1>7, CurrentMore

LEMMA CurrentServe ==
  ASSUME TypeInv, WireInv, CurrentInv, ServeHello
  PROVE  CurrentInv'
<1> DEFINE cursor == Head(up).cursor
           ops == IF cursor = 0 THEN Bootstrap ELSE PatchSince(rows, cursor)
           f == PokeFrames(cursor, ops, lmid, {}, Version)
<1>1. /\ push = Idle /\ up # <<>> /\ Head(up).type = "hello" /\ down' = down \o f /\ up' = Tail(up)
      /\ ready' = TRUE /\ UNCHANGED <<serverVars, link, queue, issued, table, counts>>
  BY DEF ServeHello
<1>2. PokeShaped(f, lmid) /\ PokeOf(f, cursor, ToSet(ops), Version)
  <2>1. ops \in Seq(Ops)
    <3>1. cursor \in Nat
      BY <1>1, HeadUp DEF TypeInv
    <3> QED BY <3>1, PatchSinceIs, BootstrapIs DEF TypeInv, RowRecords
  <2>2. Version \in Nat /\ lmid \in Nat /\ {} \in SUBSET Nat /\ cursor \in Nat
    BY <1>1, HeadUp, BoundNats DEF TypeInv
  <2> HIDE DEF cursor, ops
  <2> QED BY <2>1, <2>2, FramesShaped, FramesOfPoke
<1> HIDE DEF f, ops
<1>3. Target = Version /\ Target' = Version
  <2>1. push' = Idle /\ Version' = Version
    BY <1>1 DEF serverVars, Version
  <2> QED BY <1>1, <2>1, TargetIdle, TargetIdleNext
<1>4. f[1].base = cursor /\ f[Len(f)].cursor = Target /\ cursor = Head(up).cursor
  BY <1>2, <1>3 DEF PokeOf
<1>5. Current(down, up, link.poke, link.cursor, link.awaiting, ready, Target)
  BY DEF CurrentInv
<1> HIDE DEF cursor
<1>6. Current(down \o f, Tail(up), link.poke, link.cursor, link.awaiting, TRUE, Target)
  <2>1. /\ down \in Seq(Downward) /\ up \in Seq(Upward) /\ link.awaiting \in BOOLEAN
        /\ ready \in BOOLEAN /\ (~ready => down = <<>>)
    BY CurrentNow
  <2>2. up # <<>> /\ Head(up).type = "hello" /\ PokeShaped(f, lmid)
    BY <1>1, <1>2
  <2>3. CASE ready
    <3>1. Current(down, up, link.poke, link.cursor, link.awaiting, TRUE, Target)
      BY <2>3, CurrentNow
    <3>2. TRUE \in BOOLEAN /\ (~TRUE => down = <<>>)
      OBVIOUS
    <3> QED BY <1>4, <2>1, <2>2, <3>1, <3>2, CurrentServed
  <2>4. CASE ~ready
    <3>1. Current(down, up, link.poke, link.cursor, link.awaiting, FALSE, Target)
      BY <2>4, CurrentNow
    <3>2. FALSE \in BOOLEAN /\ (~FALSE => down = <<>>)
      BY <2>1, <2>4
    <3> QED BY <1>4, <2>1, <2>2, <3>1, <3>2, CurrentServed
  <2> QED BY <2>3, <2>4
<1> QED BY <1>1, <1>3, <1>6, CurrentIs

LEMMA CurrentPush ==
  ASSUME TypeInv, WireInv, CurrentInv, StartPush
  PROVE  CurrentInv'
<1>1. /\ push = Idle /\ up # <<>> /\ Head(up).type = "push" /\ up' = Tail(up)
      /\ push' = [Idle EXCEPT !.todo = Head(up).mutations, !.from = Version]
      /\ UNCHANGED <<snaps, ready, down, link>>
  BY DEF StartPush
<1>2. Version' = Version /\ push'.from = Version
  BY <1>1 DEF Version, Idle
<1>3. Target = Version /\ Target' = Version
  BY <1>1, <1>2, TargetIdle DEF Target
<1>4. Current(down, up, link.poke, link.cursor, link.awaiting, ready, Target)
  BY DEF CurrentInv
<1>5. Head(up).type # "hello"
  BY <1>1
<1>6. Current(down, Tail(up), link.poke, link.cursor, link.awaiting, ready, Target)
  BY <1>1, <1>4, <1>5, CurrentNow, CurrentTaken
<1> QED BY <1>1, <1>3, <1>6, CurrentIs

LEMMA CurrentHandle ==
  ASSUME TypeInv, HistInv, WireInv, CurrentInv, HandleMutation
  PROVE  CurrentInv'
<1> DEFINE f == PokeFrames(push.from, PatchSince(rows', push.from), lmid', NextErrors, Version')
<1>1. /\ push.todo # <<>>
      /\ \/ /\ Len(push.todo) > 1 /\ down' = down
            /\ push' = [push EXCEPT !.todo = Tail(@), !.errors = NextErrors]
         \/ ~(Len(push.todo) > 1) /\ push' = Idle /\ down' = Sent(f)
      /\ UNCHANGED <<ready, up, link, queue, issued, table, restarts, cuts>>
  BY HandleIs
<1>2. HistTyped' /\ Version' \in Nat /\ lmid' \in Nat /\ NextErrors \in SUBSET Nat /\ push.from \in Nat
  BY HandleGrows
<1>3. Target = push.from
  BY <1>1 DEF Target
<1>4. CASE push' = Idle /\ down' = Sent(f)
  <2>1. PokeShaped(f, lmid') /\ PokeOf(f, push.from, ToSet(PatchSince(rows', push.from)), Version')
    <3>1. PatchSince(rows', push.from) \in Seq(Ops)
      BY <1>2, PatchSinceIs DEF HistTyped, RowRecords
    <3> QED BY <1>2, <3>1, FramesShaped, FramesOfPoke
  <2>2. Target' = Version'
    BY <1>4, TargetIdleNext
  <2> HIDE DEF f
  <2>3. f[1].base = Target /\ f[Len(f)].cursor = Target'
    BY <1>3, <2>1, <2>2 DEF PokeOf
  <2> QED BY <1>1, <1>4, <2>1, <2>3, CurrentMore
<1>5. CASE /\ Len(push.todo) > 1 /\ down' = down
           /\ push' = [push EXCEPT !.todo = Tail(@), !.errors = NextErrors]
  <2>1. push \in Pushing /\ push.todo \in Seq(Muts)
    BY DEF TypeInv, Pushing
  <2>2. push'.todo = Tail(push.todo) /\ push'.from = push.from
    BY <1>5, <2>1 DEF Pushing
  <2>3. Tail(push.todo) # <<>>
    <3>1. Len(Tail(push.todo)) = Len(push.todo) - 1 /\ Len(push.todo) \in Nat
      BY <1>1, <2>1, TailIs
    <3>2. Len(<<>>) = 0
      OBVIOUS
    <3>3. Len(push.todo) > 1
      BY <1>5
    <3>4. Len(Tail(push.todo)) # 0
      <4>1. \A n, m \in Nat : m > 1 /\ n = m - 1 => n # 0
        OBVIOUS
      <4>2. Len(Tail(push.todo)) \in Nat
        BY <2>1, <1>1, TailIs
      <4> QED BY <3>1, <3>3, <4>1, <4>2
    <3> QED BY <3>2, <3>4
  <2>4. Target' = Target
    BY <1>3, <2>2, <2>3 DEF Target
  <2> QED BY <1>1, <1>5, <2>4, CurrentStays
<1> QED BY <1>1, <1>4, <1>5

PushOf(entries, confirmed) == [type |-> "push", mutations |-> Pending(entries, confirmed)]

LEMMA FlushKinds ==
  ASSUME NEW entries \in Seq(Entries), NEW confirmed \in Nat, NEW synced \in BOOLEAN, NEW frames
  PROVE  /\ PushOf(entries, confirmed) \in Upward /\ PushOf(entries, confirmed).type = "push"
         /\ PushOf(entries, confirmed).mutations = Pending(entries, confirmed)
         /\ \/ Flushed(entries, confirmed, synced, frames) = frames
               /\ (link.socket = "open" /\ synced => Pending(entries, confirmed) = <<>>)
            \/ link.socket = "open" /\ synced
               /\ Flushed(entries, confirmed, synced, frames) = Append(frames, PushOf(entries, confirmed))
<1>1. Pending(entries, confirmed) \in Seq(Muts)
  BY PendingIs
<1>2. /\ PushOf(entries, confirmed) \in Upward /\ PushOf(entries, confirmed).type = "push"
      /\ PushOf(entries, confirmed).mutations = Pending(entries, confirmed)
  BY <1>1 DEF PushOf, Upward
<1>3. \/ Flushed(entries, confirmed, synced, frames) = frames
         /\ (link.socket = "open" /\ synced => Pending(entries, confirmed) = <<>>)
      \/ link.socket = "open" /\ synced
         /\ Flushed(entries, confirmed, synced, frames) = Append(frames, PushOf(entries, confirmed))
  BY DEF Flushed, PushOf
<1> QED BY <1>2, <1>3

LEMMA CurrentMutate ==
  ASSUME TypeInv, WireInv, CurrentInv, NEW program \in Programs, Mutate(program)
  PROVE  CurrentInv'
<1>1. /\ up' = Flushed(queue', link.confirmed, link.synced, up) /\ queue' \in Seq(Entries)
      /\ UNCHANGED <<serverVars, ready, down, link>>
  BY MutateIs
<1>2. link.confirmed \in Nat /\ link.synced \in BOOLEAN
  BY DEF TypeInv, Links
<1>3. Target' = Target
  BY <1>1 DEF serverVars, Target, Version
<1>4. CASE up' = up
  BY <1>1, <1>3, <1>4, CurrentStays
<1>5. CASE link.socket = "open" /\ link.synced /\ up' = Append(up, PushOf(queue', link.confirmed))
  <2>1. ready
    BY <1>5 DEF WireInv
  <2>2. Current(down, up, link.poke, link.cursor, link.awaiting, TRUE, Target) /\ ready' = TRUE
    BY <1>1, <2>1, CurrentNow
  <2>3. PushOf(queue', link.confirmed) \in Upward /\ PushOf(queue', link.confirmed).type = "push"
    BY <1>1, <1>2, FlushKinds
  <2>4. Current(down, Append(up, PushOf(queue', link.confirmed)), link.poke, link.cursor, link.awaiting, TRUE, Target)
    BY <2>2, <2>3, CurrentNow, CurrentPushed
  <2> QED BY <1>1, <1>3, <1>5, <2>2, <2>4, CurrentIs
<1> QED BY <1>1, <1>2, <1>4, <1>5, FlushKinds

LEMMA CurrentTables ==
  ASSUME TypeInv, WireInv, CurrentInv, NEW t \in Tables, Create(t) \/ Start(t) \/ Cleanup(t) \/ Restart(t)
  PROVE  CurrentInv'
<1>1. UNCHANGED <<serverVars, ready, down>> /\ (Register \/ UNCHANGED <<link, up>>)
  BY DEF Create, Start, Cleanup, Restart
<1>2. Target' = Target
  BY <1>1 DEF serverVars, Target, Version
<1>3. CASE UNCHANGED <<link, up>>
  BY <1>1, <1>2, <1>3, CurrentStays
<1>4. CASE Register /\ ~link.synced
  BY <1>3, <1>4 DEF Register
<1>5. CASE Register /\ link.synced
  <2>1. /\ link' = [link EXCEPT !.cursor = 0, !.awaiting = link.socket = "open"]
        /\ up' = IF link.socket = "open" THEN Append(up, Hello(0)) ELSE up
    BY <1>5 DEF Register
  <2>2. link'.cursor = 0 /\ link'.awaiting = (link.socket = "open") /\ link'.poke = link.poke
    BY <2>1 DEF TypeInv, Links
  <2>3. CASE link.socket = "open"
    <3>1. ready
      BY <1>5, <2>3 DEF WireInv
    <3>2. Current(down, up, link.poke, link.cursor, link.awaiting, TRUE, Target) /\ ready' = TRUE
      BY <1>1, <3>1, CurrentNow
    <3>3. Current(down, Append(up, Hello(0)), link.poke, 0, TRUE, TRUE, Target)
      BY <3>2, CurrentNow, CurrentAsked
    <3>4. link'.awaiting = TRUE
      BY <2>2, <2>3
    <3> QED BY <1>1, <1>2, <2>1, <2>2, <2>3, <3>2, <3>3, <3>4, CurrentIs
  <2>4. CASE link.socket # "open"
    <3>1. up = <<>> /\ down = <<>> /\ ~ready
      BY <2>4 DEF WireInv
    <3>2. Current(<<>>, <<>>, link.poke, 0, FALSE, FALSE, Target)
      BY CurrentNone
    <3>3. link'.awaiting = FALSE /\ ready' = FALSE /\ up' = <<>> /\ down' = <<>>
      BY <1>1, <2>1, <2>2, <2>4, <3>1, CurrentNow
    <3> QED BY <1>2, <2>2, <3>2, <3>3, CurrentIs
  <2> QED BY <2>3, <2>4
<1> QED BY <1>1, <1>3, <1>4, <1>5

LEMMA CurrentLink ==
  ASSUME TypeInv, WireInv, CurrentInv, Dial \/ Open \/ Cut \/ \E cursor : Hydrate(cursor)
  PROVE  CurrentInv'
<1>1. link \in Links /\ link.awaiting \in BOOLEAN /\ ready \in BOOLEAN
  BY CurrentNow
<1>2. ASSUME link.socket # "open", up' = up, down' = down, ready' = ready, link'.awaiting = link.awaiting
      PROVE  CurrentInv'
  <2>1. up = <<>> /\ down = <<>> /\ ~ready /\ ~link.awaiting
    BY <1>2 DEF WireInv
  <2>2. up' = <<>> /\ down' = <<>> /\ ready' = FALSE /\ link'.awaiting = FALSE
    BY <1>1, <1>2, <2>1
  <2>3. Current(<<>>, <<>>, link'.poke, link'.cursor, FALSE, FALSE, Target')
    BY CurrentNone
  <2> QED BY <2>2, <2>3, CurrentIs
<1>3. CASE Dial
  <2>1. /\ link.socket = "none" /\ link' = [link EXCEPT !.socket = "dialling", !.synced = FALSE]
        /\ ready' = ready /\ up' = up /\ down' = down
    BY <1>3 DEF Dial
  <2>2. link'.awaiting = link.awaiting
    BY <1>1, <2>1 DEF Links
  <2>3. link.socket # "open"
    BY <2>1
  <2> QED BY <1>2, <2>1, <2>2, <2>3
<1>4. CASE Open
  <2>1. /\ link.socket = "dialling" /\ link' = [link EXCEPT !.socket = "open", !.awaiting = TRUE]
        /\ ready' = ready /\ down' = down /\ up' = <<Hello(link.cursor)>>
    BY <1>4 DEF Open
  <2>2. link'.awaiting = TRUE /\ link'.cursor = link.cursor /\ link'.poke = link.poke
    BY <1>1, <2>1 DEF Links
  <2>3. down = <<>> /\ ~ready
    BY <2>1 DEF WireInv
  <2>4. down' = <<>> /\ ready' = FALSE
    BY <1>1, <2>1, <2>3
  <2>5. Current(<<>>, <<Hello(link.cursor)>>, link.poke, link.cursor, TRUE, FALSE, Target')
    BY CurrentOpen
  <2> QED BY <2>1, <2>2, <2>4, <2>5, CurrentIs
<1>5. CASE Cut
  <2>1. /\ link' = [link EXCEPT !.socket = "none", !.awaiting = FALSE, !.poke = NoPoke]
        /\ ready' = FALSE /\ up' = <<>> /\ down' = <<>>
    BY <1>5 DEF Cut
  <2>2. link'.awaiting = FALSE
    BY <1>1, <2>1 DEF Links
  <2>3. Current(<<>>, <<>>, link'.poke, link'.cursor, FALSE, FALSE, Target')
    BY CurrentNone
  <2> QED BY <2>1, <2>2, <2>3, CurrentIs
<1>6. ASSUME NEW cursor, Hydrate(cursor) PROVE CurrentInv'
  <2>1. /\ ~link.started /\ link' = [link EXCEPT !.started = TRUE, !.cursor = cursor]
        /\ ready' = ready /\ up' = up /\ down' = down
    BY <1>6, HydrateIs
  <2>2. link'.awaiting = link.awaiting
    BY <1>1, <2>1 DEF Links
  <2>3. link.socket # "open"
    BY <2>1 DEF WireInv
  <2> QED BY <1>2, <2>1, <2>2, <2>3
<1> QED BY <1>3, <1>4, <1>5, <1>6

\* A poke is dropped only if it would not have been applied at the cursor.
LEMMA DropsBad ==
  ASSUME TypeInv, PiecesInv, TablesInv, DropPoke
  PROVE  ~Good(down, link.poke, link.cursor, 0)
<1>1. down # <<>> /\ Head(down).type = "end" /\ Mismatched
  BY DropIs
<1>2. link.poke.base # 0
  BY <1>1, HeadWhole, WholeClears DEF Mismatched
<1>3. link.poke.base # link.cursor
  <2>1. link.poke.mismatch <=> link.poke.base # link.cursor
    BY <1>2 DEF TablesInv
  <2> QED BY <1>1, <2>1 DEF Mismatched
<1> QED BY <1>2, <1>3 DEF Good, BaseAt

LEMMA CurrentReads ==
  ASSUME TypeInv, WireInv, CurrentInv, PokeStart \/ PokePart
  PROVE  CurrentInv'
<1>1. /\ down # <<>> /\ down' = Tail(down) /\ UNCHANGED serverVars /\ ready' = ready /\ up' = up
      /\ link \in Links /\ link.poke \in Pokes
  BY StartIs, PartIs DEF TypeInv, Links
<1>2. ready /\ Target' = Target
  BY <1>1 DEF WireInv, serverVars, Target, Version
<1>3. Current(down, up, link.poke, link.cursor, link.awaiting, TRUE, Target) /\ ready' = TRUE
  BY <1>1, <1>2, CurrentNow
<1>4. /\ link'.cursor = link.cursor /\ link'.awaiting = link.awaiting
      /\ Head(down).type # "end"
      /\ Head(down).type = "start" => link'.poke.base = Head(down).base
      /\ Head(down).type = "part" => link'.poke.base = link.poke.base
  <2>1. CASE PokeStart
    <3>1. Head(down).type = "start"
          /\ link' = [link EXCEPT !.poke = [NoPoke EXCEPT !.base = Head(down).base,
                                                  !.mismatch = Head(down).base # link.cursor]]
      BY <2>1, StartIs
    <3>2. [NoPoke EXCEPT !.base = Head(down).base, !.mismatch = Head(down).base # link.cursor].base = Head(down).base
      BY DEF NoPoke
    <3> QED BY <1>1, <3>1, <3>2 DEF Links
  <2>2. CASE PokePart
    <3>1. Head(down).type = "part" /\ link' = [link EXCEPT !.poke = PartRead]
      BY <2>2, PartIs
    <3>2. PartRead.base = link.poke.base
      BY <1>1 DEF PartRead, Pokes
    <3> QED BY <1>1, <3>1, <3>2 DEF Links
  <2> QED BY <2>1, <2>2
<1>5. Current(Tail(down), up, link'.poke, link.cursor, link.awaiting, TRUE, Target)
  BY <1>1, <1>3, <1>4, CurrentNow, CurrentRead
<1> QED BY <1>1, <1>2, <1>3, <1>4, <1>5, CurrentIs

LEMMA CurrentDrop ==
  ASSUME TypeInv, WireInv, PiecesInv, TablesInv, CurrentInv, DropPoke
  PROVE  CurrentInv' /\ link.awaiting /\ up' = up /\ link'.cursor = link.cursor
<1>1. /\ down # <<>> /\ down' = Tail(down) /\ UNCHANGED serverVars /\ ready' = ready
      /\ Head(down).type = "end" /\ link' = [link EXCEPT !.poke = NoPoke, !.awaiting = TRUE]
      /\ up' = IF link.awaiting THEN up ELSE Append(up, Hello(link.cursor))
  BY DropIs
<1>2. ready /\ Target' = Target
  BY <1>1 DEF WireInv, serverVars, Target, Version
<1>3. Current(down, up, link.poke, link.cursor, link.awaiting, TRUE, Target) /\ ready' = TRUE
  BY <1>1, <1>2, CurrentNow
<1>4. ~Good(down, link.poke, link.cursor, 0)
  BY DropsBad
<1>5. /\ Current(Tail(down), up, NoPoke, link.cursor, link.awaiting, TRUE, Target)
      /\ link.awaiting
  BY <1>1, <1>3, <1>4, CurrentNow, CurrentRead
<1>6. link.awaiting = TRUE
  BY <1>5, CurrentNow
<1>7. link'.cursor = link.cursor /\ link'.awaiting = TRUE /\ link'.poke = NoPoke
  BY <1>1 DEF TypeInv, Links
<1> QED BY <1>1, <1>2, <1>3, <1>5, <1>6, <1>7, CurrentIs

LEMMA CurrentApply ==
  ASSUME TypeInv, WireInv, CurrentInv, ApplyPoke
  PROVE  CurrentInv'
<1>1. /\ down # <<>> /\ down' = Tail(down) /\ UNCHANGED serverVars /\ ready' = ready
      /\ Head(down).type = "end"
      /\ link' = [link EXCEPT !.poke = NoPoke, !.cursor = Head(down).cursor, !.awaiting = FALSE,
                              !.synced = TRUE, !.confirmed = ConfirmedNow]
      /\ up' = Flushed(queue', ConfirmedNow, TRUE, up)
      /\ queue' = IF link.synced THEN Unsettled ELSE Numbered
  BY ApplyIs DEF serverVars
<1>2. ready /\ Target' = Target
  BY <1>1 DEF WireInv, serverVars, Target, Version
<1>3. Current(down, up, link.poke, link.cursor, link.awaiting, TRUE, Target) /\ ready' = TRUE
  BY <1>1, <1>2, CurrentNow
<1>4. Current(Tail(down), up, NoPoke, Head(down).cursor, FALSE, TRUE, Target)
  BY <1>1, <1>3, CurrentNow, CurrentApplied
<1>5. link'.cursor = Head(down).cursor /\ link'.awaiting = FALSE /\ link'.poke = NoPoke
  BY <1>1 DEF TypeInv, Links
<1>6. queue' \in Seq(Entries) /\ ConfirmedNow \in Nat
  BY <1>1, UnsettledIs, NumberedIs
<1>7. CASE up' = up
  BY <1>1, <1>2, <1>3, <1>4, <1>5, <1>7, CurrentIs
<1>8. CASE up' = Append(up, PushOf(queue', ConfirmedNow))
  <2>1. PushOf(queue', ConfirmedNow) \in Upward /\ PushOf(queue', ConfirmedNow).type = "push"
    BY <1>6, FlushKinds
  <2>2. FALSE \in BOOLEAN /\ up \in Seq(Upward)
    BY CurrentNow
  <2>3. Current(Tail(down), Append(up, PushOf(queue', ConfirmedNow)), NoPoke, Head(down).cursor, FALSE, TRUE, Target)
    BY <1>4, <2>1, <2>2, CurrentPushed
  <2> QED BY <1>1, <1>2, <1>3, <1>5, <1>8, <2>3, CurrentIs
<1> QED BY <1>1, <1>6, <1>7, <1>8, FlushKinds

LEMMA CurrentInit == ASSUME Init PROVE CurrentInv
<1>1. down = <<>> /\ up = <<>> /\ link.awaiting = FALSE /\ ready = FALSE
  BY DEF Init
<1> QED BY <1>1, CurrentNone DEF CurrentInv

LEMMA CurrentStep ==
  ASSUME TypeInv, HistInv, WireInv, PiecesInv, TablesInv, CurrentInv, [Next]_vars
  PROVE  CurrentInv'
<1>1. CASE UNCHANGED vars
  <2>1. down' = down /\ up' = up /\ ready' = ready /\ link' = link /\ UNCHANGED serverVars
    BY <1>1 DEF vars
  <2>2. Target' = Target
    BY <2>1 DEF serverVars, Target, Version
  <2> QED BY <2>1, <2>2, CurrentStays
<1>2. CASE Server
  BY <1>2, CurrentOther, CurrentServe, CurrentPush, CurrentHandle DEF Server
<1>3. CASE TableEvents
  BY <1>3, CurrentTables DEF TableEvents
<1>4. CASE Client
  BY <1>4, CurrentMutate, CurrentLink, CurrentReads, CurrentDrop, CurrentApply DEF Client
<1> QED BY <1>1, <1>2, <1>3, <1>4 DEF Next

-----------------------------------------------------------------------------
(* What accounts for an intent *)

\* A poke on its way, or what is put together of one, confirms the id, at or after one that will
\* be applied.
Covered(q, poke, cursor, id) ==
  \/ Good(q, poke, cursor, 0) /\ poke.lmid >= id
  \/ \E m \in 1..Len(q) : /\ q[m].type = "part" /\ q[m].lmid >= id
                          /\ \E i \in 0..(m - 1) : Good(q, poke, cursor, i)

PushedIn(u, id) ==
  \E i \in DOMAIN u : u[i].type = "push" /\ \E p \in DOMAIN u[i].mutations : u[i].mutations[p].id = id

\* Why a queued intent will be settled: it is in a push on its way or being handled, or it was
\* handled and a poke will say so.
Account(q, u, poke, cursor, last, todo, id) ==
  \/ PushedIn(u, id)
  \/ todo # <<>> /\ (last >= id \/ \E p \in DOMAIN todo : todo[p].id = id)
  \/ last >= id /\ Asks(u)
  \/ Covered(q, poke, cursor, id)

Settling(q, u, poke, cursor, last, todo, confirmed, entries) ==
  \A e \in DOMAIN entries :
    entries[e].id > confirmed /\ Account(q, u, poke, cursor, last, todo, entries[e].id)

\* A synced client's intents are all accounted for.
SettleInv ==
  link.socket = "open" /\ link.synced =>
    Settling(down, up, link.poke, link.cursor, lmid, push.todo, link.confirmed, queue)

LEMMA CoveredTail ==
  ASSUME NEW q \in Seq(Downward), q # <<>>, NEW poke \in Pokes, Ordered(q, poke), NEW cursor, NEW new \in Pokes,
         Head(q).type = "start" => new.base = Head(q).base,
         Head(q).type = "part" => /\ new.base = poke.base
                                  /\ new.lmid = IF Head(q).lmid = 0 THEN poke.lmid ELSE Head(q).lmid,
         Head(q).type = "end" => ~Good(q, poke, cursor, 0),
         NEW id \in Nat \ {0}, Covered(q, poke, cursor, id)
  PROVE  Covered(Tail(q), new, cursor, id)
<1>1. /\ Len(Tail(q)) = Len(q) - 1 /\ Len(q) \in Nat \ {0}
      /\ \A k \in 1..(Len(q) - 1) : k + 1 \in 1..Len(q) /\ Tail(q)[k] = q[k + 1]
      /\ Head(q) = q[1] /\ Head(q) \in Downward
  BY TailIs
<1>2. q[1].type \in {"start", "part", "end"}
  BY <1>1 DEF Downward
<1>3. Good(q, poke, cursor, 0) => Head(q).type = "part"
  BY <1>1, <1>2 DEF Good, Begins
<1>4. Good(q, poke, cursor, 0) => Good(Tail(q), new, cursor, 0)
  <2>1. 0 \in 0..Len(q)
    BY <1>1
  <2>2. \A j : j = 0 => j = IF 0 = 0 THEN 0 ELSE 0 - 1
    OBVIOUS
  <2>3. Good(q, poke, cursor, 0) => (Head(q).type = "end" => 0 # 0)
    BY <1>3
  <2>4. 0 = IF 0 = 0 THEN 0 ELSE 0 - 1
    OBVIOUS
  <2> QED BY <2>1, <2>3, <2>4, GoodTail
<1>5. CASE Good(q, poke, cursor, 0) /\ poke.lmid >= id
  <2>1. poke.lmid \in Nat
    BY DEF Pokes
  <2>2. Head(q).type = "part" /\ poke.lmid # 0
    BY <1>3, <1>5, <2>1
  <2>3. Head(q).lmid = 0
    BY <1>1, <2>2 DEF Ordered
  <2>4. new.lmid = poke.lmid
    BY <2>2, <2>3
  <2> QED BY <1>4, <1>5, <2>4 DEF Covered
<1>6. ASSUME NEW m \in 1..Len(q), q[m].type = "part", q[m].lmid >= id,
             NEW i \in 0..(m - 1), Good(q, poke, cursor, i)
      PROVE  Covered(Tail(q), new, cursor, id)
  <2>1. CASE m = 1
    <3>1. i = 0
      BY <2>1
    <3>2. Head(q).type = "part" /\ Head(q).lmid >= id
      BY <1>1, <1>6, <2>1
    <3>3. Head(q).lmid \in Nat
      BY <1>1, <3>2 DEF Downward
    <3>4. Head(q).lmid # 0
      BY <3>2, <3>3
    <3>5. new.lmid >= id
      BY <3>2, <3>4
    <3> QED BY <1>4, <1>6, <3>1, <3>5 DEF Covered
  <2>2. CASE m # 1
    <3>1. m - 1 \in 1..(Len(q) - 1) /\ (m - 1) + 1 = m /\ m - 1 \in 1..Len(Tail(q)) /\ i \in 0..Len(q)
      BY <1>1, <2>2
    <3>2. Tail(q)[m - 1] = q[m]
      BY <1>1, <3>1
    <3>3. Head(q).type = "end" => i # 0
      BY <1>6
    <3> DEFINE j == IF i = 0 THEN 0 ELSE i - 1
    <3>4. j \in 0..((m - 1) - 1)
      BY <1>1, <2>2
    <3>5. j = IF i = 0 THEN 0 ELSE i - 1
      OBVIOUS
    <3> HIDE DEF j
    <3>6. Good(Tail(q), new, cursor, j)
      BY <1>6, <3>1, <3>3, <3>5, GoodTail
    <3> QED BY <1>6, <3>1, <3>2, <3>4, <3>6 DEF Covered
  <2> QED BY <2>1, <2>2
<1> QED BY <1>5, <1>6 DEF Covered

LEMMA CoveredJoin ==
  ASSUME NEW q \in Seq(Downward), NEW f \in Seq(Downward), NEW poke, NEW cursor, NEW id,
         Covered(q, poke, cursor, id)
  PROVE  Covered(q \o f, poke, cursor, id)
<1>1. /\ Len(q \o f) = Len(q) + Len(f) /\ Len(q) \in Nat /\ Len(f) \in Nat
      /\ \A k \in 1..Len(q) : (q \o f)[k] = q[k]
  BY JoinIs
<1>2. CASE Good(q, poke, cursor, 0) /\ poke.lmid >= id
  <2>1. 0 \in 0..Len(q)
    BY <1>1
  <2> QED BY <1>2, <2>1, GoodJoin DEF Covered
<1>3. ASSUME NEW m \in 1..Len(q), q[m].type = "part", q[m].lmid >= id,
             NEW i \in 0..(m - 1), Good(q, poke, cursor, i)
      PROVE  Covered(q \o f, poke, cursor, id)
  <2>1. m \in 1..Len(q \o f) /\ i \in 0..Len(q)
    BY <1>1
  <2>2. (q \o f)[m] = q[m]
    BY <1>1
  <2>3. Good(q \o f, poke, cursor, i)
    BY <1>3, <2>1, GoodJoin
  <2> QED BY <1>3, <2>1, <2>2, <2>3 DEF Covered
<1> QED BY <1>2, <1>3 DEF Covered

LEMMA CoveredNew ==
  ASSUME NEW q \in Seq(Downward), NEW f, NEW last \in Nat, PokeShaped(f, last), NEW poke, NEW cursor,
         NEW id \in Nat, last >= id, f[1].base \in {0, cursor} \/ AnyGood(q, poke, cursor)
  PROVE  Covered(q \o f, poke, cursor, id)
<1>0. f \in Seq(Downward) /\ Len(f) \in Nat /\ Len(f) >= 3
  BY DEF PokeShaped
<1> DEFINE m == Len(q) + 2
<1>1. m \in 1..Len(q \o f) /\ (q \o f)[m].type = "part" /\ (q \o f)[m].lmid = last
  <2>1. /\ Len(q \o f) = Len(q) + Len(f) /\ Len(q) \in Nat
        /\ \A k \in 1..Len(f) : (q \o f)[Len(q) + k] = f[k]
    BY <1>0, JoinIs
  <2>2. 2 \in 1..Len(f) /\ 2 \in 2..(Len(f) - 1) /\ m \in 1..Len(q \o f)
    BY <1>0, <2>1
  <2>3. (q \o f)[m] = f[2]
    BY <2>1, <2>2
  <2>4. f[2].type = "part" /\ f[2].lmid = last
    BY <2>2 DEF PokeShaped
  <2> QED BY <2>2, <2>3, <2>4
<1>2. \E i \in 0..(m - 1) : Good(q \o f, poke, cursor, i)
  <2>1. CASE f[1].base \in {0, cursor}
    <3>1. Good(q \o f, poke, cursor, Len(q) + 1)
      BY <2>1, GoodNew
    <3>2. Len(q) + 1 \in 0..(m - 1)
      OBVIOUS
    <3> QED BY <3>1, <3>2
  <2>2. CASE AnyGood(q, poke, cursor)
    <3>1. PICK i \in 0..Len(q) : Good(q, poke, cursor, i)
      BY <2>2 DEF AnyGood
    <3>2. Good(q \o f, poke, cursor, i)
      BY <1>0, <3>1, GoodJoin
    <3>3. i \in 0..(m - 1)
      OBVIOUS
    <3> QED BY <3>2, <3>3
  <2> QED BY <2>1, <2>2
<1> HIDE DEF m
<1> QED BY <1>1, <1>2 DEF Covered

LEMMA PushedTail ==
  ASSUME NEW u \in Seq(Upward), u # <<>>, NEW id, PushedIn(u, id)
  PROVE  \/ PushedIn(Tail(u), id)
         \/ Head(u).type = "push" /\ \E p \in DOMAIN Head(u).mutations : Head(u).mutations[p].id = id
<1>1. /\ DOMAIN Tail(u) = 1..(Len(u) - 1) /\ DOMAIN u = 1..Len(u) /\ Len(u) \in Nat \ {0}
      /\ \A i \in 1..(Len(u) - 1) : i + 1 \in 1..Len(u) /\ Tail(u)[i] = u[i + 1]
      /\ Head(u) = u[1]
  BY TailIs
<1>2. PICK i \in DOMAIN u : u[i].type = "push" /\ \E p \in DOMAIN u[i].mutations : u[i].mutations[p].id = id
  BY DEF PushedIn
<1>3. CASE i = 1
  BY <1>1, <1>2, <1>3
<1>4. CASE i # 1
  <2>1. i - 1 \in 1..(Len(u) - 1) /\ (i - 1) + 1 = i
    BY <1>1, <1>4
  <2>2. i - 1 \in DOMAIN Tail(u) /\ Tail(u)[i - 1] = u[i]
    BY <1>1, <2>1
  <2> QED BY <1>2, <2>2 DEF PushedIn
<1> QED BY <1>3, <1>4

LEMMA PushedMore ==
  ASSUME NEW u \in Seq(Upward), NEW frame, NEW id
  PROVE  /\ PushedIn(u, id) => PushedIn(Append(u, frame), id)
         /\ frame.type = "push" /\ (\E p \in DOMAIN frame.mutations : frame.mutations[p].id = id)
              => PushedIn(Append(u, frame), id)
<1> DEFINE r == Append(u, frame)
<1>1. DOMAIN r = DOMAIN u \cup {Len(u) + 1} /\ (\A i \in DOMAIN u : r[i] = u[i]) /\ r[Len(u) + 1] = frame
  OBVIOUS
<1> HIDE DEF r
<1>2. PushedIn(u, id) => PushedIn(r, id)
  BY <1>1 DEF PushedIn
<1>3. frame.type = "push" /\ (\E p \in DOMAIN frame.mutations : frame.mutations[p].id = id) => PushedIn(r, id)
  BY <1>1 DEF PushedIn
<1> QED BY <1>2, <1>3 DEF r

-----------------------------------------------------------------------------
(* Every intent is accounted for *)

Accounted(id) == Account(down, up, link.poke, link.cursor, lmid, push.todo, id)
\* What accounts for an intent still does after the step.
StillAccounted == \A id \in Nat \ {0} : Accounted(id) => Accounted(id)'

LEMMA SettleKeeps ==
  ASSUME TypeInv, SettleInv, queue' = queue, link'.confirmed = link.confirmed,
         link'.socket = "open" /\ link'.synced => link.socket = "open" /\ link.synced /\ StillAccounted
  PROVE  SettleInv'
<1> SUFFICES ASSUME link'.socket = "open", link'.synced
             PROVE  (Settling(down, up, link.poke, link.cursor, lmid, push.todo, link.confirmed, queue))'
  BY DEF SettleInv
<1>1. Settling(down, up, link.poke, link.cursor, lmid, push.todo, link.confirmed, queue)
  BY DEF SettleInv
<1>2. ASSUME NEW e \in DOMAIN queue
      PROVE  queue[e].id > link.confirmed /\ Accounted(queue[e].id)'
  <2>1. queue[e].id > link.confirmed /\ Accounted(queue[e].id)
    BY <1>1 DEF Settling, Accounted
  <2>2. queue[e].id \in Nat \ {0}
    <3>1. queue[e] \in Entries
      BY DEF TypeInv
    <3>2. queue[e].id \in Nat /\ link.confirmed \in Nat
      BY <3>1, BoundNats DEF Entries
    <3> QED BY <2>1, <3>2
  <2> QED BY <2>1, <2>2 DEF StillAccounted
<1> QED BY <1>2 DEF Settling, Accounted

\* An open, synced client is ready.
LEMMA SyncedReady ==
  ASSUME TypeInv, WireInv, link.socket = "open", link.synced
  PROVE  ready /\ down \in Seq(Downward) /\ up \in Seq(Upward) /\ link.poke \in Pokes /\ push.todo \in Seq(Muts)
  BY DEF TypeInv, WireInv, Links, Pushing

LEMMA SettleOther ==
  ASSUME TypeInv, HistInv, WireInv, SettleInv, NEW program \in Others, OtherCommits(program)
  PROVE  SettleInv'
<1> DEFINE f == PokeFrames(Version, PatchSince(rows', Version), 0, {}, Version + 1)
<1>1. /\ push = Idle /\ Committed(Run(Now, program), 0) /\ down' = Sent(f)
      /\ UNCHANGED <<lmid, push, ready, up, link, queue, issued, table, counts>>
  BY DEF OtherCommits
<1>2. PokeShaped(f, 0)
  <2>1. HistTyped /\ InOrder(Now, Run(Now, program))
    BY RunTyped, TypeHist, ProgramSteps
  <2>2. HistTyped'
    BY <1>1, <2>1, CommitTyped
  <2>3. PatchSince(rows', Version) \in Seq(Ops)
    BY <2>2, PatchSinceIs DEF HistTyped, RowRecords
  <2>4. Version \in Nat /\ Version + 1 \in Nat /\ 0 \in Nat /\ {} \in SUBSET Nat
    BY BoundNats
  <2> QED BY <2>3, <2>4, FramesShaped
<1> HIDE DEF f
<1>3. ASSUME link.socket = "open", link.synced, NEW id \in Nat \ {0}, Accounted(id) PROVE Accounted(id)'
  <2>1. down' = down \o f /\ down \in Seq(Downward) /\ f \in Seq(Downward)
    BY <1>1, <1>2, <1>3, SyncedReady DEF Sent, PokeShaped
  <2>2. up' = up /\ link' = link /\ lmid' = lmid /\ push' = push
    BY <1>1
  <2>3. Covered(down, link.poke, link.cursor, id) => Covered(down \o f, link.poke, link.cursor, id)
    BY <2>1, CoveredJoin
  <2> QED BY <1>3, <2>1, <2>2, <2>3 DEF Accounted, Account
<1> QED BY <1>1, <1>3, SettleKeeps DEF StillAccounted

LEMMA SettleServe ==
  ASSUME TypeInv, WireInv, CurrentInv, SettleInv, ServeHello
  PROVE  SettleInv'
<1> DEFINE cursor == Head(up).cursor
           ops == IF cursor = 0 THEN Bootstrap ELSE PatchSince(rows, cursor)
           f == PokeFrames(cursor, ops, lmid, {}, Version)
<1>1. /\ push = Idle /\ up # <<>> /\ Head(up).type = "hello" /\ down' = down \o f /\ up' = Tail(up)
      /\ ready' = TRUE /\ UNCHANGED <<serverVars, link, queue, issued, table, counts>>
  BY DEF ServeHello
<1>2. PokeShaped(f, lmid) /\ PokeOf(f, cursor, ToSet(ops), Version)
  <2>1. ops \in Seq(Ops)
    <3>1. cursor \in Nat
      BY <1>1, HeadUp DEF TypeInv
    <3> QED BY <3>1, PatchSinceIs, BootstrapIs DEF TypeInv, RowRecords
  <2>2. Version \in Nat /\ lmid \in Nat /\ {} \in SUBSET Nat /\ cursor \in Nat
    BY <1>1, HeadUp, BoundNats DEF TypeInv
  <2> HIDE DEF cursor, ops
  <2> QED BY <2>1, <2>2, FramesShaped, FramesOfPoke
<1> HIDE DEF f, ops
<1>3. f[1].base \in {0, link.cursor}
  <2>1. f[1].base = cursor
    BY <1>2 DEF PokeOf
  <2>2. ready \in BOOLEAN /\ Renews(up, link.cursor, ready)
    BY CurrentNow DEF Current
  <2>3. cursor \in {0, link.cursor}
    BY <1>1, <2>2, RenewsTail DEF TypeInv
  <2> QED BY <2>1, <2>3
<1> HIDE DEF cursor
<1>4. ASSUME link.socket = "open", link.synced, NEW id \in Nat \ {0}, Accounted(id) PROVE Accounted(id)'
  <2>1. /\ down \in Seq(Downward) /\ f \in Seq(Downward) /\ up \in Seq(Upward) /\ lmid \in Nat /\ id \in Nat
    BY <1>2, <1>4, SyncedReady, BoundNats DEF PokeShaped
  <2>2. link' = link /\ lmid' = lmid /\ push' = push /\ push.todo = <<>>
    BY <1>1 DEF serverVars, Idle
  <2>3. Covered(down, link.poke, link.cursor, id) => Covered(down \o f, link.poke, link.cursor, id)
    BY <2>1, CoveredJoin
  <2>4. lmid >= id => Covered(down \o f, link.poke, link.cursor, id)
    BY <1>2, <1>3, <2>1, CoveredNew
  <2>5. PushedIn(up, id) => PushedIn(Tail(up), id)
    <3>1. Head(up).type # "push"
      BY <1>1
    <3> QED BY <1>1, <2>1, <3>1, PushedTail
  <2>6. Account(down \o f, Tail(up), link.poke, link.cursor, lmid, push.todo, id)
    BY <1>4, <2>2, <2>3, <2>4, <2>5 DEF Accounted, Account
  <2> QED BY <1>1, <2>2, <2>6 DEF Accounted
<1> QED BY <1>1, <1>4, SettleKeeps DEF StillAccounted

LEMMA SettlePush ==
  ASSUME TypeInv, WireInv, SettleInv, StartPush
  PROVE  SettleInv'
<1>1. /\ push = Idle /\ up # <<>> /\ Head(up).type = "push" /\ up' = Tail(up)
      /\ push' = [Idle EXCEPT !.todo = Head(up).mutations, !.from = Version]
      /\ UNCHANGED <<lmid, down, link, queue>>
  BY DEF StartPush
<1>2. push'.todo = Head(up).mutations /\ push.todo = <<>>
  BY <1>1 DEF Idle
<1>3. ASSUME link.socket = "open", link.synced, NEW id \in Nat \ {0}, Accounted(id) PROVE Accounted(id)'
  <2>1. up \in Seq(Upward) /\ Head(up).mutations \in Seq(Muts)
    BY <1>1, HeadUp DEF TypeInv
  <2>2. Asks(up) => Asks(Tail(up))
    <3>1. Head(up).type # "hello"
      BY <1>1
    <3> QED BY <1>1, <2>1, <3>1, AsksTail
  <2>3. PushedIn(up, id) => \/ PushedIn(Tail(up), id)
                            \/ \E p \in DOMAIN Head(up).mutations : Head(up).mutations[p].id = id
    BY <1>1, <2>1, PushedTail
  <2>4. (\E p \in DOMAIN Head(up).mutations : Head(up).mutations[p].id = id) => Head(up).mutations # <<>>
    BY <2>1
  <2>5. Account(down, Tail(up), link.poke, link.cursor, lmid, Head(up).mutations, id)
    BY <1>2, <1>3, <2>2, <2>3, <2>4 DEF Accounted, Account
  <2> QED BY <1>1, <1>2, <2>5 DEF Accounted
<1> QED BY <1>1, <1>3, SettleKeeps DEF StillAccounted

\* Handling a mutation only raises the LMID, and past its id.
LEMMA HandleLast ==
  ASSUME TypeInv, HandleMutation
  PROVE  /\ lmid' \in Nat /\ lmid' >= lmid /\ lmid' >= Head(push.todo).id
         /\ lmid \in Nat /\ Head(push.todo).id \in Nat
<1>1. push.todo # <<>> /\ lmid' = IF Fresh THEN Head(push.todo).id ELSE lmid
  BY HandleIs
<1>2. push.todo \in Seq(Muts) /\ lmid \in Nat
  BY DEF TypeInv, Pushing
<1>3. Head(push.todo).id \in Nat
  BY <1>1, <1>2, HeadMuts
<1> QED BY <1>1, <1>2, <1>3 DEF Fresh

\* An id of the push being handled is the one handled now, or one of those left.
LEMMA TodoLeft ==
  ASSUME NEW q \in Seq(Muts), q # <<>>, NEW id, \E p \in DOMAIN q : q[p].id = id
  PROVE  Head(q).id = id \/ \E p \in DOMAIN Tail(q) : Tail(q)[p].id = id
<1>1. /\ DOMAIN Tail(q) = 1..(Len(q) - 1) /\ DOMAIN q = 1..Len(q) /\ Len(q) \in Nat \ {0}
      /\ \A i \in 1..(Len(q) - 1) : i + 1 \in 1..Len(q) /\ Tail(q)[i] = q[i + 1]
      /\ Head(q) = q[1]
  BY TailIs
<1>2. PICK p \in DOMAIN q : q[p].id = id
  OBVIOUS
<1>3. CASE p = 1
  BY <1>1, <1>2, <1>3
<1>4. CASE p # 1
  <2>1. p - 1 \in 1..(Len(q) - 1) /\ (p - 1) + 1 = p
    BY <1>1, <1>4
  <2>2. p - 1 \in DOMAIN Tail(q) /\ Tail(q)[p - 1] = q[p]
    BY <1>1, <2>1
  <2> QED BY <1>2, <2>2
<1> QED BY <1>3, <1>4

LEMMA LongTail ==
  ASSUME NEW q \in Seq(Muts), q # <<>>, Len(q) > 1
  PROVE  Tail(q) # <<>>
<1>1. Len(q) \in Nat \ {0} /\ Len(Tail(q)) = Len(q) - 1
  BY TailIs
<1>2. Len(<<>>) = 0
  OBVIOUS
<1>3. Len(Tail(q)) # 0
  BY <1>1
<1> QED BY <1>2, <1>3

LEMMA LastLeft ==
  ASSUME NEW q \in Seq(Muts), q # <<>>, NEW id, \E p \in DOMAIN q : q[p].id = id, ~(Len(q) > 1)
  PROVE  Head(q).id = id
<1>1. DOMAIN Tail(q) = 1..(Len(q) - 1) /\ Len(q) \in Nat \ {0}
  BY TailIs
<1>2. DOMAIN Tail(q) = {}
  BY <1>1
<1> QED BY <1>2, TodoLeft

LEMMA SettleHandle ==
  ASSUME TypeInv, HistInv, WireInv, CurrentInv, SettleInv, HandleMutation
  PROVE  SettleInv'
<1> DEFINE f == PokeFrames(push.from, PatchSince(rows', push.from), lmid', NextErrors, Version')
<1>1. /\ push.todo # <<>>
      /\ \/ /\ Len(push.todo) > 1 /\ down' = down
            /\ push' = [push EXCEPT !.todo = Tail(@), !.errors = NextErrors]
         \/ ~(Len(push.todo) > 1) /\ push' = Idle /\ down' = Sent(f)
      /\ UNCHANGED <<ready, up, link, queue, issued, table, restarts, cuts>>
  BY HandleIs
<1>2. /\ lmid' \in Nat /\ lmid' >= lmid /\ lmid' >= Head(push.todo).id
      /\ lmid \in Nat /\ Head(push.todo).id \in Nat
  BY HandleLast
<1>3. PokeShaped(f, lmid') /\ f[1].base = push.from
  <2>1. HistTyped' /\ Version' \in Nat /\ NextErrors \in SUBSET Nat /\ push.from \in Nat
    BY HandleGrows
  <2>2. PatchSince(rows', push.from) \in Seq(Ops)
    BY <2>1, PatchSinceIs DEF HistTyped, RowRecords
  <2>3. PokeShaped(f, lmid') /\ PokeOf(f, push.from, ToSet(PatchSince(rows', push.from)), Version')
    BY <1>2, <2>1, <2>2, FramesShaped, FramesOfPoke
  <2> QED BY <2>3 DEF PokeOf
<1> HIDE DEF f
<1>4. push.todo \in Seq(Muts) /\ push \in Pushing
  BY DEF TypeInv, Pushing
<1>5. ASSUME NEW id \in Nat \ {0}, lmid >= id \/ \E p \in DOMAIN push.todo : push.todo[p].id = id
      PROVE  /\ lmid' >= id \/ \E p \in DOMAIN Tail(push.todo) : Tail(push.todo)[p].id = id
             /\ ~(Len(push.todo) > 1) => lmid' >= id
  <2>1. CASE lmid >= id
    BY <1>2, <2>1
  <2>2. CASE \E p \in DOMAIN push.todo : push.todo[p].id = id
    <3>1. Head(push.todo).id = id \/ \E p \in DOMAIN Tail(push.todo) : Tail(push.todo)[p].id = id
      BY <1>1, <1>4, <2>2, TodoLeft
    <3>2. ~(Len(push.todo) > 1) => Head(push.todo).id = id
      BY <1>1, <1>4, <2>2, LastLeft
    <3> QED BY <1>2, <3>1, <3>2
  <2> QED BY <1>5, <2>1, <2>2
<1>6. ASSUME link.socket = "open", link.synced, NEW id \in Nat \ {0}, Accounted(id) PROVE Accounted(id)'
  <2>1. ready /\ down \in Seq(Downward) /\ f \in Seq(Downward) /\ id \in Nat
    BY <1>3, <1>6, SyncedReady DEF PokeShaped
  <2>2. up' = up /\ link' = link
    BY <1>1
  <2>3. lmid >= id => lmid' >= id
    BY <1>2
  <2>4. CASE /\ Len(push.todo) > 1 /\ down' = down
             /\ push' = [push EXCEPT !.todo = Tail(@), !.errors = NextErrors]
    <3>1. push'.todo = Tail(push.todo)
      BY <1>4, <2>4 DEF Pushing
    <3>2. Tail(push.todo) # <<>>
      BY <1>1, <1>4, <2>4, LongTail
    <3>3. Account(down, up, link.poke, link.cursor, lmid', Tail(push.todo), id)
      BY <1>5, <1>6, <2>3, <3>2 DEF Accounted, Account
    <3> QED BY <2>2, <2>4, <3>1, <3>3 DEF Accounted
  <2>5. CASE ~(Len(push.todo) > 1) /\ push' = Idle /\ down' = Sent(f)
    <3>1. down' = down \o f
      BY <2>1, <2>5 DEF Sent
    <3>2. Covered(down, link.poke, link.cursor, id) => Covered(down \o f, link.poke, link.cursor, id)
      BY <2>1, CoveredJoin
    <3>3. lmid' >= id => Asks(up) \/ Covered(down \o f, link.poke, link.cursor, id)
      <4>1. /\ Current(down, up, link.poke, link.cursor, link.awaiting, TRUE, Target)
            /\ link.awaiting \in BOOLEAN
        BY <2>1, CurrentNow
      <4>2. Target = push.from
        BY <1>1 DEF Target
      <4>3. Asks(up) \/ AnyGood(down, link.poke, link.cursor) \/ f[1].base \in {0, link.cursor}
        <5>1. CASE link.awaiting
          BY <4>1, <5>1 DEF Current
        <5>2. CASE ~link.awaiting /\ down # <<>>
          <6>1. FirstGood(down, link.poke, link.cursor)
            BY <4>1, <5>2 DEF Current
          <6>2. 0 \in 0..Len(down) /\ 1 \in 0..Len(down)
            BY <2>1, <5>2
          <6> QED BY <6>1, <6>2 DEF FirstGood, AnyGood
        <5>3. CASE ~link.awaiting /\ down = <<>>
          <6>1. link.cursor = push.from
            BY <4>1, <4>2, <5>3 DEF Current
          <6> QED BY <1>3, <6>1
        <5> QED BY <5>1, <5>2, <5>3
      <4> QED BY <1>2, <1>3, <2>1, <4>3, CoveredNew
    <3>4. push'.todo = <<>>
      BY <2>5 DEF Idle
    <3>5. Account(down \o f, up, link.poke, link.cursor, lmid', <<>>, id)
      BY <1>5, <1>6, <2>3, <2>5, <3>2, <3>3 DEF Accounted, Account
    <3> QED BY <2>2, <3>1, <3>4, <3>5 DEF Accounted
  <2> QED BY <1>1, <2>4, <2>5
<1> QED BY <1>1, <1>6, SettleKeeps DEF StillAccounted

LEMMA SettleReads ==
  ASSUME TypeInv, WireInv, SettleInv, PokeStart \/ PokePart
  PROVE  SettleInv'
<1>1. /\ down # <<>> /\ down' = Tail(down) /\ UNCHANGED serverVars /\ up' = up /\ queue' = queue
      /\ link \in Links /\ link.poke \in Pokes
  BY StartIs, PartIs DEF TypeInv, Links
<1>2. /\ link'.cursor = link.cursor /\ link'.confirmed = link.confirmed
      /\ link'.socket = link.socket /\ link'.synced = link.synced
      /\ Head(down).type # "end"
      /\ Head(down).type = "start" => link'.poke.base = Head(down).base
      /\ Head(down).type = "part" =>
           /\ link'.poke.base = link.poke.base
           /\ link'.poke.lmid = IF Head(down).lmid = 0 THEN link.poke.lmid ELSE Head(down).lmid
  <2>1. CASE PokeStart
    <3> DEFINE new == [NoPoke EXCEPT !.base = Head(down).base, !.mismatch = Head(down).base # link.cursor]
    <3>1. Head(down).type = "start" /\ link' = [link EXCEPT !.poke = new]
      BY <2>1, StartIs
    <3>2. new.base = Head(down).base
      BY DEF NoPoke
    <3> HIDE DEF new
    <3> QED BY <1>1, <3>1, <3>2 DEF Links
  <2>2. CASE PokePart
    <3>1. Head(down).type = "part" /\ PartRead \in Pokes /\ link' = [link EXCEPT !.poke = PartRead]
      BY <2>2, PartIs
    <3>2. /\ PartRead.base = link.poke.base
          /\ PartRead.lmid = IF Head(down).lmid = 0 THEN link.poke.lmid ELSE Head(down).lmid
      BY <1>1 DEF PartRead, Pokes
    <3> QED BY <1>1, <3>1, <3>2 DEF Links
  <2> QED BY <2>1, <2>2
<1>2a. link'.poke \in Pokes
  BY TypeReads DEF TypeInv, Links
<1>3. ASSUME link.socket = "open", link.synced, NEW id \in Nat \ {0}, Accounted(id) PROVE Accounted(id)'
  <2>1. lmid' = lmid /\ push' = push
    BY <1>1 DEF serverVars
  <2>2. down \in Seq(Downward) /\ Ordered(down, link.poke)
    BY <1>3, SyncedReady DEF WireInv
  <2>3. Covered(down, link.poke, link.cursor, id) => Covered(Tail(down), link'.poke, link.cursor, id)
    BY <1>1, <1>2, <1>2a, <2>2, CoveredTail
  <2>4. Account(Tail(down), up, link'.poke, link.cursor, lmid, push.todo, id)
    BY <1>3, <2>3 DEF Accounted, Account
  <2> QED BY <1>1, <1>2, <2>1, <2>4 DEF Accounted
<1> QED BY <1>1, <1>2, <1>3, SettleKeeps DEF StillAccounted

LEMMA SettleDrop ==
  ASSUME TypeInv, WireInv, PiecesInv, TablesInv, CurrentInv, SettleInv, DropPoke
  PROVE  SettleInv'
<1>1. /\ down # <<>> /\ down' = Tail(down) /\ Head(down).type = "end"
      /\ UNCHANGED serverVars /\ queue' = queue /\ link \in Links
      /\ link' = [link EXCEPT !.poke = NoPoke, !.awaiting = TRUE]
  BY DropIs DEF TypeInv
<1>2. up' = up
  BY CurrentDrop
<1>3. /\ link'.cursor = link.cursor /\ link'.confirmed = link.confirmed
      /\ link'.socket = link.socket /\ link'.synced = link.synced /\ link'.poke = NoPoke
  BY <1>1 DEF Links
<1>4. NoPoke \in Pokes
  BY DEF NoPoke, Pokes
<1>5. ~Good(down, link.poke, link.cursor, 0)
  BY DropsBad
<1>6. ASSUME link.socket = "open", link.synced, NEW id \in Nat \ {0}, Accounted(id) PROVE Accounted(id)'
  <2>1. lmid' = lmid /\ push' = push
    BY <1>1 DEF serverVars
  <2>2. down \in Seq(Downward) /\ link.poke \in Pokes /\ Ordered(down, link.poke)
    BY <1>6, SyncedReady DEF WireInv
  <2>3. Covered(down, link.poke, link.cursor, id) => Covered(Tail(down), NoPoke, link.cursor, id)
    BY <1>1, <1>4, <1>5, <2>2, CoveredTail
  <2>4. Account(Tail(down), up, NoPoke, link.cursor, lmid, push.todo, id)
    BY <1>6, <2>3 DEF Accounted, Account
  <2> QED BY <1>1, <1>2, <1>3, <2>1, <2>4 DEF Accounted
<1> QED BY <1>1, <1>3, <1>6, SettleKeeps DEF StillAccounted

\* What a client that asks for everything again has been promised was handled: the answer will say so.
LEMMA CoveredHandled ==
  ASSUME NEW q \in Seq(Downward), NEW poke \in Pokes, NEW cursor, NEW id \in Nat, NEW version, NEW last \in Nat,
         DownFits(q, version, last), poke.lmid <= last, Covered(q, poke, cursor, id)
  PROVE  last >= id
<1>1. CASE poke.lmid >= id
  BY <1>1 DEF Pokes
<1>2. ASSUME NEW m \in 1..Len(q), q[m].type = "part", q[m].lmid >= id PROVE last >= id
  <2>1. q[m].lmid <= last
    BY <1>2 DEF DownFits, DownBound
  <2>2. q[m] \in Downward
    OBVIOUS
  <2>3. q[m].lmid \in Nat
    BY <1>2, <2>2 DEF Downward
  <2> QED BY <1>2, <2>1, <2>3
<1> QED BY <1>1, <1>2 DEF Covered

LEMMA SettleTables ==
  ASSUME TypeInv, BoundInv, WireInv, SettleInv, NEW t \in Tables, Create(t) \/ Start(t) \/ Cleanup(t) \/ Restart(t)
  PROVE  SettleInv'
<1>1. UNCHANGED <<serverVars, ready, down, queue>> /\ (Register \/ UNCHANGED <<link, up>>)
  BY DEF Create, Start, Cleanup, Restart
<1>2. lmid' = lmid /\ push' = push
  BY <1>1 DEF serverVars
<1>3. CASE UNCHANGED <<link, up>>
  <2>1. StillAccounted
    BY <1>1, <1>2, <1>3 DEF StillAccounted, Accounted
  <2> QED BY <1>1, <1>3, <2>1, SettleKeeps
<1>4. CASE Register /\ ~link.synced
  BY <1>3, <1>4 DEF Register
<1>5. CASE Register /\ link.synced
  <2>1. /\ link' = [link EXCEPT !.cursor = 0, !.awaiting = link.socket = "open"]
        /\ up' = IF link.socket = "open" THEN Append(up, Hello(0)) ELSE up
    BY <1>5 DEF Register
  <2>2. /\ link'.socket = link.socket /\ link'.synced = link.synced /\ link'.confirmed = link.confirmed
    BY <2>1 DEF TypeInv, Links
  <2>3. ASSUME link.socket = "open", link.synced, NEW id \in Nat \ {0}, Accounted(id) PROVE Accounted(id)'
    <3> DEFINE more == Append(up, Hello(0))
    <3>1. up \in Seq(Upward) /\ down \in Seq(Downward) /\ link.poke \in Pokes /\ lmid \in Nat /\ id \in Nat
      BY <2>3, SyncedReady, BoundNats
    <3>2. Hello(0) \in Upward /\ Hello(0).type = "hello"
      BY DEF Hello, Upward
    <3>3. Asks(more)
      BY <3>1, <3>2, AsksMore
    <3>4. PushedIn(up, id) => PushedIn(more, id)
      BY <3>1, PushedMore
    <3>5. Covered(down, link.poke, link.cursor, id) => lmid >= id
      <4>1. DownFits(down, Version, lmid) /\ link.poke.lmid <= lmid
        BY DEF BoundInv
      <4> QED BY <3>1, <4>1, CoveredHandled
    <3>6. up' = more
      BY <2>1, <2>3
    <3> HIDE DEF more
    <3>7. Account(down, more, link'.poke, link'.cursor, lmid, push.todo, id)
      BY <2>3, <3>3, <3>4, <3>5 DEF Accounted, Account
    <3> QED BY <1>1, <1>2, <3>6, <3>7 DEF Accounted
  <2> QED BY <1>1, <2>2, <2>3, SettleKeeps DEF StillAccounted
<1> QED BY <1>1, <1>3, <1>4, <1>5

\* A connection that is made, lost or not there yet is not synced.
LEMMA SettleLink ==
  ASSUME TypeInv, WireInv, SettleInv, Dial \/ Open \/ Cut \/ \E cursor : Hydrate(cursor)
  PROVE  SettleInv'
<1>1. link \in Links
  BY DEF TypeInv
<1>2. ~(link'.socket = "open" /\ link'.synced)
  <2>1. CASE Dial \/ Cut
    <3>1. link'.socket # "open"
      BY <1>1, <2>1 DEF Dial, Cut, Links
    <3> QED BY <3>1
  <2>2. CASE Open
    <3>1. link.socket = "dialling" /\ link' = [link EXCEPT !.socket = "open", !.awaiting = TRUE]
      BY <2>2 DEF Open
    <3>2. link'.synced = link.synced /\ ~link.synced
      BY <1>1, <3>1 DEF Links, WireInv
    <3> QED BY <3>2
  <2>3. ASSUME NEW cursor, Hydrate(cursor) PROVE ~(link'.socket = "open" /\ link'.synced)
    <3>1. ~link.started /\ link' = [link EXCEPT !.started = TRUE, !.cursor = cursor]
      BY <2>3, HydrateIs
    <3>2. link'.socket = link.socket /\ link.socket = "none"
      BY <1>1, <3>1 DEF Links, WireInv
    <3> QED BY <3>2
  <2> QED BY <2>1, <2>2, <2>3
<1> QED BY <1>2 DEF SettleInv

\* A flush puts every intent that is not confirmed on its way.
LEMMA FlushSettles ==
  ASSUME NEW entries \in Seq(Entries), NEW confirmed \in Nat, NEW synced \in BOOLEAN, link.socket = "open", synced,
         NEW u \in Seq(Upward), NEW p \in DOMAIN entries, entries[p].id > confirmed
  PROVE  PushedIn(Flushed(entries, confirmed, synced, u), entries[p].id)
<1> DEFINE pending == Pending(entries, confirmed)
<1>1. \E i \in DOMAIN pending : pending[i].id = entries[p].id
  BY PendingIs DEF Carries
<1>2. pending # <<>>
  BY <1>1
<1>3. /\ PushOf(entries, confirmed).type = "push" /\ PushOf(entries, confirmed).mutations = pending
      /\ Flushed(entries, confirmed, synced, u) = Append(u, PushOf(entries, confirmed))
  BY <1>2, FlushKinds
<1> DEFINE frame == PushOf(entries, confirmed)
           id == entries[p].id
<1>4. frame.type = "push" /\ (\E i \in DOMAIN frame.mutations : frame.mutations[i].id = id)
  BY <1>1, <1>3
<1>5. Flushed(entries, confirmed, synced, u) = Append(u, frame)
  BY <1>3
<1> HIDE DEF pending, frame, id
<1>6. PushedIn(Append(u, frame), id)
  BY <1>4, PushedMore
<1> QED BY <1>5, <1>6 DEF id

LEMMA SettleMutate ==
  ASSUME TypeInv, SettleInv, NEW program \in Programs, Mutate(program)
  PROVE  SettleInv'
<1>1. PICK entry : /\ EntryOf(program, entry) /\ queue' = Append(queue, entry)
                   /\ up' = Flushed(queue', link.confirmed, link.synced, up)
                   /\ queue' \in Seq(Entries)
                   /\ UNCHANGED <<serverVars, ready, down, link>>
  BY MutateIs
<1> SUFFICES ASSUME link'.socket = "open", link'.synced
             PROVE  (Settling(down, up, link.poke, link.cursor, lmid, push.todo, link.confirmed, queue))'
  BY DEF SettleInv
<1>2. link.socket = "open" /\ link.synced /\ link.synced \in BOOLEAN /\ up \in Seq(Upward) /\ queue \in Seq(Entries)
  BY <1>1 DEF TypeInv, Links
<1>3. link.confirmed \in Nat /\ LastId \in Nat /\ LastId >= link.confirmed
  BY BoundNats, LastIs, LastIdIs DEF TypeInv
<1>4. ASSUME NEW e \in DOMAIN queue' PROVE queue'[e].id > link.confirmed
  <2>1. DOMAIN queue' = DOMAIN queue \cup {Len(queue) + 1}
        /\ (\A i \in DOMAIN queue : queue'[i] = queue[i]) /\ queue'[Len(queue) + 1] = entry
    BY <1>1, <1>2
  <2>2. CASE e \in DOMAIN queue
    BY <1>2, <2>1, <2>2 DEF SettleInv, Settling
  <2>3. CASE e = Len(queue) + 1
    <3>1. queue'[e].id = LastId + 1
      BY <1>1, <1>2, <2>1, <2>3 DEF EntryOf
    <3> QED BY <1>3, <3>1
  <2> QED BY <2>1, <2>2, <2>3
<1>5. ASSUME NEW e \in DOMAIN queue' PROVE PushedIn(up', queue'[e].id)
  BY <1>1, <1>2, <1>3, <1>4, FlushSettles
<1>6. link'.confirmed = link.confirmed
  BY <1>1
<1> QED BY <1>4, <1>5, <1>6 DEF Settling, Account

LEMMA SettleApply ==
  ASSUME TypeInv, BoundInv, WireInv, SettleInv, ApplyPoke
  PROVE  SettleInv'
<1>1. /\ down # <<>> /\ queue' = (IF link.synced THEN Unsettled ELSE Numbered)
      /\ link' = [link EXCEPT !.poke = NoPoke, !.cursor = Head(down).cursor, !.awaiting = FALSE,
                              !.synced = TRUE, !.confirmed = ConfirmedNow]
      /\ up' = Flushed(queue', ConfirmedNow, TRUE, up)
  BY ApplyIs
<1>2. link'.socket = link.socket /\ link'.confirmed = ConfirmedNow
  BY <1>1 DEF TypeInv, Links
<1>3. Blank(queue') = {} /\ queue' \in Seq(Entries)
  BY LastApplied
<1>4. /\ ConfirmedNow \in Nat /\ TopId \in Nat /\ TopId >= ConfirmedNow /\ up \in Seq(Upward)
  BY UnsettledIs DEF TypeInv
<1>5. ASSUME NEW e \in DOMAIN queue' PROVE queue'[e].id > ConfirmedNow
  <2>0. queue'[e] \in Entries
    BY <1>3
  <2>1. queue'[e].id # 0 /\ queue'[e].id \in Nat
    BY <1>3, <2>0 DEF Blank, Entries
  <2>2. \A i \in DOMAIN Unsettled : Unsettled[i].id = 0 \/ Unsettled[i].id > ConfirmedNow
    BY UnsettledIs
  <2>3. CASE link.synced
    BY <1>1, <2>1, <2>2, <2>3
  <2>4. CASE ~link.synced
    <3>1. queue' = Numbered /\ e \in DOMAIN Unsettled
      BY <1>1, <2>4, NumberedIs
    <3>2. CASE Unsettled[e].id # 0
      BY <2>2, <3>1, <3>2, NumberedIs
    <3>3. CASE Unsettled[e].id = 0
      <4>1. queue'[e].id > TopId
        BY <3>1, <3>3, NumberedIs
      <4> QED BY <1>4, <2>1, <4>1
    <3> QED BY <3>2, <3>3
  <2> QED BY <2>3, <2>4
<1>6. ASSUME link.socket = "open", NEW e \in DOMAIN queue' PROVE PushedIn(up', queue'[e].id)
  <2>1. PushedIn(Flushed(queue', ConfirmedNow, TRUE, up), queue'[e].id)
    BY <1>3, <1>4, <1>5, <1>6, FlushSettles
  <2> QED BY <1>1, <2>1
<1>7. ASSUME link'.socket = "open"
      PROVE  (Settling(down, up, link.poke, link.cursor, lmid, push.todo, link.confirmed, queue))'
  BY <1>2, <1>5, <1>6, <1>7 DEF Settling, Account
<1> QED BY <1>7 DEF SettleInv

LEMMA SettleInit == ASSUME Init PROVE SettleInv
  BY DEF Init, SettleInv

LEMMA SettleStep ==
  ASSUME TypeInv, HistInv, BoundInv, WireInv, PiecesInv, TablesInv, CurrentInv, SettleInv, [Next]_vars
  PROVE  SettleInv'
<1>1. CASE UNCHANGED vars
  BY <1>1 DEF vars, serverVars, SettleInv
<1>2. CASE Server
  BY <1>2, SettleOther, SettleServe, SettlePush, SettleHandle DEF Server
<1>3. CASE TableEvents
  BY <1>3, SettleTables DEF TableEvents
<1>4. CASE Client
  BY <1>4, SettleMutate, SettleLink, SettleReads, SettleDrop, SettleApply DEF Client
<1> QED BY <1>1, <1>2, <1>3, <1>4 DEF Next

\* The frames in flight, once applied, bring the cursor to the version of the workspace: each
\* poke is onto the end of the one before it, and the first one is taken or another is asked for.
THEOREM ClientsCatchUp == ASSUME Late = FALSE PROVE Spec => []CurrentInv
<1>1. Init => CurrentInv
  BY CurrentInit
<1>2. TypeInv /\ HistInv /\ WireInv /\ PiecesInv /\ TablesInv /\ CurrentInv /\ [Next]_vars => CurrentInv'
  BY CurrentStep
<1>3. Init => WireInv
  BY WireInit
<1>4. TypeInv /\ WireInv /\ [Next]_vars => WireInv'
  BY WireStep
<1>5. Spec => []WireInv
  BY <1>3, <1>4, CollectionsTyped, PTL DEF Spec
<1> QED BY <1>1, <1>2, <1>5, CollectionsTyped, RowsSinceVersion, PokesWhole, TablesHoldVersions, PTL DEF Spec

\* Every intent of a synced client is in a push on its way or being handled, or a poke that will
\* be applied, or one that is asked for, will settle it.
THEOREM IntentsAccounted == ASSUME Late = FALSE PROVE Spec => []SettleInv
<1>1. Init => WireInv /\ SettleInv
  BY WireInit, SettleInit
<1>2. TypeInv /\ WireInv /\ [Next]_vars => WireInv'
  BY WireStep
<1>3. TypeInv /\ HistInv /\ BoundInv /\ WireInv /\ PiecesInv /\ TablesInv /\ CurrentInv /\ SettleInv /\ [Next]_vars
        => SettleInv'
  BY SettleStep
<1>4. Spec => []WireInv
  BY <1>1, <1>2, CollectionsTyped, PTL DEF Spec
<1> QED BY <1>1, <1>3, <1>4, CollectionsTyped, RowsSinceVersion, BoundsHold, PokesWhole, TablesHoldVersions,
           ClientsCatchUp, PTL DEF Spec

LEMMA QuietNow ==
  ASSUME TypeInv, BoundInv, WireInv, TablesInv, CurrentInv, SettleInv
  PROVE  QuietCurrent
<1> SUFFICES ASSUME Quiet
             PROVE  /\ link.cursor = Version /\ queue = <<>>
                    /\ \A t \in Tables : table[t].status = "on" => table[t].shown = RowsAt(Version, t)
  BY DEF QuietCurrent
<1>1. /\ push = Idle /\ up = <<>> /\ down = <<>> /\ push.todo = <<>>
      /\ link.socket = "open" /\ link.synced /\ ~link.awaiting
  BY DEF Quiet, Idle
<1>2. link.cursor = Version
  <2>1. ready
    BY <1>1, SyncedReady
  <2>2. Current(down, up, link.poke, link.cursor, link.awaiting, TRUE, Target)
    BY <2>1, CurrentNow
  <2>3. Target = Version
    BY <1>1, TargetIdle
  <2> QED BY <1>1, <2>2, <2>3 DEF Current
<1>3. queue = <<>>
  <2>1. ASSUME NEW id PROVE ~Account(<<>>, <<>>, link.poke, link.cursor, lmid, <<>>, id)
    <3>1. DOMAIN <<>> = {} /\ 1..Len(<<>>) = {}
      OBVIOUS
    <3>2. ~PushedIn(<<>>, id) /\ ~Asks(<<>>)
      BY <3>1 DEF PushedIn, Asks
    <3>3. ~Covered(<<>>, link.poke, link.cursor, id)
      BY <3>1 DEF Covered, Good, Begins
    <3> QED BY <3>2, <3>3 DEF Account
  <2>2. \A e \in DOMAIN queue : FALSE
    BY <1>1, <2>1 DEF SettleInv, Settling
  <2>3. queue \in Seq(Entries) /\ DOMAIN queue = 1..Len(queue) /\ Len(queue) \in Nat
    BY DEF TypeInv
  <2>4. Len(queue) = 0
    BY <2>2, <2>3
  <2> QED BY <2>3, <2>4
<1>4. ASSUME NEW t \in Tables, table[t].status = "on" PROVE table[t].shown = RowsAt(Version, t)
  <2>1. link.cursor # 0
    BY <1>2, BoundNats
  <2>2. WholePokes
    BY TablesShow
  <2> QED BY <1>2, <1>4, <2>1, <2>2 DEF WholePokes, Registered, Held
<1> QED BY <1>2, <1>3, <1>4

\* With nothing in flight a synced client is up to date, its intents are settled and its
\* collections show what the workspace has.
THEOREM QuietIsCurrent == ASSUME Late = FALSE PROVE Spec => []QuietCurrent
<1>1. Init => WireInv
  BY WireInit
<1>2. TypeInv /\ WireInv /\ [Next]_vars => WireInv'
  BY WireStep
<1>3. Spec => []WireInv
  BY <1>1, <1>2, CollectionsTyped, PTL DEF Spec
<1>4. TypeInv /\ BoundInv /\ WireInv /\ TablesInv /\ CurrentInv /\ SettleInv => QuietCurrent
  BY QuietNow
<1> QED BY <1>3, <1>4, CollectionsTyped, BoundsHold, TablesHoldVersions, ClientsCatchUp, IntentsAccounted, PTL
===============================================================================
