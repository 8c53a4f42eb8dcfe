------------------------------ MODULE Collections ------------------------------
(***************************************************************************)
(* The way of a row from a mutation to a collection.  The workspace runs a *)
(* mutation in a WriteSet and sends the rows it wrote as a poke, split into*)
(* frames (packages/server/src/frames.ts, do.ts).  One client puts the     *)
(* frames together and hands the rows to the tables registered with it     *)
(* (packages/client/src/client.ts), each behind a gate that holds them     *)
(* until its collection starts (collection.ts), and shows its own intents  *)
(* as overlays meanwhile.                                                  *)
(*                                                                         *)
(* Other clients are seen only by what they commit.  Resets, compaction    *)
(* and duplicate pushes of a lost confirmation are in SyncSystem; here the *)
(* frames of one poke can be told apart, and the tables of one replica.    *)
(***************************************************************************)
EXTENDS WriteSet

CONSTANTS
  Lazy,         \* tables whose collection starts with its first subscriber
  Later,        \* tables whose collection is created while the client runs
  FirstRows,    \* what the workspace may hold at first
  Cached,       \* the client has a store, with rows in it or not
  Late,         \* tables are registered even when their rows are not sent again
  Programs,     \* the intents of the client
  Others,       \* the mutations of other clients
  MaxVersion,
  MaxIntents,
  MaxRestarts,  \* collections cleaned up and started again
  MaxCuts,      \* connections lost
  MaxFrames,    \* frames in flight when another client commits
  MaxPart       \* the size of a frame's patch

ASSUME CollectionsAssumption ==
  /\ Lazy \subseteq Tables /\ Later \subseteq Tables /\ Lazy \cap Later = {}
  /\ Cached \in BOOLEAN /\ Late \in BOOLEAN
  /\ FirstRows \subseteq Rows
  /\ Programs \subseteq Seq(Steps) /\ Others \subseteq Seq(Steps)
  /\ IsFiniteSet(Tables) /\ IsFiniteSet(Ids)
  /\ MaxVersion \in Nat \ {0} /\ {MaxIntents, MaxRestarts, MaxCuts, MaxFrames} \subseteq Nat
  /\ MaxPart \in Nat \ {0, 1}

VARIABLES
  rows,      \* the rows of the workspace: [val, version]
  snaps,     \* history variable: the rows at each version, 1 the first
  authors,   \* history variable: the intent that made each version, 0 another client
  event,     \* what the post-commit hook was last told
  lmid,      \* the client's last mutation id
  push,      \* the push being handled
  ready,     \* the client's socket is ready
  up, down,  \* frames in flight
  link,      \* the client's connection
  queue,     \* its outbox, each entry with the overlay its intent laid
  issued,    \* how many intents there were
  table,     \* its tables: registration, gate and collection
  restarts,
  cuts

serverVars == <<rows, snaps, authors, event, lmid, push>>
counts == <<restarts, cuts>>
vars == <<serverVars, ready, up, down, link, queue, issued, table, counts>>

Idle == [todo |-> <<>>, from |-> 0, errors |-> {}]
NoPoke == [base |-> 0, mismatch |-> FALSE, patch |-> <<>>, lmid |-> 0, errors |-> {}]

Version == Len(snaps)
Now == snaps[Version]

-----------------------------------------------------------------------------
(* Frames *)

Clear == [op |-> "clear"]
PutOp(k) == [op |-> "put", key |-> k, val |-> rows[k].val]
DelOp(k) == [op |-> "del", key |-> k]

Size(op) == IF op.op = "put" THEN 2 ELSE 1

\* packPatch: greedily, and one part at least.
Packed(ops) ==
  LET add(acc, op) ==
        IF acc.current # <<>> /\ acc.size + Size(op) > MaxPart
        THEN [parts |-> Append(acc.parts, acc.current), current |-> <<op>>, size |-> Size(op)]
        ELSE [acc EXCEPT !.current = Append(@, op), !.size = @ + Size(op)]
      last == FoldLeft(add, [parts |-> <<>>, current |-> <<>>, size |-> 0], ops)
  IN  IF last.current # <<>> \/ last.parts = <<>>
      THEN Append(last.parts, last.current) ELSE last.parts

\* pokeFrames: pokeStart, the parts, the first with what the poke says of mutations, pokeEnd.
PokeFrames(base, ops, id, errors, end) ==
  LET parts == Packed(ops)
  IN  <<[type |-> "start", base |-> base]>>
        \o [i \in DOMAIN parts |->
              [type |-> "part", patch |-> parts[i], lmid |-> IF i = 1 THEN id ELSE 0,
               errors |-> IF i = 1 THEN errors ELSE {}]]
        \o <<[type |-> "end", cursor |-> end]>>

\* Mutant: rows deleted since are left out of a catch-up.
PatchSinceLive(current, version) ==
  LET changed == {k \in Keys : current[k].version > version /\ current[k].val # Deleted}
      op(k) == [op |-> "put", key |-> k, val |-> current[k].val]
  IN  [i \in 1..Cardinality(changed) |-> op(SetToSeq(changed)[i])]

\* #patchSince: each row changed since, with its value of now.
PatchSince(current, version) ==
  LET changed == {k \in Keys : current[k].version > version}
      op(k) == IF current[k].val = Deleted THEN [op |-> "del", key |-> k]
               ELSE [op |-> "put", key |-> k, val |-> current[k].val]
  IN  [i \in 1..Cardinality(changed) |-> op(SetToSeq(changed)[i])]

\* #bootstrapPatch: everything, over nothing.
Bootstrap ==
  LET all == SetToSeq({k \in Keys : rows[k].val # Deleted})
  IN  <<Clear>> \o [i \in DOMAIN all |-> PutOp(all[i])]

Sent(frames) == IF ready THEN down \o frames ELSE down

-----------------------------------------------------------------------------
(* The workspace *)

\* The transaction of #applyMutation: the rows with their new version, and the hook.
Committed(run, author) ==
  LET version == Version + 1
  IN  IF run.ok /\ Written(run) # {}
      THEN /\ rows' = [k \in Keys |-> IF k \in Written(run)
                                      THEN [val |-> RowsAfter(run)[k], version |-> version]
                                      ELSE rows[k]]
           /\ snaps' = Append(snaps, RowsAfter(run))
           /\ authors' = Append(authors, author)
           /\ event' = [version |-> version, changes |-> Changes(run)]
      ELSE UNCHANGED <<rows, snaps, authors, event>>

\* Another client's push, and the poke it fans out.
OtherCommits(program) ==
  LET run == Run(Now, program)
  IN  /\ push = Idle
      /\ Version < MaxVersion /\ Len(down) <= MaxFrames
      /\ run.ok /\ Written(run) # {}
      /\ Committed(run, 0)
      /\ down' = Sent(PokeFrames(Version, PatchSince(rows', Version), 0, {}, Version + 1))
      /\ UNCHANGED <<lmid, push, ready, up, link, queue, issued, table, counts>>

\* handleHello: everything for a null cursor, what changed since for any other.
ServeHello ==
  /\ push = Idle
  /\ up # <<>> /\ Head(up).type = "hello"
  /\ LET cursor == Head(up).cursor
         ops == IF cursor = 0 THEN Bootstrap ELSE PatchSince(rows, cursor)
     IN  down' = down \o PokeFrames(cursor, ops, lmid, {}, Version)
  /\ ready' = TRUE
  /\ up' = Tail(up)
  /\ UNCHANGED <<serverVars, link, queue, issued, table, counts>>

StartPush ==
  /\ push = Idle
  /\ up # <<>> /\ Head(up).type = "push"
  /\ push' = [Idle EXCEPT !.todo = Head(up).mutations, !.from = Version]
  /\ up' = Tail(up)
  /\ UNCHANGED <<rows, snaps, authors, event, lmid, ready, down, link, queue, issued, table, counts>>

\* The next mutation of a push: applied, refused for good, or skipped as done before.  The poke
\* of the whole push follows its last one.
HandleMutation ==
  /\ push.todo # <<>>
  /\ LET next == Head(push.todo)
         run == Run(Now, next.program)
         fresh == next.id > lmid
         errors == push.errors \cup (IF fresh /\ ~run.ok THEN {next.id} ELSE {})
         id == IF fresh THEN next.id ELSE lmid
     IN  /\ IF fresh THEN Committed(run, next.id) ELSE UNCHANGED <<rows, snaps, authors, event>>
         /\ lmid' = id
         /\ IF Len(push.todo) > 1
            THEN /\ push' = [push EXCEPT !.todo = Tail(@), !.errors = errors]
                 /\ UNCHANGED down
            ELSE /\ push' = Idle
                 /\ down' = Sent(PokeFrames(push.from, PatchSince(rows', push.from), id,
                                            errors, Len(snaps')))
  /\ UNCHANGED <<ready, up, link, queue, issued, table, counts>>

-----------------------------------------------------------------------------
(* A table of the client *)

NoOps == [i \in Ids |-> None]
Empty == [i \in Ids |-> Deleted]

NewGate == [clear |-> FALSE, ops |-> NoOps, ready |-> FALSE]

\* A collection that has not started.  createCollections attaches its applier at once, a
\* createCollection of one's own only when its sync starts.
NewTable(applier) == [status |-> "created", applier |-> applier, gate |-> NewGate,
                      shown |-> Empty, keys |-> {}, ready |-> FALSE]

Registered(t) == table[t].status \in {"created", "on"}
Appliers == {t \in Tables : table[t].applier}

\* The operations of a patch on a table: at most one a row, so their order does not matter.
OpsOf(patch, t) ==
  LET mine == {op \in ToSet(patch) : op.op # "clear" /\ op.key[1] = t}
  IN  [i \in Ids |-> IF \E op \in mine : op.key[2] = i
                     THEN LET op == CHOOSE op \in mine : op.key[2] = i
                          IN  IF op.op = "put" THEN op.val ELSE Deleted
                     ELSE None]
Clears(patch) == Clear \in ToSet(patch)

\* Mutant: a truncate forgets the rows but not their keys.
WriteKeepingKeys(tb, clear, ops) ==
  LET shown == IF clear THEN Empty ELSE tb.shown
      put == {i \in Ids : ops[i] \notin {None, Deleted}}
      deleted == {i \in tb.keys : ops[i] = Deleted}
  IN  [tb EXCEPT !.shown = [i \in Ids |-> IF i \in put THEN ops[i]
                                          ELSE IF i \in deleted THEN Deleted ELSE shown[i]],
                 !.keys = (tb.keys \cup put) \ deleted]

\* The hooks of an attached gate: the rows of the collection and the keys it knows.  A delete of
\* a key it does not know is dropped.
Write(tb, clear, ops) ==
  LET shown == IF clear THEN Empty ELSE tb.shown
      keys == IF clear THEN {} ELSE tb.keys
      put == {i \in Ids : ops[i] \notin {None, Deleted}}
      deleted == {i \in keys : ops[i] = Deleted}
  IN  [tb EXCEPT !.shown = [i \in Ids |-> IF i \in put THEN ops[i]
                                          ELSE IF i \in deleted THEN Deleted ELSE shown[i]],
                 !.keys = (keys \cup put) \ deleted]

\* A detached gate keeps the last operation on each row.
Hold(tb, clear, ops) ==
  [tb EXCEPT !.gate.clear = @ \/ clear,
             !.gate.ops = [i \in Ids |-> IF ops[i] # None THEN ops[i]
                                         ELSE IF clear THEN None ELSE @[i]]]

\* begin, truncate, write and commit of a table's hooks.
Received(tb, clear, ops) ==
  CASE tb.status = "on" -> Write(tb, clear, ops)
    [] tb.status = "created" -> Hold(tb, clear, ops)
    [] OTHER -> tb

MarkedReady(tb) ==
  CASE tb.status = "on" -> [tb EXCEPT !.ready = TRUE]
    [] tb.status = "created" -> [tb EXCEPT !.gate.ready = TRUE]
    [] OTHER -> tb

\* TanStack starts the sync of a collection: a fresh set of keys, and the gate is emptied.
Attached(tb) ==
  LET fresh == [tb EXCEPT !.status = "on", !.applier = TRUE, !.shown = Empty, !.keys = {},
                          !.gate = NewGate]
      drained == Write(fresh, tb.gate.clear, tb.gate.ops)
  IN  IF tb.gate.ready THEN [drained EXCEPT !.ready = TRUE] ELSE drained

\* What a collection holds, or would if it started now and its gate were emptied.
Held(t) == IF table[t].status = "on" THEN table[t].shown ELSE Attached(table[t]).shown

-----------------------------------------------------------------------------
(* The client: tables *)

Hello(cursor) == [type |-> "hello", cursor |-> cursor]

\* A registration now would not have the table's rows sent: a catch-up from a cursor is under
\* way, or a poke onto one is being put together.
Unserved == link.cursor # 0 /\ (~link.synced \/ (link.poke # NoPoke /\ ~link.poke.mismatch))

\* registerTable: after the first sync of the connection everything is asked for again.
Register ==
  IF link.synced
  THEN /\ link' = [link EXCEPT !.cursor = 0, !.awaiting = link.socket = "open"]
       /\ up' = IF link.socket = "open" THEN Append(up, Hello(0)) ELSE up
  ELSE UNCHANGED <<link, up>>

\* A collection is created while the client runs; its sync starts later.
Create(t) ==
  /\ push = Idle
  /\ table[t].status = "absent"
  /\ Late \/ ~Unserved
  /\ Register
  /\ \E applier \in BOOLEAN : table' = [table EXCEPT ![t] = NewTable(applier)]
  /\ UNCHANGED <<serverVars, ready, down, queue, issued, counts>>

\* The first subscriber of a lazy collection.
Start(t) ==
  /\ push = Idle
  /\ table[t].status = "created"
  /\ table' = [table EXCEPT ![t] = Attached(@)]
  /\ UNCHANGED <<serverVars, ready, up, down, link, queue, issued, counts>>

\* A collection without subscribers is cleaned up.  Only while no intent is queued: the overlays
\* of a collection that is gone are TanStack's.
Cleanup(t) ==
  /\ push = Idle
  /\ table[t].status = "on"
  /\ restarts < MaxRestarts
  /\ restarts' = restarts + 1
  /\ queue = <<>>
  /\ table' = [table EXCEPT ![t] = [@ EXCEPT !.status = "off", !.shown = Empty, !.keys = {},
                                             !.ready = FALSE]]
  /\ UNCHANGED <<serverVars, ready, up, down, link, queue, issued, cuts>>

\* Mutant: the rows of a collection that comes back are not asked for again.
RestartQuietly(t) ==
  /\ push = Idle
  /\ table[t].status = "off"
  /\ Late \/ ~Unserved
  /\ table' = [table EXCEPT ![t] = Attached(@)]
  /\ UNCHANGED <<serverVars, ready, up, down, link, queue, issued, counts>>

\* A subscriber comes back: the table is registered again.
Restart(t) ==
  /\ push = Idle
  /\ table[t].status = "off"
  /\ Late \/ ~Unserved
  /\ Register
  /\ table' = [table EXCEPT ![t] = Attached(@)]
  /\ UNCHANGED <<serverVars, ready, down, queue, issued, counts>>

-----------------------------------------------------------------------------
(* The client: intents *)

\* What the collections show: the latest overlay on a row, or its synced value.
ShownAt(tables, entries, k) ==
  LET laid == {i \in DOMAIN entries : entries[i].overlay[k] # None}
  IN  IF laid = {} THEN tables[k[1]].shown[k[2]]
      ELSE entries[CHOOSE i \in laid : \A j \in laid : j <= i].overlay[k]

View == [k \in Keys |-> ShownAt(table, queue, k)]

\* #flushLocalWrites: a put of the value a row has, or a delete of none, lays nothing.
Overlay(run) ==
  [k \in Keys |-> CASE run.ws.puts[k] \notin {None, run.rows[k]} -> run.ws.puts[k]
                    [] k \in run.ws.dels /\ run.rows[k] # Deleted -> Deleted
                    [] OTHER -> None]
NoOverlay == [k \in Keys |-> None]

LastId == FoldLeft(LAMBDA n, entry : IF entry.id > n THEN entry.id ELSE n, link.confirmed, queue)

Pending(entries, confirmed) ==
  LET sent == Filtered(entries, {i \in DOMAIN entries : entries[i].id > confirmed})
  IN  [i \in DOMAIN sent |-> [id |-> sent[i].id, program |-> sent[i].program]]

\* #flushPush
Flushed(entries, confirmed, synced, frames) ==
  LET pending == Pending(entries, confirmed)
  IN  IF link.socket = "open" /\ synced /\ pending # <<>>
      THEN Append(frames, [type |-> "push", mutations |-> pending]) ELSE frames

\* History variable's part of an entry: the intent ran on a table whose rows its gate still holds.
Blind(program) ==
  \E i \in DOMAIN program : LET t == StepTable(program[i]) IN Held(t) # table[t].shown

\* mutate: the intent runs on what the collections show, which is nothing for one that has not
\* started, and is queued unless that threw.  A write to a cleaned-up collection would start it
\* again.
Mutate(program) ==
  LET run == RunLocal(View, Appliers, program)
      laid == run.verdict = "ok"
      entry == [id |-> IF link.synced THEN LastId + 1 ELSE 0, program |-> program,
                overlay |-> IF laid THEN Overlay(run) ELSE NoOverlay,
                base |-> IF laid /\ queue = <<>> THEN link.cursor ELSE 0,
                blind |-> Blind(program)]
  IN  /\ push = Idle
      /\ issued < MaxIntents
      /\ \A t \in Tables : table[t].status # "off"
      /\ run.verdict # "failed"
      /\ issued' = issued + 1
      /\ queue' = Append(queue, entry)
      /\ up' = Flushed(queue', link.confirmed, link.synced, up)
      /\ UNCHANGED <<serverVars, ready, down, link, table, counts>>

-----------------------------------------------------------------------------
(* The client: its connection *)

\* Mutant: the tables are ready whether the store held anything or not.
HydrateReady(cursor) ==
  /\ ~link.started
  /\ push = Idle
  /\ link' = [link EXCEPT !.started = TRUE, !.cursor = cursor]
  /\ table' = [t \in Tables |-> MarkedReady(table[t])]
  /\ UNCHANGED <<serverVars, ready, up, down, queue, issued, counts>>

\* start: what the store holds goes to the tables registered by now, and only then is the
\* client connected.
Hydrate(cursor) ==
  /\ ~link.started
  /\ push = Idle
  /\ link' = [link EXCEPT !.started = TRUE, !.cursor = cursor]
  /\ table' = IF cursor = 0 THEN table
              ELSE [t \in Tables |->
                      MarkedReady(Received(table[t], FALSE,
                        [i \in Ids |-> LET row == snaps[cursor][<<t, i>>]
                                       IN  IF row = Deleted THEN None ELSE row]))]
  /\ UNCHANGED <<serverVars, ready, up, down, queue, issued, counts>>

\* #openSocket
Dial ==
  /\ link.started /\ link.socket = "none"
  /\ push = Idle
  /\ link' = [link EXCEPT !.socket = "dialling", !.synced = FALSE]
  /\ UNCHANGED <<serverVars, ready, up, down, queue, issued, table, counts>>

\* The open event, and the hello it sends.
Open ==
  /\ link.socket = "dialling"
  /\ push = Idle
  /\ link' = [link EXCEPT !.socket = "open", !.awaiting = TRUE]
  /\ up' = <<Hello(link.cursor)>>
  /\ UNCHANGED <<serverVars, ready, down, queue, issued, table, counts>>

\* #onDisconnect: the frames in flight are lost, and with them the poke put together so far.
Cut ==
  /\ link.socket # "none"
  /\ push = Idle
  /\ cuts < MaxCuts
  /\ cuts' = cuts + 1
  /\ link' = [link EXCEPT !.socket = "none", !.awaiting = FALSE, !.poke = NoPoke]
  /\ ready' = FALSE /\ up' = <<>> /\ down' = <<>>
  /\ UNCHANGED <<serverVars, queue, issued, table, restarts>>

-----------------------------------------------------------------------------
(* The client: pokes *)

Reads(type) == push = Idle /\ down # <<>> /\ Head(down).type = type /\ down' = Tail(down)

PokeStart ==
  /\ Reads("start")
  /\ link' = [link EXCEPT !.poke = [NoPoke EXCEPT !.base = Head(down).base,
                                                  !.mismatch = Head(down).base # link.cursor]]
  /\ UNCHANGED <<serverVars, ready, up, queue, issued, table, counts>>

PokePart ==
  /\ Reads("part")
  /\ link' = [link EXCEPT !.poke.patch = @ \o Head(down).patch,
                          !.poke.lmid = IF Head(down).lmid = 0 THEN @ ELSE Head(down).lmid,
                          !.poke.errors = @ \cup Head(down).errors]
  /\ UNCHANGED <<serverVars, ready, up, queue, issued, table, counts>>

Mismatched == link.poke.mismatch /\ ~Clears(link.poke.patch)

\* #requestResync: nothing while an answer is still to come.
DropPoke ==
  /\ Reads("end")
  /\ Mismatched
  /\ link' = [link EXCEPT !.poke = NoPoke, !.awaiting = TRUE]
  /\ up' = IF link.awaiting THEN up ELSE Append(up, Hello(link.cursor))
  /\ UNCHANGED <<serverVars, ready, queue, issued, table, counts>>

\* #applyPoke: the rows, the cursor, the intents that are settled, the first sync of the
\* connection, and a push of what is left.
ApplyPoke ==
  LET poke == link.poke
      confirmed == IF poke.lmid > link.confirmed THEN poke.lmid ELSE link.confirmed
      rest == Filtered(queue, {i \in DOMAIN queue : queue[i].id = 0 \/ queue[i].id > confirmed})
      numbered == [i \in DOMAIN rest |->
                     IF rest[i].id # 0 THEN rest[i]
                     ELSE [rest[i] EXCEPT !.id =
                             (IF confirmed > LastId THEN confirmed ELSE LastId)
                               + Cardinality({j \in 1..i : rest[j].id = 0})]]
      patched(t) == Received(table[t], Clears(poke.patch), OpsOf(poke.patch, t))
  IN  /\ Reads("end")
      /\ ~Mismatched
      /\ link' = [link EXCEPT !.poke = NoPoke, !.cursor = Head(down).cursor, !.awaiting = FALSE,
                              !.synced = TRUE, !.confirmed = confirmed]
      /\ table' = [t \in Tables |-> IF link.synced THEN patched(t) ELSE MarkedReady(patched(t))]
      /\ queue' = IF link.synced THEN rest ELSE numbered
      /\ up' = Flushed(queue', confirmed, TRUE, up)
      /\ UNCHANGED <<serverVars, ready, issued, counts>>

-----------------------------------------------------------------------------
Init ==
  /\ \E first \in FirstRows :
       /\ rows = [k \in Keys |-> [val |-> first[k], version |-> 1]]
       /\ snaps = <<first>>
  /\ authors = <<0>>
  /\ event = [version |-> 1, changes |-> <<>>]
  /\ lmid = 0
  /\ push = Idle
  /\ ready = FALSE
  /\ up = <<>> /\ down = <<>>
  /\ link = [started |-> FALSE, socket |-> "none", synced |-> FALSE, awaiting |-> FALSE,
             cursor |-> 0, confirmed |-> 0, poke |-> NoPoke]
  /\ queue = <<>>
  /\ issued = 0
  /\ \E eager \in SUBSET Lazy :
       table = [t \in Tables |->
                  CASE t \in Later -> [NewTable(FALSE) EXCEPT !.status = "absent"]
                    [] t \in Lazy -> NewTable(t \in eager)
                    [] OTHER -> Attached(NewTable(FALSE))]
  /\ restarts = 0 /\ cuts = 0

Server == (\E program \in Others : OtherCommits(program)) \/ ServeHello \/ StartPush
            \/ HandleMutation

TableEvents == \E t \in Tables : Create(t) \/ Start(t) \/ Cleanup(t) \/ Restart(t)

Client == \/ \E program \in Programs : Mutate(program)
          \/ \E cursor \in {0} \cup (IF Cached THEN 1..Version ELSE {}) : Hydrate(cursor)
          \/ Dial \/ Open \/ Cut \/ PokeStart \/ PokePart \/ DropPoke \/ ApplyPoke

Next == Server \/ TableEvents \/ Client

Spec == Init /\ [][Next]_vars

-----------------------------------------------------------------------------
(* Properties *)

Hellos == [type : {"hello"}, cursor : 0..Version]
Pushes == {[type |-> "push", mutations |-> entries] :
             entries \in UNION {[1..n -> [id : 1..MaxIntents, program : Programs]] :
                                n \in 1..MaxIntents}}
FieldOps == [Ids -> Scalars \cup {Deleted, None}]
Gates == [clear : BOOLEAN, ops : FieldOps, ready : BOOLEAN]

CollTypeOK ==
  /\ rows \in [Keys -> [val : Scalars \cup {Deleted}, version : 1..Version]]
  /\ Version <= MaxVersion + MaxIntents /\ Len(authors) = Version
  /\ \A v \in 1..Version : snaps[v] \in Rows /\ authors[v] \in 0..MaxIntents
  /\ lmid \in 0..MaxIntents
  /\ \A i \in DOMAIN up : up[i] \in Hellos \cup Pushes
  /\ link.socket \in {"none", "dialling", "open"} /\ link.cursor \in 0..Version
  /\ \A i \in DOMAIN queue : queue[i].overlay \in [Keys -> Scalars \cup {Deleted, None}]
  /\ \A t \in Tables : /\ table[t].status \in {"absent", "created", "on", "off"}
                       /\ table[t].gate \in Gates
                       /\ table[t].shown \in [Ids -> Scalars \cup {Deleted}]
                       /\ table[t].keys \subseteq Ids

RowsAt(v, t) == [i \in Ids |-> snaps[v][<<t, i>>]]

\* A table never holds half of a poke: its rows are those of one version of the workspace, the
\* same for all the registered tables once the client has a cursor, through lost connections,
\* pokes in several frames, gates and restarts (#onMessage, #applyPoke, createHookGate).
WholePokes ==
  \A t \in Tables : Registered(t) =>
    IF link.cursor # 0 THEN Held(t) = RowsAt(link.cursor, t)
    ELSE Held(t) = Empty \/ \E v \in 1..Version : Held(t) = RowsAt(v, t)

\* The keys an adapter knows are the rows its collection has, so TanStack is never told to
\* insert a row that is there or to update one that is not (syncedKeys).
KeysInStep ==
  \A t \in Tables : table[t].status = "on" =>
    table[t].keys = {i \in Ids : table[t].shown[i] # Deleted}

\* A collection says it is ready only with the rows of a version in it, whichever of
\* hydration, the first sync and its own start came last (markReady).
ReadyHolds ==
  \A t \in Tables : table[t].status = "on" /\ table[t].ready =>
    \E v \in 1..Version : table[t].shown = RowsAt(v, t)

\* The hook hears of exactly the rows a version wrote, once each, as they were before it and
\* after it, however often the mutation touched them (#before, flush).
ChangesNet ==
  Version > 1 =>
    /\ event.version = Version
    /\ {event.changes[i].key : i \in DOMAIN event.changes} = {k \in Keys : rows[k].version = Version}
    /\ \A i, j \in DOMAIN event.changes :
         event.changes[i].key = event.changes[j].key => i = j
    /\ \A i \in DOMAIN event.changes :
         LET change == event.changes[i]
         IN  /\ change.before = snaps[Version - 1][change.key]
             /\ change.after = Now[change.key]

Quiet == /\ push = Idle /\ up = <<>> /\ down = <<>>
         /\ link.socket = "open" /\ link.synced /\ ~link.awaiting

\* With nothing in flight a synced client is up to date, its intents are settled and what its
\* collections show is what the workspace has (#requestResync, #flushPush, #patchSince).
QuietCurrent ==
  Quiet => /\ link.cursor = Version
           /\ queue = <<>>
           /\ \A t \in Tables : table[t].status = "on" => table[t].shown = RowsAt(Version, t)

\* What a poke brings of one's own intents is what their overlays showed: a row does not
\* change on the screen when the rows, the cursor and the settled overlays swap, unless
\* another client wrote, the server refused, or the intent ran on a collection that had not
\* started and could not see the rows held for it (LocalWriteSet mirrors WriteSet).
NoFlicker ==
  [][LET settled == {i \in DOMAIN queue : queue[i].id # 0 /\ queue[i].id <= link'.confirmed}
         new == (link.cursor + 1)..link'.cursor
     IN  /\ link.cursor # 0 /\ link'.cursor > link.cursor
         /\ \A i \in settled : queue[i].base = link.cursor /\ ~queue[i].blind
         /\ \A v \in new : authors[v] # 0
         /\ \A i \in settled : queue[i].overlay = NoOverlay \/ \E v \in new : authors[v] = queue[i].id
         => \A k \in Keys : table[k[1]].status = "on" => View'[k] = View[k]]_vars

Atomic == INSTANCE AtomicRows WITH rows <- Now, Programs <- Programs \cup Others

\* The rows go from version to version by whole mutations, each as its steps say, whatever the
\* write set buffers and the filtered query of storage returns (WriteSet, SqlRowStore.list).
WritesAtomically == Atomic!Spec

\* collection.ts:238: "the engine keeps no mirror, so this re-registration deliberately triggers
\* the full-resync path": a collection that was started holds the workspace's rows once the
\* client has synced and nothing is in flight.
RestartServed ==
  Quiet => \A t \in Tables : table[t].status = "on" => table[t].shown = RowsAt(link.cursor, t)

\* collection.ts:340: "Attach the applier now (not at first sync) so intents fired before a
\* collection has subscribers still get their optimistic effect": while the client's only intent
\* waits for its confirmation, and it was given its effect on a replica that has not moved since,
\* a started collection shows what the intent makes of the rows of that replica.  Intents that were
\* blind break it.
IntentsShow ==
  \A entry \in ToSet(queue) :
    LET run == Run(snaps[entry.base], entry.program)
    IN  Len(queue) = 1 /\ entry.base # 0 /\ entry.base = link.cursor /\ run.ok
          => \A k \in Keys : table[k[1]].status = "on" => View[k] = RowsAfter(run)[k]
===============================================================================
