------------------------------ MODULE Workspace ------------------------------
(***************************************************************************)
(* The Workspace Durable Object (packages/server/src/do.ts): one SQLite    *)
(* database of versioned rows, one row per known client holding its last   *)
(* mutation id (LMID), an append-only mutation log, and the sockets of the *)
(* connected clients.  Every handler of the object is synchronous, so each *)
(* is one atomic action here, except a push: its transactions commit one   *)
(* mutation at a time and a throw can end the batch between two of them,   *)
(* so a push is a sequence of steps during which no other handler runs.    *)
(*                                                                         *)
(* The environment sends any hello and any push a socket could carry, so   *)
(* what holds here holds for every client.  Rows are abstracted to a small *)
(* set of values, a row to its value and the version that wrote it.        *)
(***************************************************************************)
EXTENDS Integers, Sequences, FiniteSets

CONSTANTS
  Clients,     \* client ids; each has at most one live socket (the supersede rule)
  Keys,        \* row keys (table and id)
  Vals,        \* row payloads
  Mutations,   \* mutations as a push carries them: a name and its arguments
  Deleted,     \* what a tombstone, or a row that does not exist, holds
  NoCursor,    \* the null cursor of a client that never synced
  NoSnapshot,  \* the null value of the bootstrap cache
  Idle,        \* no push is being processed
  System,      \* '$system', whose log entry records a schema migration
  Retention    \* compaction.tombstoneRetentionVersions

CONSTANTS  \* bounds: on what the environment sends, and on the counters
  MaxId,       \* highest mutation id in a push
  MaxBatch,    \* mutations in one push
  MaxVersion,  \* data versions of one history
  MaxLog,      \* mutation log entries of one history
  MaxBackend,  \* histories: backendId is 0..MaxBackend
  MaxSchema,   \* app schema versions: 1..MaxSchema
  MaxQueue     \* unread frames a client may have when the next handler runs

ASSUME RetentionAssumption == Retention \in Nat
ASSUME DeletedAssumption == Deleted \notin Vals
ASSUME SystemAssumption == System \notin Clients
ASSUME NoCursorAssumption == NoCursor \notin [backendId : Nat, version : Nat]
ASSUME BoundsAssumption == {MaxId, MaxBatch, MaxVersion, MaxLog, MaxBackend, MaxSchema, MaxQueue} \subseteq Nat

VARIABLES
  rows,              \* table rows: key -> [val, version]; version 0 is "no such row"
  backendId,         \* meta.backend_id
  currentVersion,    \* meta.current_version
  minCursorVersion,  \* meta.min_cursor_version
  schemaVersion,     \* meta.schema_version, the deployed bundle's after a wake
  clients,           \* the client ids with a row in table clients
  lastMutationId,    \* clients.last_mutation_id; 0 where there is no row
  mutationLog,       \* table mutation_log, in log_seq order
  snapshot,          \* #snapshot, the cached bootstrap patch
  sess,              \* the server's socket of a client: none, open (no hello yet) or ready
  push,              \* the push being processed, or Idle
  listening,         \* the clients still reading the socket they opened last
  down,              \* frames sent to a client and not yet read, in order
  snaps,             \* history variable: the rows as they were at each cursor ever reached
  orphans            \* history variable: the clients that pushed without a row in clients

meta == <<backendId, currentVersion, minCursorVersion, schemaVersion>>
store == <<rows, clients, lastMutationId, mutationLog, snaps, orphans>>
sockets == <<sess, listening>>
serverVars == <<rows, backendId, currentVersion, minCursorVersion, schemaVersion, clients,
                lastMutationId, mutationLog, snapshot, sess, push, listening, down, snaps, orphans>>

-----------------------------------------------------------------------------
(* Types *)

Content == Vals \cup {Deleted}
Rows == [Keys -> Content]          \* what a replica holds: the live value of each key
NoRow == [val |-> Deleted, version |-> 0]
Cursors == [backendId : Nat, version : Nat]
Patches == UNION {[K -> Content] : K \in SUBSET Keys}
Results == SUBSET [id : Nat, ok : BOOLEAN]
LmidChanges == SUBSET [client : Clients, lmid : Nat]
Mutation == [id : Nat, name : Mutations]
LogEntries == [client : Clients \cup {System}, id : Nat, name : Mutations \cup {System},
               version : Nat, ok : BOOLEAN]
Codes == {"PushInvalid", "Internal", "VersionNotSupported"}
Pokes == [type : {"poke"}, base : Cursors \cup {NoCursor}, clear : BOOLEAN, patch : Patches,
          cursor : Cursors, lmids : LmidChanges, results : Results]
Errors == [type : {"error"}, code : Codes]
PushesOf(todos) == [client : Clients, todo : todos, startVersion : Nat, startLmid : Nat,
                    lmid : Nat, results : Results]
Pushes == PushesOf(Seq(Mutation))

\* The types that do not depend on what the mutations of a push look like.
StoreOK ==
  /\ rows \in [Keys -> [val : Content, version : Nat]]
  /\ backendId \in Nat
  /\ currentVersion \in Nat
  /\ minCursorVersion \in Nat
  /\ schemaVersion \in Nat
  /\ clients \subseteq Clients
  /\ lastMutationId \in [Clients -> Nat]
  /\ snapshot \in [cursor : Cursors, patch : Patches] \cup {NoSnapshot}
  /\ sess \in [Clients -> {"none", "open", "ready"}]
  /\ push # Idle => push \in PushesOf({push.todo})
  /\ listening \subseteq Clients
  /\ down \in [Clients -> Seq(Pokes \cup Errors)]
  /\ DOMAIN snaps \subseteq Cursors
  /\ \A cursor \in DOMAIN snaps : snaps[cursor] \in Rows
  /\ orphans \subseteq Clients

TypeOK ==
  /\ StoreOK
  /\ mutationLog \in Seq(LogEntries)
  /\ push \in Pushes \cup {Idle}

-----------------------------------------------------------------------------
(* Rows, versions and patches *)

Cursor == [backendId |-> backendId, version |-> currentVersion]
CursorAt(v) == [backendId |-> backendId, version |-> v]
Live == [k \in Keys |-> rows[k].val]
LiveKeys == {k \in Keys : rows[k].val # Deleted}
Ready == {c \in Clients : sess[c] = "ready"}

\* The net writes a mutator can leave in its WriteSet: a value or a delete per key.
WriteSets == Patches

\* The keys a flush really writes: deleting a row that is not live writes nothing.
Written(w) == {k \in DOMAIN w : w[k] # Deleted \/ rows[k].val # Deleted}

Flush(w, v) ==
  [k \in Keys |-> IF k \in Written(w) THEN [val |-> w[k], version |-> v] ELSE rows[k]]

\* Every row and tombstone newer than v.
PatchSince(v) == [k \in {k \in Keys : rows[k].version > v} |-> rows[k].val]

\* The puts after the clear of a bootstrap, and the cached ones while they are current.
LivePatch == [k \in LiveKeys |-> rows[k].val]
SnapshotIsCurrent == snapshot # NoSnapshot /\ snapshot.cursor = Cursor
BootstrapPatch == IF SnapshotIsCurrent THEN snapshot.patch ELSE LivePatch
CacheBootstrap == snapshot' = [cursor |-> Cursor, patch |-> BootstrapPatch]

\* What a replica holds after a poke's patch, given what it held before.
Patched(data, clear, patch) ==
  [k \in Keys |-> IF k \in DOMAIN patch THEN patch[k]
                  ELSE IF clear THEN Deleted ELSE data[k]]

\* The history variable gains the rows of the cursor the step leads to.
Snap(cursor, data) ==
  snaps' = [x \in DOMAIN snaps \cup {cursor} |-> IF x = cursor THEN data ELSE snaps[x]]

-----------------------------------------------------------------------------
(* Delivery *)

\* Frames to a socket the server closed are dropped, and so are frames nobody reads.
Deliver(targets, frame) ==
  down' = [c \in Clients |-> IF c \in targets /\ c \in listening /\ sess[c] # "none"
                             THEN Append(down[c], frame) ELSE down[c]]

Poke(base, clear, patch, cursor, lmids, results) ==
  [type |-> "poke", base |-> base, clear |-> clear, patch |-> patch, cursor |-> cursor,
   lmids |-> lmids, results |-> results]

Error(code) == [type |-> "error", code |-> code]

-----------------------------------------------------------------------------
Init ==
  /\ rows = [k \in Keys |-> NoRow]
  /\ backendId = 0
  /\ currentVersion = 0
  /\ minCursorVersion = 0
  /\ schemaVersion = 1
  /\ clients = {}
  /\ lastMutationId = [c \in Clients |-> 0]
  /\ mutationLog = <<>>
  /\ snapshot = NoSnapshot
  /\ sess = [c \in Clients |-> "none"]
  /\ push = Idle
  /\ listening = {}
  /\ down = [c \in Clients |-> <<>>]
  /\ snaps = [x \in {[backendId |-> 0, version |-> 0]} |-> [k \in Keys |-> Deleted]]
  /\ orphans = {}

-----------------------------------------------------------------------------
(* Sockets *)

\* The upgrade: the client's newest socket wins, an older one is closed.
Upgrade(c) ==
  /\ push = Idle
  /\ sess' = [sess EXCEPT ![c] = "open"]
  /\ listening' = listening \cup {c}
  /\ down' = [down EXCEPT ![c] = <<>>]
  /\ UNCHANGED <<meta, store, snapshot, push>>

\* The server's end of the socket goes: its own close, a failed send or a close event.
CloseSocket(c) ==
  /\ push = Idle
  /\ sess[c] # "none"
  /\ sess' = [sess EXCEPT ![c] = "none"]
  /\ UNCHANGED <<meta, store, snapshot, push, listening, down>>

\* The client's end goes: a close event, a heartbeat timeout, a closed tab.
PeerGone(c) ==
  /\ c \in listening
  /\ listening' = listening \ {c}
  /\ down' = [down EXCEPT ![c] = <<>>]
  /\ UNCHANGED <<meta, store, snapshot, sess, push>>

\* The client reads the oldest frame it was sent.
Read(c) ==
  /\ down[c] # <<>>
  /\ down' = [down EXCEPT ![c] = Tail(@)]
  /\ UNCHANGED <<meta, store, snapshot, sockets, push>>

-----------------------------------------------------------------------------
(* hello *)

\* Mutants: the horizon, or the history, is not checked.
CursorValidAnyAge(cursor) ==
  /\ cursor # NoCursor
  /\ cursor.backendId = backendId
  /\ cursor.version <= currentVersion

CursorValidAnyHistory(cursor) ==
  /\ cursor # NoCursor
  /\ cursor.version >= minCursorVersion
  /\ cursor.version <= currentVersion

CursorValid(cursor) ==
  /\ cursor # NoCursor
  /\ cursor.backendId = backendId
  /\ cursor.version >= minCursorVersion
  /\ cursor.version <= currentVersion

\* A hello from another app version is refused and its socket closed.
RefuseHello(c) ==
  /\ push = Idle
  /\ sess[c] # "none"
  /\ Deliver({c}, Error("VersionNotSupported"))
  /\ sess' = [sess EXCEPT ![c] = "none"]
  /\ UNCHANGED <<meta, store, snapshot, push, listening>>

\* A hello creates the client's row, answers with a catch-up from a valid cursor or with a
\* bootstrap from any other, and makes the socket ready.
HandleHello(c, cursor) ==
  /\ push = Idle
  /\ sess[c] # "none"
  /\ clients' = clients \cup {c}
  /\ LET lmids == {[client |-> c, lmid |-> lastMutationId[c]]}
     IN  IF CursorValid(cursor)
         THEN /\ Deliver({c}, Poke(cursor, FALSE, PatchSince(cursor.version), Cursor, lmids, {}))
              /\ UNCHANGED snapshot
         ELSE /\ Deliver({c}, Poke(NoCursor, TRUE, BootstrapPatch, Cursor, lmids, {}))
              /\ CacheBootstrap
  /\ sess' = [sess EXCEPT ![c] = "ready"]
  /\ UNCHANGED <<meta, rows, lastMutationId, mutationLog, push, listening, snaps, orphans>>

-----------------------------------------------------------------------------
(* push *)

RefusePush(c) ==
  /\ push = Idle
  /\ sess[c] = "open"
  /\ Deliver({c}, Error("PushInvalid"))
  /\ UNCHANGED <<meta, store, snapshot, sockets, push>>

StartPush(c, batch) ==
  /\ push = Idle
  /\ sess[c] = "ready"
  /\ push' = [client |-> c, todo |-> batch, startVersion |-> currentVersion,
              startLmid |-> lastMutationId[c], lmid |-> lastMutationId[c], results |-> {}]
  /\ UNCHANGED <<meta, store, snapshot, sockets, down>>

Mutating == push # Idle /\ push.todo # <<>>
NextMutation == Head(push.todo)
\* Mutant: the LMID is read once, before the batch.
ExpectedAtStart == push.startLmid + 1

Expected == push.lmid + 1

\* A duplicate delivery is skipped.
SkipDuplicate ==
  /\ Mutating
  /\ NextMutation.id < Expected
  /\ push' = [push EXCEPT !.todo = Tail(@)]
  /\ UNCHANGED <<meta, store, snapshot, sockets, down>>

\* After a gap nothing is safe to apply; the error goes out before the batch's poke.
RejectGap ==
  /\ Mutating
  /\ NextMutation.id > Expected
  /\ push' = [push EXCEPT !.todo = <<>>]
  /\ Deliver({push.client}, Error("PushInvalid"))
  /\ UNCHANGED <<meta, store, snapshot, sockets>>

\* One mutation's transaction: its rows under the next version if it wrote any, the client's
\* LMID (an UPDATE, which does nothing when the client has no row) and its log entry.
ApplyMutation(w, ok) ==
  /\ Mutating
  /\ NextMutation.id = Expected
  /\ LET c == push.client
         wrote == Written(w) # {}
         version == IF wrote THEN currentVersion + 1 ELSE currentVersion
     IN  /\ rows' = Flush(w, currentVersion + 1)
         /\ currentVersion' = version
         /\ lastMutationId' = IF c \in clients
                              THEN [lastMutationId EXCEPT ![c] = Expected] ELSE lastMutationId
         /\ mutationLog' = Append(mutationLog,
                             [client |-> c, id |-> Expected, name |-> NextMutation.name,
                              version |-> IF wrote THEN version ELSE 0, ok |-> ok])
         /\ snapshot' = IF wrote THEN NoSnapshot ELSE snapshot
         /\ Snap(CursorAt(version), [k \in Keys |-> rows'[k].val])
         /\ orphans' = IF c \in clients THEN orphans ELSE orphans \cup {c}
         /\ push' = [push EXCEPT !.todo = Tail(@), !.lmid = Expected,
                                 !.results = @ \cup {[id |-> Expected, ok |-> ok]}]
  /\ UNCHANGED <<backendId, minCursorVersion, schemaVersion, clients, sockets, down>>

\* A mutator that returns leaves any net writes; an AppError, bad arguments or an unknown
\* mutator leave none and still take the mutation's id.
Succeed == /\ Len(mutationLog) < MaxLog
           /\ \E w \in WriteSets : /\ Written(w) # {} => currentVersion < MaxVersion
                                   /\ ApplyMutation(w, TRUE)
Fail == Len(mutationLog) < MaxLog /\ ApplyMutation([k \in {} |-> Deleted], FALSE)

\* Mutant: the error goes out under a code the protocol does not have.
AbortPushUnknownCode ==
  /\ Mutating
  /\ NextMutation.id = Expected
  /\ push' = Idle
  /\ Deliver({push.client}, Error("MutatorFailed"))
  /\ UNCHANGED <<meta, store, snapshot, sockets>>

\* Any other throw rolls the mutation back and ends the push where it stands: no poke.
AbortPush ==
  /\ Mutating
  /\ NextMutation.id = Expected
  /\ push' = Idle
  /\ Deliver({push.client}, Error("Internal"))
  /\ UNCHANGED <<meta, store, snapshot, sockets>>

\* Mutant: only the origin of a push hears of it.
FinishPushToOrigin ==
  /\ push # Idle /\ push.todo = <<>>
  /\ Deliver({push.client},
             Poke(CursorAt(push.startVersion), FALSE, PatchSince(push.startVersion), Cursor,
                  {[client |-> push.client, lmid |-> push.lmid]}, push.results))
  /\ push' = Idle
  /\ UNCHANGED <<meta, store, snapshot, sockets>>

\* The batch is done: its rows go to every ready socket, an advance without rows to its
\* origin, and a push that advanced nothing re-confirms the LMID to its origin.
FinishPush ==
  /\ push # Idle /\ push.todo = <<>>
  /\ LET lmids == {[client |-> push.client, lmid |-> push.lmid]}
         patch == PatchSince(push.startVersion)
     IN  IF push.lmid = push.startLmid
         THEN Deliver({push.client}, Poke(Cursor, FALSE, [k \in {} |-> Deleted], Cursor, lmids, {}))
         ELSE Deliver(IF DOMAIN patch # {} THEN Ready ELSE {push.client},
                      Poke(CursorAt(push.startVersion), FALSE, patch, Cursor, lmids, push.results))
  /\ push' = Idle
  /\ UNCHANGED <<meta, store, snapshot, sockets>>

-----------------------------------------------------------------------------
(* Maintenance, administration and the life of the instance *)

\* Tombstones behind the retention horizon go, and with them the cursors they would catch up.
Tombstones(cutoff) ==
  {k \in Keys : rows[k].val = Deleted /\ rows[k].version > 0 /\ rows[k].version <= cutoff}

\* Mutant: the tombstones go and the horizon stays.
CompactSilently ==
  /\ push = Idle
  /\ rows' = [k \in Keys |-> IF k \in Tombstones(currentVersion - Retention) THEN NoRow ELSE rows[k]]
  /\ UNCHANGED <<meta, clients, lastMutationId, mutationLog, snapshot, sockets, push, down, snaps,
                 orphans>>

Compact ==
  LET cutoff == currentVersion - Retention
      gone == Tombstones(cutoff)
  IN  /\ push = Idle
      /\ cutoff > 0
      /\ \E k \in gone :
           /\ \A j \in gone : rows[j].version <= rows[k].version
           /\ minCursorVersion' = IF rows[k].version > minCursorVersion
                                  THEN rows[k].version ELSE minCursorVersion
      /\ rows' = [k \in Keys |-> IF k \in gone THEN NoRow ELSE rows[k]]
      /\ UNCHANGED <<backendId, currentVersion, schemaVersion, clients, lastMutationId,
                     mutationLog, snapshot, sockets, push, down, snaps, orphans>>

\* Every row is replaced under one new version, and no earlier cursor is valid any more.
ReplaceRows(data) ==
  /\ push = Idle
  /\ currentVersion < MaxVersion
  /\ rows' = [k \in Keys |-> IF data[k] = Deleted THEN NoRow
                             ELSE [val |-> data[k], version |-> currentVersion + 1]]
  /\ currentVersion' = currentVersion + 1
  /\ minCursorVersion' = currentVersion + 1
  /\ Snap(CursorAt(currentVersion + 1), data)

\* Import: live sockets are swapped over by a clear poke ...
Import(data) ==
  /\ ReplaceRows(data)
  /\ LET cursor == CursorAt(currentVersion + 1)
         patch == [k \in {k \in Keys : data[k] # Deleted} |-> data[k]]
     IN  /\ snapshot' = [cursor |-> cursor, patch |-> patch]
         /\ Deliver(Ready, Poke(NoCursor, TRUE, patch, cursor, {}, {}))
  /\ UNCHANGED <<backendId, schemaVersion, clients, lastMutationId, mutationLog, sockets, push,
                 orphans>>

\* ... unless it carries extension state: then every socket is closed with a refresh.
ImportExtension(data) ==
  /\ ReplaceRows(data)
  /\ snapshot' = NoSnapshot
  /\ sess' = [c \in Clients |-> "none"]
  /\ UNCHANGED <<backendId, schemaVersion, clients, lastMutationId, mutationLog, listening,
                 push, down, orphans>>

\* Mutant: the emptied history keeps its id.
ResetSameHistory ==
  /\ push = Idle
  /\ rows' = [k \in Keys |-> NoRow]
  /\ currentVersion' = 0
  /\ minCursorVersion' = 0
  /\ clients' = {}
  /\ lastMutationId' = [c \in Clients |-> 0]
  /\ mutationLog' = <<>>
  /\ orphans' = {}
  /\ snapshot' = NoSnapshot
  /\ Snap(CursorAt(0), [k \in Keys |-> Deleted])
  /\ Deliver(Ready, Poke(NoCursor, TRUE, [k \in {} |-> Deleted], CursorAt(0), {}, {}))
  /\ UNCHANGED <<backendId, schemaVersion, sockets, push>>

\* Reset: all storage goes, the clients' rows with it; the sockets stay as they are.
Reset ==
  /\ push = Idle
  /\ backendId < MaxBackend
  /\ rows' = [k \in Keys |-> NoRow]
  /\ backendId' = backendId + 1
  /\ currentVersion' = 0
  /\ minCursorVersion' = 0
  /\ clients' = {}
  /\ lastMutationId' = [c \in Clients |-> 0]
  /\ mutationLog' = <<>>
  /\ orphans' = {}
  /\ snapshot' = NoSnapshot
  /\ LET cursor == [backendId |-> backendId + 1, version |-> 0]
     IN  /\ Snap(cursor, [k \in Keys |-> Deleted])
         /\ Deliver(Ready, Poke(NoCursor, TRUE, [k \in {} |-> Deleted], cursor,
                                {}, {}))
  /\ UNCHANGED <<schemaVersion, sockets, push>>

\* Eviction while sockets hibernate: memory is lost, storage and sockets are not.
Hibernate ==
  /\ push = Idle
  /\ snapshot # NoSnapshot
  /\ snapshot' = NoSnapshot
  /\ UNCHANGED <<meta, store, sockets, push, down>>

\* A deploy restarts the object, which drops its sockets, and the wake migrates the rows: one
\* transaction restamps the schema version and, if the chain wrote a row, opens a new version
\* no earlier cursor may catch up from.
Deploy(w) ==
  /\ push = Idle
  /\ schemaVersion < MaxSchema
  /\ Written(w) # {} => currentVersion < MaxVersion
  /\ LET version == IF Written(w) # {} THEN currentVersion + 1 ELSE currentVersion
     IN  /\ rows' = Flush(w, currentVersion + 1)
         /\ currentVersion' = version
         /\ minCursorVersion' = IF Written(w) # {} THEN version ELSE minCursorVersion
         /\ Snap(CursorAt(version), [k \in Keys |-> rows'[k].val])
         /\ mutationLog' = Append(mutationLog,
                             [client |-> System, id |-> 0, name |-> System,
                              version |-> IF Written(w) # {} THEN version ELSE 0, ok |-> TRUE])
  /\ schemaVersion' = schemaVersion + 1
  /\ snapshot' = NoSnapshot
  /\ sess' = [c \in Clients |-> "none"]
  /\ UNCHANGED <<backendId, clients, lastMutationId, push, listening, down, orphans>>

-----------------------------------------------------------------------------
(* The environment: any cursor, any batch of ids, any failure at any time *)

SomeCursors == [backendId : 0..MaxBackend, version : 0..MaxVersion] \cup {NoCursor}
Batches == UNION {[1..n -> [id : 1..MaxId, name : Mutations]] : n \in 1..MaxBatch}
Room == \A c \in Clients : Len(down[c]) < MaxQueue

Sockets == \E c \in Clients : Upgrade(c) \/ CloseSocket(c) \/ PeerGone(c) \/ Read(c)
Hello == \E c \in Clients : \/ MaxSchema > 1 /\ RefuseHello(c)
                            \/ \E cursor \in SomeCursors : HandleHello(c, cursor)
Push == \/ \E c \in Clients : RefusePush(c) \/ \E batch \in Batches : StartPush(c, batch)
        \/ SkipDuplicate \/ RejectGap \/ Succeed \/ Fail \/ AbortPush \/ FinishPush
Admin == Reset \/ \E data \in Rows : Import(data) \/ ImportExtension(data)
Instance == Compact \/ Hibernate \/ \E w \in WriteSets : Deploy(w)

Next == Sockets \/ (Room /\ (Hello \/ Push \/ Admin \/ Instance))

Spec == Init /\ [][Next]_serverVars

-----------------------------------------------------------------------------
(* Properties *)

\* The poke takes every replica it may apply to from the rows at its base cursor (from
\* whatever it holds, when it clears) to exactly the rows at its end cursor.
SoundIn(history, poke) ==
  /\ poke.cursor \in DOMAIN history
  /\ IF poke.clear
     THEN \A data \in Rows : Patched(data, TRUE, poke.patch) = history[poke.cursor]
     ELSE /\ poke.base \in DOMAIN history
          /\ Patched(history[poke.base], FALSE, poke.patch) = history[poke.cursor]

\* Every poke the server ever sends is sound: catch-ups after compaction, broadcasts of a
\* batch, cached bootstraps, imports, resets and re-confirmations alike (#handleHello,
\* #handlePush, #patchSince, #bootstrapPatch, #compact).
PokesSound ==
  \A c \in Clients : \A i \in 1..Len(down[c]) :
    down[c][i].type = "poke" => SoundIn(snaps, down[c][i])

\* Whatever cursor a hello may still catch up from, the rows and tombstones the server kept
\* lead from the rows at that cursor to the current ones: compaction, imports and migrations
\* never discard a delete an accepted cursor has not seen.
CatchUpSound ==
  \A v \in minCursorVersion..currentVersion :
    /\ CursorAt(v) \in DOMAIN snaps
    /\ Patched(snaps[CursorAt(v)], FALSE, PatchSince(v)) = Live

\* A log's entries of a client carry the ids 1 to n, in this order and each once.
Counted(log, c, n) ==
  LET mine == {i \in 1..Len(log) : log[i].client = c}
  IN  /\ \A i, j \in mine : i < j => log[i].id < log[j].id
      /\ {log[i].id : i \in mine} = 1..n

\* A client's LMID counts its log entries: 1, 2, .. up to it, in this order and each once,
\* over duplicate pushes, gaps, aborted batches and reconnections.  The exception is a client
\* that pushed into a new history before it said hello there (#applyMutation's UPDATE).
LmidMatchesLog ==
  \A c \in Clients \ orphans : Counted(mutationLog, c, lastMutationId[c])

-----------------------------------------------------------------------------
(* The inductive invariant behind PokesSound and CatchUpSound *)

\* The history holds every version of the live backend and nothing from its future.
Recorded ==
  /\ \A v \in 0..currentVersion : CursorAt(v) \in DOMAIN snaps
  /\ \A x \in DOMAIN snaps : /\ x.backendId <= backendId
                             /\ x.backendId = backendId => x.version <= currentVersion

\* A row carries the version that wrote it, and what carries none does not exist.
Stamped ==
  \A k \in Keys : /\ rows[k].version <= currentVersion
                  /\ rows[k].version = 0 => rows[k].val = Deleted

\* From an acceptable cursor on, a key without a newer version has not changed.
Kept ==
  /\ minCursorVersion <= currentVersion
  /\ \A v \in minCursorVersion..currentVersion : \A k \in Keys :
       rows[k].version <= v => snaps[CursorAt(v)][k] = rows[k].val

\* The cached bootstrap is the rows of the cursor it is labelled with.
CacheSound ==
  snapshot # NoSnapshot =>
    /\ snapshot.cursor \in DOMAIN snaps
    /\ \A data \in Rows : Patched(data, TRUE, snapshot.patch) = snaps[snapshot.cursor]

\* A push in progress started at a version that is still acceptable.
PushAnchored == push # Idle => push.startVersion \in minCursorVersion..currentVersion

HistoryInv == Recorded /\ Stamped /\ Kept /\ CacheSound /\ PushAnchored /\ PokesSound
-----------------------------------------------------------------------------
(* The inductive invariant behind LmidMatchesLog *)

\* A push in progress counts on from where the client's row stands.
PushCounts ==
  push # Idle /\ push.client \notin orphans => push.lmid = lastMutationId[push.client]

LmidInv == LmidMatchesLog /\ PushCounts
===============================================================================
