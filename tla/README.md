# Verification of cf-sync

TLA+ models of the cf-sync engine: the Workspace Durable Object
(`packages/server`), the sync client (`packages/client`), the protocol between
them and the Yjs field lane (`packages/yjs`), with TLC runs on small instances
and TLAPS proofs for all values of the constants. Paths are relative to the repository; `do.ts` is
`packages/server/src/do.ts` and `client.ts` is `packages/client/src/client.ts`.

## The system

| Component | State | Operations | Hard part | Module |
|---|---|---|---|---|
| Workspace core (`do.ts`, `storage.ts`, `sql-row-store.ts`) | rows with versions and tombstones, `backend_id`, `current_version`, `min_cursor_version`, `schema_version`, one LMID per client, mutation log, bootstrap cache | hello, push, compaction, import, reset, migration on wake, hibernation | duplicates, gaps, aborted batches, stale cursors, caches | `Workspace` |
| Client core (`client.ts`) | cursor, rows, confirmed LMID, outbox, connection flags, timers | mutate, connect, lose, poke, error, resync, retry, timeout | lost and repeated messages, id assignment, settlement | `SyncSystem` |
| Offline store (`idb-store.ts`, `store.ts`) | rows and cursor shared by the tabs of a workspace, an outbox per client id | load, applyPoke, saveOutbox, reset | crashes, failed writes | `OfflineSystem` |
| Sockets (`do.ts`, `upgrade.ts`, `worker.ts`, `client.ts`) | attachments: ready, defunct, principal, expiry; the client's socket, its dial and its flags | dial, upgrade, kick, refresh, expire, supersede, wake, heartbeat | frames and closes in flight from a socket that was replaced | `Sessions` |
| Presence (`do.ts`, `client.ts`) | peers in memory on both sides | set, relay, snapshot, poll, drop | hibernation, reconnects | `Sessions` |
| Log export (`do.ts`) | `last_exported_seq`, objects in a bucket | alarm, put, cursor | a put that fails or races a reset | `LogExport` |
| Write sets (`engine-core.ts`, `sql-row-store.ts`, `local-writes.ts`) | buffered puts, deletes and before-images of one mutation | get, list, put, del, flush | read-your-writes over a loose storage query, net effect | `Mutators`, `WriteSet`, `MutationCalls` |
| Framing (`frames.ts`, `client.ts`) | the patch of a poke being put together | pack, split, reassemble | a connection lost between two frames | `Collections` |
| Collections (`collection.ts`, `client.ts`) | adapters, gates, known keys, overlays | register, start, hydrate, clean up, restart, speculate | rows that come before, during and after a collection's life | `Collections` |
| Yjs fields (`packages/yjs/src`) | update log, snapshot, document cache, handles | GET, STATE, UPDATE, REJECT, compact, freeze, import, reset | holes in the log, stale handles | `YjsFields` |
| Definitions, fingerprints, test double, React, demo | none of the running system | | | |

The client sends `hello` (with its cursor) and `push` (mutations with ids); the
server answers with pokes (base cursor, patch, end cursor, the client's LMID,
results) and errors. A poke after a push goes to every ready socket. A cursor is
a pair of a history (`backendId`) and a data version; the LMID of a client is the
id of its last processed mutation. Presence and field frames share the socket.
Server handlers are synchronous, so the object is a sequence of atomic handlers,
with two exceptions: `#handlePush` can stop halfway, because every mutation is a
transaction of its own, and the export awaits the bucket between two of its steps.

What makes the parts correct:

- Workspace: a poke takes a replica from exactly the rows at its base to exactly
  the rows at its cursor; no accepted cursor misses a delete; an LMID counts the
  client's processed mutations.
- Client: the replica is the server's rows at the client's cursor; the outbox is
  in id order and its ids are new; every promise settles, and only after the
  mutation was processed.
- Together: each mutation takes effect once, in order, and replicas converge.
- Offline store: what a reload finds is a state the client was in, and nothing
  queued is lost.
- Sockets and presence: at most one live socket a client; an entry belongs to
  it; the screens settle on what the others announce.
- Log export: the cursor never passes a row the bucket lacks; every row is archived.
- Mutations: a mutation is its calls one after the other, all or none; the
  post-commit hook sees what was stored before.
- Collections: a table shows whole pokes only; what its adapter knows is what it
  has; one's own intents never flicker.
- Fields: accepted updates survive, caches agree with the log, quiet tabs agree.

## Modules

- `Workspace.tla` models the Durable Object. Every handler is one action; a push
  is `StartPush`, then `SkipDuplicate`, `RejectGap`, `Succeed`, `Fail` or
  `AbortPush` per mutation, then `FinishPush`, and no other handler runs in
  between. The environment sends any hello and any batch, so what holds here
  holds for every client, correct or not. `rows`, `backendId`,
  `currentVersion`, `minCursorVersion`, `schemaVersion`, `clients`,
  `lastMutationId` and `mutationLog` are the tables of `storage.ts`; `snapshot`
  is `#snapshot`; `sess` is the attachment's `ready`; `down` is what a client has
  been sent and has not read. `snaps` (the rows at every cursor ever reached)
  and `orphans` (clients that pushed without a row in `clients`) are history
  variables. A mutator is any net effect on the keys, any failure or any throw.
- `SyncSystem.tla` extends it with the sync core of `SyncClient` and the frames
  in flight from client to server. `Mutate` is `#enqueue`, `Connect` is
  `#openSocket` with the server's upgrade, `ApplyPoke` is all of `#applyPoke`
  with the push it schedules, and so on; the map in `PROJECT.json` gives the
  lines. What goes wrong is chosen by `Troubles` and bounded by `MaxTrouble`.
- `MutationContract.tla` is the abstract specification of `mutate`. `SyncSystem`
  implements it under the mapping that reads each client's entries off the
  mutation log (`KeepsContract`).
- `OfflineSystem.tla` extends `SyncSystem` with the durable store: every client is a
  tab, `diskRows` and `diskCursor` are the object stores all tabs share,
  `diskOutbox` the record each has to itself, `writes` the operations a tab has
  issued and IndexedDB has not committed. `Construct`, `Start`, `Hydrate` and `Crash`
  are the life of a tab, which may be constructed without being started
  (`autoStart: false`) and then takes mutations already; `Commit` is one transaction
  of `applyPoke` or `saveOutbox`; `MutateTab`, `ReceivePokeTab` and `OtherEvent` are
  `SyncSystem`'s events with what they persist. A load has its turn in the tab's queue
  of store operations (`Loads`): after the saves of the unstarted client, but for one
  made in the task of `start()`, whose microtask runs later. `durable`, `unread` and
  `skipped` are history variables.
- `Sessions.tla` models the sockets from the dial to the last close, with the
  presence that rides on them. `sock` holds a socket with its attachment,
  `entry` is `#presence`, `tab` the connection fields of `SyncClient`, `up` and
  `down` the two directions of a link with the closes in them: a socket that is
  closed on one side may still deliver on the other. Each dial takes the first
  unused socket. `FanOut` walks the ready sockets as a push does; a send to a
  broken link marks it defunct. `lost` (whose entry a hibernation dropped, not
  announced since) is a history variable. Pushes and pokes are in `SyncSystem`;
  here a poke is only a reason to walk the sockets.
- `LogExport.tla` models the maintenance alarm: a batch is read (`Alarm`), the
  bucket answers (`PutDone`) or not (`PutFails`, `Restart`), the cursor moves,
  and the log may grow or be reset meanwhile. `torn` (a reset came during a put)
  is a history variable.
- `Mutators.tla` is the vocabulary of an `apply` function, and `AtomicRows.tla`
  the abstract specification of the workspace's rows: they go from one version
  to the next by whole mutations.
- `WriteSet.tla` holds the two buffers, the server's over SQL and the client's
  over what its collections show, as operators; `Effect` in `Mutators` is the
  reference they are compared with. `MutationCalls.tla` runs the server's buffer
  call by call, every order of calls being some mutator; it has theorems and no
  run (TLC agrees with them on one table and two ids, 7,348 states).
- `Collections.tla` extends `WriteSet` to the way of a row: mutation, frames of a
  poke, gate, collection, overlay. One client is modelled, other clients are
  what they commit. With `AtomicRows` under the mapping that forgets versions it
  is `WritesAtomically`. Frames may be cut off by a lost connection, a
  collection may start late, be cleaned up and restarted. A table that has not
  started has an applier if `createCollections` made it and none if it comes from
  `workspaceCollectionOptions` alone: `Init` and `Create` take either. `blind` in an
  entry of the queue is a history variable.
- `YjsFields.tla` models one field: the rows of its log, the document cache, the
  handles of the tabs and the frames between. A document is the set of
  operations it holds, an operation is named by its handle and clock and shows
  only with the earlier ones of its handle, as a CRDT's does.
- `MC*.tla` give values and symmetry sets for TLC.
- `WorkspaceProofs`, `SyncProofs`, `OfflineProofs`, `SessionProofs`, `ExportProofs`,
  `WriteSetProofs` (of `MutationCalls`), `CollectionsProofs` and `YjsProofs` hold the
  theorems; the first three build on each other as their modules do.

`Workspace`, `SyncSystem` and `OfflineSystem` are one composition. `Sessions`,
`LogExport`, `Collections` and `YjsFields` model other state of the same objects;
what they need of the rest (a poke, a mutation, a reset, a restart) is a choice
of their environment.

Definitions introduced as a mutant are deliberate bugs: a run in which one of
them replaces the definition it follows or precedes must fail, which shows that
the property it is paired with is about that code.

## Runs

| Run | Question | Bounds | States |
|---|---|---|---|
| `ws` | Are all pokes and catch-ups sound, does the LMID count the log? | 1 client, 2 keys, 2 versions, batches of 2, 2 histories, 2 schema versions, retention 0 | 4.9 million |
| `sync_contract` | Exactly once, in order, replicas sound | 2 clients, 2 mutations, 1 trouble of disconnect, throw in a push, throw in a hello | 1.2 million |
| `sync_admin` | Replicas across histories, imports, late tables | 1 memory-only client, 2 mutations, 2 histories, timeouts, 1 trouble of disconnect, resync | 1.6 million |
| `sync_live` | Does everything settle and converge? | 2 clients, 2 mutations, 1 disconnect or server close | liveness |
| `offline_reload` | Is a reload, at any point, harmless? | 1 tab, 2 mutations, 2 versions, 2 troubles of crash, failed transaction, failed load, disconnect, late table; 2 outstanding store operations | 5.5 million |
| `sessions` | One live socket, presence that settles | 2 clients, 3 sockets, 1 of nine troubles, 1 wake, 2 presence calls | 0.8 million, liveness |
| `log_export` | Does the archive hold everything, eventually? | logs of 4 rows, batches of 2, runs of 2, 2 troubles | liveness, deadlock |
| `collections` | Do tables show what the rows were? | 3 tables (one lazy, one late), 1 id, 2 versions, 1 intent, 1 restart, 1 cut | 2.5 million |
| `yjs_lane` | Does the lane keep and spread what it accepted? | 2 tabs, 2 operations a handle, 2 of six troubles | |
| `late_table`, `yjs_gap`, `session_supersede` | Disagreements, see below | as above, smaller | |

Why the bounds are enough:

- Two keys for rows: a patch, a tombstone and a cutoff relate at most two keys to
  each other, one that is dropped and one that stays. Two versions and retention
  0 give a cursor behind, at and after the horizon.
- Batches of two have a duplicate with a new tail and a head before a gap (`ws`).
  Two mutations give an order to violate. One trouble at a time already reaches
  every handler from every state of the connection.
- `MaxQueue`, `MaxUp` and `MaxFlight` bound frames in flight; a run of `sync_live`
  with `MaxFlight` 5 has the same states as with 6, so there it is never met.
- Two troubles in `offline_reload` allow a crash after a failed write and a second
  crash after a reload; two versions a row that is stored, deleted while the
  tab is dead and compacted away.
- Three sockets are one for each client and one more for a redial that crosses
  its predecessor. Trouble comes to c1 only (`Troubled`): that gives a client in
  trouble and one that watches, without a symmetry set, which liveness checking
  does not allow.
- Three tables are one that a collection starts at once, one that waits for a
  subscriber and one that is created late; the values of a row are those the
  storage prefilter confuses (`true` and 1, `null` and a missing field). A part
  size of 2 splits a poke of two rows. Pokes that do not match a `pokeStart` are
  left out: sockets deliver in order.
- Two tabs in `yjs_lane` are a writer and a reader of the same operation; fields
  meet only in the cache. Each has one handle and both may write: a field that is
  opened again, and the refusal of a tab without write access, are covered by the
  proofs of `QuietAgrees` and `ReadableBack` alone, which fix no number of handles.

A run may stop when its bounds are used up, so deadlock is checked only in
`log_export`, where something can always go on.

Fairness, none of it of mutate, of presence calls, of troubles, of maintenance or
of deploys:

- `sync_live`: frames that have arrived are handled, a push in progress goes on
  (the handler is one synchronous call), a lost socket is replaced (the
  reconnect timer is rearmed on every failure, `client.ts:1113`) and the retry
  timer fires.
  `sync_live` has no throws, because `Converges` fails with them; `Settles` holds with
  them too (checked with one client, batches of two and two troubles of
  `"disconnect"` and `"abort"`, 230,010 states), the retry timer racing reconnects.
- `sessions`: the same, for upgrades, frames and closes in both directions and
  for the throttle of presence.
- `log_export`: the runtime delivers a set alarm, the bucket answers, and an
  object that failed to initialize is woken again.

## What the violations show

- `late_table` (`client.ts:423`): a collection restarted between `#openSocket` and
  the first poke of the connection registers without a resync, and the hello's
  cursor brings only what changed since; `collection.ts:238` says a restart
  triggers the full resync.
- `yjs_gap` (`packages/yjs/src/client.ts:301`): `canWrite` survives a disconnection,
  so an edit made after a reconnect and before the new STATE is sent without the
  offline ones it depends on; a tab closed then leaves the log with a hole, which
  `packages/yjs/src/server.ts:157` calls a permanent gap.
- `session_supersede` (`client.ts:566`, `client.ts:1059`): a wake during a dial
  opens a second socket and does not close the first; when their upgrades arrive
  in the other order, the older closes the held one with 4409, which is
  permanent. `packages/protocol/src/messages.ts:71` says this closes abandoned sockets.

## What does not hold

Stated in the modules, violated when checked as described, and no run of their own:

- `RejectedNeverApplies` (in `sync_admin.cfg`): a memory-only client's `Timeout`
  (`client.ts:985`) drops an entry that is already on the wire;
  `docs/guide/mutations.md:31` promises that a rejected mutation never lands.
- `ConfirmedMeansApplied` (in `sync_contract.cfg`): when the poke with a rejection is
  lost, the reconnect confirms the id alone (`client.ts:1466`) and the promise
  resolves; `docs/guide/mutations.md:40` promises the server's code.
- `ProcessedOnce` (in `sync_admin.cfg`): after an admin reset a connected client
  pushes before it says hello, the LMID update finds no row (`do.ts:1182`), and
  the next push of the same id is applied again.
- `ProcessedOnce` (in `offline_reload.cfg`): ids are pushed before they are stored
  (`client.ts:1378`); a tab that dies in between numbers the mutation again.
- `StaysOnDisk` (in `offline_reload.cfg` with `Troubles = {"crash"}`): a client constructed
  with `autoStart: false` accepts a mutation before `start()` (`client.ts:967`), and
  nothing suppresses its save then (`client.ts:1525`): it replaces the stored record,
  which has not been read, by one with the new mutation alone and the confirmed LMID
  0. The mutations stored before are lost, although
  `docs/guide/offline-persistence.md:51` says "Nothing durable is lost" and that they
  replay when a client is next constructed; the new one is loaded again in front of
  itself (`client.ts:690`).
- `IntentsShow` (in `collections.cfg`): `createCollections` attaches the applier of a
  collection at creation "so intents fired before a collection has subscribers still
  get their optimistic effect" (`collection.ts:340`); but with `startSync: false` the
  rows are still behind the gate, so an intent that reads or deletes a row finds none
  and lays no overlay. When the collection starts it shows the row as if the intent
  had not been made, and the row changes when the poke brings it. The test of early
  intents (`packages/client/test/intent.test.ts:430`) inserts into an empty workspace.
- `Settles` (in `sync_live.cfg` with `Troubles = {"hello"}`): an internal error to a hello
  sets the timer of a push (`client.ts:1433`), and a push waits for the first poke of
  the connection. The client asks for none again: on a healthy socket it stays
  unsynced, and its mutations pending, until the socket is lost.
- `DiskCatchesUp` (in `offline_reload.cfg` with two clients): the subsumption guard
  (`idb-store.ts:181`) lets every clear through, so a late clear of one tab moves
  the shared rows and cursor back, and the other tab's next delta moves the
  cursor over rows that are gone.
- `Converges` (in `sync_live.cfg` with `Troubles = {"abort"}`, `MaxBatch = 2`): a batch
  that throws after its first mutation committed (`do.ts:1102`) sends no poke, and
  its retry's poke starts from the version already reached; the other clients
  never hear of the first mutation until someone writes again.

Properties that hold only outside a state a history variable names:

- `skipped`: after one failed transaction of a poke (`client.ts:1405`) the next one
  stores a cursor newer than the rows; `DiskSound` and `DiskCatchesUp` hold until
  then, or again from the next clear.
- `unread`: when a load fails (`client.ts:655`) the tab starts with an empty queue,
  gives the ids of the record it never read to other mutations, and its first save
  replaces that record. A mutation before `start()` replaces it too.
  `DurablyQueued`, which stands for "Nothing durable is lost"
  (`docs/guide/offline-persistence.md:51`), is about the mutations of other records;
  `StaysOnDisk` is the same without the exception.
- `blind`: an intent that ran on a collection whose rows were still behind the gate;
  `NoFlicker` is about the settling of others. Without blind intents `IntentsShow`
  holds within the bounds of `collections`.
- `orphans`: the clients a reset stranded (`do.ts:1182`); `LmidMatchesLog` is about
  the others.
- `torn`: a reset during a put (`do.ts:502`) moves the new log's cursor to the old
  one's; `ArchiveComplete` and `EventuallyArchived` are about logs without one.
- `lost`: a peer that left or cleared around a hibernation (`do.ts:264`) stays on
  the screens until it announces itself.

Smaller observations that no property is about: `markReady` comes only with
hydration or the first sync of a connection (`client.ts:1376`), so a collection
created afterwards, with nothing else to register, waits for a reconnect; a
filter on an `undefined` value selects no stored row (`sql-row-store.ts:53`) and
every buffered one (`mutators.ts:315`); a hello whose catch-up throws keeps the
socket marked defunct only because presence throws on it again (`do.ts:966`).

## Proofs

Eight modules of theorems, for every number of clients, keys, values, mutations,
sockets and tables, and for every retention and bound. An invariant is seldom
inductive by itself, so each rests on one that says more:

- `TypeCorrect`: `Spec => []TypeOK` for the Workspace. `StoreOK` is the part of it
  that does not limit the frames in flight, which the composition bounds otherwise.
- `HistoryCorrect`, `PokesAreSound`, `CatchUpIsSound`: a poke is built from rows and
  versions, so `HistoryInv` says that the history holds every version up to the
  current one (`Recorded`), that a row carries the version that wrote it
  (`Stamped`), that from every acceptable cursor on a key without a newer version
  has not changed (`Kept`), that the bootstrap cache is the rows of its label
  (`CacheSound`) and that a push in progress started at a version still
  acceptable (`PushAnchored`). The steps are proved of `AnyStep`, a step of the
  Workspace whoever sends the hello or the batch.
- `LmidsMatchTheLog`: besides the counts, what a push in progress has processed
  (`PushCounts`), since the LMID is written after each mutation of the batch.
- `ReplicaCorrect`, `ReplicasAreSound`: `SyncNext` is an `AnyStep` of the Workspace
  or leaves it alone, so `HistoryInv` carries over; with it, the pokes in flight
  and the history only growing make the replica the rows at its cursor.
- `SyncTypeCorrect`, `QueuesAreOrdered`: a queue is ordered because a client numbers
  only after it has synced, and then all of it (`OutboxInv`): an entry without an
  id can never stand before one that has one.
- `ClientsMoveForward`: `PokesAdvance` orders the pokes in flight among each other and
  after the client's cursor, so that none of them takes a client back.
- `PushesLeaveNoGap`, `ContractIsKept`: for durable clients of a history that is never
  reset (`Durable`, `MaxBackend = 0`; the section above tells what a reset and a
  confirm timeout break). `ContractInv` ties the ends together: the queue is what was
  made past the confirmed LMID (`QueueIsRest`), the log is what was made up to the
  server's LMID (`LogIsIssued`), every batch on the wire or in progress is a run of
  both that starts no later than the next id (`PushesInStep`), LMIDs and results on
  their way say what the log holds (`PokesTrue`), and a socket that has not said hello
  carries nothing else (`SocketsInStep`). Every step then maps to a step of
  `MutationContract` or a stutter.
- `OfflineTypeCorrect`, `ReloadsKeepOrder`: a tab that does not run has given out no id
  and stores nothing but the mutations of its own queue (`Asleep`, `Early`), and every
  record it stored or is about to store is ordered (`TabInv`), so what a reload restores
  before the new mutations is ordered too.
- `StoreIsAServerState`, `StoreCatchesUp`: with one tab, each outstanding write of a poke
  is based on what the store will hold when its turn comes (`WritesLead`); a failed
  one leaves that unknown (`Starts`) until the next clear. The hypothesis of one tab
  is needed: two violate `DiskCatchesUp`, as told above.
- `NothingDurableIsLost`: a stored record is overwritten only by the records of later
  store operations, so each must have whatever of the earlier ones is not done with.
  `QueueKept` says so of the stored record, of those outstanding and of the queue that
  counts (`Held`: a running tab's own, else the one its store will have), and that an entry under an
  id the server has passed is done with (`Gone`). That an id means the same mutation on
  both sides is `BatchesAgree`: the batches under way start no later than the next id
  and say what the queue says, although a reload may have given the id out again. That
  a client gives out ids past the server's LMID only is the sockets' part (`SocketInv`):
  a client that has not synced awaits the poke that answers its hello and tells it that
  LMID, and no other poke can come before. It is proved for a history that is never reset
  (`MaxBackend = 0`, which makes `OneHistory` an invariant): a reset empties the log that
  shows what was processed. Crashes, failed loads, failed writes, lost sockets, resyncs,
  compactions, imports and any number of tabs are covered; so are clients that take
  mutations before they are started, for which what their save takes away goes into
  `unread` with the mutation (`WrittenOver`): nothing else is ever lost, also not by a
  save that is still outstanding when the load has its turn.
- `SessionCorrect`, `SessionsTyped`, `OneSocketEach`, `EntriesAreOwned`: only a hello
  that meets a dead link takes a socket out of service without dropping its
  entry, and it is harmless because a hello is a socket's first frame and its
  only one (`HelloOnce`).
- `ExportTypeCorrect`, `ArchiveCorrect`, `ArchiveIsKept`: the lines of a put in
  flight are still the log's (`RunCurrent`), since the log only grows unless it
  is reset, which `torn` records.
- `CallsCorrect`, `MutationsReadOwnWrites`, `HookSeesStored`, `MutationsAreWhole`: the
  buffer over the stored rows is what the calls mean (`CallInv`).
- `RunIs`: the same of a whole program of steps, sweeps included. Its folds are taken
  apart by `FoldTrace`: what `FoldLeft` returns is the end of a trace that takes one
  step at a time, by induction in its set form.
- `KeysStayInStep`: the keys an adapter knows are the visible rows of a started
  table, whatever its gate holds (`KeysInv`).
- `CollectionsTyped`: `TypeInv`, with the folds of a local run, of `Packed`, of `LastId`
  and of a filtered outbox typed along their traces.
- `RowsSinceVersion`, `HookHearsNet`: every row is what the newest version says and has
  been since its own version (`HistInv`), so the rows stamped with the new version are
  those its run wrote, and the change list is about them (`ChangesAre`).
- `MutationsAtomic`: with `RunIs`, a commit is a step of `AtomicRows`. It assumes that no
  program filters on an undefined value (`DefinedFilters`), which storage and buffer
  answer differently, as told above.
- `BoundsHold`, `CollectionsInRange`: ids and versions are handed out before they are
  named (`BoundInv`), and the bounds of the type invariant follow.
- `PokesWhole`: frames come in the order start, parts, end, with nothing in between
  (`WireInv`, which also says when a lane is empty), and what lies between a start and
  its end, together with the part of a poke that is already put together, is a whole
  poke (`PiecesInv`): a clear and every row of its end, or, over a base, the value at the
  end of every row that changed since. Packing moves operations between frames and
  loses none.
- `TablesHoldVersions`, `PokesAtomic`, `ReadyHasRows`: a whole poke applied to the rows of
  its base gives the rows of its end, whether they are in the collection or behind the
  gate, and one without a matching base is applied only if it clears (`TablesInv`).
  They assume `Late = FALSE`, as the run `collections` does: a table is registered
  only while its rows will still be sent. `late_table` shows what happens without it.
- `ClientsCatchUp`, `IntentsAccounted`, `QuietIsCurrent`, under the same hypothesis: each
  poke is onto the end of the one before it or onto nothing, the last one ends at the
  version the next will be onto (`Target`, which lags while a push is handled), and the
  client will apply the first of them unless it awaits an answer, which is then on its
  way or asked for (`CurrentInv`). Something accounts for every queued intent (`SettleInv`): a
  push on its way or being handled, or, once it was handled, a poke that will be
  applied or the hello that asks for one. A dropped poke accounts for nothing, because it
  was not onto the cursor; a registration that sets the cursor back asks for everything,
  and what was handled by then is in the answer. At rest both leave only the
  workspace's version and an empty queue.
- `FieldCorrect`, `FieldTypeCorrect`, `CacheIsCoherent`: rows are numbered past the
  snapshot, and a cached document is what the rows hold (`FieldInv`).
- `BackedCorrect`, `RelayedIsReadable`, `AcceptedIsKept`: what was accepted is in the
  rows and what is on its way to a tab was accepted (`BackedInv`), so compaction
  loses nothing.
- `LinksCorrect`, `QuietTabsAgree`: a link carries what its tab's state allows
  (`LinkInv`), and as long as no reset wiped the tables, a live tab and the rows will
  hold the same once what is between them is read, unless the tab is about to lose
  write access (`StepInv`).

They assume only the named assumptions on the constants (`RetentionAssumption`,
`DeletedAssumption`, `BoundsAssumption`, `NoCursorAssumption`, `SystemAssumption`,
`TroublesAssumption`, `SyncBoundsAssumption`, `StoreAssumption`, `SessionAssumption`,
`ExportAssumption`, `MutatorsAssumption`, `CollectionsAssumption`, `FieldAssumption`),
which TLC evaluates in the runs, and the hypotheses named above.

The outbox and the log are filtered by `Filtered`, over the kept positions, and not
by the recursive `SelectSeq`: what it returns follows from the order of the naturals
without an induction over sequences.

Model-checked only:

- liveness (`Settles`, `Converges`, `PresenceSettles`, `EventuallyArchived`) and
  `ENABLED`, which the prover does not handle;
- of `Collections`: `NoFlicker`, which needs that an overlay equals what the server's
  run of the same intent wrote.

## Left out

- Offline store: the reset when the stored schema version differs, the collection
  of other clients' old records, `destroy`, which is a crash with nothing
  outstanding but for the promises it rejects, and the minting of client ids. A
  load is read when hydration ends; what other tabs commit in between does not
  matter, because nothing the tab does before that depends on the store. Two
  tabs across a reset are beyond the bounds.
- Write sets: `validateAtFlush`, which migrations and imports use.
- Framing: JSON text, sizes in bytes, and `chunk.ts`, which splits the binary
  frames of the field lane.
- Fields: the encoding of a CRDT, the merging of updates inside it, and the hook.
- Collections: how TanStack DB orders and rolls back its transactions; an overlay
  lasts until its entry settles. Writes of `onInsert`, `onUpdate` and `onDelete`
  enqueue like any mutation.
- Sockets: delays of timers, URLs, the stamps of `authorize`.
- Row payloads are opaque outside `Mutators`. Logging, metrics and HTTP routing
  change no modelled state.
- The fingerprint is a hash for warnings, `testing.ts` a test double, React and the
  demo views over the client.

## Plan

1. `NoFlicker`: the local run and the server's run of an intent, from the same rows, end
   alike (`LocalTrace` and `FoldTrace` step by step), and the rows a settled intent began
   with are those of the version before the one it made.
2. Two tabs across a reset, and the offline store's schema reset.
3. Schema rollout: deploys and version refusals in the composition.
