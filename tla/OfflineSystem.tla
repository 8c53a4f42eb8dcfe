----------------------------- MODULE OfflineSystem -----------------------------
(***************************************************************************)
(* SyncSystem with the durable store of packages/client: every client is a *)
(* browser tab, all tabs of a workspace share one IndexedDB (idb-store.ts) *)
(* for rows and cursor, and each keeps its own outbox record there.  A tab *)
(* hydrates from the store before it connects, mirrors every poke and      *)
(* every change of its outbox into the store, and may die at any time.     *)
(* The constructor starts the client at once, or leaves that to the app    *)
(* (autoStart: false), which may mutate before.                            *)
(*                                                                         *)
(* A store operation is one IndexedDB transaction; a tab's operations run  *)
(* one after the other, later than the event that issued them, and tabs    *)
(* interleave.  What a dead tab had not committed is lost.                 *)
(***************************************************************************)
EXTENDS SyncSystem

CONSTANT MaxWrites  \* store operations a tab has outstanding when its next event is handled

ASSUME StoreAssumption == Durable /\ MaxWrites \in Nat

VARIABLES
  tab,         \* closed, made, hydrating or running: constructed, #started, #hydrating, #stopped
  diskRows,    \* object store 'rows'
  diskCursor,  \* the cursor of object store 'meta', NoCursor while it is empty
  diskOutbox,  \* object store 'outbox': client id -> [entries, confirmed]
  writes,      \* a tab's queue of store operations (#queue)
  durable,     \* history variable: the mutations a stored outbox ever held
  unread,      \* history variable: the mutations of records written over before they were read
  skipped      \* history variable: a poke's transaction failed since the rows were last cleared

diskVars == <<diskRows, diskCursor, diskOutbox, durable, unread, skipped>>
offlineVars == <<tab, diskVars, writes>>
allVars == <<vars, offlineVars>>

OutboxRecords == [entries : Seq(Entry), confirmed : Nat]
Entries(box) == {box[i] : i \in DOMAIN box}
Names(entries) == {entries[i].name : i \in DOMAIN entries}
NoRecord == [entries |-> <<>>, confirmed |-> 0]
PokeWrites == [type : {"poke"}, clear : BOOLEAN, patch : Patches, cursor : Cursors,
               outbox : OutboxRecords]
OutboxWrites == [type : {"outbox"}, outbox : OutboxRecords]

OfflineTypeOK ==
  /\ SyncTypeOK
  /\ tab \in [Clients -> {"closed", "made", "hydrating", "running"}]
  /\ diskRows \in Rows
  /\ diskCursor \in Cursors \cup {NoCursor}
  /\ diskOutbox \in [Clients -> OutboxRecords]
  /\ writes \in [Clients -> Seq(PokeWrites \cup OutboxWrites)]
  /\ durable \subseteq Mutations
  /\ unread \subseteq Mutations
  /\ skipped \in BOOLEAN

OfflineInit ==
  /\ SyncInit
  /\ tab = [c \in Clients |-> "closed"]
  /\ diskRows = [k \in Keys |-> Deleted]
  /\ diskCursor = NoCursor
  /\ diskOutbox = [c \in Clients |-> NoRecord]
  /\ writes = [c \in Clients |-> <<>>]
  /\ durable = {}
  /\ unread = {}
  /\ skipped = FALSE

-----------------------------------------------------------------------------
(* Issuing store operations *)

Unhurried(c) == Len(writes[c]) < MaxWrites
Running(c) == tab[c] = "running" /\ Unhurried(c)

\* #outboxSnapshot with the confirmed LMID, as the event leaves them.
Snapshotted(c) == [entries |-> outbox'[c], confirmed |-> confirmedLmid'[c]]
SaveOutbox(c) == [type |-> "outbox", outbox |-> Snapshotted(c)]

\* Mutant: the cursor is the one the poke was applied to.
SavePokeAtBase(c, poke) ==
  [type |-> "poke", clear |-> poke.clear, patch |-> poke.patch,
   cursor |-> clientCursor[c], outbox |-> Snapshotted(c)]

SavePoke(c, poke) == [type |-> "poke", clear |-> poke.clear, patch |-> poke.patch,
                      cursor |-> poke.cursor, outbox |-> Snapshotted(c)]

Issue(c, ops) == writes' = [writes EXCEPT ![c] = @ \o ops]

\* Mutant: the outbox is saved during hydration too.
PersistOutboxAlways(c) == Issue(c, <<SaveOutbox(c)>>)

\* #persistOutbox: not during hydration, when the restored entries are not in the queue yet.
PersistOutbox(c) == IF tab[c] = "hydrating" THEN UNCHANGED writes ELSE Issue(c, <<SaveOutbox(c)>>)

\* An applied poke is mirrored; the outbox follows on its own when the poke settled or
\* renumbered entries, or was the first of its connection.
PersistPoke(c, poke) ==
  LET changed == \/ outbox'[c] # outbox[c]
                 \/ needsRebase[c] \/ ~syncedThisConnection[c]
                 \/ BackendChanged(c, poke)
  IN  Issue(c, <<SavePoke(c, poke)>> \o IF changed THEN <<SaveOutbox(c)>> ELSE <<>>)

-----------------------------------------------------------------------------
(* The life of a tab *)

\* The constructor with autoStart: false.
Construct(c) ==
  /\ push = Idle
  /\ tab[c] = "closed"
  /\ tab' = [tab EXCEPT ![c] = "made"]
  /\ UNCHANGED <<vars, diskVars, writes>>

\* start(), by the constructor or the app: the load is queued.
Start(c) ==
  /\ push = Idle
  /\ tab[c] \in {"closed", "made"}
  /\ tab' = [tab EXCEPT ![c] = "hydrating"]
  /\ UNCHANGED <<vars, diskVars, writes>>

\* The load has its turn: after the saves of an unstarted client, except one that was made in
\* the same task as start(), whose microtask comes later.
Loads(c) == push = Idle /\ tab[c] = "hydrating" /\ Len(writes[c]) <= 1

\* Mutant: the restored entries are appended.
HydratedLast(c) == outbox[c] \o diskOutbox[c].entries

\* Mutations made while hydrating come after the restored ones.
Hydrated(c) == diskOutbox[c].entries \o outbox[c]

\* #hydrate and the end of start(): outbox, baseline and cursor come back, the rows if there is
\* a cursor; what the queue holds is saved.
Hydrate(c) ==
  /\ Loads(c)
  /\ outbox' = [outbox EXCEPT ![c] = Hydrated(c)]
  /\ confirmedLmid' = [confirmedLmid EXCEPT ![c] = diskOutbox[c].confirmed]
  /\ clientCursor' = [clientCursor EXCEPT ![c] = diskCursor]
  /\ replica' = IF diskCursor = NoCursor THEN replica ELSE [replica EXCEPT ![c] = diskRows]
  /\ tab' = [tab EXCEPT ![c] = "running"]
  /\ Issue(c, IF outbox'[c] = <<>> THEN <<>> ELSE <<SaveOutbox(c)>>)
  /\ UNCHANGED <<serverVars, outcome, issued, linkVars, up, trouble, diskVars>>

\* The load fails: the tab starts from nothing, and will save that over its record.
FailHydrate(c) ==
  /\ Loads(c)
  /\ Trouble("load")
  /\ tab' = [tab EXCEPT ![c] = "running"]
  /\ unread' = unread \cup Names(diskOutbox[c].entries)
  /\ Issue(c, IF outbox[c] = <<>> THEN <<>>
              ELSE <<[type |-> "outbox", outbox |-> [entries |-> outbox[c], confirmed |-> 0]]>>)
  /\ UNCHANGED <<serverVars, clientVars, up, diskRows, diskCursor, diskOutbox, durable, skipped>>

\* The tab is killed: its memory, its end of the socket and its uncommitted operations go.
Crash(c) ==
  /\ push = Idle
  /\ tab[c] # "closed"
  /\ Trouble("crash")
  /\ tab' = [tab EXCEPT ![c] = "closed"]
  /\ writes' = [writes EXCEPT ![c] = <<>>]
  /\ listening' = listening \ {c}
  /\ down' = [down EXCEPT ![c] = <<>>]
  /\ clientCursor' = [clientCursor EXCEPT ![c] = NoCursor]
  /\ replica' = [replica EXCEPT ![c] = [k \in Keys |-> Deleted]]
  /\ confirmedLmid' = [confirmedLmid EXCEPT ![c] = 0]
  /\ outbox' = [outbox EXCEPT ![c] = <<>>]
  /\ syncedThisConnection' = [syncedThisConnection EXCEPT ![c] = FALSE]
  /\ awaitingCatchUp' = [awaitingCatchUp EXCEPT ![c] = FALSE]
  /\ needsRebase' = [needsRebase EXCEPT ![c] = FALSE]
  /\ retryPush' = [retryPush EXCEPT ![c] = FALSE]
  /\ UNCHANGED <<meta, store, snapshot, sess, push, outcome, issued, up, diskVars>>

-----------------------------------------------------------------------------
(* Committing store operations *)

\* A poke that does not advance the stored cursor is taken to be covered already.
Subsumed(op) ==
  /\ ~op.clear
  /\ diskCursor # NoCursor
  /\ diskCursor.backendId = op.cursor.backendId
  /\ diskCursor.version >= op.cursor.version

\* Mutant: a clear removes nothing.
RowsAfterPuts(op) == Patched(diskRows, FALSE, op.patch)

RowsAfter(op) == Patched(diskRows, op.clear, op.patch)

\* applyPoke and saveOutbox: one transaction each.
Commit(c) ==
  /\ writes[c] # <<>>
  /\ LET op == Head(writes[c])
     IN  /\ IF op.type = "outbox" \/ Subsumed(op)
            THEN UNCHANGED <<diskRows, diskCursor, skipped>>
            ELSE /\ diskRows' = RowsAfter(op)
                 /\ diskCursor' = op.cursor
                 /\ skipped' = (skipped /\ ~op.clear)
         /\ diskOutbox' = [diskOutbox EXCEPT ![c] = op.outbox]
         /\ durable' = durable \cup Names(op.outbox.entries)
  /\ writes' = [writes EXCEPT ![c] = Tail(@)]
  /\ UNCHANGED <<vars, tab, unread>>

\* A transaction that fails is logged and forgotten; the next one runs.
FailWrite(c) ==
  /\ writes[c] # <<>>
  /\ Trouble("write")
  /\ skipped' = (skipped \/ Head(writes[c]).type = "poke")
  /\ writes' = [writes EXCEPT ![c] = Tail(@)]
  /\ UNCHANGED <<serverVars, clientVars, up, tab, diskRows, diskCursor, diskOutbox, durable, unread>>

-----------------------------------------------------------------------------
(* The events of a tab and of the server, with what they persist *)

\* The entries of the stored record that a save of the queue would take away.
WrittenOver(c) == {entry.name : entry \in Entries(diskOutbox[c].entries) \ Entries(outbox[c])}

\* Before start() too, and then nothing keeps the save from the record nobody has read.
MutateTab(c, m) ==
  /\ tab[c] # "closed" /\ Unhurried(c)
  /\ Mutate(c, m)
  /\ PersistOutbox(c)
  /\ unread' = IF tab[c] = "made" THEN unread \cup WrittenOver(c) ELSE unread
  /\ UNCHANGED <<tab, diskRows, diskCursor, diskOutbox, durable, skipped>>

ReceivePokeTab(c) ==
  /\ Running(c)
  /\ ReceivePoke(c)
  /\ IF Mismatched(c, Head(down[c])) THEN UNCHANGED writes ELSE PersistPoke(c, Head(down[c]))
  /\ UNCHANGED <<tab, diskVars>>

\* Nothing else a tab does reaches the store.
OtherEvent(c) ==
  /\ Running(c)
  /\ \/ Connect(c) \/ Disconnect(c) \/ SeeClose(c) \/ Resync(c)
     \/ ReceiveError(c) \/ RetryPush(c)
  /\ UNCHANGED offlineVars

TabNext(c) ==
  \/ Construct(c) \/ Start(c) \/ Hydrate(c) \/ FailHydrate(c) \/ Crash(c)
  \/ Commit(c) \/ FailWrite(c)
  \/ (\E m \in Mutations : MutateTab(c, m)) \/ ReceivePokeTab(c) \/ OtherEvent(c)

OfflineNext == (ServerNext /\ UNCHANGED offlineVars) \/ \E c \in Clients : TabNext(c)

OfflineSpec == OfflineInit /\ [][OfflineNext]_allVars

-----------------------------------------------------------------------------
(* Properties *)

\* What a reload finds is a state of the server: with one tab the stored rows are exactly the
\* rows at the stored cursor, wherever the tab died, as long as no transaction of a poke failed
\* since the rows were last replaced (IndexedDBSyncStore.applyPoke).
DiskSound ==
  diskCursor # NoCursor /\ ~skipped =>
    /\ diskCursor \in DOMAIN snaps
    /\ diskRows = snaps[diskCursor]

\* client.ts:1386: "the persisted cursor can never be newer than the persisted rows".  Whatever
\* the store holds, the catch-up from its cursor completes it to the server's rows.
DiskCatchesUp ==
  CursorValid(diskCursor) /\ ~skipped =>
    Patched(diskRows, FALSE, PatchSince(diskCursor.version)) = Live

\* docs/guide/offline-persistence.md:51: "Nothing durable is lost".  A mutation that reached a
\* stored outbox stays in one until the server has processed it, whatever dies or fails, unless
\* a tab wrote over that outbox without having read it: because the load failed, or because it
\* mutated before start().
Processed(m) == \E i \in DOMAIN mutationLog : mutationLog[i].name = m

DurablyQueued ==
  \A m \in durable \ unread :
    Processed(m) \/ \E c \in Clients : m \in Names(diskOutbox[c].entries)

\* docs/guide/offline-persistence.md:51: "Persisted rows and the offline outbox stay on disk" and
\* "mutations queued offline still replay exactly once when a client for that workspace is next
\* constructed", in whichever of the ways a client is constructed.  A mutation before start(), or
\* a load that fails, breaks it.
StaysOnDisk ==
  \A m \in durable : Processed(m) \/ \E c \in Clients : m \in Names(diskOutbox[c].entries)

-----------------------------------------------------------------------------
(* The inductive invariant behind OutboxOrdered *)

\* The outbox records a tab has stored or is about to: the stored one, then those of its writes.
Record(c, n) == IF n = 0 THEN diskOutbox[c] ELSE writes[c][n].outbox

\* A save of an unstarted tab: what its queue holds, which has no ids yet.
Early(op, box) ==
  /\ op.type = "outbox"
  /\ \A i \in DOMAIN op.outbox.entries : /\ op.outbox.entries[i].id = 0
                                          /\ op.outbox.entries[i].name \in Names(box)

\* A tab that does not run has stored no poke and given out no id.
Asleep(c) ==
  /\ \A n \in 1..Len(writes[c]) : Early(writes[c][n], outbox[c])
  /\ clientCursor[c] = NoCursor
  /\ ~syncedThisConnection[c]
  /\ \A i \in DOMAIN outbox[c] : outbox[c][i].id = 0

TabInv ==
  /\ OutboxInv
  /\ \A c \in Clients :
       /\ tab[c] # "running" => Asleep(c)
       /\ \A n \in 0..Len(writes[c]) : Ordered(Record(c, n).entries, Record(c, n).confirmed)

-----------------------------------------------------------------------------
(* The inductive invariant behind DiskSound *)

\* The pokes on their way lead forward from their base.
PokesForward ==
  \A c \in Clients : \A i \in 1..Len(down[c]) : LET poke == down[c][i] IN
    poke.type = "poke" /\ ~poke.clear => poke.base # NoCursor /\ NotBehind(poke.cursor, poke.base)

\* The cursors the store may hold: nobody knows which once a poke was skipped.
Starts == IF skipped THEN Cursors ELSE {diskCursor}

\* x is the cursor of a store after the first n of these operations, from one of these starts.
StoredAt(ops, n, x, starts) ==
  \/ \E i \in 1..n : /\ ops[i].type = "poke" /\ ops[i].cursor = x
                     /\ \A j \in (i + 1)..n : ops[j].type = "outbox"
  \/ (\A i \in 1..n : ops[i].type = "outbox") /\ x \in starts

\* The poke a store operation mirrors, based on x.
Mirrored(op, x) == [base |-> x, clear |-> op.clear, patch |-> op.patch, cursor |-> op.cursor]

\* Each write of a poke leads on from what the store holds by then, and the last to what the tab
\* holds.
Leads(ops, cursor, starts, history) ==
  /\ \A n \in 1..Len(ops) : ops[n].type = "poke" =>
       \E x \in DOMAIN history : /\ SoundIn(history, Mirrored(ops[n], x))
                                 /\ ~ops[n].clear => /\ StoredAt(ops, n - 1, x, starts)
                                                     /\ NotBehind(ops[n].cursor, x)
  /\ cursor # NoCursor => StoredAt(ops, Len(ops), cursor, starts)

WritesLead == \A c \in Clients : Leads(writes[c], clientCursor[c], Starts, snaps)

DiskInv == DiskSound /\ PokesForward /\ WritesLead

-----------------------------------------------------------------------------
(* What the sockets of a history that is never reset carry *)

\* A connection on which the client has not synced yet.
Unsynced(c) == c \in listening /\ ~syncedThisConnection[c]

\* The frames that may be under way: before its hello is handled a socket carries nothing but
\* hellos up and errors down, before the client has synced nothing but the hello of its cursor
\* up, and no poke tells an LMID the server has not reached.
UpFrames(c) ==
  {frame \in Hellos \cup PushFrames :
     /\ sess[c] = "open" => frame.type = "hello"
     /\ Unsynced(c) => frame = HelloFrame(clientCursor[c])}

DownFrames(c) ==
  {frame \in Pokes \cup Errors :
     /\ sess[c] = "open" => frame.type = "error"
     /\ frame.type = "poke" =>
          \A change \in frame.lmids : change.lmid <= lastMutationId[change.client]}

\* The poke that answers a hello from this cursor and tells the client's LMID.
Answer(poke, cursor, change) == (poke.clear \/ poke.base = cursor) /\ poke.lmids = {change}

Poked(frames) == \E i \in DOMAIN frames : frames[i].type = "poke"

\* The first poke on its way is that answer.
AnswerFirst(frames, cursor, change) ==
  \A i \in DOMAIN frames :
    frames[i].type = "poke" /\ (\A j \in 1..(i - 1) : frames[j].type # "poke") =>
      Answer(frames[i], cursor, change)

\* Whoever waits for the answer of a hello gets it before any other poke, and asks no more.
Awaits(c) ==
  /\ awaitingCatchUp[c]
  /\ sess[c] = "ready" => Poked(down[c])
  /\ AnswerFirst(down[c], clientCursor[c], [client |-> c, lmid |-> lastMutationId[c]])

\* Only a tab that runs listens, and nobody else is sent anything.
Socket(c) ==
  /\ up[c] \in Seq(UpFrames(c)) /\ down[c] \in Seq(DownFrames(c))
  /\ sess[c] = "ready" => c \in clients
  /\ sess[c] = "open" => ~syncedThisConnection[c]
  /\ IF c \in listening THEN tab[c] = "running" ELSE down[c] = <<>>
  /\ Unsynced(c) => Awaits(c)

\* The push in progress counts on from its client's LMID, which it may change: the client has
\* synced, or reads no more.
PushLinked ==
  push # Idle => /\ sess[push.client] = "ready" /\ push.lmid = lastMutationId[push.client]
                 /\ ~Unsynced(push.client)

SocketInv == (\A c \in Clients : Socket(c)) /\ PushLinked

-----------------------------------------------------------------------------
(* The inductive invariant behind DurablyQueued, of a history that is never reset *)

InHistory(cursor) == cursor # NoCursor => cursor.backendId = 0

\* Nobody holds a cursor of another history, nor will a store.
OneHistory ==
  /\ backendId = 0
  /\ InHistory(diskCursor)
  /\ \A c \in Clients :
       /\ InHistory(clientCursor[c])
       /\ \A i \in DOMAIN writes[c] : writes[c][i].type = "poke" => InHistory(writes[c][i].cursor)

\* The queue that counts: a running tab's own, else the one that will have been stored.
Held(c) == IF tab[c] = "running" THEN outbox[c] ELSE Record(c, Len(writes[c])).entries

\* The entries that are done with: the server has processed them and their id, or nobody read
\* their record.
Gone(c) == {entry \in Entry : \/ entry.name \in unread
                              \/ entry.id <= lastMutationId[c] /\ Processed(entry.name)}

\* A queue numbers its entries from a confirmed LMID the server has reached.
Placement(box, confirmed, lmid) == InPlace(box, confirmed) /\ confirmed <= lmid

\* What a queue holds under an id the server has passed is done with.
Passed(box, lmid, gone) == \A i \in DOMAIN box : box[i].id \in 1..lmid => box[i] \in gone

\* Every entry is in the later queue too, under the id it has, unless it is done with.
Follows(entries, later, gone) ==
  \A i \in DOMAIN entries :
    \/ entries[i] \in gone
    \/ \E j \in DOMAIN later : /\ later[j].name = entries[i].name
                               /\ entries[i].id \in {0, later[j].id}

\* A client that has synced counts from the server's LMID on, and the records of its store
\* operations lead from the stored queue to the one that counts.
QueueKept(c) ==
  /\ Placement(outbox[c], confirmedLmid[c], lastMutationId[c])
  /\ syncedThisConnection[c] => lastMutationId[c] <= confirmedLmid[c] + Len(outbox[c])
  /\ ~needsRebase[c]
  /\ Passed(Held(c), lastMutationId[c], Gone(c))
  /\ \A n \in 0..Len(writes[c]) :
       /\ Placement(Record(c, n).entries, Record(c, n).confirmed, lastMutationId[c])
       /\ Follows(Record(c, n).entries, Held(c), Gone(c))
       /\ \A k \in n..Len(writes[c]) : Follows(Record(c, n).entries, Record(c, k).entries, Gone(c))

\* The ids a batch may carry: a client that has synced has given out no other.
Numbers(c) == IF syncedThisConnection[c] THEN 0..(confirmedLmid[c] + Len(outbox[c])) ELSE Nat

\* A batch is a run of such ids that leaves no gap to what the server expects, and past the
\* LMID it says what the queue says.
InStep(batch, lmid, ids, box, lost) ==
  \A j \in DOMAIN batch :
    /\ batch[1].id <= lmid + 1
    /\ batch[j].id = batch[1].id + j - 1
    /\ batch[j].id \in ids
    /\ \A i \in DOMAIN box : box[i].id = batch[j].id /\ batch[j].id > lmid =>
         box[i].name \in {batch[j].name} \cup lost

Agrees(c, batch) == InStep(batch, lastMutationId[c], Numbers(c), Held(c), unread)

\* The frames that may be under way: batches that agree, and never the error of a gap.
AgreedUp(c) == {frame \in Hellos \cup PushFrames : frame.type = "push" => Agrees(c, frame.mutations)}
AgreedDown == {frame \in Pokes \cup Errors : frame.type = "error" => frame.code # "PushInvalid"}

BatchesAgree ==
  /\ \A c \in Clients : up[c] \in Seq(AgreedUp(c)) /\ down[c] \in Seq(AgreedDown)
  /\ push # Idle => Agrees(push.client, push.todo)

DurableInv == DurablyQueued /\ (\A c \in Clients : QueueKept(c)) /\ BatchesAgree
===============================================================================
