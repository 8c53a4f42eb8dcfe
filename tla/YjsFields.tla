------------------------------- MODULE YjsFields -------------------------------
(***************************************************************************)
(* One Yjs field hosted in the workspace: the extension of the Durable     *)
(* Object (packages/yjs/src/server.ts) with its log, snapshot and caches,  *)
(* and the tabs that hold the field (packages/yjs/src/client.ts).  Fields  *)
(* share only the document cache; what the others do there is Evict.       *)
(*                                                                         *)
(* A document is the set of operations it holds.  An operation is named by *)
(* the handle that made it, as Yjs names it by the clientID of its Y.Doc,  *)
(* and by that handle's clock.  Yjs shows an operation only with the       *)
(* earlier ones of its handle and parks it otherwise.  The size of an      *)
(* update is its number of operations.                                     *)
(***************************************************************************)
EXTENDS Naturals, Sequences, FiniteSets, SequencesExt

CONSTANTS
  Tabs,
  Writers,     \* the tabs authorizeWrite accepts
  None,
  MaxUpdate,   \* MAX_FIELD_UPDATE_BYTES
  MaxField,    \* MAX_FIELD_BYTES
  Threshold,   \* compactionThreshold
  Pastes,      \* operations in one local edit
  Troubles,    \* what else happens: TroubleKinds
  MaxTrouble,  \* how often
  MaxHandles,  \* handles a tab opens
  MaxClock,    \* operations of a handle
  MaxUp        \* frames a tab has in flight when it edits

TroubleKinds == {"disconnect", "wake", "evict", "release", "import", "reset"}

ASSUME FieldAssumption ==
  /\ IsFiniteSet(Tabs)
  /\ Writers \subseteq Tabs
  /\ Pastes \subseteq Nat \ {0}
  /\ Troubles \subseteq TroubleKinds
  /\ {MaxUpdate, MaxField, Threshold, MaxTrouble, MaxHandles, MaxClock, MaxUp} \subseteq Nat

VARIABLES
  field,     \* the rows of yjs_fields and yjs_updates
  cached,    \* the field's document in the cache, or None
  refused,   \* the sockets this field was refused on
  live,      \* the ready sockets that are not defunct
  socket,    \* what a tab knows of its connection
  entry,     \* the handle a tab holds, or None
  handles,   \* handles a tab has opened
  up,        \* frames on their way to the server
  down,      \* frames on their way to a tab
  exported,  \* the field in an admin export, or None
  accepted,  \* history variable: every operation ever appended
  wiped,     \* history variable: which of import and reset replaced the log
  trouble

serverVars == <<field, cached, refused, live>>
tabVars == <<socket, entry, handles>>
historyVars == <<exported, accepted, wiped>>
vars == <<serverVars, tabVars, up, down, historyVars, trouble>>

-----------------------------------------------------------------------------
(* Y.Doc: documents, state vectors and updates are sets of operations. *)

Ops == Tabs \X (1..MaxHandles) \X (1..MaxClock)

\* The operations a document shows: those whose predecessors it has.  They
\* are also what its state vector covers.
Integrated(doc) ==
  {op \in doc : \A n \in 1..(op[3] - 1) : <<op[1], op[2], n>> \in doc}

\* encodeStateAsUpdate: all that a state vector misses, parked ones included.
Diff(doc, vector) == doc \ vector

Entries == [gen : Nat, doc : SUBSET Ops, canWrite : BOOLEAN,
            rejected : BOOLEAN, synced : BOOLEAN]
UpFrames ==
  [type : {"get"}, vector : SUBSET Ops] \cup [type : {"update"}, ops : SUBSET Ops]
DownFrames ==
       [type : {"ready", "close", "reject"}]
  \cup [type : {"state"}, writable : BOOLEAN, vector : SUBSET Ops, diff : SUBSET Ops]
  \cup [type : {"update"}, ops : SUBSET Ops]
UpdateRows == [seq : Nat, bytes : SUBSET Ops]

FieldTypeOK ==
  /\ field \in [snapshot : SUBSET Ops, snapshotSeq : Nat, updates : SUBSET UpdateRows,
                byteTotal : Nat, frozen : BOOLEAN]
  /\ cached \in (SUBSET Ops) \cup {None}
  /\ refused \subseteq Tabs
  /\ live \subseteq Tabs
  /\ socket \in [Tabs -> {"closed", "syncing", "synced"}]
  /\ entry \in [Tabs -> Entries \cup {None}]
  /\ handles \in [Tabs -> 0..MaxHandles]
  /\ up \in [Tabs -> Seq(UpFrames)]
  /\ down \in [Tabs -> Seq(DownFrames)]
  /\ exported \in (SUBSET Ops) \cup {None}
  /\ accepted \subseteq Ops
  /\ wiped \subseteq {"import", "reset"}
  /\ trouble \in 0..MaxTrouble

EmptyField ==
  [snapshot |-> {}, snapshotSeq |-> 0, updates |-> {}, byteTotal |-> 0, frozen |-> FALSE]

FieldInit ==
  /\ field = EmptyField
  /\ cached = None
  /\ refused = {}
  /\ live = {}
  /\ socket = [t \in Tabs |-> "closed"]
  /\ entry = [t \in Tabs |-> None]
  /\ handles = [t \in Tabs |-> 0]
  /\ up = [t \in Tabs |-> <<>>]
  /\ down = [t \in Tabs |-> <<>>]
  /\ exported = None
  /\ accepted = {}
  /\ wiped = {}
  /\ trouble = 0

Happens(kind) ==
  /\ kind \in Troubles
  /\ trouble < MaxTrouble
  /\ trouble' = trouble + 1

-----------------------------------------------------------------------------
(* The extension's storage. *)

UpdatesAfter(f) == {r \in f.updates : r.seq > f.snapshotSeq}

\* The document the rows hold: the snapshot and the updates after it.
Materialized(f) == f.snapshot \cup UNION {r.bytes : r \in UpdatesAfter(f)}

\* Mutant: the numbering restarts when a compaction empties the log.
LastSeqRestarted(f) == Cardinality(f.updates)
LastSeq(f) == IF f.updates = {} THEN f.snapshotSeq
              ELSE CHOOSE n \in {r.seq : r \in f.updates} : \A r \in f.updates : r.seq <= n

\* loadDoc: the cache serves, and the load fills it.
Loaded == IF cached # None THEN cached ELSE Materialized(field)

Appended(f, update) ==
  [f EXCEPT !.byteTotal = @ + Cardinality(update),
            !.frozen = f.byteTotal + Cardinality(update) > MaxField,
            !.updates = @ \cup {[seq |-> LastSeq(f) + 1, bytes |-> update]}]

\* Mutant: a compaction forgets the snapshot before it.
CompactedTailOnly(f) ==
  [f EXCEPT !.snapshot = UNION {r.bytes : r \in UpdatesAfter(f)},
            !.snapshotSeq = LastSeq(f),
            !.updates = {}]
Compacted(f) ==
  [f EXCEPT !.snapshot = Materialized(f),
            !.snapshotSeq = LastSeq(f),
            !.byteTotal = Cardinality(Materialized(f)),
            !.updates = {r \in @ : r.seq > LastSeq(f)}]

Imported(doc) ==
  [EmptyField EXCEPT !.snapshot = doc,
                     !.byteTotal = Cardinality(doc),
                     !.frozen = Cardinality(doc) > MaxField]

Writable(t) == t \in Writers /\ ~field.frozen /\ t \notin refused

Refuses(t, update) == t \notin Writers \/ Cardinality(update) > MaxUpdate \/ field.frozen

-----------------------------------------------------------------------------
(* The server's handlers. *)

Send(t, m) == [down EXCEPT ![t] = Append(@, m)]
Relay(t, m) == [u \in Tabs |-> IF u \in live \ {t} THEN Append(down[u], m) ELSE down[u]]

\* Mutant: the cached document falls behind.
CacheAfterStale(update) == cached
\* An update also goes into the cached document.
CacheAfter(update) == IF cached # None THEN cached \cup update ELSE None

\* A frame of a socket that is closed or defunct is dropped.
DropFrame(t) ==
  /\ up[t] # <<>> /\ t \notin live
  /\ up' = [up EXCEPT ![t] = Tail(@)]
  /\ UNCHANGED <<serverVars, tabVars, down, historyVars, trouble>>

ServeGet(t) ==
  /\ up[t] # <<>> /\ t \in live
  /\ Head(up[t]).type = "get"
  /\ cached' = Loaded
  /\ up' = [up EXCEPT ![t] = Tail(@)]
  /\ down' = Send(t, [type |-> "state", writable |-> Writable(t),
                      vector |-> Integrated(Loaded),
                      diff |-> Diff(Loaded, Head(up[t]).vector)])
  /\ UNCHANGED <<field, refused, live, tabVars, historyVars, trouble>>

\* handleUpdate: a socket that was refused once is ignored, an update the field
\* may not take is refused, and any other is appended and then relayed.
ServeUpdate(t) ==
  /\ up[t] # <<>> /\ t \in live
  /\ Head(up[t]).type = "update"
  /\ up' = [up EXCEPT ![t] = Tail(@)]
  /\ LET update == Head(up[t]).ops IN
     \/ /\ t \in refused
        /\ UNCHANGED <<field, cached, refused, down, accepted>>
     \/ /\ t \notin refused /\ Refuses(t, update)
        /\ refused' = refused \cup {t}
        /\ down' = Send(t, [type |-> "reject"])
        /\ UNCHANGED <<field, cached, accepted>>
     \/ /\ t \notin refused /\ ~Refuses(t, update)
        /\ field' = Appended(field, update)
        /\ cached' = CacheAfter(update)
        /\ down' = Relay(t, [type |-> "update", ops |-> update])
        /\ accepted' = accepted \cup update
        /\ UNCHANGED refused
  /\ UNCHANGED <<live, tabVars, exported, wiped, trouble>>

\* The maintenance alarm compacts the field when its log is long.
CompactField ==
  /\ Cardinality(field.updates) > Threshold
  /\ field' = Compacted(field)
  /\ cached' = Materialized(field)
  /\ UNCHANGED <<refused, live, tabVars, up, down, historyVars, trouble>>

\* The object hibernated and wakes: the sockets stay, what was in memory does not.
Wake ==
  /\ Happens("wake")
  /\ cached' = None /\ refused' = {}
  /\ UNCHANGED <<field, live, tabVars, up, down, historyVars>>

\* Loads of other fields push this one out of the cache.
Evict ==
  /\ Happens("evict")
  /\ cached # None /\ cached' = None
  /\ UNCHANGED <<field, refused, live, tabVars, up, down, historyVars>>

Export ==
  /\ "import" \in Troubles
  /\ exported = None
  /\ exported' = Materialized(field)
  /\ cached' = Materialized(field)
  /\ UNCHANGED <<field, refused, live, tabVars, up, down, accepted, wiped, trouble>>

\* An import with field data: every socket is marked defunct and closed.
Import ==
  /\ Happens("import")
  /\ exported # None
  /\ field' = Imported(exported)
  /\ cached' = None
  /\ wiped' = wiped \cup {"import"}
  /\ live' = {}
  /\ down' = [t \in Tabs |-> IF t \in live THEN Append(down[t], [type |-> "close"]) ELSE down[t]]
  /\ UNCHANGED <<refused, tabVars, up, exported, accepted>>

\* The admin reset: the tables go, the sockets stay and stay ready.
Reset ==
  /\ Happens("reset")
  /\ field' = EmptyField
  /\ cached' = None /\ refused' = {}
  /\ wiped' = wiped \cup {"reset"}
  /\ UNCHANGED <<live, tabVars, up, down, exported, accepted>>

-----------------------------------------------------------------------------
(* The tabs. *)

Get(e) == [type |-> "get", vector |-> Integrated(e.doc)]

\* Mutant: the handle stays writable.
BlockedWritable(e, update) ==
  IF Cardinality(update) > MaxUpdate THEN [e EXCEPT !.rejected = TRUE] ELSE e

\* sendUpdate: the local guard gives the field up rather than send too much.
Blocked(e, update) ==
  IF Cardinality(update) > MaxUpdate
  THEN [e EXCEPT !.rejected = TRUE, !.canWrite = FALSE] ELSE e
UpdateFrames(update) ==
  IF update = {} \/ Cardinality(update) > MaxUpdate THEN <<>>
  ELSE <<[type |-> "update", ops |-> update]>>

NewEntry(gen) ==
  [gen |-> gen, doc |-> {}, canWrite |-> FALSE, rejected |-> FALSE, synced |-> FALSE]

GetDoc(t) ==
  /\ entry[t] = None /\ handles[t] < MaxHandles
  /\ handles' = [handles EXCEPT ![t] = @ + 1]
  /\ entry' = [entry EXCEPT ![t] = NewEntry(handles[t] + 1)]
  /\ up' = IF socket[t] = "synced"
           THEN [up EXCEPT ![t] = Append(@, Get(NewEntry(0)))] ELSE up
  /\ UNCHANGED <<serverVars, socket, down, historyVars, trouble>>

\* The last holder releases the handle, or the tab is gone.
Release(t) ==
  /\ Happens("release")
  /\ entry[t] # None
  /\ entry' = [entry EXCEPT ![t] = None]
  /\ UNCHANGED <<serverVars, socket, handles, up, down, historyVars>>

Clock(e, t) == Cardinality({op \in e.doc : op[1] = t /\ op[2] = e.gen})

\* A local edit: it stays in the document until the tab may send.
Edit(t, n) ==
  /\ entry[t] # None /\ Len(up[t]) < MaxUp
  /\ Clock(entry[t], t) + n <= MaxClock
  /\ LET e == entry[t]
         update == {<<t, e.gen, Clock(e, t) + i>> : i \in 1..n}
         sends == e.canWrite /\ socket[t] = "synced"
         edited == [e EXCEPT !.doc = @ \cup update]
     IN /\ entry' = [entry EXCEPT ![t] = IF sends THEN Blocked(edited, update) ELSE edited]
        /\ up' = [up EXCEPT ![t] = @ \o (IF sends THEN UpdateFrames(update) ELSE <<>>)]
  /\ UNCHANGED <<serverVars, socket, handles, down, historyVars, trouble>>

\* The rows' hello is served and answered: the socket is ready at the server,
\* and the tab is synced when the answer arrives.
\* Mutant: a status nothing else knows.
ConnectReady(t) ==
  /\ socket[t] = "closed"
  /\ socket' = [socket EXCEPT ![t] = "ready"]
  /\ live' = live \cup {t}
  /\ down' = [down EXCEPT ![t] = <<[type |-> "ready"]>>]
  /\ UNCHANGED <<field, cached, refused, entry, handles, up, historyVars, trouble>>
Connect(t) ==
  /\ socket[t] = "closed"
  /\ socket' = [socket EXCEPT ![t] = "syncing"]
  /\ live' = live \cup {t}
  /\ down' = [down EXCEPT ![t] = <<[type |-> "ready"]>>]
  /\ UNCHANGED <<field, cached, refused, entry, handles, up, historyVars, trouble>>

HangUp(t) ==
  /\ socket' = [socket EXCEPT ![t] = "closed"]
  /\ live' = live \ {t}
  /\ refused' = refused \ {t}
  /\ up' = [up EXCEPT ![t] = <<>>]
  /\ down' = [down EXCEPT ![t] = <<>>]
  /\ UNCHANGED <<field, cached, entry, handles, historyVars>>

\* The connection breaks and takes the frames of both directions with it.
Disconnect(t) ==
  /\ Happens("disconnect")
  /\ socket[t] # "closed"
  /\ HangUp(t)

Receives(t, type) == down[t] # <<>> /\ Head(down[t]).type = type
Consumed(t) == [down EXCEPT ![t] = Tail(@)]

ReceiveClose(t) ==
  /\ Receives(t, "close")
  /\ HangUp(t)
  /\ UNCHANGED trouble

ReceiveReady(t) ==
  /\ Receives(t, "ready")
  /\ down' = Consumed(t)
  /\ socket' = [socket EXCEPT ![t] = "synced"]
  /\ up' = IF entry[t] # None THEN [up EXCEPT ![t] = Append(@, Get(entry[t]))] ELSE up
  /\ UNCHANGED <<serverVars, entry, handles, historyVars, trouble>>

\* A frame for a field this tab does not hold is ignored.
IgnoreFrame(t) ==
  /\ down[t] # <<>> /\ Head(down[t]).type \in {"state", "update", "reject"}
  /\ entry[t] = None
  /\ down' = Consumed(t)
  /\ UNCHANGED <<serverVars, tabVars, up, historyVars, trouble>>

ReceiveUpdate(t) ==
  /\ Receives(t, "update") /\ entry[t] # None
  /\ down' = Consumed(t)
  /\ entry' = [entry EXCEPT ![t].doc = @ \cup Head(down[t]).ops]
  /\ UNCHANGED <<serverVars, socket, handles, up, historyVars, trouble>>

\* What a STATE makes of the handle, before the push-back.
Stated(e, m) ==
  [e EXCEPT !.doc = @ \cup m.diff,
            !.canWrite = m.writable /\ ~e.rejected,
            !.synced = TRUE]

\* A STATE: apply the difference and, if this tab may write, send back what
\* the server's state vector misses.
ReceiveState(t) ==
  /\ Receives(t, "state") /\ entry[t] # None
  /\ down' = Consumed(t)
  /\ LET e == Stated(entry[t], Head(down[t]))
         pushBack == IF e.canWrite THEN Diff(e.doc, Head(down[t]).vector) ELSE {}
     IN /\ entry' = [entry EXCEPT ![t] = Blocked(e, pushBack)]
        /\ up' = [up EXCEPT ![t] = @ \o UpdateFrames(pushBack)]
  /\ UNCHANGED <<serverVars, socket, handles, historyVars, trouble>>

ReceiveReject(t) ==
  /\ Receives(t, "reject") /\ entry[t] # None
  /\ down' = Consumed(t)
  /\ entry' = [entry EXCEPT ![t].rejected = TRUE, ![t].canWrite = FALSE]
  /\ UNCHANGED <<serverVars, socket, handles, up, historyVars, trouble>>

-----------------------------------------------------------------------------
Frames(t) ==
  \/ DropFrame(t) \/ ServeGet(t) \/ ServeUpdate(t)
  \/ ReceiveClose(t) \/ ReceiveReady(t) \/ IgnoreFrame(t)
  \/ ReceiveUpdate(t) \/ ReceiveState(t) \/ ReceiveReject(t)

Next ==
  \/ \E t \in Tabs :
       \/ Frames(t) \/ Connect(t) \/ Disconnect(t)
       \/ GetDoc(t) \/ Release(t)
       \/ \E n \in Pastes : Edit(t, n)
  \/ CompactField \/ Wake \/ Evict \/ Export \/ Import \/ Reset

FieldSpec == FieldInit /\ [][Next]_vars

-----------------------------------------------------------------------------
(* Properties. *)

\* Persist-then-broadcast (server.ts handleUpdate): until an import or a reset
\* replaces the log, an operation that reached a tab from elsewhere can be read
\* back from the server's rows, through every compaction and wake.
ReadableBack ==
  wiped = {} => \A t \in Tabs : entry[t] # None =>
    \A op \in entry[t].doc :
      (op[1] = t /\ op[2] = entry[t].gen) \/ op \in Materialized(field)

\* No accepted update is lost from the rows (server.ts compactField, handleUpdate):
\* a row whose seq does not exceed the snapshot's would never be read again.
AcceptedSurvives == wiped = {} => accepted \subseteq Materialized(field)

\* Log coherence (server.ts handleUpdate, the cached doc): a cached document is
\* what the rows hold, or the next GET serves an incomplete difference.
CacheCoherent == cached # None => cached = Materialized(field)

Quiet == \A t \in Tabs : up[t] = <<>> /\ down[t] = <<>>

\* Every held document is the server's: what the reset handler (do.ts) says of
\* the clients it leaves connected.
FieldsAgree ==
  Quiet => \A t \in Tabs : socket[t] = "synced" /\ entry[t] # None =>
    /\ entry[t].synced
    /\ Materialized(field) \subseteq entry[t].doc
    /\ entry[t].canWrite => entry[t].doc \subseteq Materialized(field)

\* The handshake converges (client.ts onFrame): when nothing is in flight, the
\* handle of a synced tab got its STATE and holds all the server has, and the server has all that a
\* tab with write access holds, whatever broke, woke or was restored, as long
\* as the workspace was not reset.
QuietAgrees == "reset" \notin wiped => FieldsAgree

\* A handle shows only whole prefixes (server.ts refused): the operations the
\* server parks wait for one that the tab that made it still holds, so its next
\* STATE brings it; otherwise the field is truncated for every later reader.
GapsHeal ==
  \A op \in Materialized(field) \ Integrated(Materialized(field)) :
    entry[op[1]] # None /\ entry[op[1]].gen = op[2] /\ ~entry[op[1]].rejected
=============================================================================
