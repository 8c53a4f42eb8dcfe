------------------------------- MODULE YjsProofs -------------------------------
(***************************************************************************)
(* Proofs about YjsFields, for any tabs, limits, edits and troubles.       *)
(* First the store: its rows are numbered upwards past the snapshot, so an *)
(* append adds exactly its operations to the document the rows hold and a  *)
(* compaction changes nothing of it.  Then the links: what is on its way   *)
(* to a tab, together with what the tab holds, always suffices to bring    *)
(* the two documents together.                                             *)
(***************************************************************************)
EXTENDS YjsFields, FiniteSetTheorems, TLAPS

FieldRows ==
  [snapshot : SUBSET Ops, snapshotSeq : Nat, updates : SUBSET UpdateRows,
   byteTotal : Nat, frozen : BOOLEAN]

\* The rows of yjs_updates follow the snapshot, and one of them is the last.
Ordered(f) ==
  /\ \A r \in f.updates : f.snapshotSeq < r.seq
  /\ f.updates # {} => \E r \in f.updates : \A q \in f.updates : q.seq <= r.seq

\* A handle's number is one its tab has given out.
EntriesNumbered == \A t \in Tabs : entry[t] # None => entry[t].gen \in 1..handles[t]

FieldInv == FieldTypeOK /\ Ordered(field) /\ CacheCoherent /\ EntriesNumbered

-----------------------------------------------------------------------------
(* Sizes *)

LEMMA OpsFinite == IsFiniteSet(Ops)
<1> DEFINE Handles == 1..MaxHandles
           Clocks == 1..MaxClock
           Pairs == (Tabs \X Handles) \X Clocks
           flat == [p \in Pairs |-> <<p[1][1], p[1][2], p[2]>>]
<1>1. IsFiniteSet(Handles) /\ IsFiniteSet(Clocks)
  <2>1. 1 \in Int /\ MaxHandles \in Int /\ MaxClock \in Int
    BY FieldAssumption
  <2> QED BY <2>1, FS_Interval
<1>2. IsFiniteSet(Tabs \X Handles)
  BY <1>1, FS_Product, FieldAssumption
<1>3. IsFiniteSet(Pairs)
  BY <1>1, <1>2, FS_Product
<1>4. flat \in [Pairs -> Ops]
  BY DEF Ops
<1>5. ASSUME NEW op \in Ops
      PROVE  \E p \in Pairs : flat[p] = op
  <2>1. PICK t \in Tabs, h \in Handles, n \in Clocks : op = <<t, h, n>>
    BY DEF Ops
  <2>2. <<<<t, h>>, n>> \in Pairs /\ flat[<<<<t, h>>, n>>] = op
    BY <2>1
  <2> QED BY <2>2
<1>6. flat \in Surjection(Pairs, Ops)
  BY <1>4, <1>5 DEF Surjection
<1> QED BY <1>3, <1>6, FS_Surjection

LEMMA SizeOf ==
  ASSUME NEW update \in SUBSET Ops
  PROVE  Cardinality(update) \in Nat
BY OpsFinite, FS_Subset, FS_CardinalityType

-----------------------------------------------------------------------------
(* The document the rows hold *)

LEMMA MaterializedIs ==
  ASSUME NEW f \in FieldRows, Ordered(f)
  PROVE  /\ Materialized(f) = f.snapshot \cup UNION {r.bytes : r \in f.updates}
         /\ Materialized(f) \in SUBSET Ops
<1>1. f.snapshotSeq \in Nat /\ \A r \in f.updates : r.seq \in Nat /\ r.bytes \in SUBSET Ops
  BY DEF FieldRows, UpdateRows
<1>2. UpdatesAfter(f) = f.updates
  BY <1>1 DEF UpdatesAfter, Ordered
<1>3. f.snapshot \in SUBSET Ops
  BY DEF FieldRows
<1> QED BY <1>1, <1>2, <1>3 DEF Materialized

LEMMA LastSeqIs ==
  ASSUME NEW f \in FieldRows, Ordered(f)
  PROVE  /\ LastSeq(f) \in Nat
         /\ f.snapshotSeq <= LastSeq(f)
         /\ \A r \in f.updates : r.seq <= LastSeq(f)
<1>1. f.snapshotSeq \in Nat /\ \A r \in f.updates : r.seq \in Nat
  BY DEF FieldRows, UpdateRows
<1>2. CASE f.updates = {}
  BY <1>1, <1>2 DEF LastSeq
<1>3. CASE f.updates # {}
  <2>1. PICK r \in f.updates : \A q \in f.updates : q.seq <= r.seq
    BY <1>3 DEF Ordered
  <2>2. r.seq \in {q.seq : q \in f.updates} /\ \A q \in f.updates : q.seq <= r.seq
    BY <2>1
  <2>3. /\ LastSeq(f) \in {q.seq : q \in f.updates}
        /\ \A q \in f.updates : q.seq <= LastSeq(f)
    BY <1>3, <2>2 DEF LastSeq
  <2>4. f.snapshotSeq < r.seq /\ r.seq <= LastSeq(f)
    BY <2>3 DEF Ordered
  <2> QED BY <1>1, <2>3, <2>4
<1> QED BY <1>2, <1>3

LEMMA EmptyIs ==
  EmptyField \in FieldRows /\ Ordered(EmptyField) /\ Materialized(EmptyField) = {}
BY FieldAssumption DEF EmptyField, FieldRows, Ordered, Materialized, UpdatesAfter

\* An append (server.ts handleUpdate) adds its operations and no others.
LEMMA AppendedIs ==
  ASSUME NEW f \in FieldRows, Ordered(f), NEW update \in SUBSET Ops
  PROVE  /\ Appended(f, update) \in FieldRows
         /\ Ordered(Appended(f, update))
         /\ Materialized(Appended(f, update)) = Materialized(f) \cup update
<1> DEFINE g == Appended(f, update)
           row == [seq |-> LastSeq(f) + 1, bytes |-> update]
<1>1. /\ LastSeq(f) \in Nat
      /\ f.snapshotSeq <= LastSeq(f)
      /\ \A r \in f.updates : r.seq <= LastSeq(f)
  BY LastSeqIs
<1>2. /\ f.snapshotSeq \in Nat /\ f.byteTotal \in Nat /\ f.snapshot \in SUBSET Ops
      /\ f.updates \in SUBSET UpdateRows
      /\ \A r \in f.updates : r.seq \in Nat
  BY DEF FieldRows, UpdateRows
<1>3. row \in UpdateRows
  BY <1>1 DEF UpdateRows
<1>4. f.byteTotal + Cardinality(update) \in Nat
  BY <1>2, SizeOf
<1>5. (f.byteTotal + Cardinality(update) > MaxField) \in BOOLEAN
  OBVIOUS
<1>6. /\ g.snapshot = f.snapshot /\ g.snapshotSeq = f.snapshotSeq
      /\ g.updates = f.updates \cup {row}
  BY DEF Appended, FieldRows
<1>7. g \in FieldRows
  BY <1>2, <1>3, <1>4, <1>5 DEF Appended, FieldRows
<1>8. Ordered(g)
  <2>1. \A r \in g.updates : r.seq <= row.seq /\ g.snapshotSeq < r.seq
    BY <1>1, <1>2, <1>6 DEF Ordered
  <2> QED BY <1>6, <2>1 DEF Ordered
<1>9. (UNION {r.bytes : r \in g.updates}) = (UNION {r.bytes : r \in f.updates}) \cup update
  <2>1. (UNION {r.bytes : r \in f.updates \cup {row}})
          = (UNION {r.bytes : r \in f.updates}) \cup row.bytes
    OBVIOUS
  <2> QED BY <1>6, <2>1
<1>10. /\ Materialized(g) = g.snapshot \cup UNION {r.bytes : r \in g.updates}
       /\ Materialized(f) = f.snapshot \cup UNION {r.bytes : r \in f.updates}
  BY <1>7, <1>8, MaterializedIs
<1> HIDE DEF g
<1>11. Materialized(g) = Materialized(f) \cup update
  BY <1>6, <1>9, <1>10
<1> QED BY <1>7, <1>8, <1>11 DEF g

\* A compaction (server.ts compactField) keeps the document.
LEMMA CompactedIs ==
  ASSUME NEW f \in FieldRows, Ordered(f)
  PROVE  /\ Compacted(f) \in FieldRows
         /\ Ordered(Compacted(f))
         /\ Materialized(Compacted(f)) = Materialized(f)
<1>1. /\ LastSeq(f) \in Nat
      /\ \A r \in f.updates : r.seq <= LastSeq(f)
  BY LastSeqIs
<1>2. \A r \in f.updates : r.seq \in Nat
  BY DEF FieldRows, UpdateRows
<1>3. {r \in f.updates : r.seq > LastSeq(f)} = {}
  BY <1>1, <1>2
<1>4. Materialized(f) \in SUBSET Ops /\ Cardinality(Materialized(f)) \in Nat
  BY MaterializedIs, SizeOf
<1>5. /\ Compacted(f).snapshot = Materialized(f) /\ Compacted(f).updates = {}
      /\ Compacted(f) \in FieldRows
  BY <1>1, <1>3, <1>4 DEF Compacted, FieldRows
<1>6. Ordered(Compacted(f))
  BY <1>5 DEF Ordered
<1>7. Materialized(Compacted(f)) = Compacted(f).snapshot \cup UNION {r.bytes : r \in {}}
  BY <1>5, <1>6, MaterializedIs
<1> QED BY <1>5, <1>6, <1>7

LEMMA ImportedIs ==
  ASSUME NEW doc \in SUBSET Ops
  PROVE  Imported(doc) \in FieldRows /\ Ordered(Imported(doc))
<1>1. Cardinality(doc) \in Nat /\ (Cardinality(doc) > MaxField) \in BOOLEAN
  BY SizeOf
<1>2. Imported(doc) \in FieldRows /\ Imported(doc).updates = {}
  BY <1>1 DEF Imported, EmptyField, FieldRows
<1> QED BY <1>2 DEF Ordered

-----------------------------------------------------------------------------
(* Types *)

LEMMA AppendTyped ==
  ASSUME NEW S, NEW s \in Seq(S), NEW e \in S
  PROVE  Append(s, e) \in Seq(S)
  OBVIOUS

LEMMA TailTyped ==
  ASSUME NEW S, NEW s \in Seq(S), s # <<>>
  PROVE  Tail(s) \in Seq(S) /\ Head(s) \in S
  OBVIOUS

LEMMA ConcatTyped ==
  ASSUME NEW S, NEW s \in Seq(S), NEW u \in Seq(S)
  PROVE  s \o u \in Seq(S)
  OBVIOUS

LEMMA HeadFrames ==
  ASSUME FieldTypeOK, NEW t \in Tabs
  PROVE  /\ up[t] # <<>> =>
              /\ Tail(up[t]) \in Seq(UpFrames)
              /\ Head(up[t]).type \in {"get", "update"}
              /\ Head(up[t]).type = "get" => Head(up[t]).vector \in SUBSET Ops
              /\ Head(up[t]).type = "update" => Head(up[t]).ops \in SUBSET Ops
         /\ down[t] # <<>> =>
              /\ Tail(down[t]) \in Seq(DownFrames)
              /\ Head(down[t]).type = "update" => Head(down[t]).ops \in SUBSET Ops
              /\ Head(down[t]).type = "state" =>
                   /\ Head(down[t]).diff \in SUBSET Ops
                   /\ Head(down[t]).vector \in SUBSET Ops
                   /\ Head(down[t]).writable \in BOOLEAN
<1>1. up[t] \in Seq(UpFrames) /\ down[t] \in Seq(DownFrames)
  BY DEF FieldTypeOK
<1>2. ASSUME up[t] # <<>>
      PROVE  Tail(up[t]) \in Seq(UpFrames) /\ Head(up[t]) \in UpFrames
  BY <1>1, <1>2, TailTyped
<1>3. ASSUME down[t] # <<>>
      PROVE  Tail(down[t]) \in Seq(DownFrames) /\ Head(down[t]) \in DownFrames
  BY <1>1, <1>3, TailTyped
<1>4. \A m \in UpFrames :
        /\ m.type \in {"get", "update"}
        /\ m.type = "get" => m.vector \in SUBSET Ops
        /\ m.type = "update" => m.ops \in SUBSET Ops
  BY DEF UpFrames
<1>5. \A m \in DownFrames :
        /\ m.type = "update" => m.ops \in SUBSET Ops
        /\ m.type = "state" =>
             m.diff \in SUBSET Ops /\ m.vector \in SUBSET Ops /\ m.writable \in BOOLEAN
  BY DEF DownFrames
<1> QED BY <1>2, <1>3, <1>4, <1>5

LEMMA SendTyped ==
  ASSUME FieldTypeOK, NEW t \in Tabs, NEW m \in DownFrames
  PROVE  /\ Send(t, m) \in [Tabs -> Seq(DownFrames)]
         /\ Relay(t, m) \in [Tabs -> Seq(DownFrames)]
<1>1. down \in [Tabs -> Seq(DownFrames)]
  BY DEF FieldTypeOK
<1>2. \A u \in Tabs : Append(down[u], m) \in Seq(DownFrames)
  BY <1>1, AppendTyped
<1> QED BY <1>1, <1>2 DEF Send, Relay

LEMMA EntryIs ==
  ASSUME FieldTypeOK, NEW t \in Tabs, entry[t] # None
  PROVE  entry[t] \in Entries
BY DEF FieldTypeOK

LEMMA FieldIs == FieldTypeOK => field \in FieldRows
BY DEF FieldTypeOK, FieldRows

LEMMA LoadedIs ==
  ASSUME FieldInv
  PROVE  Loaded = Materialized(field) /\ Materialized(field) \in SUBSET Ops
BY FieldIs, MaterializedIs DEF FieldInv, Loaded, CacheCoherent

\* What a step makes of the store.
StoreInv == /\ field \in FieldRows
            /\ cached \in (SUBSET Ops) \cup {None}
            /\ Ordered(field)
            /\ CacheCoherent
\* The document grows, unless an import or a reset replaces it.
Kept == \/ /\ Materialized(field) \subseteq Materialized(field)'
           /\ wiped' = wiped
        \/ live' = {} /\ wiped' = wiped \cup {"import"}
        \/ wiped' = wiped \cup {"reset"}

LEMMA StepStore ==
  ASSUME FieldInv, [Next]_vars
  PROVE  StoreInv' /\ Kept
<1> USE DEF serverVars, tabVars, historyVars
<1>1. /\ field \in FieldRows /\ cached \in (SUBSET Ops) \cup {None}
      /\ Ordered(field) /\ CacheCoherent
      /\ Loaded = Materialized(field) /\ Materialized(field) \in SUBSET Ops
  BY FieldIs, LoadedIs DEF FieldInv, FieldTypeOK
<1>2. ASSUME UNCHANGED <<field, cached, wiped>>
      PROVE  StoreInv' /\ Kept
  BY <1>1, <1>2 DEF StoreInv, Kept, Ordered, CacheCoherent, Materialized, UpdatesAfter
<1>3. ASSUME field' \in FieldRows, Ordered(field'), cached' \in (SUBSET Ops) \cup {None},
             cached' # None => cached' = Materialized(field')
      PROVE  StoreInv'
  BY <1>3 DEF StoreInv, Ordered, CacheCoherent, Materialized, UpdatesAfter
<1>4. Materialized(field)' = Materialized(field')
  BY DEF Materialized, UpdatesAfter
<1>5. ASSUME NEW t \in Tabs, ServeGet(t)
      PROVE  StoreInv' /\ Kept
  BY <1>1, <1>3, <1>4, <1>5 DEF ServeGet, Kept
<1>6. ASSUME NEW t \in Tabs, ServeUpdate(t)
      PROVE  StoreInv' /\ Kept
  <2>1. PICK update \in SUBSET Ops : update = Head(up[t]).ops
    BY <1>6, HeadFrames DEF FieldInv, ServeUpdate
  <2>2. CASE UNCHANGED <<field, cached>>
    BY <1>2, <1>6, <2>2 DEF ServeUpdate
  <2>3. CASE field' = Appended(field, update) /\ cached' = CacheAfter(update)
    <3>1. /\ field' \in FieldRows /\ Ordered(field')
          /\ Materialized(field') = Materialized(field) \cup update
      BY <1>1, <2>3, AppendedIs
    <3>2. cached' \in (SUBSET Ops) \cup {None} /\ (cached' # None => cached' = Materialized(field'))
      BY <1>1, <2>3, <3>1 DEF CacheAfter, CacheCoherent
    <3> QED BY <1>3, <1>4, <1>6, <3>1, <3>2 DEF Kept, ServeUpdate
  <2> QED BY <1>6, <2>1, <2>2, <2>3 DEF ServeUpdate
<1>7. ASSUME CompactField
      PROVE  StoreInv' /\ Kept
  <2>1. /\ field' \in FieldRows /\ Ordered(field')
        /\ Materialized(field') = Materialized(field)
    BY <1>1, <1>7, CompactedIs DEF CompactField
  <2> QED BY <1>1, <1>3, <1>4, <1>7, <2>1 DEF CompactField, Kept
<1>8. ASSUME Wake \/ Evict
      PROVE  StoreInv' /\ Kept
  BY <1>1, <1>3, <1>4, <1>8 DEF Wake, Evict, Kept
<1>9. ASSUME Export
      PROVE  StoreInv' /\ Kept
  BY <1>1, <1>3, <1>4, <1>9 DEF Export, Kept
<1>10. ASSUME Import
       PROVE  StoreInv' /\ Kept
  <2>1. exported \in SUBSET Ops
    BY <1>10 DEF Import, FieldInv, FieldTypeOK
  <2> QED BY <1>3, <1>10, <2>1, ImportedIs DEF Import, Kept
<1>11. ASSUME Reset
       PROVE  StoreInv' /\ Kept
  BY <1>3, <1>11, EmptyIs DEF Reset, Kept
<1>12. ASSUME NEW t \in Tabs,
              \/ DropFrame(t) \/ ReceiveClose(t) \/ ReceiveReady(t) \/ IgnoreFrame(t)
              \/ ReceiveUpdate(t) \/ ReceiveState(t) \/ ReceiveReject(t)
              \/ Connect(t) \/ Disconnect(t) \/ GetDoc(t) \/ Release(t)
              \/ \E n \in Pastes : Edit(t, n)
       PROVE  StoreInv' /\ Kept
  <2>1. UNCHANGED <<field, cached, wiped>>
    BY <1>12 DEF DropFrame, ReceiveClose, HangUp, ReceiveReady, IgnoreFrame, ReceiveUpdate,
         ReceiveState, ReceiveReject, Connect, Disconnect, GetDoc, Release, Edit
  <2> QED BY <1>2, <2>1
<1>13. CASE UNCHANGED vars
  BY <1>2, <1>13 DEF vars
<1> QED
  BY <1>5, <1>6, <1>7, <1>8, <1>9, <1>10, <1>11, <1>12, <1>13 DEF Next, Frames

LEMMA GetTyped ==
  ASSUME NEW e, e.doc \in SUBSET Ops
  PROVE  Get(e) \in UpFrames
BY DEF Get, Integrated, UpFrames

LEMMA BlockedTyped ==
  ASSUME NEW e \in Entries, NEW update \in SUBSET Ops
  PROVE  /\ Blocked(e, update) \in Entries
         /\ Blocked(e, update).gen = e.gen
         /\ UpdateFrames(update) \in Seq(UpFrames)
<1>1. Blocked(e, update) \in Entries /\ Blocked(e, update).gen = e.gen
  BY DEF Blocked, Entries
<1>2. [type |-> "update", ops |-> update] \in UpFrames
  BY DEF UpFrames
<1>3. UpdateFrames(update) \in Seq(UpFrames)
  BY <1>2 DEF UpdateFrames
<1> QED BY <1>1, <1>3

\* The operations of an edit carry the number of its handle.
LEMMA EditedTyped ==
  ASSUME FieldInv, NEW t \in Tabs, entry[t] # None, NEW n \in Pastes,
         Clock(entry[t], t) + n <= MaxClock
  PROVE  {<<t, entry[t].gen, Clock(entry[t], t) + i>> : i \in 1..n} \in SUBSET Ops
<1>1. entry[t] \in Entries /\ entry[t].gen \in 1..handles[t]
  BY EntryIs DEF FieldInv, EntriesNumbered
<1>2. handles[t] \in 0..MaxHandles /\ MaxHandles \in Nat /\ MaxClock \in Nat /\ n \in Nat
  BY FieldAssumption DEF FieldInv, FieldTypeOK
<1>3. entry[t].gen \in 1..MaxHandles
  BY <1>1, <1>2
<1>4. Clock(entry[t], t) \in Nat
  <2>1. {op \in entry[t].doc : op[1] = t /\ op[2] = entry[t].gen} \in SUBSET Ops
    BY <1>1 DEF Entries
  <2> QED BY <2>1, SizeOf DEF Clock
<1>5. \A i \in 1..n : Clock(entry[t], t) + i \in 1..MaxClock
  BY <1>2, <1>4
<1> QED BY <1>3, <1>5 DEF Ops

LEMMA ClosedTyped ==
  ASSUME FieldTypeOK
  PROVE  [t \in Tabs |-> IF t \in live THEN Append(down[t], [type |-> "close"]) ELSE down[t]]
           \in [Tabs -> Seq(DownFrames)]
<1>1. [type |-> "close"] \in DownFrames /\ down \in [Tabs -> Seq(DownFrames)]
  BY DEF DownFrames, FieldTypeOK
<1>2. \A t \in Tabs : Append(down[t], [type |-> "close"]) \in Seq(DownFrames)
  BY <1>1, AppendTyped
<1> QED BY <1>1, <1>2

TabTypeOK ==
  /\ refused \subseteq Tabs
  /\ live \subseteq Tabs
  /\ socket \in [Tabs -> {"closed", "syncing", "synced"}]
  /\ entry \in [Tabs -> Entries \cup {None}]
  /\ handles \in [Tabs -> 0..MaxHandles]
  /\ up \in [Tabs -> Seq(UpFrames)]
  /\ down \in [Tabs -> Seq(DownFrames)]
  /\ exported \in (SUBSET Ops) \cup {None}
  /\ accepted \subseteq Ops
  /\ wiped \subseteq {"import", "reset"}
  /\ trouble \in 0..MaxTrouble

TabInv == TabTypeOK /\ EntriesNumbered

LEMMA FieldInvIs == FieldInv <=> StoreInv /\ TabInv
BY DEF FieldInv, FieldTypeOK, StoreInv, TabInv, TabTypeOK, FieldRows

LEMMA HappensTyped ==
  ASSUME TabTypeOK, NEW kind, Happens(kind)
  PROVE  trouble' \in 0..MaxTrouble
BY FieldAssumption DEF Happens, TabTypeOK

LEMMA ServerTabs ==
  ASSUME FieldInv,
         \/ CompactField \/ Wake \/ Evict \/ Export \/ Import \/ Reset
         \/ \E t \in Tabs : DropFrame(t) \/ ServeGet(t) \/ ServeUpdate(t)
  PROVE  TabInv'
<1> USE DEF serverVars, tabVars, historyVars
<1>1. TabTypeOK /\ EntriesNumbered /\ FieldTypeOK
  BY FieldInvIs DEF TabInv, FieldInv
<1>2. ASSUME UNCHANGED <<entry, handles>>
      PROVE  EntriesNumbered'
  BY <1>1, <1>2 DEF EntriesNumbered
<1>3. CASE CompactField
  BY <1>1, <1>2, <1>3 DEF CompactField, TabInv, TabTypeOK
<1>4. CASE Wake \/ Evict
  BY <1>1, <1>2, <1>4, HappensTyped DEF Wake, Evict, TabInv, TabTypeOK
<1>5. CASE Export
  BY <1>1, <1>2, <1>5, LoadedIs DEF Export, TabInv, TabTypeOK
<1>6. CASE Import
  BY <1>1, <1>2, <1>6, HappensTyped, ClosedTyped DEF Import, TabInv, TabTypeOK
<1>7. CASE Reset
  BY <1>1, <1>2, <1>7, HappensTyped DEF Reset, TabInv, TabTypeOK
<1>8. ASSUME NEW t \in Tabs, DropFrame(t)
      PROVE  TabInv'
  <2>1. up' \in [Tabs -> Seq(UpFrames)]
    BY <1>1, <1>8, HeadFrames DEF DropFrame, TabTypeOK
  <2> QED BY <1>1, <1>2, <1>8, <2>1 DEF DropFrame, TabInv, TabTypeOK
<1>9. ASSUME NEW t \in Tabs, ServeGet(t)
      PROVE  TabInv'
  <2>1. up' \in [Tabs -> Seq(UpFrames)]
    BY <1>1, <1>9, HeadFrames DEF ServeGet, TabTypeOK
  <2>2. [type |-> "state", writable |-> Writable(t), vector |-> Integrated(Loaded),
         diff |-> Diff(Loaded, Head(up[t]).vector)] \in DownFrames
    <3>1. Writable(t) \in BOOLEAN
      BY DEF Writable
    <3>2. Integrated(Loaded) \in SUBSET Ops /\ Diff(Loaded, Head(up[t]).vector) \in SUBSET Ops
      BY LoadedIs DEF Integrated, Diff
    <3> QED BY <3>1, <3>2 DEF DownFrames
  <2>3. down' \in [Tabs -> Seq(DownFrames)]
    BY <1>1, <1>9, <2>2, SendTyped DEF ServeGet
  <2> QED BY <1>1, <1>2, <1>9, <2>1, <2>3 DEF ServeGet, TabInv, TabTypeOK
<1>10. ASSUME NEW t \in Tabs, ServeUpdate(t)
       PROVE  TabInv'
  <2>1. up' \in [Tabs -> Seq(UpFrames)]
    BY <1>1, <1>10, HeadFrames DEF ServeUpdate, TabTypeOK
  <2>2. PICK update \in SUBSET Ops : update = Head(up[t]).ops
    BY <1>1, <1>10, HeadFrames DEF ServeUpdate
  <2>3. [type |-> "reject"] \in DownFrames /\ [type |-> "update", ops |-> update] \in DownFrames
    BY DEF DownFrames
  <2>4. /\ down' \in [Tabs -> Seq(DownFrames)]
        /\ refused' \subseteq Tabs /\ accepted' \subseteq Ops
    BY <1>1, <1>10, <2>2, <2>3, SendTyped DEF ServeUpdate, TabTypeOK
  <2> QED BY <1>1, <1>2, <1>10, <2>1, <2>4 DEF ServeUpdate, TabInv, TabTypeOK
<1> QED BY <1>3, <1>4, <1>5, <1>6, <1>7, <1>8, <1>9, <1>10

LEMMA TabTabs ==
  ASSUME FieldInv, NEW t \in Tabs,
         \/ ReceiveClose(t) \/ ReceiveReady(t) \/ IgnoreFrame(t)
         \/ ReceiveUpdate(t) \/ ReceiveState(t) \/ ReceiveReject(t)
         \/ Connect(t) \/ Disconnect(t) \/ GetDoc(t) \/ Release(t)
         \/ \E n \in Pastes : Edit(t, n)
  PROVE  TabInv'
<1> USE DEF serverVars, tabVars, historyVars
<1>1. TabTypeOK /\ EntriesNumbered /\ FieldTypeOK
  BY FieldInvIs DEF TabInv, FieldInv
<1>2. ASSUME UNCHANGED <<entry, handles>>
      PROVE  EntriesNumbered'
  BY <1>1, <1>2 DEF EntriesNumbered
<1>3. ASSUME HangUp(t), trouble' \in 0..MaxTrouble
      PROVE  TabInv'
  <2>1. <<>> \in Seq(UpFrames) /\ <<>> \in Seq(DownFrames)
    OBVIOUS
  <2> QED BY <1>1, <1>2, <1>3, <2>1 DEF HangUp, TabInv, TabTypeOK
<1>4. CASE ReceiveClose(t)
  BY <1>1, <1>3, <1>4 DEF ReceiveClose, TabTypeOK
<1>5. CASE Disconnect(t)
  BY <1>1, <1>3, <1>5, HappensTyped DEF Disconnect
<1>6. ASSUME down[t] # <<>>
      PROVE  Consumed(t) \in [Tabs -> Seq(DownFrames)]
  BY <1>1, <1>6, HeadFrames DEF Consumed, TabTypeOK
<1>7. CASE ReceiveReady(t)
  <2>1. entry[t] # None => Append(up[t], Get(entry[t])) \in Seq(UpFrames)
    <3>1. entry[t] # None => Get(entry[t]) \in UpFrames
      BY <1>1, EntryIs, GetTyped DEF Entries
    <3> QED BY <1>1, <3>1, AppendTyped DEF TabTypeOK
  <2>2. up' \in [Tabs -> Seq(UpFrames)]
    BY <1>1, <1>7, <2>1 DEF ReceiveReady, TabTypeOK
  <2> QED BY <1>1, <1>2, <1>6, <1>7, <2>2 DEF ReceiveReady, Receives, TabInv, TabTypeOK
<1>8. CASE IgnoreFrame(t)
  BY <1>1, <1>2, <1>6, <1>8 DEF IgnoreFrame, TabInv, TabTypeOK
<1>9. ASSUME NEW e \in Entries, entry' = [entry EXCEPT ![t] = e], e.gen \in 1..handles'[t],
             handles' \in [Tabs -> 0..MaxHandles], \A u \in Tabs \ {t} : handles'[u] = handles[u]
      PROVE  EntriesNumbered' /\ entry' \in [Tabs -> Entries \cup {None}]
  BY <1>1, <1>9 DEF EntriesNumbered, TabTypeOK
<1>10. ASSUME entry[t] # None
       PROVE  /\ entry[t] \in Entries /\ entry[t].gen \in 1..handles[t]
              /\ entry[t] = [gen |-> entry[t].gen, doc |-> entry[t].doc,
                   canWrite |-> entry[t].canWrite, rejected |-> entry[t].rejected,
                   synced |-> entry[t].synced]
  BY <1>1, <1>10, EntryIs DEF EntriesNumbered, Entries
<1>11. CASE ReceiveUpdate(t)
  <2>1. PICK e : e = [entry[t] EXCEPT !.doc = @ \cup Head(down[t]).ops]
    OBVIOUS
  <2>2. e \in Entries /\ e.gen = entry[t].gen /\ entry' = [entry EXCEPT ![t] = e]
    BY <1>1, <1>10, <1>11, <2>1, HeadFrames DEF ReceiveUpdate, Receives, Entries
  <2>3. EntriesNumbered' /\ entry' \in [Tabs -> Entries \cup {None}]
    BY <1>1, <1>9, <1>10, <1>11, <2>2 DEF ReceiveUpdate, TabTypeOK
  <2> QED BY <1>1, <1>6, <1>11, <2>3 DEF ReceiveUpdate, Receives, TabInv, TabTypeOK
<1>12. CASE ReceiveReject(t)
  <2>1. PICK e : e = [entry[t] EXCEPT !.rejected = TRUE, !.canWrite = FALSE]
    OBVIOUS
  <2>2. e \in Entries /\ e.gen = entry[t].gen /\ entry' = [entry EXCEPT ![t] = e]
    BY <1>1, <1>10, <1>12, <2>1 DEF ReceiveReject, Receives, Entries
  <2>3. EntriesNumbered' /\ entry' \in [Tabs -> Entries \cup {None}]
    BY <1>1, <1>9, <1>10, <1>12, <2>2 DEF ReceiveReject, TabTypeOK
  <2> QED BY <1>1, <1>6, <1>12, <2>3 DEF ReceiveReject, Receives, TabInv, TabTypeOK
<1>13. CASE ReceiveState(t)
  <2>1. PICK e : e = Stated(entry[t], Head(down[t]))
    OBVIOUS
  <2>2. PICK push : push = IF e.canWrite THEN Diff(e.doc, Head(down[t]).vector) ELSE {}
    OBVIOUS
  <2>3. e \in Entries /\ e.gen = entry[t].gen
    BY <1>1, <1>10, <1>13, <2>1, HeadFrames DEF ReceiveState, Receives, Stated, Entries
  <2>4. push \in SUBSET Ops
    BY <2>2, <2>3 DEF Diff, Entries
  <2>5. /\ Blocked(e, push) \in Entries /\ Blocked(e, push).gen = entry[t].gen
        /\ UpdateFrames(push) \in Seq(UpFrames)
    BY <2>3, <2>4, BlockedTyped
  <2>6. /\ entry' = [entry EXCEPT ![t] = Blocked(e, push)]
        /\ up' = [up EXCEPT ![t] = @ \o UpdateFrames(push)]
        /\ handles' = handles
    BY <1>13, <2>1, <2>2 DEF ReceiveState
  <2>7. EntriesNumbered' /\ entry' \in [Tabs -> Entries \cup {None}]
    <3>1. Blocked(e, push).gen \in 1..handles'[t]
      BY <1>10, <1>13, <2>5, <2>6 DEF ReceiveState
    <3>2. handles' \in [Tabs -> 0..MaxHandles] /\ \A u \in Tabs \ {t} : handles'[u] = handles[u]
      BY <1>1, <2>6 DEF TabTypeOK
    <3> QED BY <1>9, <2>5, <2>6, <3>1, <3>2
  <2>8. up' \in [Tabs -> Seq(UpFrames)]
    BY <1>1, <2>5, <2>6, ConcatTyped DEF TabTypeOK
  <2> QED BY <1>1, <1>6, <1>13, <2>7, <2>8 DEF ReceiveState, Receives, TabInv, TabTypeOK
<1>14. CASE Connect(t)
  <2>1. <<[type |-> "ready"]>> \in Seq(DownFrames)
    BY DEF DownFrames
  <2> QED BY <1>1, <1>2, <1>14, <2>1 DEF Connect, TabInv, TabTypeOK
<1>15. CASE GetDoc(t)
  <2>1. PICK e : e = NewEntry(handles[t] + 1)
    OBVIOUS
  <2>2. handles[t] \in 0..MaxHandles /\ handles[t] < MaxHandles /\ MaxHandles \in Nat
    BY <1>1, <1>15, FieldAssumption DEF GetDoc, TabTypeOK
  <2>3. handles[t] + 1 \in 0..MaxHandles /\ handles[t] + 1 \in 1..(handles[t] + 1)
    BY <2>2
  <2>4. e \in Entries /\ e.gen = handles[t] + 1
    BY <2>1, <2>3 DEF NewEntry, Entries
  <2>5. /\ handles' = [handles EXCEPT ![t] = handles[t] + 1]
        /\ handles' \in [Tabs -> 0..MaxHandles]
    BY <1>1, <1>15, <2>3 DEF GetDoc, TabTypeOK
  <2>6. handles'[t] = handles[t] + 1 /\ \A u \in Tabs \ {t} : handles'[u] = handles[u]
    BY <1>1, <2>5 DEF TabTypeOK
  <2>7. entry' = [entry EXCEPT ![t] = e]
    BY <1>15, <2>1 DEF GetDoc
  <2>8. EntriesNumbered' /\ entry' \in [Tabs -> Entries \cup {None}]
    BY <1>9, <2>3, <2>4, <2>5, <2>6, <2>7
  <2>9. Append(up[t], Get(NewEntry(0))) \in Seq(UpFrames)
    BY <1>1, GetTyped, AppendTyped DEF NewEntry, TabTypeOK
  <2>10. up' \in [Tabs -> Seq(UpFrames)]
    BY <1>1, <1>15, <2>9 DEF GetDoc, TabTypeOK
  <2> QED BY <1>1, <1>15, <2>5, <2>8, <2>10 DEF GetDoc, TabInv, TabTypeOK
<1>16. CASE Release(t)
  BY <1>1, <1>16, HappensTyped DEF Release, TabInv, TabTypeOK, EntriesNumbered
<1>17. ASSUME NEW n \in Pastes, Edit(t, n)
       PROVE  TabInv'
  <2>1. PICK update \in SUBSET Ops :
          update = {<<t, entry[t].gen, Clock(entry[t], t) + i>> : i \in 1..n}
    BY <1>17, EditedTyped DEF Edit
  <2>2. PICK e : e = [entry[t] EXCEPT !.doc = @ \cup update]
    OBVIOUS
  <2>3. PICK sends : sends = (entry[t].canWrite /\ socket[t] = "synced")
    OBVIOUS
  <2>4. /\ entry[t] # None
        /\ entry' = [entry EXCEPT ![t] = IF sends THEN Blocked(e, update) ELSE e]
        /\ up' = [up EXCEPT ![t] = @ \o (IF sends THEN UpdateFrames(update) ELSE <<>>)]
    BY <1>17, <2>1, <2>2, <2>3 DEF Edit
  <2>5. e \in Entries /\ e.gen = entry[t].gen
    BY <1>10, <2>2, <2>4 DEF Entries
  <2>6. /\ Blocked(e, update) \in Entries /\ Blocked(e, update).gen = entry[t].gen
        /\ UpdateFrames(update) \in Seq(UpFrames) /\ <<>> \in Seq(UpFrames)
    BY <2>5, BlockedTyped
  <2>7. PICK f \in Entries : f = (IF sends THEN Blocked(e, update) ELSE e) /\ f.gen = entry[t].gen
    BY <2>5, <2>6
  <2>8. EntriesNumbered' /\ entry' \in [Tabs -> Entries \cup {None}]
    BY <1>1, <1>9, <1>10, <1>17, <2>4, <2>7 DEF Edit, TabTypeOK
  <2>9. up' \in [Tabs -> Seq(UpFrames)]
    BY <1>1, <2>4, <2>6, ConcatTyped DEF TabTypeOK
  <2> QED BY <1>1, <1>17, <2>8, <2>9 DEF Edit, TabInv, TabTypeOK
<1> QED
  BY <1>4, <1>5, <1>7, <1>8, <1>11, <1>12, <1>13, <1>14, <1>15, <1>16, <1>17

LEMMA StepField ==
  ASSUME FieldInv, [Next]_vars
  PROVE  FieldInv'
<1>1. StoreInv'
  BY StepStore
<1>2. TabInv'
  <2>1. CASE UNCHANGED vars
    BY <2>1, FieldInvIs
       DEF vars, serverVars, tabVars, historyVars, TabInv, TabTypeOK, EntriesNumbered
  <2> QED BY <2>1, ServerTabs, TabTabs DEF Next, Frames
<1>3. (FieldInv <=> StoreInv /\ TabInv)'
  BY DEF FieldInv, FieldTypeOK, StoreInv, TabInv, TabTypeOK, FieldRows
<1> QED BY <1>1, <1>2, <1>3

LEMMA InitField == FieldInit => FieldInv
<1> HAVE FieldInit
<1>1. EmptyField \in FieldRows /\ Ordered(EmptyField)
  BY EmptyIs
<1>2. StoreInv
  BY <1>1 DEF FieldInit, StoreInv, CacheCoherent
<1>3. <<>> \in Seq(UpFrames) /\ <<>> \in Seq(DownFrames)
  OBVIOUS
<1>4. TabInv
  BY <1>3, FieldAssumption DEF FieldInit, TabInv, TabTypeOK, EntriesNumbered
<1> QED BY <1>2, <1>4, FieldInvIs

\* The inductive invariant of the store (server.ts): types, rows numbered past
\* the snapshot with a last one among them, a cache that agrees with the rows.
THEOREM FieldCorrect == FieldSpec => []FieldInv
<1>1. FieldInit => FieldInv
  BY InitField
<1>2. FieldInv /\ [Next]_vars => FieldInv'
  BY StepField
<1> QED BY <1>1, <1>2, PTL DEF FieldSpec

\* Every reachable state of a field, its tabs and its frames is well typed.
THEOREM FieldTypeCorrect == FieldSpec => []FieldTypeOK
<1>1. FieldInv => FieldTypeOK
  BY DEF FieldInv
<1> QED BY <1>1, FieldCorrect, PTL

\* Whatever appends, compactions, wakes, evictions, imports and resets do in
\* whatever order, a cached document is what the rows hold (server.ts loadDoc).
THEOREM CacheIsCoherent == FieldSpec => []CacheCoherent
<1>1. FieldInv => CacheCoherent
  BY DEF FieldInv
<1> QED BY <1>1, FieldCorrect, PTL

-----------------------------------------------------------------------------
(* What was accepted *)

\* The operations a frame brings a tab.
Brought(m) ==
  IF m.type = "state" THEN m.diff ELSE IF m.type = "update" THEN m.ops ELSE {}

\* Until the log is replaced, the rows hold whatever was accepted, whatever is
\* on its way to a tab and whatever a tab has from elsewhere.
BackedInv ==
  wiped = {} =>
    /\ accepted \subseteq Materialized(field)
    /\ \A t \in Tabs : \A i \in DOMAIN down[t] : Brought(down[t][i]) \subseteq Materialized(field)
    /\ ReadableBack

LEMMA AppendedFrames ==
  ASSUME NEW S, NEW s \in Seq(S), NEW m, NEW X,
         \A i \in DOMAIN s : Brought(s[i]) \subseteq X, Brought(m) \subseteq X
  PROVE  \A i \in DOMAIN Append(s, m) : Brought(Append(s, m)[i]) \subseteq X
OBVIOUS

LEMMA TailOfFrames ==
  ASSUME NEW S, NEW s \in Seq(S), s # <<>>, NEW X,
         \A i \in DOMAIN s : Brought(s[i]) \subseteq X
  PROVE  /\ \A i \in DOMAIN Tail(s) : Brought(Tail(s)[i]) \subseteq X
         /\ Brought(Head(s)) \subseteq X
OBVIOUS

LEMMA StepBacked ==
  ASSUME FieldInv, BackedInv, [Next]_vars
  PROVE  BackedInv'
<1> SUFFICES ASSUME wiped' = {}
             PROVE  /\ accepted' \subseteq Materialized(field)'
                    /\ \A t \in Tabs : \A i \in DOMAIN down'[t] :
                         Brought(down'[t][i]) \subseteq Materialized(field)'
                    /\ \A t \in Tabs : entry'[t] # None => \A op \in entry'[t].doc :
                         (op[1] = t /\ op[2] = entry'[t].gen) \/ op \in Materialized(field)'
  BY DEF BackedInv, ReadableBack
<1> USE DEF serverVars, tabVars, historyVars
<1> DEFINE Rows == Materialized(field)
           After == Materialized(field)'
           Sound(s, X) == \A i \in DOMAIN s : Brought(s[i]) \subseteq X
           Own(e, t, X) == \A op \in e.doc : (op[1] = t /\ op[2] = e.gen) \/ op \in X
<1>1. wiped = {} /\ Rows \subseteq After
  BY StepStore DEF Kept
<1>2. PICK A : A = After
  OBVIOUS
<1>3. /\ accepted \subseteq A
      /\ \A t \in Tabs : Sound(down[t], A)
      /\ \A t \in Tabs : entry[t] # None => Own(entry[t], t, A)
  BY <1>1, <1>2 DEF BackedInv, ReadableBack
<1>4. FieldTypeOK /\ \A t \in Tabs : down[t] \in Seq(DownFrames)
  BY DEF FieldInv, FieldTypeOK
<1> HIDE DEF Rows, After
<1> SUFFICES /\ accepted' \subseteq A
             /\ \A t \in Tabs : Sound(down'[t], A)
             /\ \A t \in Tabs : entry'[t] # None => Own(entry'[t], t, A)
  BY <1>2 DEF After
<1> HIDE DEF Sound, Own
<1>5. ASSUME NEW t \in Tabs, down[t] # <<>>
      PROVE  Sound(Tail(down[t]), A) /\ Brought(Head(down[t])) \subseteq A
  BY <1>3, <1>4, <1>5, TailOfFrames DEF Sound
<1>6. ASSUME NEW t \in Tabs, NEW m, Brought(m) \subseteq A
      PROVE  Sound(Append(down[t], m), A)
  BY <1>3, <1>4, <1>6, AppendedFrames DEF Sound
<1>7. Sound(<<>>, A) /\ Sound(<<[type |-> "ready"]>>, A)
  BY DEF Sound, Brought
<1>8. ASSUME NEW t \in Tabs, ServeGet(t)
      PROVE  accepted' \subseteq A /\ \A u \in Tabs : Sound(down'[u], A)
  <2>1. Diff(Loaded, Head(up[t]).vector) \subseteq A
    BY <1>1, <1>2, LoadedIs DEF Diff, Rows
  <2> DEFINE state == [type |-> "state", writable |-> Writable(t), vector |-> Integrated(Loaded),
                       diff |-> Diff(Loaded, Head(up[t]).vector)]
  <2>2. PICK m : m = state /\ Brought(m) \subseteq A
    <3>1. state.type = "state" /\ state.diff \subseteq A
      BY <2>1
    <3> HIDE DEF state
    <3> QED BY <3>1 DEF Brought
  <2>3. down' = [down EXCEPT ![t] = Append(@, m)] /\ accepted' = accepted
    BY <1>8, <2>2 DEF ServeGet, Send
  <2> QED BY <1>3, <1>4, <1>6, <2>2, <2>3 DEF FieldTypeOK
<1>9. ASSUME NEW t \in Tabs, ServeUpdate(t)
      PROVE  accepted' \subseteq A /\ \A u \in Tabs : Sound(down'[u], A)
  <2>1. PICK update \in SUBSET Ops : update = Head(up[t]).ops
    BY <1>4, <1>9, HeadFrames DEF ServeUpdate
  <2>2. CASE down' = down /\ accepted' = accepted
    BY <1>3, <2>2
  <2>3. CASE down' = Send(t, [type |-> "reject"]) /\ accepted' = accepted
    <3>1. Brought([type |-> "reject"]) \subseteq A
      BY DEF Brought
    <3> QED BY <1>3, <1>4, <1>6, <2>3, <3>1 DEF Send, FieldTypeOK
  <2>4. CASE /\ field' = Appended(field, update)
             /\ down' = Relay(t, [type |-> "update", ops |-> update])
             /\ accepted' = accepted \cup update
    <3>1. update \subseteq A
      <4>1. Materialized(Appended(field, update)) = Materialized(field) \cup update
        BY AppendedIs, FieldIs DEF FieldInv
      <4>2. After = Materialized(field')
        BY DEF After, Materialized, UpdatesAfter
      <4> QED BY <1>2, <2>4, <4>1, <4>2
    <3>2. Brought([type |-> "update", ops |-> update]) \subseteq A
      BY <3>1 DEF Brought
    <3> QED BY <1>3, <1>4, <1>6, <2>4, <3>1, <3>2 DEF Relay
  <2> QED BY <1>9, <2>1, <2>2, <2>3, <2>4 DEF ServeUpdate
<1>10. ASSUME NEW t \in Tabs, DropFrame(t)
       PROVE  UNCHANGED <<accepted, down, entry>>
  BY <1>10 DEF DropFrame
<1>11. ASSUME CompactField \/ Wake \/ Evict \/ Export
       PROVE  UNCHANGED <<accepted, down, entry>>
  BY <1>11 DEF CompactField, Wake, Evict, Export
<1>12. ASSUME Import \/ Reset
       PROVE  FALSE
  BY <1>12 DEF Import, Reset
<1>13. ASSUME NEW t \in Tabs,
              \/ ReceiveReady(t) \/ IgnoreFrame(t)
              \/ ReceiveUpdate(t) \/ ReceiveState(t) \/ ReceiveReject(t)
       PROVE  /\ accepted' \subseteq A
              /\ \A u \in Tabs : Sound(down'[u], A)
  <2>1. down[t] # <<>> /\ down' = [down EXCEPT ![t] = Tail(@)] /\ accepted' = accepted
    BY <1>13 DEF ReceiveReady, IgnoreFrame, ReceiveUpdate, ReceiveState, ReceiveReject,
         Receives, Consumed
  <2> QED BY <1>3, <1>4, <1>5, <2>1 DEF FieldTypeOK
<1>14. ASSUME NEW t \in Tabs, ReceiveClose(t) \/ Disconnect(t) \/ Connect(t)
       PROVE  /\ accepted' \subseteq A /\ entry' = entry
              /\ \A u \in Tabs : Sound(down'[u], A)
  <2>1. PICK s \in {<<>>, <<[type |-> "ready"]>>} :
          down' = [down EXCEPT ![t] = s] /\ accepted' = accepted /\ entry' = entry
    BY <1>14 DEF ReceiveClose, Disconnect, Connect, HangUp
  <2> QED BY <1>3, <1>4, <1>7, <2>1 DEF FieldTypeOK
<1>15. ASSUME NEW t \in Tabs, GetDoc(t) \/ Release(t) \/ \E n \in Pastes : Edit(t, n)
       PROVE  accepted' = accepted /\ down' = down
  BY <1>15 DEF GetDoc, Release, Edit
<1>16. ASSUME NEW t \in Tabs, NEW e, entry' = [entry EXCEPT ![t] = e], e # None => Own(e, t, A)
       PROVE  \A u \in Tabs : entry'[u] # None => Own(entry'[u], u, A)
  BY <1>3, <1>4, <1>16 DEF FieldTypeOK
<1>17. ASSUME NEW t \in Tabs,
              \/ ReceiveUpdate(t) \/ ReceiveState(t) \/ ReceiveReject(t)
              \/ GetDoc(t) \/ Release(t) \/ \E n \in Pastes : Edit(t, n)
       PROVE  \A u \in Tabs : entry'[u] # None => Own(entry'[u], u, A)
  <2>1. ASSUME entry[t] # None
        PROVE  entry[t] \in Entries /\ Own(entry[t], t, A)
    BY <1>3, <1>4, <2>1, EntryIs
  <2>2. CASE ReceiveUpdate(t)
    <3>1. PICK e : e = [entry[t] EXCEPT !.doc = @ \cup Head(down[t]).ops]
      OBVIOUS
    <3>2. entry' = [entry EXCEPT ![t] = e] /\ entry[t] # None /\ Head(down[t]).ops \subseteq A
      BY <1>4, <1>5, <2>2, <3>1 DEF ReceiveUpdate, Receives, Brought
    <3>3. Own(e, t, A)
      BY <2>1, <3>1, <3>2 DEF Own, Entries
    <3> QED BY <1>16, <3>2, <3>3
  <2>3. CASE ReceiveReject(t)
    <3>1. PICK e : e = [entry[t] EXCEPT !.rejected = TRUE, !.canWrite = FALSE]
      OBVIOUS
    <3>2. entry' = [entry EXCEPT ![t] = e] /\ entry[t] # None
      BY <2>3, <3>1 DEF ReceiveReject
    <3>3. Own(e, t, A)
      BY <2>1, <3>1, <3>2 DEF Own, Entries
    <3> QED BY <1>16, <3>2, <3>3
  <2>4. CASE ReceiveState(t)
    <3>1. PICK e : e = Stated(entry[t], Head(down[t]))
      OBVIOUS
    <3>2. PICK f : entry' = [entry EXCEPT ![t] = f] /\ \E push : f = Blocked(e, push)
      BY <2>4, <3>1 DEF ReceiveState
    <3>3. entry[t] # None /\ Head(down[t]).diff \subseteq A
      BY <1>4, <1>5, <2>4 DEF ReceiveState, Receives, Brought
    <3>4. e.doc = entry[t].doc \cup Head(down[t]).diff /\ e.gen = entry[t].gen
      BY <2>1, <3>1, <3>3 DEF Stated, Entries
    <3>5. f.doc = e.doc /\ f.gen = e.gen
      BY <2>1, <3>1, <3>2, <3>3 DEF Blocked, Stated, Entries
    <3>6. Own(f, t, A)
      BY <2>1, <3>3, <3>4, <3>5 DEF Own
    <3> QED BY <1>16, <3>2, <3>6
  <2>5. CASE GetDoc(t)
    <3>1. PICK e : e = NewEntry(handles[t] + 1)
      OBVIOUS
    <3>2. entry' = [entry EXCEPT ![t] = e] /\ e.doc = {}
      BY <2>5, <3>1 DEF GetDoc, NewEntry
    <3>3. Own(e, t, A)
      BY <3>2 DEF Own
    <3> QED BY <1>16, <3>2, <3>3
  <2>6. CASE Release(t)
    BY <1>16, <2>6 DEF Release
  <2>7. ASSUME NEW n \in Pastes, Edit(t, n)
        PROVE  \A u \in Tabs : entry'[u] # None => Own(entry'[u], u, A)
    <3>1. PICK update : update = {<<t, entry[t].gen, Clock(entry[t], t) + i>> : i \in 1..n}
      OBVIOUS
    <3>2. PICK e : e = [entry[t] EXCEPT !.doc = @ \cup update]
      OBVIOUS
    <3>3. PICK f : /\ entry' = [entry EXCEPT ![t] = f]
                   /\ f = e \/ f = Blocked(e, update)
                   /\ entry[t] # None
      BY <2>7, <3>1, <3>2 DEF Edit
    <3>4. \A op \in update : op[1] = t /\ op[2] = entry[t].gen
      BY <3>1
    <3>5. f.doc = entry[t].doc \cup update /\ f.gen = entry[t].gen
      BY <2>1, <3>2, <3>3 DEF Blocked, Entries
    <3>6. Own(f, t, A)
      BY <2>1, <3>3, <3>4, <3>5 DEF Own
    <3> QED BY <1>16, <3>3, <3>6
  <2> QED BY <1>17, <2>2, <2>3, <2>4, <2>5, <2>6, <2>7
<1>18. ASSUME NEW t \in Tabs, \/ DropFrame(t) \/ ServeGet(t) \/ ServeUpdate(t)
                              \/ ReceiveReady(t) \/ IgnoreFrame(t)
       PROVE  entry' = entry
  BY <1>18 DEF DropFrame, ServeGet, ServeUpdate, ReceiveReady, IgnoreFrame
<1>19. CASE UNCHANGED vars
  BY <1>3, <1>19 DEF vars
<1> QED
  BY <1>3, <1>8, <1>9, <1>10, <1>11, <1>12, <1>13, <1>14, <1>15, <1>17, <1>18, <1>19
     DEF Next, Frames

LEMMA InitBacked == FieldInit => BackedInv
BY DEF FieldInit, BackedInv, ReadableBack

\* The inductive invariant of what was accepted, in the rows and on its way.
THEOREM BackedCorrect == FieldSpec => []BackedInv
<1>1. FieldInit => BackedInv
  BY InitBacked
<1>2. BackedInv /\ FieldInv /\ [Next]_vars => BackedInv'
  BY StepBacked
<1> QED BY <1>1, <1>2, FieldCorrect, PTL DEF FieldSpec

\* Persist-then-broadcast (server.ts handleUpdate): until an import or a reset
\* replaces the log, what reached a tab from elsewhere can be read back.
THEOREM RelayedIsReadable == FieldSpec => []ReadableBack
<1>1. BackedInv => ReadableBack
  BY DEF BackedInv, ReadableBack
<1> QED BY <1>1, BackedCorrect, PTL

\* No accepted update is lost from the rows (server.ts compactField).
THEOREM AcceptedIsKept == FieldSpec => []AcceptedSurvives
<1>1. BackedInv => AcceptedSurvives
  BY DEF BackedInv, AcceptedSurvives
<1> QED BY <1>1, BackedCorrect, PTL

-----------------------------------------------------------------------------
(* Links: what a tab and the server still have to tell each other *)

Has(s, type) == \E i \in DOMAIN s : s[i].type = type

\* A socket that is not live anymore is told so; a syncing one waits for "ready".
LinkOK(k, t, L, R, u, d) ==
  /\ k = "closed" => t \notin L /\ u = <<>> /\ d = <<>>
  /\ k = "syncing" => u = <<>> /\ d # <<>> /\ Head(d).type = "ready"
  /\ k # "synced" => t \notin R
  /\ t \in L => ~Has(d, "close")
  /\ t \notin L /\ k # "closed" => Has(d, "close")

\* What a tab will hold when it has read the frames on their way to it.
Coming(e, d) == e.doc \cup UNION {Brought(d[i]) : i \in DOMAIN d}

\* The updates behind the first j frames bring the server nothing unknown.
Known(u, j, X) ==
  \A i \in DOMAIN u : i > j /\ u[i].type = "update" => u[i].ops \subseteq X

\* The tab will hold all the rows do: it does already, or a GET on its way
\* asks for the rest; the updates behind it are the tab's own.
Covered(u, X, M) ==
  \/ M \subseteq X /\ Known(u, 0, X)
  \/ \E j \in DOMAIN u : u[j].type = "get" /\ u[j].vector \subseteq X /\ Known(u, j, X)

Asked(u, d) == Has(u, "get") \/ Has(d, "state")

Leaving(u) == UNION {u[i].ops : i \in {n \in DOMAIN u : u[n].type = "update"}}

\* The rows will hold all a tab with write access does.
Pushed(e, u, d, M) ==
  e.canWrite => Has(d, "reject") \/ Asked(u, d) \/ e.doc \subseteq M \cup Leaving(u)

\* A tab whose updates are ignored is about to lose its write access.
Warned(t, R, e, d) ==
  t \in R =>
    /\ e # None => (e.canWrite => Has(d, "reject"))
    /\ \A i \in DOMAIN d : d[i].type = "state" /\ d[i].writable =>
         \E j \in DOMAIN d : j > i /\ d[j].type = "reject"

FrameIn(m, M) == Brought(m) \subseteq M /\ (m.type = "state" => m.vector \subseteq M)

InStep(t, k, R, e, u, d, M) ==
  /\ \A i \in DOMAIN d : FrameIn(d[i], M)
  /\ Warned(t, R, e, d)
  /\ k = "synced" /\ e # None =>
       /\ e.synced \/ Asked(u, d)
       /\ Covered(u, Coming(e, d), M)
       /\ Pushed(e, u, d, M)

LinkInv == \A t \in Tabs : LinkOK(socket[t], t, live, refused, up[t], down[t])
StepInv ==
  "reset" \notin wiped =>
    \A t \in live : InStep(t, socket[t], refused, entry[t], up[t], down[t], Materialized(field))

-----------------------------------------------------------------------------
(* Queues of frames *)

LEMMA HasAppend ==
  ASSUME NEW S, NEW s \in Seq(S), NEW m, NEW type
  PROVE  Has(Append(s, m), type) <=> Has(s, type) \/ m.type = type
<1>1. /\ DOMAIN Append(s, m) = DOMAIN s \cup {Len(s) + 1}
      /\ \A i \in DOMAIN s : Append(s, m)[i] = s[i]
      /\ Append(s, m)[Len(s) + 1] = m
  OBVIOUS
<1> QED BY <1>1 DEF Has

LEMMA HasTail ==
  ASSUME NEW S, NEW s \in Seq(S), s # <<>>, NEW type
  PROVE  Has(s, type) <=> Head(s).type = type \/ Has(Tail(s), type)
<1>1. /\ Len(s) \in Nat \ {0} /\ DOMAIN s = 1..Len(s) /\ DOMAIN Tail(s) = 1..(Len(s) - 1)
      /\ s[1] = Head(s)
      /\ \A i \in 1..(Len(s) - 1) : Tail(s)[i] = s[i + 1]
  OBVIOUS
<1>2. ASSUME Has(s, type), Head(s).type # type
      PROVE  Has(Tail(s), type)
  <2>1. PICK i \in 1..Len(s) : s[i].type = type
    BY <1>1, <1>2 DEF Has
  <2>2. i - 1 \in 1..(Len(s) - 1) /\ Tail(s)[i - 1] = s[i]
    BY <1>1, <1>2, <2>1
  <2> QED BY <1>1, <2>1, <2>2 DEF Has
<1>3. ASSUME Has(Tail(s), type)
      PROVE  Has(s, type)
  <2>1. PICK i \in 1..(Len(s) - 1) : Tail(s)[i].type = type
    BY <1>1, <1>3 DEF Has
  <2>2. i + 1 \in 1..Len(s) /\ Tail(s)[i] = s[i + 1]
    BY <1>1, <2>1
  <2> QED BY <1>1, <2>1, <2>2 DEF Has
<1> QED BY <1>1, <1>2, <1>3 DEF Has

LEMMA HasNone ==
  ASSUME NEW type
  PROVE  ~Has(<<>>, type)
BY DEF Has

LEMMA ComingAppend ==
  ASSUME NEW e, NEW S, NEW d \in Seq(S), NEW m
  PROVE  Coming(e, Append(d, m)) = Coming(e, d) \cup Brought(m)
<1>1. /\ DOMAIN Append(d, m) = DOMAIN d \cup {Len(d) + 1}
      /\ \A i \in DOMAIN d : Append(d, m)[i] = d[i]
      /\ Append(d, m)[Len(d) + 1] = m
  OBVIOUS
<1>2. {Brought(Append(d, m)[i]) : i \in DOMAIN Append(d, m)}
        = {Brought(d[i]) : i \in DOMAIN d} \cup {Brought(m)}
  BY <1>1
<1>3. ASSUME NEW P
      PROVE  UNION (P \cup {Brought(m)}) = (UNION P) \cup Brought(m)
  OBVIOUS
<1>4. UNION {Brought(Append(d, m)[i]) : i \in DOMAIN Append(d, m)}
        = (UNION {Brought(d[i]) : i \in DOMAIN d}) \cup Brought(m)
  BY <1>2, <1>3
<1> QED BY <1>4 DEF Coming

\* Reading a frame takes from the queue what it adds to the document.
LEMMA ComingTail ==
  ASSUME NEW e, NEW f, NEW S, NEW d \in Seq(S), d # <<>>,
         f.doc = e.doc \cup Brought(Head(d))
  PROVE  Coming(f, Tail(d)) = Coming(e, d)
<1>1. /\ Len(d) \in Nat \ {0} /\ DOMAIN d = 1..Len(d) /\ DOMAIN Tail(d) = 1..(Len(d) - 1)
      /\ d[1] = Head(d)
      /\ \A i \in 1..(Len(d) - 1) : Tail(d)[i] = d[i + 1]
  OBVIOUS
<1>2. ASSUME NEW x \in Coming(e, d)
      PROVE  x \in Coming(f, Tail(d))
  <2>1. CASE x \in e.doc \cup Brought(Head(d))
    BY <2>1 DEF Coming
  <2>2. CASE x \notin e.doc \cup Brought(Head(d))
    <3>1. PICK i \in 1..Len(d) : x \in Brought(d[i])
      BY <1>1, <1>2, <2>2 DEF Coming
    <3>2. i - 1 \in 1..(Len(d) - 1) /\ Tail(d)[i - 1] = d[i]
      BY <1>1, <2>2, <3>1
    <3> QED BY <1>1, <3>1, <3>2 DEF Coming
  <2> QED BY <2>1, <2>2
<1>3. ASSUME NEW x \in Coming(f, Tail(d))
      PROVE  x \in Coming(e, d)
  <2>1. CASE x \in e.doc \cup Brought(Head(d))
    BY <1>1, <2>1 DEF Coming
  <2>2. CASE x \notin e.doc \cup Brought(Head(d))
    <3>1. PICK i \in 1..(Len(d) - 1) : x \in Brought(Tail(d)[i])
      BY <1>1, <1>3, <2>2 DEF Coming
    <3>2. i + 1 \in 1..Len(d) /\ Tail(d)[i] = d[i + 1]
      BY <1>1, <3>1
    <3> QED BY <1>1, <3>1, <3>2 DEF Coming
  <2> QED BY <2>1, <2>2
<1> QED BY <1>2, <1>3

LEMMA LeavingTail ==
  ASSUME NEW S, NEW u \in Seq(S), u # <<>>
  PROVE  Leaving(u) \subseteq Leaving(Tail(u)) \cup (IF Head(u).type = "update" THEN Head(u).ops ELSE {})
<1>1. /\ Len(u) \in Nat \ {0} /\ DOMAIN u = 1..Len(u) /\ DOMAIN Tail(u) = 1..(Len(u) - 1)
      /\ u[1] = Head(u)
      /\ \A i \in 1..(Len(u) - 1) : Tail(u)[i] = u[i + 1]
  OBVIOUS
<1>2. ASSUME NEW x \in Leaving(u)
      PROVE  x \in Leaving(Tail(u)) \cup (IF Head(u).type = "update" THEN Head(u).ops ELSE {})
  <2>1. PICK i \in 1..Len(u) : u[i].type = "update" /\ x \in u[i].ops
    BY <1>1 DEF Leaving
  <2>2. CASE i = 1
    BY <1>1, <2>1, <2>2
  <2>3. CASE i # 1
    <3>1. i - 1 \in 1..(Len(u) - 1) /\ Tail(u)[i - 1] = u[i]
      BY <1>1, <2>1, <2>3
    <3> QED BY <1>1, <2>1, <3>1 DEF Leaving
  <2> QED BY <2>2, <2>3
<1> QED BY <1>2

LEMMA LeavingAppend ==
  ASSUME NEW S, NEW u \in Seq(S), NEW m
  PROVE  /\ Leaving(u) \subseteq Leaving(Append(u, m))
         /\ m.type = "update" => m.ops \subseteq Leaving(Append(u, m))
<1>1. /\ DOMAIN Append(u, m) = DOMAIN u \cup {Len(u) + 1}
      /\ \A i \in DOMAIN u : Append(u, m)[i] = u[i]
      /\ Append(u, m)[Len(u) + 1] = m
  OBVIOUS
<1> QED BY <1>1 DEF Leaving

\* What sendUpdate appends: nothing, or one frame.
LEMMA SentUpdate ==
  ASSUME NEW u \in Seq(UpFrames), NEW p \in SUBSET Ops
  PROVE  \/ /\ u \o UpdateFrames(p) = u
            /\ p = {} \/ Cardinality(p) > MaxUpdate
         \/ u \o UpdateFrames(p) = Append(u, [type |-> "update", ops |-> p])
<1>1. u \o <<>> = u
  OBVIOUS
<1>2. ASSUME NEW m \in UpFrames
      PROVE  u \o <<m>> = Append(u, m)
  OBVIOUS
<1>3. [type |-> "update", ops |-> p] \in UpFrames
  BY DEF UpFrames
<1> QED BY <1>1, <1>2, <1>3 DEF UpdateFrames

-----------------------------------------------------------------------------
(* What keeps a tab covered *)

LEMMA CoveredGrows ==
  ASSUME NEW u, NEW X, NEW Y, NEW M, NEW N, NEW ops,
         Covered(u, X, M), X \subseteq Y, N \subseteq M \cup ops, ops \subseteq Y
  PROVE  Covered(u, Y, N)
BY DEF Covered, Known

LEMMA TailIndexes ==
  ASSUME NEW S, NEW s \in Seq(S), s # <<>>
  PROVE  /\ 1 \in DOMAIN s /\ s[1] = Head(s)
         /\ \A i \in DOMAIN s : i \in Nat \ {0}
         /\ \A i \in DOMAIN Tail(s) : i \in Nat /\ i + 1 \in DOMAIN s /\ Tail(s)[i] = s[i + 1]
         /\ \A i \in DOMAIN s : i > 1 => i - 1 \in DOMAIN Tail(s) /\ Tail(s)[i - 1] = s[i]
OBVIOUS

\* ... and without its first one the others move up.
LEMMA LaterIndex ==
  ASSUME NEW S, NEW s \in Seq(S), s # <<>>, NEW j \in DOMAIN s, j > 1
  PROVE  j - 1 \in DOMAIN Tail(s) /\ Tail(s)[j - 1] = s[j] /\ j - 1 \in Nat /\ j = (j - 1) + 1
OBVIOUS

LEMMA AppendIndexes ==
  ASSUME NEW S, NEW s \in Seq(S), NEW m
  PROVE  /\ Len(s) \in Nat
         /\ DOMAIN Append(s, m) = DOMAIN s \cup {Len(s) + 1}
         /\ \A i \in DOMAIN s : i \in Nat /\ i <= Len(s) /\ Append(s, m)[i] = s[i]
         /\ Append(s, m)[Len(s) + 1] = m
OBVIOUS

LEMMA KnownTail ==
  ASSUME NEW S, NEW u \in Seq(S), u # <<>>, NEW j \in Nat, NEW X, Known(u, j + 1, X)
  PROVE  Known(Tail(u), j, X)
<1>1. \A i \in DOMAIN Tail(u) : i \in Nat /\ i + 1 \in DOMAIN u /\ Tail(u)[i] = u[i + 1]
  BY TailIndexes
<1> QED BY <1>1 DEF Known

\* A GET is served: the answer holds what its vector misses.
LEMMA CoveredServed ==
  ASSUME NEW S, NEW u \in Seq(S), u # <<>>, NEW X, NEW M, Covered(u, X, M),
         Head(u).type = "get"
  PROVE  Covered(Tail(u), X \cup (M \ Head(u).vector), M)
<1> DEFINE Y == X \cup (M \ Head(u).vector)
<1>1. /\ 1 \in DOMAIN u /\ u[1] = Head(u)
      /\ \A i \in DOMAIN u : i \in Nat \ {0}
      /\ \A i \in DOMAIN u : i > 1 => i - 1 \in DOMAIN Tail(u) /\ Tail(u)[i - 1] = u[i]
  BY TailIndexes
<1>2. ASSUME NEW j \in Nat, Known(u, j + 1, X)
      PROVE  Known(Tail(u), j, Y)
  BY <1>2, KnownTail DEF Known
<1>3. CASE M \subseteq X /\ Known(u, 0, X)
  <2>1. Known(u, 0 + 1, X)
    BY ONLY <1>3, \A i \in DOMAIN u : i \in Nat \ {0} DEF Known
  <2> QED BY <1>2, <1>3, <2>1 DEF Covered
<1>4. ASSUME NEW j \in DOMAIN u, u[j].type = "get", u[j].vector \subseteq X, Known(u, j, X)
      PROVE  Covered(Tail(u), Y, M)
  <2>1. CASE j = 1
    <3>1. M \subseteq Y /\ Known(u, 0 + 1, X)
      BY <1>1, <1>4, <2>1
    <3> QED BY <1>2, <3>1 DEF Covered
  <2>2. CASE j > 1
    <3>1. j - 1 \in DOMAIN Tail(u) /\ Tail(u)[j - 1] = u[j] /\ j - 1 \in Nat /\ j = (j - 1) + 1
      BY <2>2, LaterIndex
    <3>2. Known(Tail(u), j - 1, Y)
      BY <1>2, <1>4, <3>1
    <3> QED BY <1>4, <3>1, <3>2 DEF Covered
  <2> QED BY <1>1, <2>1, <2>2
<1> QED BY <1>3, <1>4 DEF Covered

\* An update is served: the rows gain at most its operations.
LEMMA CoveredUpdated ==
  ASSUME NEW S, NEW u \in Seq(S), u # <<>>, NEW X, NEW M, NEW N, Covered(u, X, M),
         Head(u).type = "update", N \subseteq M \cup Head(u).ops
  PROVE  Covered(Tail(u), X, N)
<1>1. /\ 1 \in DOMAIN u /\ u[1] = Head(u)
      /\ \A i \in DOMAIN u : i \in Nat \ {0}
      /\ \A i \in DOMAIN u : i > 1 => i - 1 \in DOMAIN Tail(u) /\ Tail(u)[i - 1] = u[i]
  BY TailIndexes
<1>2. CASE M \subseteq X /\ Known(u, 0, X)
  <2>1. N \subseteq X /\ Known(u, 0 + 1, X)
    BY <1>1, <1>2 DEF Known
  <2>2. Known(Tail(u), 0, X)
    BY <2>1, KnownTail
  <2> QED BY <2>1, <2>2 DEF Covered
<1>3. ASSUME NEW j \in DOMAIN u, u[j].type = "get", u[j].vector \subseteq X, Known(u, j, X)
      PROVE  Covered(Tail(u), X, N)
  <2>1. j > 1
    BY <1>1, <1>3
  <2>2. j - 1 \in DOMAIN Tail(u) /\ Tail(u)[j - 1] = u[j] /\ j - 1 \in Nat /\ j = (j - 1) + 1
    BY <2>1, LaterIndex
  <2>3. Known(Tail(u), j - 1, X)
    BY <1>3, <2>2, KnownTail
  <2> QED BY <1>3, <2>2, <2>3 DEF Covered
<1> QED BY <1>2, <1>3 DEF Covered

LEMMA CoveredAsked ==
  ASSUME NEW S, NEW u \in Seq(S), NEW X, NEW M, NEW m, m.type = "get", m.vector \subseteq X
  PROVE  Covered(Append(u, m), X, M)
<1>1. /\ Len(u) \in Nat
      /\ DOMAIN Append(u, m) = DOMAIN u \cup {Len(u) + 1}
      /\ \A i \in DOMAIN u : i \in Nat /\ i <= Len(u)
      /\ Append(u, m)[Len(u) + 1] = m
  BY AppendIndexes
<1>2. Known(Append(u, m), Len(u) + 1, X)
  BY <1>1 DEF Known
<1> QED BY <1>1, <1>2 DEF Covered

LEMMA CoveredSent ==
  ASSUME NEW S, NEW u \in Seq(S), NEW X, NEW M, NEW m, Covered(u, X, M),
         m.type = "update", m.ops \subseteq X
  PROVE  Covered(Append(u, m), X, M)
<1>1. /\ DOMAIN Append(u, m) = DOMAIN u \cup {Len(u) + 1}
      /\ \A i \in DOMAIN u : Append(u, m)[i] = u[i]
      /\ Append(u, m)[Len(u) + 1] = m
  BY AppendIndexes
<1>2. \A j : Known(u, j, X) => Known(Append(u, m), j, X)
  BY <1>1 DEF Known
<1> QED BY <1>1, <1>2 DEF Covered

-----------------------------------------------------------------------------
(* What keeps a tab warned *)

LEMMA WarnedAppend ==
  ASSUME NEW t, NEW R, NEW Q, NEW e, NEW S, NEW d \in Seq(S), NEW m, Warned(t, R, e, d),
         \/ m.type = "reject"
         \/ (t \in Q => t \in R) /\ (t \in Q => ~(m.type = "state" /\ m.writable))
  PROVE  Warned(t, Q, e, Append(d, m))
<1>1. /\ Len(d) \in Nat
      /\ DOMAIN Append(d, m) = DOMAIN d \cup {Len(d) + 1}
      /\ \A i \in DOMAIN d : i \in Nat /\ i <= Len(d) /\ Append(d, m)[i] = d[i]
      /\ Append(d, m)[Len(d) + 1] = m
  BY AppendIndexes
<1>2. CASE m.type = "reject"
  BY <1>1, <1>2 DEF Warned, Has
<1>3. CASE (t \in Q => t \in R) /\ (t \in Q => ~(m.type = "state" /\ m.writable))
  BY <1>1, <1>3 DEF Warned, Has
<1> QED BY <1>2, <1>3

LEMMA WarnedTail ==
  ASSUME NEW t, NEW R, NEW e, NEW f, NEW S, NEW d \in Seq(S), d # <<>>, Warned(t, R, e, d),
         f # None => \/ ~f.canWrite
                     \/ /\ e # None /\ e.canWrite /\ Head(d).type # "reject"
                     \/ Head(d).type = "state" /\ Head(d).writable
  PROVE  Warned(t, R, f, Tail(d))
<1>1. /\ 1 \in DOMAIN d /\ d[1] = Head(d)
      /\ \A i \in DOMAIN d : i \in Nat \ {0}
      /\ \A i \in DOMAIN Tail(d) : i \in Nat /\ i + 1 \in DOMAIN d /\ Tail(d)[i] = d[i + 1]
      /\ \A i \in DOMAIN d : i > 1 => i - 1 \in DOMAIN Tail(d) /\ Tail(d)[i - 1] = d[i]
  BY TailIndexes
<1> SUFFICES ASSUME t \in R
             PROVE  /\ f # None => (f.canWrite => Has(Tail(d), "reject"))
                    /\ \A i \in DOMAIN Tail(d) : Tail(d)[i].type = "state" /\ Tail(d)[i].writable =>
                         \E j \in DOMAIN Tail(d) : j > i /\ Tail(d)[j].type = "reject"
  BY DEF Warned
<1>2. ASSUME NEW i \in DOMAIN d, d[i].type = "state" /\ d[i].writable
      PROVE  \E j \in DOMAIN Tail(d) : j + 1 > i /\ Tail(d)[j].type = "reject"
  <2>1. PICK j \in DOMAIN d : j > i /\ d[j].type = "reject"
    BY <1>2 DEF Warned
  <2>2. j - 1 \in DOMAIN Tail(d) /\ Tail(d)[j - 1] = d[j] /\ (j - 1) + 1 > i
    BY <1>1, <2>1
  <2> QED BY <2>1, <2>2
<1>3. ASSUME NEW i \in DOMAIN Tail(d), Tail(d)[i].type = "state" /\ Tail(d)[i].writable
      PROVE  \E j \in DOMAIN Tail(d) : j > i /\ Tail(d)[j].type = "reject"
  <2>1. PICK j \in DOMAIN Tail(d) : j + 1 > i + 1 /\ Tail(d)[j].type = "reject"
    BY <1>1, <1>2, <1>3
  <2> QED BY <1>1, <2>1
<1>4. ASSUME f # None, f.canWrite
      PROVE  Has(Tail(d), "reject")
  <2>1. CASE Head(d).type = "state" /\ Head(d).writable
    BY <1>1, <1>2, <2>1 DEF Has
  <2>2. CASE e # None /\ e.canWrite /\ Head(d).type # "reject"
    <3>1. Has(d, "reject")
      BY <2>2 DEF Warned
    <3> QED BY <2>2, <3>1, HasTail
  <2> QED BY <1>4, <2>1, <2>2
<1> QED BY <1>3, <1>4

-----------------------------------------------------------------------------
(* What each step makes of a live link *)

\* Steps that tell the tab nothing.
LEMMA InStepSilent ==
  ASSUME NEW t, NEW k, NEW R, NEW Q, NEW e, NEW u, NEW d, NEW M,
         InStep(t, k, R, e, u, d, M), t \in Q => t \in R
  PROVE  InStep(t, k, Q, e, u, d, M)
BY DEF InStep, Warned

\* Another tab's update reaches the rows and is relayed.
LEMMA InStepRelayed ==
  ASSUME NEW t, NEW k, NEW R, NEW e, NEW u, NEW d \in Seq(DownFrames), NEW M, NEW m,
         InStep(t, k, R, e, u, d, M), m.type = "update"
  PROVE  InStep(t, k, R, e, u, Append(d, m), M \cup m.ops)
<1>0. Coming(e, Append(d, m)) = Coming(e, d) \cup Brought(m)
  BY ONLY d \in Seq(DownFrames), ComingAppend
<1> DEFINE N == M \cup m.ops
           D == Append(d, m)
<1>1. Brought(m) = m.ops /\ m.type # "state"
  BY DEF Brought
<1>2. \A i \in DOMAIN D : FrameIn(D[i], N)
  <2>1. \A i \in DOMAIN d : FrameIn(d[i], N)
    BY DEF InStep, FrameIn
  <2>2. FrameIn(m, N)
    BY <1>1 DEF FrameIn
  <2>3. /\ DOMAIN D = DOMAIN d \cup {Len(d) + 1}
        /\ \A i \in DOMAIN d : D[i] = d[i]
        /\ D[Len(d) + 1] = m
    BY AppendIndexes
  <2> HIDE DEF D
  <2> QED BY <2>1, <2>2, <2>3
<1>3. Warned(t, R, e, D)
  BY <1>1, WarnedAppend DEF InStep
<1>4. ASSUME k = "synced", e # None
      PROVE  /\ e.synced \/ Asked(u, D)
             /\ Covered(u, Coming(e, D), N)
             /\ Pushed(e, u, D, N)
  <2>1. \A type : Has(d, type) => Has(D, type)
    <3>1. \A type : Has(Append(d, m), type) <=> Has(d, type) \/ m.type = type
      BY HasAppend, Zenon
    <3> QED BY <3>1
  <2>2. Coming(e, D) = Coming(e, d) \cup m.ops
    BY <1>0, <1>1
  <2>3. Covered(u, Coming(e, D), N)
    <3>1. /\ Covered(u, Coming(e, d), M)
          /\ Coming(e, d) \subseteq Coming(e, D)
          /\ N \subseteq M \cup m.ops /\ m.ops \subseteq Coming(e, D)
      BY <1>4, <2>2 DEF InStep
    <3> HIDE DEF N, D
    <3> QED BY <3>1, CoveredGrows
  <2>4. Pushed(e, u, D, N)
    BY <1>4, <2>1 DEF InStep, Pushed, Asked
  <2> QED BY <1>4, <2>1, <2>3, <2>4 DEF InStep, Asked
<1> QED BY <1>2, <1>3, <1>4 DEF InStep

\* A GET is answered.
LEMMA InStepAnswered ==
  ASSUME NEW t, NEW k, NEW R, NEW e, NEW u \in Seq(UpFrames), NEW d \in Seq(DownFrames), NEW M,
         InStep(t, k, R, e, u, d, M), u # <<>>, Head(u).type = "get",
         NEW m, m.type = "state", m.writable => t \notin R, m.vector \subseteq M,
         m.diff = M \ Head(u).vector
  PROVE  InStep(t, k, R, e, Tail(u), Append(d, m), M)
<1>0. Coming(e, Append(d, m)) = Coming(e, d) \cup Brought(m)
  BY ONLY d \in Seq(DownFrames), ComingAppend
<1> DEFINE D == Append(d, m)
<1>1. Brought(m) = M \ Head(u).vector
  BY DEF Brought
<1>2. \A i \in DOMAIN D : FrameIn(D[i], M)
  <2>1. FrameIn(m, M)
    BY <1>1 DEF FrameIn
  <2> QED BY <2>1, AppendIndexes DEF InStep
<1>3. Warned(t, R, e, D)
  BY WarnedAppend DEF InStep
<1>4. ASSUME k = "synced", e # None
      PROVE  /\ Asked(Tail(u), D)
             /\ Covered(Tail(u), Coming(e, D), M)
             /\ Pushed(e, Tail(u), D, M)
  <2>1. Asked(Tail(u), D)
    BY HasAppend DEF Asked
  <2>2. Coming(e, D) = Coming(e, d) \cup (M \ Head(u).vector)
    BY <1>0, <1>1
  <2>3. Covered(Tail(u), Coming(e, D), M)
    BY <1>4, <2>2, CoveredServed DEF InStep
  <2> QED BY <2>1, <2>3 DEF Pushed
<1> QED BY <1>2, <1>3, <1>4 DEF InStep

\* An update of the tab is appended to the log.
LEMMA InStepAccepted ==
  ASSUME NEW t, NEW k, NEW R, NEW e, NEW u \in Seq(UpFrames), NEW d, NEW M,
         InStep(t, k, R, e, u, d, M), u # <<>>, Head(u).type = "update"
  PROVE  InStep(t, k, R, e, Tail(u), d, M \cup Head(u).ops)
<1> DEFINE N == M \cup Head(u).ops
<1>1. \A i \in DOMAIN d : FrameIn(d[i], N)
  BY DEF InStep, FrameIn
<1>2. ASSUME k = "synced", e # None
      PROVE  /\ e.synced \/ Asked(Tail(u), d)
             /\ Covered(Tail(u), Coming(e, d), N)
             /\ Pushed(e, Tail(u), d, N)
  <2>1. Asked(u, d) => Asked(Tail(u), d)
    BY HasTail DEF Asked
  <2>2. Covered(Tail(u), Coming(e, d), N)
    BY <1>2, CoveredUpdated DEF InStep
  <2>3. M \cup Leaving(u) \subseteq N \cup Leaving(Tail(u))
    BY LeavingTail
  <2>4. Pushed(e, Tail(u), d, N)
    BY <1>2, <2>1, <2>3 DEF InStep, Pushed
  <2> QED BY <1>2, <2>1, <2>2, <2>4 DEF InStep
<1> QED BY <1>1, <1>2 DEF InStep

\* An update of the tab is refused, or ignored because one was refused before.
LEMMA InStepRefused ==
  ASSUME NEW t, NEW k, NEW R, NEW e, NEW u \in Seq(UpFrames), NEW d \in Seq(DownFrames), NEW M,
         InStep(t, k, R, e, u, d, M), u # <<>>, Head(u).type = "update", NEW m
  PROVE  /\ m.type = "reject" => InStep(t, k, R \cup {t}, e, Tail(u), Append(d, m), M)
         /\ t \in R => InStep(t, k, R, e, Tail(u), d, M)
<1>1. Asked(u, d) => Asked(Tail(u), d)
  BY HasTail DEF Asked
<1>2. ASSUME k = "synced", e # None
      PROVE  Covered(Tail(u), Coming(e, d), M)
  BY <1>2, CoveredUpdated DEF InStep
<1>3. ASSUME t \in R
      PROVE  InStep(t, k, R, e, Tail(u), d, M)
  <2>1. k = "synced" /\ e # None => Pushed(e, Tail(u), d, M)
    BY <1>3 DEF InStep, Warned, Pushed
  <2> QED BY <1>1, <1>2, <2>1 DEF InStep
<1>4. ASSUME m.type = "reject"
      PROVE  InStep(t, k, R \cup {t}, e, Tail(u), Append(d, m), M)
  <2>1. Brought(m) = {}
    BY <1>4 DEF Brought
  <2>2. \A i \in DOMAIN Append(d, m) : FrameIn(Append(d, m)[i], M)
    <3>1. FrameIn(m, M)
      BY <1>4, <2>1 DEF FrameIn
    <3> QED BY <3>1, AppendIndexes DEF InStep
  <2>3. Warned(t, R \cup {t}, e, Append(d, m))
    BY <1>4, WarnedAppend DEF InStep
  <2>4. Coming(e, Append(d, m)) = Coming(e, d)
    <3>1. Coming(e, Append(d, m)) = Coming(e, d) \cup Brought(m)
      BY ONLY d \in Seq(DownFrames), ComingAppend
    <3> QED BY <2>1, <3>1
  <2>5. Has(Append(d, m), "reject") /\ \A type : Has(d, type) => Has(Append(d, m), type)
    BY <1>4, HasAppend
  <2>6. Pushed(e, Tail(u), Append(d, m), M)
    BY <2>5 DEF Pushed
  <2>7. Asked(u, d) => Asked(Tail(u), Append(d, m))
    BY <1>1, <2>5 DEF Asked
  <2> QED BY <1>2, <2>2, <2>3, <2>4, <2>6, <2>7 DEF InStep
<1> QED BY <1>3, <1>4

LEMMA FramesTail ==
  ASSUME NEW S, NEW d \in Seq(S), d # <<>>, NEW M, \A i \in DOMAIN d : FrameIn(d[i], M)
  PROVE  FrameIn(Head(d), M) /\ \A i \in DOMAIN Tail(d) : FrameIn(Tail(d)[i], M)
BY TailIndexes

\* The rows' hello was answered: a tab that holds the field asks for it.
LEMMA InStepReady ==
  ASSUME NEW t, NEW k, NEW R, NEW e, NEW u \in Seq(UpFrames), NEW d \in Seq(DownFrames), NEW M,
         InStep(t, k, R, e, u, d, M), d # <<>>, Head(d).type = "ready",
         NEW v, v = (IF e # None THEN Append(u, Get(e)) ELSE u)
  PROVE  InStep(t, "synced", R, e, v, Tail(d), M)
<1>1. \A i \in DOMAIN Tail(d) : FrameIn(Tail(d)[i], M)
  BY FramesTail DEF InStep
<1>2. Warned(t, R, e, Tail(d))
  BY WarnedTail DEF InStep
<1>3. ASSUME e # None
      PROVE  /\ Asked(v, Tail(d))
             /\ Covered(v, Coming(e, Tail(d)), M)
             /\ Pushed(e, v, Tail(d), M)
  <2>1. Get(e).type = "get" /\ Get(e).vector \subseteq Coming(e, Tail(d))
    BY DEF Get, Integrated, Coming
  <2>2. v = Append(u, Get(e))
    BY <1>3
  <2>3. Asked(v, Tail(d))
    BY <2>1, <2>2, HasAppend DEF Asked
  <2>4. Covered(v, Coming(e, Tail(d)), M)
    BY <2>1, <2>2, CoveredAsked
  <2> QED BY <2>3, <2>4 DEF Pushed
<1> QED BY <1>1, <1>2, <1>3 DEF InStep

\* A frame for a field the tab does not hold.
LEMMA InStepIgnored ==
  ASSUME NEW t, NEW k, NEW R, NEW u, NEW d \in Seq(DownFrames), NEW M,
         InStep(t, k, R, None, u, d, M), d # <<>>
  PROVE  InStep(t, k, R, None, u, Tail(d), M)
<1>1. \A i \in DOMAIN Tail(d) : FrameIn(Tail(d)[i], M)
  BY FramesTail DEF InStep
<1>2. Warned(t, R, None, Tail(d))
  BY WarnedTail DEF InStep
<1> QED BY <1>1, <1>2 DEF InStep

\* A relayed update is applied.
LEMMA InStepUpdated ==
  ASSUME NEW t, NEW k, NEW R, NEW e, NEW u, NEW d \in Seq(DownFrames), NEW M,
         InStep(t, k, R, e, u, d, M), d # <<>>, Head(d).type = "update", e # None,
         NEW f, f.doc = e.doc \cup Head(d).ops, f.canWrite = e.canWrite, f.synced = e.synced
  PROVE  InStep(t, k, R, f, u, Tail(d), M)
<1>1. FrameIn(Head(d), M) /\ \A i \in DOMAIN Tail(d) : FrameIn(Tail(d)[i], M)
  BY FramesTail DEF InStep
<1>2. Warned(t, R, f, Tail(d))
  BY WarnedTail DEF InStep
<1>3. Brought(Head(d)) = Head(d).ops
  BY DEF Brought
<1>4. ASSUME k = "synced"
      PROVE  /\ f.synced \/ Asked(u, Tail(d))
             /\ Covered(u, Coming(f, Tail(d)), M)
             /\ Pushed(f, u, Tail(d), M)
  <2>1. Coming(f, Tail(d)) = Coming(e, d)
    BY <1>3, ComingTail
  <2>2. \A type \in {"state", "reject"} : Has(d, type) => Has(Tail(d), type)
    BY HasTail
  <2>3. Asked(u, d) => Asked(u, Tail(d))
    BY <2>2 DEF Asked
  <2>4. f.doc \subseteq e.doc \cup M
    BY <1>1, <1>3 DEF FrameIn
  <2>5. Pushed(f, u, Tail(d), M)
    BY <1>4, <2>2, <2>3, <2>4 DEF InStep, Pushed
  <2> QED BY <1>4, <2>1, <2>3, <2>5 DEF InStep
<1> QED BY <1>1, <1>2, <1>4 DEF InStep

\* A refusal is received: the handle is not writable from here on.
LEMMA InStepRejected ==
  ASSUME NEW t, NEW k, NEW R, NEW e, NEW u, NEW d \in Seq(DownFrames), NEW M,
         InStep(t, k, R, e, u, d, M), d # <<>>, Head(d).type = "reject", e # None,
         NEW f, f.doc = e.doc, ~f.canWrite, f.synced = e.synced
  PROVE  InStep(t, k, R, f, u, Tail(d), M)
<1>1. \A i \in DOMAIN Tail(d) : FrameIn(Tail(d)[i], M)
  BY FramesTail DEF InStep
<1>2. Warned(t, R, f, Tail(d))
  BY WarnedTail DEF InStep
<1>3. Brought(Head(d)) = {}
  BY DEF Brought
<1>4. ASSUME k = "synced"
      PROVE  /\ f.synced \/ Asked(u, Tail(d))
             /\ Covered(u, Coming(f, Tail(d)), M)
  <2>1. Coming(f, Tail(d)) = Coming(e, d)
    BY <1>3, ComingTail
  <2>2. Asked(u, d) => Asked(u, Tail(d))
    BY HasTail DEF Asked
  <2> QED BY <1>4, <2>1, <2>2 DEF InStep
<1> QED BY <1>1, <1>2, <1>4 DEF InStep, Pushed

\* A STATE is applied, and what the rows miss is pushed back.
LEMMA InStepStated ==
  ASSUME NEW t, NEW R, NEW e, NEW u \in Seq(UpFrames), NEW d \in Seq(DownFrames), NEW M,
         InStep(t, "synced", R, e, u, d, M), d # <<>>, Head(d).type = "state", e # None,
         NEW f, f.doc = e.doc \cup Head(d).diff, f.synced,
         NEW p \in SUBSET Ops, p \subseteq f.doc,
         f.canWrite => /\ Head(d).writable
                       /\ ~(Cardinality(p) > MaxUpdate)
                       /\ p = f.doc \ Head(d).vector
  PROVE  InStep(t, "synced", R, f, u \o UpdateFrames(p), Tail(d), M)
<1> DEFINE v == u \o UpdateFrames(p)
           m == [type |-> "update", ops |-> p]
<1>1. FrameIn(Head(d), M) /\ \A i \in DOMAIN Tail(d) : FrameIn(Tail(d)[i], M)
  BY FramesTail DEF InStep
<1>2. Warned(t, R, f, Tail(d))
  BY WarnedTail DEF InStep
<1>3. Brought(Head(d)) = Head(d).diff
  BY DEF Brought
<1>4. Coming(f, Tail(d)) = Coming(e, d)
  BY <1>3, ComingTail
<1>5. \/ v = u /\ (p = {} \/ Cardinality(p) > MaxUpdate)
      \/ v = Append(u, m)
  BY SentUpdate
<1>6. m.type = "update" /\ m.ops = p
  OBVIOUS
<1> HIDE DEF v, m
<1>7. Covered(v, Coming(f, Tail(d)), M)
  <2>1. Covered(u, Coming(f, Tail(d)), M)
    BY <1>4 DEF InStep
  <2>2. p \subseteq Coming(f, Tail(d))
    BY DEF Coming
  <2>3. Covered(Append(u, m), Coming(f, Tail(d)), M)
    BY <1>6, <2>1, <2>2, CoveredSent
  <2> QED BY <1>5, <2>1, <2>3
<1>8. Pushed(f, v, Tail(d), M)
  <2>1. ASSUME f.canWrite
        PROVE  f.doc \subseteq M \cup Leaving(v)
    <3>1. p \subseteq Leaving(v)
      BY <1>5, <1>6, <2>1, LeavingAppend
    <3>2. Head(d).vector \subseteq M
      BY <1>1 DEF FrameIn
    <3> QED BY <2>1, <3>1, <3>2
  <2> QED BY <2>1 DEF Pushed
<1>9. InStep(t, "synced", R, f, v, Tail(d), M)
  BY <1>1, <1>2, <1>7, <1>8 DEF InStep
<1> QED BY <1>9 DEF v

\* A handle is opened: what it holds is nothing, and it asks for all.
LEMMA InStepOpened ==
  ASSUME NEW t, NEW k, NEW R, NEW e, NEW u \in Seq(UpFrames), NEW d, NEW M,
         InStep(t, k, R, e, u, d, M), NEW f, ~f.canWrite,
         NEW m, m.type = "get", m.vector = {}, NEW v, k = "synced" => v = Append(u, m)
  PROVE  InStep(t, k, R, f, v, d, M)
<1>1. Warned(t, R, f, d)
  BY DEF InStep, Warned
<1>2. ASSUME k = "synced"
      PROVE  /\ Asked(v, d)
             /\ Covered(v, Coming(f, d), M)
             /\ Pushed(f, v, d, M)
  <2>1. Asked(v, d)
    <3>1. Has(Append(u, m), "get")
      BY HasAppend
    <3> QED BY <1>2, <3>1 DEF Asked
  <2>2. Covered(v, Coming(f, d), M)
    BY <1>2, CoveredAsked
  <2> QED BY <2>1, <2>2 DEF Pushed
<1> QED BY <1>1, <1>2 DEF InStep

\* The handle is released.
LEMMA InStepReleased ==
  ASSUME NEW t, NEW k, NEW R, NEW e, NEW u, NEW d, NEW M, InStep(t, k, R, e, u, d, M)
  PROVE  InStep(t, k, R, None, u, d, M)
BY DEF InStep, Warned

\* An edit that is not sent, because the tab may not send or is not connected.
LEMMA InStepKeptBack ==
  ASSUME NEW t, NEW k, NEW R, NEW e, NEW u, NEW d, NEW M,
         InStep(t, k, R, e, u, d, M), e # None, ~(e.canWrite /\ k = "synced"),
         NEW f, e.doc \subseteq f.doc, f.canWrite = e.canWrite, f.synced = e.synced
  PROVE  InStep(t, k, R, f, u, d, M)
<1>1. Warned(t, R, f, d)
  BY DEF InStep, Warned
<1>2. Coming(e, d) \subseteq Coming(f, d)
  BY DEF Coming
<1>3. Covered(u, Coming(e, d), M) => Covered(u, Coming(f, d), M)
  BY <1>2, CoveredGrows
<1> QED BY <1>1, <1>3 DEF InStep, Pushed

\* An edit that is sent, unless it is too large.
LEMMA InStepEdited ==
  ASSUME NEW t, NEW R, NEW e, NEW u \in Seq(UpFrames), NEW d, NEW M,
         InStep(t, "synced", R, e, u, d, M), e # None, e.canWrite,
         NEW p \in SUBSET Ops,
         NEW f, f.doc = e.doc \cup p, f.synced = e.synced,
         f.canWrite => ~(Cardinality(p) > MaxUpdate)
  PROVE  InStep(t, "synced", R, f, u \o UpdateFrames(p), d, M)
<1> DEFINE v == u \o UpdateFrames(p)
           m == [type |-> "update", ops |-> p]
<1>1. Warned(t, R, f, d)
  BY DEF InStep, Warned
<1>2. Coming(e, d) \subseteq Coming(f, d) /\ p \subseteq Coming(f, d)
  BY DEF Coming
<1>3. \/ v = u /\ (p = {} \/ Cardinality(p) > MaxUpdate)
      \/ v = Append(u, m)
  BY SentUpdate
<1>4. m.type = "update" /\ m.ops = p
  OBVIOUS
<1> HIDE DEF v, m
<1>5. Covered(v, Coming(f, d), M)
  <2>1. Covered(u, Coming(f, d), M)
    BY <1>2, CoveredGrows DEF InStep
  <2>2. Covered(Append(u, m), Coming(f, d), M)
    BY <1>2, <1>4, <2>1, CoveredSent
  <2> QED BY <1>3, <2>1, <2>2
<1>6. Asked(u, d) => Asked(v, d)
  <2>1. Has(u, "get") => Has(Append(u, m), "get")
    BY HasAppend
  <2> QED BY <1>3, <2>1 DEF Asked
<1>7. Pushed(f, v, d, M)
  <2>1. ASSUME f.canWrite
        PROVE  p \subseteq Leaving(v) /\ Leaving(u) \subseteq Leaving(v)
    BY <1>3, <1>4, <2>1, LeavingAppend
  <2> QED BY <1>6, <2>1 DEF InStep, Pushed
<1>8. InStep(t, "synced", R, f, v, d, M)
  BY <1>1, <1>5, <1>6, <1>7 DEF InStep
<1> QED BY <1>8 DEF v

-----------------------------------------------------------------------------
(* The links under every step *)

LEMMA HeadAppend ==
  ASSUME NEW S, NEW s \in Seq(S), NEW m
  PROVE  /\ s # <<>> => Head(Append(s, m)) = Head(s)
         /\ Append(s, m) # <<>>
<1> DEFINE T == S \cup {m}
<1>1. s \in Seq(T) /\ m \in T
  OBVIOUS
<1> HIDE DEF T
<1>2. Append(s, m) \in Seq(T) /\ Len(Append(s, m)) = Len(s) + 1 /\ Len(s) \in Nat
  BY <1>1
<1>3. Append(s, m) # <<>>
  BY <1>2
<1>4. s # <<>> => Append(s, m)[1] = s[1] /\ s[1] = Head(s) /\ Append(s, m)[1] = Head(Append(s, m))
  BY <1>1, <1>2
<1> QED BY <1>3, <1>4

LEMMA LinkAppend ==
  ASSUME NEW k, NEW t, NEW L, NEW R, NEW Q, NEW u, NEW d \in Seq(DownFrames), NEW m,
         LinkOK(k, t, L, R, u, d), k # "closed", m.type # "close",
         k # "synced" => t \notin Q
  PROVE  LinkOK(k, t, L, Q, u, Append(d, m))
<1>1. Has(Append(d, m), "close") <=> Has(d, "close")
  BY HasAppend
<1>2. d # <<>> => Head(Append(d, m)) = Head(d)
  BY HeadAppend
<1>3. Append(d, m) # <<>>
  BY HeadAppend
<1> QED BY <1>1, <1>2, <1>3 DEF LinkOK

LEMMA LinkClosed ==
  ASSUME NEW k, NEW t, NEW L, NEW R, NEW u, NEW d \in Seq(DownFrames), NEW m,
         LinkOK(k, t, L, R, u, d), m.type = "close"
  PROVE  LinkOK(k, t, {}, R, u, IF t \in L THEN Append(d, m) ELSE d)
<1>1. Has(Append(d, m), "close")
  BY HasAppend
<1>2. d # <<>> => Head(Append(d, m)) = Head(d)
  BY HeadAppend
<1>3. Append(d, m) # <<>>
  BY HeadAppend
<1> QED BY <1>1, <1>2, <1>3 DEF LinkOK

\* Reading a frame that is not "close" of a link that is not waiting for it.
LEMMA LinkTail ==
  ASSUME NEW k, NEW t, NEW L, NEW R, NEW u, NEW v, NEW d \in Seq(DownFrames), d # <<>>,
         LinkOK(k, t, L, R, u, d), Head(d).type # "close",
         NEW j, \/ j = k /\ Head(d).type # "ready"
                \/ j = "synced" /\ k # "closed"
  PROVE  LinkOK(j, t, L, R, v, Tail(d))
<1>1. Has(d, "close") <=> Has(Tail(d), "close")
  BY HasTail
<1> QED BY <1>1 DEF LinkOK

LEMMA LinkSent ==
  ASSUME NEW t, NEW L, NEW R, NEW u, NEW v, NEW d, LinkOK("synced", t, L, R, u, d)
  PROVE  LinkOK("synced", t, L, R, v, d)
BY DEF LinkOK

LEMMA StepLink ==
  ASSUME FieldInv, LinkInv, [Next]_vars
  PROVE  LinkInv'
<1> USE DEF serverVars, tabVars, historyVars
<1>1. /\ FieldTypeOK
      /\ \A t \in Tabs : up[t] \in Seq(UpFrames) /\ down[t] \in Seq(DownFrames)
  BY DEF FieldInv, FieldTypeOK
<1>2. ASSUME NEW t \in Tabs
      PROVE  LinkOK(socket[t], t, live, refused, up[t], down[t])
  BY DEF LinkInv
<1>3. ASSUME UNCHANGED <<socket, live, up, down>>, refused' \subseteq refused
      PROVE  LinkInv'
  BY <1>2, <1>3 DEF LinkInv, LinkOK
<1>4. ASSUME NEW t \in Tabs, NEW u \in Tabs, u # t,
             UNCHANGED <<socket[u], up[u], down[u]>>,
             u \in live' <=> u \in live, u \in refused' => u \in refused
      PROVE  LinkOK(socket'[u], u, live', refused', up'[u], down'[u])
  BY <1>2, <1>4 DEF LinkOK
<1>5. ASSUME CompactField \/ Wake \/ Evict \/ Export \/ Reset
      PROVE  LinkInv'
  BY <1>3, <1>5 DEF CompactField, Wake, Evict, Export, Reset
<1>6. ASSUME Import
      PROVE  LinkInv'
  <2> DEFINE m == [type |-> "close"]
  <2>1. ASSUME NEW t \in Tabs
        PROVE  LinkOK(socket'[t], t, live', refused', up'[t], down'[t])
    <3>1. m.type = "close"
      OBVIOUS
    <3>2. LinkOK(socket[t], t, {}, refused, up[t], IF t \in live THEN Append(down[t], m) ELSE down[t])
      BY <1>1, <1>2, <3>1, LinkClosed
    <3>3. /\ UNCHANGED <<socket, refused, up>> /\ live' = {}
          /\ down'[t] = IF t \in live THEN Append(down[t], m) ELSE down[t]
      BY <1>6 DEF Import
    <3> QED BY <3>2, <3>3
  <2> QED BY <2>1 DEF LinkInv
<1>7. ASSUME NEW t \in Tabs, DropFrame(t) \/ ServeGet(t) \/ ServeUpdate(t)
      PROVE  LinkInv'
  <2>1. /\ UNCHANGED <<socket, live>> /\ up' = [up EXCEPT ![t] = Tail(@)]
        /\ socket[t] = "synced"
    BY <1>2, <1>7 DEF DropFrame, ServeGet, ServeUpdate, LinkOK, FieldTypeOK, FieldInv
  <2>2. CASE down' = down /\ refused' = refused
    <3>1. LinkOK(socket'[t], t, live', refused', up'[t], down'[t])
      BY <1>2, <2>1, <2>2, LinkSent
    <3>2. \A u \in Tabs : u # t => LinkOK(socket'[u], u, live', refused', up'[u], down'[u])
      BY <1>1, <1>4, <2>1, <2>2 DEF FieldTypeOK
    <3> QED BY <3>1, <3>2 DEF LinkInv
  <2>3. ASSUME NEW m, m.type # "close", down' = Send(t, m), refused' \in {refused, refused \cup {t}}
        PROVE  LinkInv'
    <3>1. LinkOK("synced", t, live, refused', up'[t], down[t])
      BY <1>2, <2>1, <2>3, LinkSent DEF LinkOK
    <3>2. LinkOK("synced", t, live, refused', up'[t], Append(down[t], m))
      BY <1>1, <2>3, <3>1, LinkAppend
    <3>3. LinkOK(socket'[t], t, live', refused', up'[t], down'[t])
      BY <1>1, <2>1, <2>3, <3>2 DEF Send, FieldTypeOK
    <3>4. \A u \in Tabs : u # t => LinkOK(socket'[u], u, live', refused', up'[u], down'[u])
      BY <1>1, <1>4, <2>1, <2>3 DEF Send, FieldTypeOK
    <3> QED BY <3>3, <3>4 DEF LinkInv
  <2>4. ASSUME NEW m, m.type # "close", down' = Relay(t, m), refused' = refused, t \in live
        PROVE  LinkInv'
    <3>1. ASSUME NEW u \in Tabs, u # t
          PROVE  LinkOK(socket'[u], u, live', refused', up'[u], down'[u])
      <4>1. UNCHANGED <<socket[u], up[u]>>
        BY <1>1, <2>1, <3>1 DEF FieldTypeOK
      <4>2. CASE u \in live
        <5>1. socket[u] # "closed"
          BY <1>2, <4>2 DEF LinkOK
        <5>2. LinkOK(socket[u], u, live, refused, up[u], Append(down[u], m))
          <6>1. LinkOK(socket[u], u, live, refused, up[u], down[u])
            BY <1>2
          <6>2. socket[u] # "synced" => u \notin refused
            BY <6>1 DEF LinkOK
          <6> QED BY <1>1, <2>4, <5>1, <6>1, <6>2, LinkAppend
        <5>3. down'[u] = Append(down[u], m)
          BY <2>4, <3>1, <4>2 DEF Relay
        <5> QED BY <2>1, <2>4, <4>1, <5>2, <5>3
      <4>3. CASE u \notin live
        <5>1. down'[u] = down[u]
          BY <2>4, <3>1, <4>3 DEF Relay
        <5> QED BY <1>4, <2>1, <2>4, <3>1, <4>1, <5>1
      <4> QED BY <4>2, <4>3
    <3>2. down'[t] = down[t]
      BY <2>4 DEF Relay
    <3>3. LinkOK(socket'[t], t, live', refused', up'[t], down'[t])
      BY <1>2, <2>1, <2>4, <3>2, LinkSent
    <3> QED BY <3>1, <3>3 DEF LinkInv
  <2>5. CASE DropFrame(t)
    BY <2>2, <2>5 DEF DropFrame
  <2>6. CASE ServeGet(t)
    BY <2>3, <2>6 DEF ServeGet
  <2>7. CASE ServeUpdate(t)
    BY <2>2, <2>3, <2>4, <2>7 DEF ServeUpdate
  <2> QED BY <1>7, <2>5, <2>6, <2>7
<1>8. ASSUME NEW t \in Tabs, ReceiveClose(t) \/ Disconnect(t)
      PROVE  LinkInv'
  <2>1. HangUp(t)
    BY <1>8 DEF ReceiveClose, Disconnect
  <2>2. LinkOK(socket'[t], t, live', refused', up'[t], down'[t])
    BY <1>1, <2>1 DEF HangUp, LinkOK, FieldTypeOK
  <2>3. \A u \in Tabs : u # t => LinkOK(socket'[u], u, live', refused', up'[u], down'[u])
    BY <1>1, <1>4, <2>1 DEF HangUp, FieldTypeOK
  <2> QED BY <2>2, <2>3 DEF LinkInv
<1>9. ASSUME NEW t \in Tabs, Connect(t)
      PROVE  LinkInv'
  <2>1. /\ up[t] = <<>> /\ t \notin refused
    BY <1>2, <1>9 DEF Connect, LinkOK
  <2>2. PICK d : d = <<[type |-> "ready"]>>
    OBVIOUS
  <2>3. d # <<>> /\ Head(d).type = "ready" /\ ~Has(d, "close")
    BY <2>2 DEF Has
  <2>4. /\ socket'[t] = "syncing" /\ t \in live' /\ refused' = refused
        /\ up'[t] = <<>> /\ down'[t] = d
    BY <1>1, <1>9, <2>1, <2>2 DEF Connect, FieldTypeOK
  <2>5. LinkOK(socket'[t], t, live', refused', up'[t], down'[t])
    BY <2>1, <2>3, <2>4 DEF LinkOK
  <2>6. \A u \in Tabs : u # t => LinkOK(socket'[u], u, live', refused', up'[u], down'[u])
    BY <1>1, <1>4, <1>9 DEF Connect, FieldTypeOK
  <2> QED BY <2>5, <2>6 DEF LinkInv
<1>10. ASSUME NEW t \in Tabs,
              \/ ReceiveReady(t) \/ IgnoreFrame(t)
              \/ ReceiveUpdate(t) \/ ReceiveState(t) \/ ReceiveReject(t)
       PROVE  LinkInv'
  <2>1. /\ down[t] # <<>> /\ down' = [down EXCEPT ![t] = Tail(@)]
        /\ Head(down[t]).type # "close"
        /\ UNCHANGED <<live, refused>>
        /\ \/ socket' = socket /\ Head(down[t]).type # "ready"
           \/ socket' = [socket EXCEPT ![t] = "synced"] /\ Head(down[t]).type = "ready"
        /\ \A u \in Tabs : u # t => up'[u] = up[u]
    BY <1>1, <1>10 DEF ReceiveReady, IgnoreFrame, ReceiveUpdate, ReceiveState, ReceiveReject,
         Receives, Consumed, FieldTypeOK
  <2>2. socket[t] # "closed"
    BY <1>2, <2>1 DEF LinkOK
  <2>3. LinkOK(socket'[t], t, live, refused, up'[t], Tail(down[t]))
    BY <1>1, <1>2, <2>1, <2>2, LinkTail DEF FieldTypeOK
  <2>4. LinkOK(socket'[t], t, live', refused', up'[t], down'[t])
    BY <1>1, <2>1, <2>3 DEF FieldTypeOK
  <2>5. \A u \in Tabs : u # t => LinkOK(socket'[u], u, live', refused', up'[u], down'[u])
    BY <1>1, <1>4, <2>1 DEF FieldTypeOK
  <2> QED BY <2>4, <2>5 DEF LinkInv
<1>11. ASSUME NEW t \in Tabs, GetDoc(t) \/ Release(t) \/ \E n \in Pastes : Edit(t, n)
       PROVE  LinkInv'
  <2>1. /\ UNCHANGED <<socket, live, refused, down>>
        /\ \A u \in Tabs : u # t => up'[u] = up[u]
    BY <1>1, <1>11 DEF GetDoc, Release, Edit, FieldTypeOK
  <2>2. socket[t] = "synced" \/ up'[t] = up[t]
    <3>1. up[t] \o <<>> = up[t]
      BY <1>1
    <3> QED BY <1>1, <1>11, <3>1 DEF GetDoc, Release, Edit, FieldTypeOK
  <2>3. LinkOK(socket'[t], t, live', refused', up'[t], down'[t])
    BY <1>2, <2>1, <2>2, LinkSent
  <2>4. \A u \in Tabs : u # t => LinkOK(socket'[u], u, live', refused', up'[u], down'[u])
    BY <1>4, <2>1
  <2> QED BY <2>3, <2>4 DEF LinkInv
<1>12. CASE UNCHANGED vars
  BY <1>3, <1>12 DEF vars
<1> QED
  BY <1>5, <1>6, <1>7, <1>8, <1>9, <1>10, <1>11, <1>12 DEF Next, Frames

\* A tab's link after a step of another tab.
LEMMA OthersInStep ==
  ASSUME FieldInv, NEW t \in Tabs, NEW u \in Tabs, u # t, NEW M, M = Materialized(field),
         InStep(t, socket[t], refused, entry[t], up[t], down[t], M), t \in live, t \in live',
         NEW N, N = Materialized(field'),
         \/ Frames(u) \/ Connect(u) \/ Disconnect(u) \/ GetDoc(u) \/ Release(u)
         \/ \E n \in Pastes : Edit(u, n)
  PROVE  InStep(t, socket'[t], refused', entry'[t], up'[t], down'[t], N)
<1> USE DEF serverVars, tabVars, historyVars
<1>1. FieldTypeOK /\ Ordered(field) /\ field \in FieldRows /\ down[t] \in Seq(DownFrames)
  BY FieldIs DEF FieldInv, FieldTypeOK
<1>2. ASSUME /\ UNCHANGED <<socket[t], entry[t], up[t], down[t], field>>
             /\ t \in refused' => t \in refused
      PROVE  InStep(t, socket'[t], refused', entry'[t], up'[t], down'[t], N)
  <2>1. N = M
    BY <1>2
  <2> QED BY <1>2, <2>1, InStepSilent
<1>3. CASE ServeUpdate(u)
  <2>1. PICK update \in SUBSET Ops : update = Head(up[u]).ops
    BY <1>1, <1>3, HeadFrames DEF ServeUpdate
  <2>2. UNCHANGED <<socket[t], entry[t], up[t]>>
    BY <1>1, <1>3 DEF ServeUpdate, FieldTypeOK
  <2>3. CASE UNCHANGED <<field, refused, down>>
    BY <1>2, <2>2, <2>3
  <2>4. CASE /\ field' = field /\ refused' = refused \cup {u}
             /\ down' = Send(u, [type |-> "reject"])
    BY <1>1, <1>2, <2>2, <2>4 DEF Send, FieldTypeOK
  <2>5. CASE /\ field' = Appended(field, update) /\ refused' = refused
             /\ down' = Relay(u, [type |-> "update", ops |-> update])
    <3>1. PICK m : m = [type |-> "update", ops |-> update]
      OBVIOUS
    <3>2. down'[t] = Append(down[t], m) /\ m.type = "update" /\ m.ops = update
      BY <2>5, <3>1 DEF Relay
    <3>3. N = M \cup m.ops
      BY <1>1, <2>5, <3>2, AppendedIs
    <3>4. InStep(t, socket[t], refused, entry[t], up[t], Append(down[t], m), M \cup m.ops)
      BY <1>1, <3>2, InStepRelayed
    <3> QED BY <2>2, <2>5, <3>2, <3>3, <3>4
  <2> QED BY <1>3, <2>1, <2>3, <2>4, <2>5 DEF ServeUpdate
<1>4. CASE \/ DropFrame(u) \/ ServeGet(u)
           \/ ReceiveClose(u) \/ ReceiveReady(u) \/ IgnoreFrame(u)
           \/ ReceiveUpdate(u) \/ ReceiveState(u) \/ ReceiveReject(u)
  <2>1. /\ UNCHANGED <<socket[t], entry[t], up[t], down[t], field>>
        /\ t \in refused' => t \in refused
    <3>1. CASE DropFrame(u) \/ ServeGet(u)
      BY <1>1, <3>1 DEF DropFrame, ServeGet, Send, FieldTypeOK
    <3>2. CASE ReceiveClose(u) \/ ReceiveReady(u) \/ IgnoreFrame(u)
      BY <1>1, <3>2 DEF ReceiveClose, HangUp, ReceiveReady, IgnoreFrame, Consumed, FieldTypeOK
    <3>3. CASE ReceiveUpdate(u) \/ ReceiveState(u) \/ ReceiveReject(u)
      BY <1>1, <3>3 DEF ReceiveUpdate, ReceiveState, ReceiveReject, Consumed, FieldTypeOK
    <3> QED BY <1>4, <3>1, <3>2, <3>3
  <2> QED BY <1>2, <2>1
<1>5. CASE \/ Connect(u) \/ Disconnect(u) \/ GetDoc(u) \/ Release(u)
           \/ \E n \in Pastes : Edit(u, n)
  <2>1. /\ UNCHANGED <<socket[t], entry[t], up[t], down[t], field>>
        /\ t \in refused' => t \in refused
    <3>1. CASE Connect(u) \/ Disconnect(u)
      BY <1>1, <3>1 DEF Connect, Disconnect, HangUp, FieldTypeOK
    <3>2. CASE GetDoc(u)
      BY <1>1, <3>2 DEF GetDoc, FieldTypeOK
    <3>3. CASE Release(u)
      BY <1>1, <3>3 DEF Release, FieldTypeOK
    <3>4. ASSUME NEW n \in Pastes, Edit(u, n)
          PROVE  /\ UNCHANGED <<socket[t], entry[t], up[t], down[t], field>>
                 /\ t \in refused' => t \in refused
      <4>1. PICK f, v : entry' = [entry EXCEPT ![u] = f] /\ up' = [up EXCEPT ![u] = v]
        BY <3>4 DEF Edit
      <4> QED BY <1>1, <3>4, <4>1 DEF Edit, FieldTypeOK
    <3> QED BY <1>5, <3>1, <3>2, <3>3, <3>4
  <2> QED BY <1>2, <2>1
<1> QED BY <1>3, <1>4, <1>5 DEF Frames

\* A tab's link after the server served one of its frames.
LEMMA ServedInStep ==
  ASSUME FieldInv, NEW t \in Tabs, NEW M, M = Materialized(field),
         InStep(t, socket[t], refused, entry[t], up[t], down[t], M), t \in live,
         NEW N, N = Materialized(field'),
         ServeGet(t) \/ ServeUpdate(t)
  PROVE  InStep(t, socket'[t], refused', entry'[t], up'[t], down'[t], N)
<1> USE DEF serverVars, tabVars, historyVars
<1>1. /\ FieldTypeOK /\ Ordered(field) /\ field \in FieldRows
      /\ down[t] \in Seq(DownFrames) /\ up[t] \in Seq(UpFrames)
  BY FieldIs DEF FieldInv, FieldTypeOK
<1>2. CASE ServeGet(t)
  <2>1. PICK m : m = [type |-> "state", writable |-> Writable(t), vector |-> Integrated(Loaded),
                      diff |-> Diff(Loaded, Head(up[t]).vector)]
    OBVIOUS
  <2>2. /\ UNCHANGED <<socket, entry, refused, field>>
        /\ up'[t] = Tail(up[t]) /\ down'[t] = Append(down[t], m)
        /\ up[t] # <<>> /\ Head(up[t]).type = "get"
    BY <1>1, <1>2, <2>1 DEF ServeGet, Send, FieldTypeOK
  <2>3. /\ m.type = "state" /\ (m.writable => t \notin refused)
        /\ m.vector \subseteq M /\ m.diff = M \ Head(up[t]).vector
    BY <2>1, LoadedIs DEF Writable, Integrated, Diff
  <2>4. InStep(t, socket[t], refused, entry[t], Tail(up[t]), Append(down[t], m), M)
    BY <1>1, <2>2, <2>3, InStepAnswered
  <2>5. N = M
    BY <2>2
  <2> QED BY <2>2, <2>4, <2>5
<1>3. CASE ServeUpdate(t)
  <2>1. PICK update \in SUBSET Ops : update = Head(up[t]).ops
    BY <1>1, <1>3, HeadFrames DEF ServeUpdate
  <2>2. /\ UNCHANGED <<socket, entry>>
        /\ up'[t] = Tail(up[t]) /\ up[t] # <<>> /\ Head(up[t]).type = "update"
    BY <1>1, <1>3 DEF ServeUpdate, FieldTypeOK
  <2>3. CASE t \in refused /\ UNCHANGED <<field, refused, down>>
    <3>1. N = M
      BY <2>3
    <3> QED BY <1>1, <2>2, <2>3, <3>1, InStepRefused
  <2>4. CASE /\ field' = field /\ refused' = refused \cup {t}
             /\ down' = Send(t, [type |-> "reject"])
    <3>1. PICK m : m = [type |-> "reject"]
      OBVIOUS
    <3>2. m.type = "reject" /\ down'[t] = Append(down[t], m) /\ N = M
      BY <1>1, <2>4, <3>1 DEF Send, FieldTypeOK
    <3>3. InStep(t, socket[t], refused \cup {t}, entry[t], Tail(up[t]), Append(down[t], m), M)
      BY <1>1, <2>2, <3>2, InStepRefused
    <3> QED BY <2>2, <2>4, <3>2, <3>3
  <2>5. CASE /\ field' = Appended(field, update) /\ refused' = refused
             /\ down' = Relay(t, [type |-> "update", ops |-> update])
    <3>1. down'[t] = down[t]
      BY <2>5 DEF Relay
    <3>2. N = M \cup Head(up[t]).ops
      BY <1>1, <2>1, <2>5, AppendedIs
    <3> QED BY <1>1, <2>2, <2>5, <3>1, <3>2, InStepAccepted
  <2> QED BY <1>3, <2>1, <2>3, <2>4, <2>5 DEF ServeUpdate
<1> QED BY <1>2, <1>3

\* A tab's link after the tab read a frame.
LEMMA ReadInStep ==
  ASSUME FieldInv, LinkInv, NEW t \in Tabs, NEW M, M = Materialized(field),
         InStep(t, socket[t], refused, entry[t], up[t], down[t], M), t \in live,
         NEW N, N = Materialized(field'),
         \/ ReceiveReady(t) \/ IgnoreFrame(t)
         \/ ReceiveUpdate(t) \/ ReceiveState(t) \/ ReceiveReject(t)
  PROVE  InStep(t, socket'[t], refused', entry'[t], up'[t], down'[t], N)
<1> USE DEF serverVars, tabVars, historyVars
<1>1. /\ FieldTypeOK
      /\ down[t] \in Seq(DownFrames) /\ up[t] \in Seq(UpFrames)
  BY DEF FieldInv, FieldTypeOK
<1>2. /\ down[t] # <<>> /\ down'[t] = Tail(down[t])
      /\ UNCHANGED <<field, refused>> /\ N = M
  BY <1>1 DEF ReceiveReady, IgnoreFrame, ReceiveUpdate, ReceiveState, ReceiveReject,
       Receives, Consumed, FieldTypeOK
<1>3. ASSUME entry[t] # None
      PROVE  entry[t] \in Entries
  BY <1>1, <1>3, EntryIs
<1>4. CASE ReceiveReady(t)
  <2>1. /\ Head(down[t]).type = "ready" /\ socket'[t] = "synced" /\ entry' = entry
        /\ up'[t] = IF entry[t] # None THEN Append(up[t], Get(entry[t])) ELSE up[t]
    BY <1>1, <1>4 DEF ReceiveReady, Receives, FieldTypeOK
  <2>2. PICK v : v = IF entry[t] # None THEN Append(up[t], Get(entry[t])) ELSE up[t]
    OBVIOUS
  <2>3. InStep(t, "synced", refused, entry[t], v, Tail(down[t]), M)
    BY <1>1, <1>2, <2>1, <2>2, InStepReady
  <2> QED BY <1>2, <2>1, <2>2, <2>3
<1>5. CASE IgnoreFrame(t)
  <2>1. entry[t] = None /\ UNCHANGED <<socket, entry, up>>
    BY <1>5 DEF IgnoreFrame
  <2>2. InStep(t, socket[t], refused, None, up[t], Tail(down[t]), M)
    BY <1>1, <1>2, <2>1, InStepIgnored
  <2> QED BY <1>2, <2>1, <2>2
<1>6. CASE ReceiveUpdate(t)
  <2>1. PICK f : f = [entry[t] EXCEPT !.doc = @ \cup Head(down[t]).ops]
    OBVIOUS
  <2>2. /\ Head(down[t]).type = "update" /\ entry[t] # None /\ UNCHANGED <<socket, up>>
        /\ entry'[t] = f
    BY <1>1, <1>6, <2>1 DEF ReceiveUpdate, Receives, FieldTypeOK
  <2>3. /\ f.doc = entry[t].doc \cup Head(down[t]).ops
        /\ f.canWrite = entry[t].canWrite /\ f.synced = entry[t].synced
    BY <1>3, <2>1, <2>2 DEF Entries
  <2>4. InStep(t, socket[t], refused, f, up[t], Tail(down[t]), M)
    BY <1>1, <1>2, <2>2, <2>3, InStepUpdated
  <2> QED BY <1>2, <2>2, <2>4
<1>7. CASE ReceiveReject(t)
  <2>1. PICK f : f = [entry[t] EXCEPT !.rejected = TRUE, !.canWrite = FALSE]
    OBVIOUS
  <2>2. /\ Head(down[t]).type = "reject" /\ entry[t] # None /\ UNCHANGED <<socket, up>>
        /\ entry'[t] = f
    BY <1>1, <1>7, <2>1 DEF ReceiveReject, Receives, FieldTypeOK
  <2>3. f.doc = entry[t].doc /\ ~f.canWrite /\ f.synced = entry[t].synced
    BY <1>3, <2>1, <2>2 DEF Entries
  <2>4. InStep(t, socket[t], refused, f, up[t], Tail(down[t]), M)
    BY <1>1, <1>2, <2>2, <2>3, InStepRejected
  <2> QED BY <1>2, <2>2, <2>4
<1>8. CASE ReceiveState(t)
  <2>1. PICK e : e = Stated(entry[t], Head(down[t]))
    OBVIOUS
  <2>2. PICK p : p = IF e.canWrite THEN Diff(e.doc, Head(down[t]).vector) ELSE {}
    OBVIOUS
  <2>3. PICK f : f = Blocked(e, p)
    OBVIOUS
  <2>4. /\ Head(down[t]).type = "state" /\ entry[t] # None /\ socket' = socket
        /\ entry'[t] = f /\ up'[t] = up[t] \o UpdateFrames(p)
    BY <1>1, <1>8, <2>1, <2>2, <2>3 DEF ReceiveState, Receives, FieldTypeOK
  <2>5. socket[t] = "synced"
    <3>1. LinkOK(socket[t], t, live, refused, up[t], down[t]) /\ down[t] # <<>>
      BY <1>2 DEF LinkInv
    <3> QED BY <1>1, <2>4, <3>1 DEF LinkOK, FieldTypeOK
  <2>6. /\ e \in Entries /\ e.doc = entry[t].doc \cup Head(down[t]).diff /\ e.synced
        /\ e.canWrite => Head(down[t]).writable
    <3>1. Head(down[t]).diff \in SUBSET Ops /\ Head(down[t]).writable \in BOOLEAN
      BY <1>1, <1>2, <2>4, HeadFrames
    <3> QED BY <1>3, <2>1, <2>4, <3>1 DEF Stated, Entries
  <2>7. p \in SUBSET Ops /\ p \subseteq e.doc
    BY <2>2, <2>6 DEF Diff, Entries
  <2>8. /\ f.doc = e.doc /\ f.synced
        /\ f.canWrite => e.canWrite /\ ~(Cardinality(p) > MaxUpdate)
    BY <2>3, <2>6 DEF Blocked, Entries
  <2>9. f.canWrite => p = f.doc \ Head(down[t]).vector
    BY <2>2, <2>8 DEF Diff
  <2>10. InStep(t, "synced", refused, f, up[t] \o UpdateFrames(p), Tail(down[t]), M)
    <3>1. InStep(t, "synced", refused, entry[t], up[t], down[t], M)
      BY <2>5
    <3> QED BY <1>1, <1>2, <2>4, <2>6, <2>7, <2>8, <2>9, <3>1, InStepStated
  <2> QED BY <1>2, <2>4, <2>5, <2>10
<1> QED BY <1>4, <1>5, <1>6, <1>7, <1>8

\* A tab's link after the tab opened, edited or released its handle.
LEMMA HeldInStep ==
  ASSUME FieldInv, NEW t \in Tabs, NEW M, M = Materialized(field),
         InStep(t, socket[t], refused, entry[t], up[t], down[t], M), t \in live,
         NEW N, N = Materialized(field'),
         GetDoc(t) \/ Release(t) \/ \E n \in Pastes : Edit(t, n)
  PROVE  InStep(t, socket'[t], refused', entry'[t], up'[t], down'[t], N)
<1> USE DEF serverVars, tabVars, historyVars
<1>1. /\ FieldTypeOK
      /\ down[t] \in Seq(DownFrames) /\ up[t] \in Seq(UpFrames)
  BY DEF FieldInv, FieldTypeOK
<1>2. UNCHANGED <<field, refused, socket, down>> /\ N = M
  BY DEF GetDoc, Release, Edit
<1>3. CASE GetDoc(t)
  <2>1. PICK f : f = NewEntry(handles[t] + 1)
    OBVIOUS
  <2>2. PICK m : m = Get(NewEntry(0))
    OBVIOUS
  <2>3. /\ entry'[t] = f
        /\ socket[t] = "synced" => up'[t] = Append(up[t], m)
    BY <1>1, <1>3, <2>1, <2>2 DEF GetDoc, FieldTypeOK
  <2>4. ~f.canWrite
    BY <2>1 DEF NewEntry
  <2>5. m.type = "get" /\ m.vector = {}
    BY <2>2 DEF Get, NewEntry, Integrated
  <2>6. InStep(t, socket[t], refused, f, up'[t], down[t], M)
    BY <1>1, <2>3, <2>4, <2>5, InStepOpened
  <2> QED BY <1>2, <2>3, <2>6
<1>4. CASE Release(t)
  <2>1. entry'[t] = None /\ up' = up
    BY <1>1, <1>4 DEF Release, FieldTypeOK
  <2> QED BY <1>2, <2>1, InStepReleased
<1>5. ASSUME NEW n \in Pastes, Edit(t, n)
      PROVE  InStep(t, socket'[t], refused', entry'[t], up'[t], down'[t], N)
  <2>1. PICK p \in SUBSET Ops :
          p = {<<t, entry[t].gen, Clock(entry[t], t) + i>> : i \in 1..n}
    BY <1>5, EditedTyped DEF Edit
  <2>2. PICK e : e = [entry[t] EXCEPT !.doc = @ \cup p]
    OBVIOUS
  <2>3. /\ entry[t] # None /\ entry[t] \in Entries
        /\ entry[t].canWrite /\ socket[t] = "synced" =>
             entry'[t] = Blocked(e, p) /\ up'[t] = up[t] \o UpdateFrames(p)
        /\ ~(entry[t].canWrite /\ socket[t] = "synced") =>
             entry'[t] = e /\ up'[t] = up[t] \o <<>>
    BY <1>1, <1>5, <2>1, <2>2, EntryIs DEF Edit, FieldTypeOK
  <2>4. /\ e.doc = entry[t].doc \cup p /\ e.synced = entry[t].synced
        /\ e.canWrite = entry[t].canWrite /\ e \in Entries
    BY <2>2, <2>3 DEF Entries
  <2>5. CASE entry[t].canWrite /\ socket[t] = "synced"
    <3>1. PICK f : f = Blocked(e, p)
      OBVIOUS
    <3>2. /\ f.doc = entry[t].doc \cup p /\ f.synced = entry[t].synced
          /\ f.canWrite => ~(Cardinality(p) > MaxUpdate)
      BY <2>4, <3>1 DEF Blocked, Entries
    <3>3. InStep(t, "synced", refused, f, up[t] \o UpdateFrames(p), down[t], M)
      BY <1>1, <2>3, <2>5, <3>2, InStepEdited
    <3> QED BY <1>2, <2>3, <2>5, <3>1, <3>3
  <2>6. CASE ~(entry[t].canWrite /\ socket[t] = "synced")
    <3>1. up[t] \o <<>> = up[t]
      BY <1>1
    <3>2. InStep(t, socket[t], refused, e, up[t], down[t], M)
      BY <2>3, <2>4, <2>6, InStepKeptBack
    <3> QED BY <1>2, <2>3, <2>6, <3>1, <3>2
  <2> QED BY <2>5, <2>6
<1> QED BY <1>3, <1>4, <1>5

\* A tab's link when it connects: nothing is asked of it but a warning.
LEMMA ConnectedInStep ==
  ASSUME FieldInv, LinkInv, NEW t \in Tabs, Connect(t), NEW N
  PROVE  InStep(t, socket'[t], refused', entry'[t], up'[t], down'[t], N)
<1> USE DEF serverVars, tabVars, historyVars
<1>1. t \notin refused
  BY DEF LinkInv, LinkOK, Connect
<1>2. PICK d : d = <<[type |-> "ready"]>>
  OBVIOUS
<1>3. socket'[t] = "syncing" /\ refused' = refused /\ down'[t] = d
  BY <1>2 DEF Connect, FieldInv, FieldTypeOK
<1>4. \A i \in DOMAIN d : FrameIn(d[i], N)
  BY <1>2 DEF FrameIn, Brought
<1>5. Warned(t, refused, entry'[t], d)
  BY <1>1 DEF Warned
<1> QED BY <1>3, <1>4, <1>5 DEF InStep

LEMMA StepStep ==
  ASSUME FieldInv, LinkInv, StepInv, [Next]_vars
  PROVE  StepInv'
<1> USE DEF serverVars, tabVars, historyVars
<1> SUFFICES ASSUME "reset" \notin wiped', NEW t \in live'
             PROVE  InStep(t, socket'[t], refused', entry'[t], up'[t], down'[t], Materialized(field'))
  BY DEF StepInv, Materialized, UpdatesAfter
<1>1. "reset" \notin wiped /\ ~Import /\ ~Reset
  BY StepStore DEF Kept, Import, Reset
<1>2. FieldTypeOK /\ live \subseteq Tabs
  BY DEF FieldInv, FieldTypeOK
<1>3. PICK M : M = Materialized(field)
  OBVIOUS
<1>4. PICK N : N = Materialized(field')
  OBVIOUS
<1>5. t \in live => InStep(t, socket[t], refused, entry[t], up[t], down[t], M)
  BY <1>1, <1>3 DEF StepInv
<1>6. CASE CompactField \/ Wake \/ Evict \/ Export
  <2>1. t \in live /\ UNCHANGED <<socket, entry, up, down>> /\ refused' \subseteq refused
    BY <1>6 DEF CompactField, Wake, Evict, Export
  <2>2. N = M
    <3>1. CASE CompactField
      BY <1>3, <1>4, <3>1, CompactedIs, FieldIs DEF CompactField, FieldInv
    <3>2. CASE Wake \/ Evict \/ Export
      BY <1>3, <1>4, <3>2 DEF Wake, Evict, Export
    <3> QED BY <1>6, <3>1, <3>2
  <2>3. InStep(t, socket[t], refused', entry[t], up[t], down[t], M)
    BY <1>5, <2>1, InStepSilent
  <2> QED BY <1>4, <2>1, <2>2, <2>3
<1>7. ASSUME NEW u \in Tabs,
             \/ Frames(u) \/ Connect(u) \/ Disconnect(u) \/ GetDoc(u) \/ Release(u)
             \/ \E n \in Pastes : Edit(u, n)
      PROVE  InStep(t, socket'[t], refused', entry'[t], up'[t], down'[t], N)
  <2>1. CASE Connect(u) /\ u = t
    BY <2>1, ConnectedInStep
  <2>2. CASE ~(Connect(u) /\ u = t)
    <3>1. t \in live
      BY <1>2, <1>7, <2>2
         DEF Frames, DropFrame, ServeGet, ServeUpdate, ReceiveClose, HangUp, ReceiveReady,
             IgnoreFrame, ReceiveUpdate, ReceiveState, ReceiveReject, Connect, Disconnect,
             GetDoc, Release, Edit
    <3>2. t \in Tabs /\ InStep(t, socket[t], refused, entry[t], up[t], down[t], M)
      BY <1>2, <1>5, <3>1
    <3>3. CASE u # t
      BY <1>3, <1>4, <1>7, <3>1, <3>2, <3>3, OthersInStep
    <3>4. CASE u = t
      <4>1. ~DropFrame(t)
        BY <3>1 DEF DropFrame
      <4>2. ~ReceiveClose(t) /\ ~Disconnect(t)
        BY DEF ReceiveClose, Disconnect, HangUp
      <4>3. CASE ServeGet(t) \/ ServeUpdate(t)
        BY <1>3, <1>4, <3>1, <3>2, <4>3, ServedInStep
      <4>4. CASE \/ ReceiveReady(t) \/ IgnoreFrame(t)
                 \/ ReceiveUpdate(t) \/ ReceiveState(t) \/ ReceiveReject(t)
        BY <1>3, <1>4, <3>1, <3>2, <4>4, ReadInStep
      <4>5. CASE GetDoc(t) \/ Release(t) \/ \E n \in Pastes : Edit(t, n)
        BY <1>3, <1>4, <3>1, <3>2, <4>5, HeldInStep
      <4> QED BY <1>7, <2>2, <3>4, <4>1, <4>2, <4>3, <4>4, <4>5 DEF Frames
    <3> QED BY <3>3, <3>4
  <2> QED BY <2>1, <2>2
<1>8. CASE UNCHANGED vars
  BY <1>5, <1>8, <1>3 DEF vars
<1> QED BY <1>1, <1>4, <1>6, <1>7, <1>8 DEF Next

LEMMA InitLink == FieldInit => LinkInv /\ StepInv
BY HasNone DEF FieldInit, LinkInv, LinkOK, StepInv

\* The inductive invariant of the links (client.ts, server.ts): as long as no
\* reset wiped the tables, a live tab and the rows will hold the same once the
\* frames between them are read, unless the tab is about to lose write access.
THEOREM LinksCorrect == FieldSpec => [](LinkInv /\ StepInv)
<1>1. FieldInit => LinkInv /\ StepInv
  BY InitLink
<1>2. FieldInv /\ (LinkInv /\ StepInv) /\ [Next]_vars => (LinkInv /\ StepInv)'
  BY StepLink, StepStep
<1> QED BY <1>1, <1>2, FieldCorrect, PTL DEF FieldSpec

\* The handshake converges (client.ts onFrame): whatever broke, woke or was
\* restored, when nothing is in flight a synced tab holds all the server has,
\* and the server all that a tab with write access holds.
THEOREM QuietTabsAgree == FieldSpec => []QuietAgrees
<1>1. ASSUME FieldInv, LinkInv, StepInv
      PROVE  QuietAgrees
  <2> SUFFICES ASSUME "reset" \notin wiped, Quiet, NEW t \in Tabs, socket[t] = "synced", entry[t] # None
               PROVE  /\ entry[t].synced
                      /\ Materialized(field) \subseteq entry[t].doc
                      /\ entry[t].canWrite => entry[t].doc \subseteq Materialized(field)
    BY DEF QuietAgrees, FieldsAgree
  <2>1. up[t] = <<>> /\ down[t] = <<>> /\ DOMAIN <<>> = {}
    BY DEF Quiet
  <2>2. t \in live
    BY <1>1, <2>1, HasNone DEF LinkInv, LinkOK
  <2>3. InStep(t, "synced", refused, entry[t], <<>>, <<>>, Materialized(field))
    BY <1>1, <2>1, <2>2 DEF StepInv
  <2>4. ~Asked(<<>>, <<>>) /\ ~Has(<<>>, "reject")
    BY HasNone DEF Asked
  <2>5. Coming(entry[t], <<>>) = entry[t].doc /\ Leaving(<<>>) = {}
    BY <2>1 DEF Coming, Leaving
  <2>6. Materialized(field) \subseteq entry[t].doc
    BY <2>1, <2>3, <2>5 DEF InStep, Covered
  <2> QED BY <2>3, <2>4, <2>5, <2>6 DEF InStep, Pushed
<1> QED BY <1>1, FieldCorrect, LinksCorrect, PTL
=============================================================================
