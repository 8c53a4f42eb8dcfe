---------------------------- MODULE OfflineProofs ----------------------------
(***************************************************************************)
(* Proofs about OfflineSystem, for every value of its constants: types,    *)
(* the order of the queue over crashes and reloads, what the store holds   *)
(* of the rows, and that it loses no mutation it ever held.                *)
(***************************************************************************)
EXTENDS OfflineSystem, SyncProofs

-----------------------------------------------------------------------------
(* The steps of OfflineSystem *)

\* The events of SyncSystem that a tab takes, and the server's.
SyncEvent ==
  \/ ServerNext /\ UNCHANGED offlineVars
  \/ \E c \in Clients :
       (\E m \in Mutations : MutateTab(c, m)) \/ ReceivePokeTab(c) \/ OtherEvent(c)

\* A client is constructed or started.
Wakes(c) == Construct(c) \/ Start(c)

\* The life of a tab and of its store.
TabEvent(c) == Wakes(c) \/ Hydrate(c) \/ FailHydrate(c) \/ Crash(c) \/ Commit(c) \/ FailWrite(c)

LEMMA OfflineSteps == OfflineNext <=> SyncEvent \/ \E c \in Clients : TabEvent(c)
BY DEF OfflineNext, TabNext, SyncEvent, TabEvent, Wakes

LEMMA EventIsSync == SyncEvent => SyncNext
BY DEF SyncEvent, SyncNext, ClientNext, MutateTab, ReceivePokeTab, OtherEvent

LEMMA WakesTab ==
  ASSUME NEW c \in Clients, Wakes(c)
  PROVE  /\ UNCHANGED <<vars, diskVars, writes>> /\ push = Idle /\ tab[c] # "running"
         /\ \E to \in {"made", "hydrating"} : tab' = [tab EXCEPT ![c] = to]
BY DEF Wakes, Construct, Start

\* A tab that goes takes its end of the socket with it, if it had one.
LEMMA CrashServer ==
  ASSUME StoreOK, HistoryInv, NEW c \in Clients, Crash(c)
  PROVE  StoreOK' /\ HistoryInv' /\ Grows
<1>1. /\ UNCHANGED <<meta, store, snapshot, sess, push>>
      /\ listening' = listening \ {c} /\ down' = [down EXCEPT ![c] = <<>>]
  BY DEF Crash
<1>2. StoreOK'
  <2>1. <<>> \in Seq(Pokes \cup Errors)
    OBVIOUS
  <2> QED BY <1>1, <2>1 DEF StoreOK, meta, store
<1>3. Recorded' /\ Stamped' /\ Kept' /\ CacheSound' /\ PushAnchored' /\ Grows
  BY <1>1 DEF HistoryInv, meta, store, Recorded, Stamped, Kept, CacheSound, PushAnchored,
     CursorAt, Patched, Grows
<1>4. PokesSound'
  <2>1. ASSUME NEW d \in Clients PROVE down'[d] = down[d] \/ down'[d] = <<>>
    BY <1>1 DEF StoreOK
  <2>2. Len(<<>>) = 0
    OBVIOUS
  <2> QED BY <1>1, <2>1, <2>2 DEF HistoryInv, PokesSound, SoundIn, Patched, store
<1> QED BY <1>2, <1>3, <1>4 DEF HistoryInv

\* Whatever happens, the server's part keeps its types, its history and what it said before.
LEMMA OfflineServer ==
  ASSUME OfflineTypeOK, HistoryInv, OfflineNext
  PROVE  StoreOK' /\ HistoryInv' /\ Grows
<1>1. SyncTypeOK /\ StoreOK /\ ReplicaOK
  BY SyncReplicaOK DEF OfflineTypeOK, SyncTypeOK, TypeOK
<1>2. CASE SyncEvent
  BY <1>1, <1>2, EventIsSync, ServerPart, ServerInv
<1>3. ASSUME NEW c \in Clients, TabEvent(c) PROVE StoreOK' /\ HistoryInv' /\ Grows
  <2>1. CASE Crash(c)
    BY <1>1, <2>1, CrashServer
  <2>2. CASE Wakes(c) \/ Hydrate(c) \/ FailHydrate(c) \/ Commit(c) \/ FailWrite(c)
    <3>1. UNCHANGED serverVars
      BY <2>2, WakesTab DEF Hydrate, FailHydrate, Commit, FailWrite, vars
    <3> QED BY <1>1, <3>1, ServerInv
  <2> QED BY <1>3, <2>1, <2>2 DEF TabEvent
<1> QED BY <1>2, <1>3, OfflineSteps

-----------------------------------------------------------------------------
(* Types *)

Writes == PokeWrites \cup OutboxWrites

\* What the store adds to SyncTypeOK.
TabTypeOK ==
  /\ tab \in [Clients -> {"closed", "made", "hydrating", "running"}]
  /\ diskRows \in Rows
  /\ diskCursor \in Cursors \cup {NoCursor}
  /\ diskOutbox \in [Clients -> OutboxRecords]
  /\ writes \in [Clients -> Seq(Writes)]
  /\ durable \subseteq Mutations
  /\ unread \subseteq Mutations
  /\ skipped \in BOOLEAN

LEMMA OfflineTypeIs == OfflineTypeOK <=> SyncTypeOK /\ TabTypeOK
BY DEF OfflineTypeOK, TabTypeOK, Writes

LEMMA NamesType ==
  ASSUME NEW entries \in Seq(Entry)
  PROVE  Names(entries) \subseteq Mutations
BY EntriesOf DEF Names

\* Operations a tab issues, after those it has outstanding.
LEMMA IssueType ==
  ASSUME writes \in [Clients -> Seq(Writes)], NEW c \in Clients, NEW ops \in Seq(Writes),
         writes' \in {writes, [writes EXCEPT ![c] = @ \o ops]}
  PROVE  writes' \in [Clients -> Seq(Writes)]
<1>1. writes[c] \o ops \in Seq(Writes)
  OBVIOUS
<1> QED BY <1>1

LEMMA SaveOutboxType ==
  ASSUME ClientTypeOK', NEW c \in Clients
  PROVE  SaveOutbox(c) \in Writes
BY DEF ClientTypeOK, SaveOutbox, Snapshotted, Writes, OutboxWrites, OutboxRecords

LEMMA SavePokeType ==
  ASSUME ClientTypeOK', NEW c \in Clients, NEW poke \in Pokes
  PROVE  SavePoke(c, poke) \in Writes
<1>1. Snapshotted(c) \in OutboxRecords
  BY DEF ClientTypeOK, Snapshotted, OutboxRecords
<1> QED BY <1>1 DEF SavePoke, Writes, PokeWrites, Pokes

LEMMA EventTypes ==
  ASSUME OfflineTypeOK, HistoryInv, SyncEvent
  PROVE  OfflineTypeOK'
<1>1. SyncTypeOK /\ TabTypeOK /\ StoreOK
  BY OfflineTypeIs DEF SyncTypeOK, TypeOK
<1>2. SyncTypeOK' /\ ClientTypeOK'
  BY <1>1, EventIsSync, StepSyncType DEF SyncTypeOK, ClientTypeOK, Frames
<1>3. CASE UNCHANGED offlineVars
  BY <1>1, <1>2, <1>3, OfflineTypeIs DEF OfflineTypeOK, TabTypeOK, Writes, offlineVars, diskVars
<1>4. ASSUME NEW c \in Clients, NEW m \in Mutations, MutateTab(c, m) PROVE OfflineTypeOK'
  <2>1. SaveOutbox(c) \in Writes
    BY <1>2, SaveOutboxType
  <2>2. <<SaveOutbox(c)>> \in Seq(Writes)
    BY <2>1
  <2>3. /\ writes' \in {writes, [writes EXCEPT ![c] = @ \o <<SaveOutbox(c)>>]}
        /\ UNCHANGED <<tab, diskRows, diskCursor, diskOutbox, durable, skipped>>
        /\ unread' \in {unread, unread \cup WrittenOver(c)}
    BY <1>4 DEF MutateTab, PersistOutbox, Issue
  <2>4. writes' \in [Clients -> Seq(Writes)]
    BY <1>1, <2>2, <2>3, IssueType DEF TabTypeOK
  <2>5. WrittenOver(c) \subseteq Mutations
    <3>1. diskOutbox[c].entries \in Seq(Entry)
      BY <1>1 DEF TabTypeOK, OutboxRecords
    <3> QED BY <3>1, EntriesOf DEF WrittenOver, Entries
  <2> QED BY <1>1, <1>2, <2>3, <2>4, <2>5 DEF OfflineTypeOK, TabTypeOK, Writes
<1>5. ASSUME NEW c \in Clients, ReceivePokeTab(c) PROVE OfflineTypeOK'
  <2> DEFINE poke == Head(down[c])
  <2>1. poke \in Pokes
    BY <1>1, <1>5, HeadPoke DEF ReceivePokeTab, ReceivePoke, Read
  <2>2. SaveOutbox(c) \in Writes /\ SavePoke(c, poke) \in Writes
    BY <1>2, <2>1, SaveOutboxType, SavePokeType
  <2>3. PICK ops : ops \in Seq(Writes) /\ writes' \in {writes, [writes EXCEPT ![c] = @ \o ops]}
    <3>1. CASE Mismatched(c, poke)
      <4>1. writes' = writes /\ <<>> \in Seq(Writes)
        BY <1>5, <3>1 DEF ReceivePokeTab
      <4> QED BY <4>1
    <3>2. CASE ~Mismatched(c, poke)
      <4>1. PersistPoke(c, poke)
        BY <1>5, <3>2 DEF ReceivePokeTab
      <4>2. \/ writes' = [writes EXCEPT ![c] = @ \o (<<SavePoke(c, poke)>> \o <<SaveOutbox(c)>>)]
            \/ writes' = [writes EXCEPT ![c] = @ \o (<<SavePoke(c, poke)>> \o <<>>)]
        BY <4>1 DEF PersistPoke, Issue
      <4>3. /\ <<SavePoke(c, poke)>> \o <<SaveOutbox(c)>> \in Seq(Writes)
            /\ <<SavePoke(c, poke)>> \o <<>> \in Seq(Writes)
        BY <2>2
      <4> QED BY <4>2, <4>3
    <3> QED BY <3>1, <3>2
  <2>4. UNCHANGED <<tab, diskVars>>
    BY <1>5 DEF ReceivePokeTab
  <2>5. writes' \in [Clients -> Seq(Writes)]
    BY <1>1, <2>3, IssueType DEF TabTypeOK
  <2> QED BY <1>1, <1>2, <2>4, <2>5 DEF OfflineTypeOK, TabTypeOK, Writes, diskVars
<1> QED BY <1>3, <1>4, <1>5 DEF SyncEvent, OtherEvent

LEMMA TabTypes ==
  ASSUME OfflineTypeOK, HistoryInv, NEW c \in Clients, TabEvent(c)
  PROVE  OfflineTypeOK'
<1>1. SyncTypeOK /\ TabTypeOK /\ StoreOK /\ ClientTypeOK
  BY OfflineTypeIs, SyncTypeIs DEF SyncTypeOK, TypeOK
<1>2. /\ outbox[c] \in Seq(Entry) /\ diskOutbox[c] \in OutboxRecords /\ writes[c] \in Seq(Writes)
      /\ diskOutbox[c].entries \in Seq(Entry) /\ diskOutbox[c].confirmed \in Nat
  BY <1>1 DEF SyncTypeOK, TabTypeOK, OutboxRecords
<1>3. ASSUME Wakes(c) PROVE OfflineTypeOK'
  <2>1. UNCHANGED <<vars, diskVars, writes>> /\ tab' \in [Clients -> {"closed", "made", "hydrating", "running"}]
    BY <1>1, <1>3, WakesTab DEF TabTypeOK
  <2>2. SyncTypeOK'
    BY <1>1, <2>1 DEF vars, clientVars, replicaVars, queueVars, linkVars, serverVars, SyncTypeOK, TypeOK, StoreOK
  <2> QED BY <1>1, <2>1, <2>2 DEF OfflineTypeOK, TabTypeOK, Writes, diskVars
<1>4. ASSUME Hydrate(c) PROVE OfflineTypeOK'
  <2>1. Hydrated(c) \in Seq(Entry)
    BY <1>2 DEF Hydrated
  <2>2. /\ outbox' = [outbox EXCEPT ![c] = Hydrated(c)]
        /\ confirmedLmid' = [confirmedLmid EXCEPT ![c] = diskOutbox[c].confirmed]
        /\ clientCursor' = [clientCursor EXCEPT ![c] = diskCursor]
        /\ replica' \in {replica, [replica EXCEPT ![c] = diskRows]}
        /\ UNCHANGED <<serverVars, outcome, issued, linkVars, up, trouble, diskVars>>
        /\ tab' = [tab EXCEPT ![c] = "running"]
    BY <1>4 DEF Hydrate
  <2>3. ClientTypeOK'
    BY <1>1, <1>2, <2>1, <2>2 DEF ClientTypeOK, TabTypeOK, linkVars
  <2>4. TypeOK'
    BY <1>1, <2>2 DEF SyncTypeOK, TypeOK, StoreOK, serverVars
  <2>5. <<SaveOutbox(c)>> \in Seq(Writes) /\ <<>> \in Seq(Writes)
    BY <2>3, SaveOutboxType
  <2>6. \E ops \in {<<>>, <<SaveOutbox(c)>>} : writes' = [writes EXCEPT ![c] = @ \o ops]
    BY <1>4 DEF Hydrate, Issue
  <2>7. writes' \in [Clients -> Seq(Writes)]
    BY <1>1, <2>5, <2>6, IssueType DEF TabTypeOK
  <2> QED BY <1>1, <2>2, <2>3, <2>4, <2>7 DEF OfflineTypeOK, SyncTypeOK, ClientTypeOK, Frames, TabTypeOK, Writes, diskVars
<1>5. ASSUME FailHydrate(c) PROVE OfflineTypeOK'
  <2>1. /\ tab' = [tab EXCEPT ![c] = "running"] /\ unread' = unread \cup Names(diskOutbox[c].entries)
        /\ UNCHANGED <<serverVars, clientVars, up, diskRows, diskCursor, diskOutbox, durable, skipped>>
        /\ trouble' \in Nat
    BY <1>1, <1>5, TroubleType DEF FailHydrate, ClientTypeOK
  <2> DEFINE op == [type |-> "outbox", outbox |-> [entries |-> outbox[c], confirmed |-> 0]]
  <2>2. <<op>> \in Seq(Writes) /\ <<>> \in Seq(Writes)
    <3>1. op \in Writes
      BY <1>2 DEF Writes, OutboxWrites, OutboxRecords
    <3> QED BY <3>1
  <2>3. \E ops \in {<<>>, <<op>>} : writes' = [writes EXCEPT ![c] = @ \o ops]
    BY <1>5 DEF FailHydrate, Issue
  <2> HIDE DEF op
  <2>4. writes' \in [Clients -> Seq(Writes)]
    BY <1>1, <2>2, <2>3, IssueType DEF TabTypeOK
  <2>5. SyncTypeOK'
    BY <1>1, <2>1 DEF SyncTypeOK, TypeOK, StoreOK, serverVars, clientVars, replicaVars, queueVars,
       linkVars
  <2>6. unread' \subseteq Mutations
    BY <1>1, <1>2, <2>1, NamesType DEF TabTypeOK
  <2> QED BY <1>1, <2>1, <2>4, <2>5, <2>6 DEF OfflineTypeOK, TabTypeOK, Writes
<1>6. ASSUME Crash(c) PROVE OfflineTypeOK'
  <2>1. StoreOK'
    BY <1>1, <1>6, CrashServer
  <2>2. UNCHANGED <<push, mutationLog>>
    BY <1>6 DEF Crash, store
  <2>3. trouble' \in Nat
    BY <1>1, <1>6, TroubleType DEF Crash, ClientTypeOK
  <2>4. [k \in Keys |-> Deleted] \in Rows /\ <<>> \in Seq(Entry) /\ <<>> \in Seq(Writes)
    BY DEF Rows, Content
  <2>5. ClientTypeOK'
    BY <1>1, <1>6, <2>3, <2>4 DEF Crash, ClientTypeOK
  <2>6. TabTypeOK'
    BY <1>1, <1>6, <2>4 DEF Crash, TabTypeOK, diskVars
  <2> QED BY <1>1, <2>1, <2>2, <2>5, <2>6 DEF OfflineTypeOK, TabTypeOK, Writes, SyncTypeOK, ClientTypeOK,
         Frames, TypeOK
<1>7. ASSUME Commit(c) PROVE OfflineTypeOK'
  <2> DEFINE op == Head(writes[c])
  <2>1. op \in Writes /\ Tail(writes[c]) \in Seq(Writes)
    BY <1>2, <1>7 DEF Commit
  <2>2. /\ op.outbox \in OutboxRecords /\ op.outbox.entries \in Seq(Entry)
        /\ op.type # "outbox" => op \in PokeWrites
    BY <2>1 DEF Writes, PokeWrites, OutboxWrites, OutboxRecords
  <2>3. /\ \/ UNCHANGED <<diskRows, diskCursor, skipped>>
           \/ /\ op.type # "outbox" /\ diskRows' = RowsAfter(op) /\ diskCursor' = op.cursor
              /\ skipped' = (skipped /\ ~op.clear)
        /\ diskOutbox' = [diskOutbox EXCEPT ![c] = op.outbox]
        /\ durable' = durable \cup Names(op.outbox.entries)
        /\ writes' = [writes EXCEPT ![c] = Tail(@)]
        /\ UNCHANGED <<vars, tab, unread>>
    BY <1>7 DEF Commit
  <2> HIDE DEF op
  <2>4. SyncTypeOK'
    BY <1>1, <2>3 DEF vars, clientVars, replicaVars, queueVars, linkVars, serverVars, SyncTypeOK,
       TypeOK, StoreOK
  <2>5. diskRows' \in Rows /\ diskCursor' \in Cursors \cup {NoCursor} /\ skipped' \in BOOLEAN
    <3>1. op \in PokeWrites => RowsAfter(op) \in Rows
      BY <1>1 DEF PokeWrites, RowsAfter, Patched, Patches, Rows, Content, TabTypeOK
    <3> QED BY <1>1, <2>2, <2>3, <3>1 DEF TabTypeOK, PokeWrites
  <2>6. durable' \subseteq Mutations
    BY <1>1, <2>2, <2>3, NamesType DEF TabTypeOK
  <2> QED BY <1>1, <2>1, <2>2, <2>3, <2>4, <2>5, <2>6 DEF OfflineTypeOK, TabTypeOK, Writes
<1>8. ASSUME FailWrite(c) PROVE OfflineTypeOK'
  <2>1. Tail(writes[c]) \in Seq(Writes)
    BY <1>2, <1>8 DEF FailWrite
  <2>2. trouble' \in Nat
    BY <1>1, <1>8, TroubleType DEF FailWrite, ClientTypeOK
  <2>3. /\ writes' = [writes EXCEPT ![c] = Tail(@)] /\ skipped' \in BOOLEAN
        /\ UNCHANGED <<serverVars, clientVars, up, tab, diskRows, diskCursor, diskOutbox, durable,
                       unread>>
    BY <1>1, <1>8 DEF FailWrite, TabTypeOK
  <2>4. SyncTypeOK'
    BY <1>1, <2>2, <2>3 DEF clientVars, replicaVars, queueVars, linkVars, serverVars, SyncTypeOK,
       TypeOK, StoreOK
  <2> QED BY <1>1, <2>1, <2>3, <2>4 DEF OfflineTypeOK, TabTypeOK, Writes
<1> QED BY <1>3, <1>4, <1>5, <1>6, <1>7, <1>8 DEF TabEvent

\* Types and what the server remembers, together.
OfflineBase == OfflineTypeOK /\ HistoryInv

LEMMA StepOfflineBase ==
  ASSUME OfflineBase, OfflineNext
  PROVE  OfflineBase'
<1>1. HistoryInv'
  BY OfflineServer DEF OfflineBase
<1>2. OfflineTypeOK'
  BY EventTypes, TabTypes, OfflineSteps DEF OfflineBase
<1> QED BY <1>1, <1>2 DEF OfflineBase

LEMMA SameOfflineBase == OfflineBase /\ UNCHANGED allVars => OfflineBase'
<1> SUFFICES ASSUME OfflineBase, UNCHANGED allVars PROVE OfflineBase'
  OBVIOUS
<1>1. UNCHANGED serverVars
  BY DEF allVars, vars
<1>2. HistoryInv'
  BY <1>1, ServerInv DEF OfflineBase, OfflineTypeOK, SyncTypeOK, TypeOK
<1>3. OfflineTypeOK'
  BY DEF OfflineBase, OfflineTypeOK, SyncTypeOK, TypeOK, StoreOK, allVars, vars, serverVars, clientVars,
     replicaVars, queueVars, linkVars, offlineVars, diskVars
<1> QED BY <1>2, <1>3 DEF OfflineBase

LEMMA InitOfflineBase == OfflineInit => OfflineBase
<1> SUFFICES ASSUME OfflineInit PROVE OfflineBase
  OBVIOUS
<1>1. SyncTypeOK /\ HistoryInv
  BY InitSyncType, InitHistory DEF OfflineInit, SyncInit
<1>2. TabTypeOK
  <2>1. NoRecord \in OutboxRecords /\ <<>> \in Seq(Writes) /\ [k \in Keys |-> Deleted] \in Rows
    BY DEF NoRecord, OutboxRecords, Rows, Content
  <2> QED BY <2>1 DEF OfflineInit, TabTypeOK
<1> QED BY <1>1, <1>2, OfflineTypeIs DEF OfflineBase

LEMMA OfflineBaseHolds == OfflineSpec => []OfflineBase
BY InitOfflineBase, StepOfflineBase, SameOfflineBase, PTL DEF OfflineSpec

\* Every variable of the tabs and of the store they share keeps its type.
THEOREM OfflineTypeCorrect == OfflineSpec => []OfflineTypeOK
<1>1. OfflineBase => OfflineTypeOK
  BY DEF OfflineBase
<1> QED BY <1>1, OfflineBaseHolds, PTL

-----------------------------------------------------------------------------
(* The records of a tab, as its store operations come and go *)

LEMMA TypesOf ==
  ASSUME OfflineTypeOK, NEW c \in Clients
  PROVE  /\ outbox[c] \in Seq(Entry) /\ confirmedLmid[c] \in Nat
         /\ diskOutbox[c] \in OutboxRecords /\ diskOutbox[c].entries \in Seq(Entry)
         /\ diskOutbox[c].confirmed \in Nat
         /\ writes[c] \in Seq(Writes) /\ Len(writes[c]) \in Nat
         /\ \A n \in 1..Len(writes[c]) : writes[c][n] \in Writes /\ writes[c][n].outbox \in OutboxRecords
         /\ \A n \in 0..Len(writes[c]) : /\ Record(c, n).entries \in Seq(Entry)
                                         /\ Record(c, n).confirmed \in Nat
<1>1. /\ outbox[c] \in Seq(Entry) /\ confirmedLmid[c] \in Nat
      /\ diskOutbox[c] \in OutboxRecords /\ writes[c] \in Seq(Writes)
  BY OfflineTypeIs DEF SyncTypeOK, TabTypeOK
<1>2. Len(writes[c]) \in Nat /\ \A n \in 1..Len(writes[c]) : writes[c][n] \in Writes
  BY <1>1
<1>3. \A n \in 1..Len(writes[c]) : writes[c][n].outbox \in OutboxRecords
  BY <1>2 DEF Writes, PokeWrites, OutboxWrites
<1>4. \A n \in 0..Len(writes[c]) : Record(c, n) \in OutboxRecords
  BY <1>1, <1>2, <1>3 DEF Record
<1> QED BY <1>1, <1>2, <1>3, <1>4 DEF OutboxRecords

LEMMA Concatenated ==
  ASSUME NEW S, NEW s \in Seq(S), NEW t \in Seq(S)
  PROVE  /\ s \o t \in Seq(S) /\ Len(s \o t) = Len(s) + Len(t) /\ Len(s) \in Nat /\ Len(t) \in Nat
         /\ \A i \in 1..Len(s) : (s \o t)[i] = s[i]
         /\ \A i \in (Len(s) + 1)..(Len(s) + Len(t)) : (s \o t)[i] = t[i - Len(s)]
OBVIOUS

LEMMA IssuedRecords ==
  ASSUME OfflineTypeOK, NEW c \in Clients, NEW ops \in Seq(Writes),
         writes' = [writes EXCEPT ![c] = @ \o ops], diskOutbox' = diskOutbox, NEW d \in Clients
  PROVE  /\ d # c => writes'[d] = writes[d]
         /\ writes'[c] = writes[c] \o ops
         /\ Len(writes[d]) <= Len(writes'[d])
         /\ \A n \in 0..Len(writes[d]) : Record(d, n)' = Record(d, n)
         /\ \A n \in 0..Len(writes'[d]) :
              \/ n \in 0..Len(writes[d])
              \/ /\ d = c /\ n - Len(writes[d]) \in 1..Len(ops) /\ n > Len(writes[d])
                 /\ Record(d, n)' = ops[n - Len(writes[d])].outbox
<1>1. writes[c] \in Seq(Writes) /\ writes[d] \in Seq(Writes) /\ Len(writes[d]) \in Nat
  BY TypesOf
<1>2. writes'[c] = writes[c] \o ops /\ (d # c => writes'[d] = writes[d])
  BY OfflineTypeIs DEF TabTypeOK
<1>3. CASE d # c
  BY <1>1, <1>2, <1>3 DEF Record
<1>4. CASE d = c
  <2>1. /\ Len(writes'[c]) = Len(writes[c]) + Len(ops) /\ Len(writes[c]) \in Nat /\ Len(ops) \in Nat
        /\ \A i \in 1..Len(writes[c]) : writes'[c][i] = writes[c][i]
        /\ \A i \in (Len(writes[c]) + 1)..(Len(writes[c]) + Len(ops)) :
             writes'[c][i] = ops[i - Len(writes[c])]
    <3>1. writes[c] \in Seq(Writes)
      BY <1>1, <1>4
    <3>2. /\ Len(writes[c] \o ops) = Len(writes[c]) + Len(ops)
          /\ Len(writes[c]) \in Nat /\ Len(ops) \in Nat
          /\ \A i \in 1..Len(writes[c]) : (writes[c] \o ops)[i] = writes[c][i]
          /\ \A i \in (Len(writes[c]) + 1)..(Len(writes[c]) + Len(ops)) :
               (writes[c] \o ops)[i] = ops[i - Len(writes[c])]
      BY <3>1, Concatenated
    <3> QED BY ONLY <1>2, <3>2
  <2>2. \A n \in 0..Len(writes[c]) : Record(c, n)' = Record(c, n)
    BY <2>1 DEF Record
  <2>3. ASSUME NEW n \in 0..Len(writes'[c]), n \notin 0..Len(writes[c])
        PROVE  /\ n - Len(writes[c]) \in 1..Len(ops) /\ n > Len(writes[c])
               /\ Record(c, n)' = ops[n - Len(writes[c])].outbox
    <3>1. /\ n # 0 /\ n > Len(writes[c]) /\ n - Len(writes[c]) \in 1..Len(ops)
          /\ n \in (Len(writes[c]) + 1)..(Len(writes[c]) + Len(ops))
      BY <2>1, <2>3
    <3> QED BY <2>1, <3>1 DEF Record
  <2> QED BY <1>2, <1>4, <2>1, <2>2, <2>3
<1> QED BY <1>3, <1>4

\* The first operation is over and its record, if it got there, is the stored one.
LEMMA CommittedRecords ==
  ASSUME OfflineTypeOK, NEW c \in Clients, writes[c] # <<>>,
         writes' = [writes EXCEPT ![c] = Tail(@)], NEW d \in Clients,
         \/ diskOutbox' = [diskOutbox EXCEPT ![c] = Head(writes[c]).outbox]
         \/ diskOutbox' = diskOutbox
  PROVE  /\ d # c => writes'[d] = writes[d] /\ \A n \in 0..Len(writes[d]) : Record(d, n)' = Record(d, n)
         /\ Len(writes'[c]) = Len(writes[c]) - 1 /\ writes'[c] = Tail(writes[c])
         /\ \A n \in 1..Len(writes'[c]) : writes'[c][n] = writes[c][n + 1]
         /\ \A n \in 1..Len(writes'[c]) : Record(c, n)' = Record(c, n + 1) /\ n + 1 \in 1..Len(writes[c])
         /\ \/ diskOutbox' = diskOutbox /\ Record(c, 0)' = Record(c, 0)
            \/ Record(c, 0)' = Record(c, 1) /\ 1 \in 1..Len(writes[c])
<1>1. writes[c] \in Seq(Writes) /\ diskOutbox \in [Clients -> OutboxRecords]
      /\ writes'[c] = Tail(writes[c]) /\ (d # c => writes'[d] = writes[d])
  BY OfflineTypeIs DEF TabTypeOK
<1>2. /\ Head(writes[c]) = writes[c][1] /\ 1 \in 1..Len(writes[c]) /\ Len(writes[c]) \in Nat
      /\ Len(writes'[c]) = Len(writes[c]) - 1
      /\ \A n \in 1..Len(writes'[c]) : writes'[c][n] = writes[c][n + 1] /\ n + 1 \in 1..Len(writes[c])
  <2>1. /\ Head(writes[c]) = writes[c][1] /\ Len(writes[c]) \in Nat /\ 1 \in 1..Len(writes[c])
        /\ Len(Tail(writes[c])) = Len(writes[c]) - 1
        /\ \A n \in 1..Len(Tail(writes[c])) : Tail(writes[c])[n] = writes[c][n + 1]
    BY <1>1, TailElements
  <2>2. \A n \in 1..Len(Tail(writes[c])) : n + 1 \in 1..Len(writes[c])
    BY ONLY <2>1
  <2> QED BY ONLY <1>1, <2>1, <2>2
<1>3. d # c => diskOutbox'[d] = diskOutbox[d]
  BY <1>1
<1>4. diskOutbox' = diskOutbox \/ diskOutbox'[c] = writes[c][1].outbox
  BY <1>1, <1>2
<1>5. \A n \in 1..Len(writes'[c]) : n # 0 /\ n + 1 # 0
  BY <1>2
<1> QED BY <1>1, <1>2, <1>3, <1>4, <1>5 DEF Record

\* What an event of a tab issues carries its queue as the event leaves it.
LEMMA EventIssues ==
  ASSUME OfflineTypeOK, HistoryInv, SyncEvent
  PROVE  /\ UNCHANGED <<tab, diskRows, diskCursor, diskOutbox, durable, skipped>> /\ unread \subseteq unread'
         /\ \/ writes' = writes
            \/ \E c \in Clients, ops \in Seq(Writes) :
                 /\ tab[c] # "closed" /\ tab[c] # "hydrating"
                 /\ writes' = [writes EXCEPT ![c] = @ \o ops]
                 /\ \A i \in 1..Len(ops) : ops[i].outbox = Snapshotted(c)
<1>1. SyncTypeOK /\ StoreOK /\ ClientTypeOK'
  <2>1. OfflineTypeOK'
    BY EventTypes
  <2> QED BY <2>1 DEF OfflineTypeOK, SyncTypeOK, TypeOK, ClientTypeOK, Frames
<1>2. ASSUME NEW c \in Clients
      PROVE  SaveOutbox(c) \in Writes /\ SaveOutbox(c).outbox = Snapshotted(c)
  BY <1>1, SaveOutboxType DEF SaveOutbox
<1>3. ASSUME NEW c \in Clients, NEW m \in Mutations, MutateTab(c, m)
      PROVE  \/ writes' = writes
             \/ \E ops \in Seq(Writes) :
                  /\ tab[c] # "closed" /\ tab[c] # "hydrating"
                  /\ writes' = [writes EXCEPT ![c] = @ \o ops]
                  /\ \A i \in 1..Len(ops) : ops[i].outbox = Snapshotted(c)
  <2> DEFINE ops == <<SaveOutbox(c)>>
  <2>1. ops \in Seq(Writes) /\ \A i \in 1..Len(ops) : ops[i].outbox = Snapshotted(c)
    BY <1>2
  <2>2. \/ writes' = writes
        \/ tab[c] # "closed" /\ tab[c] # "hydrating" /\ writes' = [writes EXCEPT ![c] = @ \o ops]
    BY <1>3 DEF MutateTab, PersistOutbox, Issue
  <2> QED BY <2>1, <2>2
<1>4. ASSUME NEW c \in Clients, ReceivePokeTab(c)
      PROVE  \/ writes' = writes
             \/ \E ops \in Seq(Writes) :
                  /\ tab[c] # "closed" /\ tab[c] # "hydrating"
                  /\ writes' = [writes EXCEPT ![c] = @ \o ops]
                  /\ \A i \in 1..Len(ops) : ops[i].outbox = Snapshotted(c)
  <2> DEFINE poke == Head(down[c])
  <2>1. poke \in Pokes
    BY <1>1, <1>4, HeadPoke DEF ReceivePokeTab, ReceivePoke, Read
  <2>2. SavePoke(c, poke) \in Writes /\ SavePoke(c, poke).outbox = Snapshotted(c)
    BY <1>1, <2>1, SavePokeType DEF SavePoke
  <2>3. \/ writes' = writes
        \/ writes' = [writes EXCEPT ![c] = @ \o (<<SavePoke(c, poke)>> \o <<SaveOutbox(c)>>)]
        \/ writes' = [writes EXCEPT ![c] = @ \o (<<SavePoke(c, poke)>> \o <<>>)]
    BY <1>4 DEF ReceivePokeTab, PersistPoke, Issue
  <2>4. tab[c] # "closed" /\ tab[c] # "hydrating"
    BY <1>4 DEF ReceivePokeTab, Running
  <2> HIDE DEF poke
  <2>5. /\ <<SavePoke(c, poke)>> \o <<SaveOutbox(c)>> \in Seq(Writes)
        /\ \A i \in 1..Len(<<SavePoke(c, poke)>> \o <<SaveOutbox(c)>>) :
             (<<SavePoke(c, poke)>> \o <<SaveOutbox(c)>>)[i].outbox = Snapshotted(c)
    BY <1>2, <2>2
  <2>6. /\ <<SavePoke(c, poke)>> \o <<>> \in Seq(Writes)
        /\ \A i \in 1..Len(<<SavePoke(c, poke)>> \o <<>>) :
             (<<SavePoke(c, poke)>> \o <<>>)[i].outbox = Snapshotted(c)
    BY <2>2
  <2> QED BY <2>3, <2>4, <2>5, <2>6
<1>5. ASSUME UNCHANGED offlineVars
      PROVE  UNCHANGED <<tab, diskRows, diskCursor, diskOutbox, durable, skipped, unread, writes>>
  BY <1>5 DEF offlineVars, diskVars
<1>6. UNCHANGED <<tab, diskRows, diskCursor, diskOutbox, durable, skipped>> /\ unread \subseteq unread'
  <2>1. ASSUME NEW c \in Clients, NEW m \in Mutations, MutateTab(c, m)
        PROVE  /\ UNCHANGED <<tab, diskRows, diskCursor, diskOutbox, durable, skipped>>
               /\ unread \subseteq unread'
    BY <2>1 DEF MutateTab
  <2> QED BY <1>5, <2>1 DEF SyncEvent, OtherEvent, ReceivePokeTab, diskVars
<1> QED BY <1>3, <1>4, <1>5, <1>6 DEF SyncEvent, OtherEvent

-----------------------------------------------------------------------------
(* The order of the queue, over crashes and reloads *)

LEMMA UnnumberedAfter ==
  ASSUME NEW s \in Seq(Entry), NEW t \in Seq(Entry), NEW confirmed \in Nat,
         \A i \in DOMAIN t : t[i].id = 0, Ordered(s, confirmed)
  PROVE  Ordered(s \o t, confirmed)
<1> DEFINE box == s \o t
<1>1. /\ box \in Seq(Entry) /\ Len(box) = Len(s) + Len(t) /\ Len(s) \in Nat /\ Len(t) \in Nat
      /\ \A i \in 1..Len(s) : box[i] = s[i]
      /\ \A i \in (Len(s) + 1)..(Len(s) + Len(t)) : box[i] = t[i - Len(s)]
  BY Concatenated
<1>2. DOMAIN box = 1..Len(box) /\ DOMAIN s = 1..Len(s) /\ DOMAIN t = 1..Len(t)
  BY <1>1
<1> HIDE DEF box
<1>3. ASSUME NEW i \in DOMAIN box, box[i].id # 0
      PROVE  i \in DOMAIN s /\ \A j \in 1..(i - 1) : box[j] = s[j]
  <2>1. CASE i \in 1..Len(s)
    BY <1>1, <1>2, <2>1
  <2>2. CASE i \notin 1..Len(s)
    <3>1. i \in (Len(s) + 1)..(Len(s) + Len(t)) /\ i - Len(s) \in DOMAIN t
      BY <1>1, <1>2, <2>2
    <3> QED BY <1>1, <1>3, <3>1
  <2> QED BY <2>1, <2>2
<1>4. Ordered(box, confirmed)
  <2> SUFFICES ASSUME NEW i \in DOMAIN box, box[i].id # 0
               PROVE  /\ box[i].id > confirmed
                      /\ \A j \in 1..(i - 1) : box[j].id \in 1..(box[i].id - 1)
    BY DEF Ordered
  <2>1. i \in DOMAIN s /\ box[i] = s[i] /\ \A j \in 1..(i - 1) : box[j] = s[j]
    BY <1>1, <1>2, <1>3
  <2> QED BY <2>1 DEF Ordered
<1> QED BY <1>4 DEF box

\* What an unstarted tab has saved stays so while its queue grows.
LEMMA EarlyStays ==
  ASSUME NEW op, NEW box, NEW later, Early(op, box), Names(box) \subseteq Names(later)
  PROVE  Early(op, later)
BY DEF Early

LEMMA NamesAppend ==
  ASSUME NEW box \in Seq(Entry), NEW entry \in Entry
  PROVE  Names(box) \subseteq Names(Append(box, entry))
<1>1. \A i \in DOMAIN box : i \in DOMAIN Append(box, entry) /\ Append(box, entry)[i] = box[i]
  OBVIOUS
<1> QED BY <1>1 DEF Names

\* A tab that does not run takes no step of the protocol but mutations it does not number.
LEMMA StaysAsleep ==
  ASSUME OfflineTypeOK, HistoryInv, SyncEvent, NEW d \in Clients, tab[d] # "running", Asleep(d)
  PROVE  Asleep(d)'
<1>1. /\ outbox \in [Clients -> Seq(Entry)] /\ writes \in [Clients -> Seq(Writes)]
      /\ syncedThisConnection \in [Clients -> BOOLEAN]
      /\ clientCursor \in [Clients -> Cursors \cup {NoCursor}]
  BY OfflineTypeIs DEF SyncTypeOK, TabTypeOK
<1>2. CASE UNCHANGED <<outbox, clientCursor, syncedThisConnection, writes>>
  BY <1>2 DEF Asleep
<1>3. CASE ServerNext /\ UNCHANGED offlineVars
  <2>1. UNCHANGED clientVars
    BY <1>3 DEF ServerNext, ServeHello, FailHello, ServePush, ServerClose, PushStep, Throw, Maintain
  <2> QED BY <1>2, <1>3, <2>1 DEF clientVars, queueVars, linkVars, replicaVars, offlineVars
<1>4. ASSUME NEW c \in Clients, NEW m \in Mutations, MutateTab(c, m) PROVE Asleep(d)'
  <2>1. CASE c = d
    <3>1. writes'[d] = writes[d] \/ writes'[d] = Append(writes[d], SaveOutbox(d))
      <4>1. writes[d] \in Seq(Writes) /\ SaveOutbox(d) \in Writes
        <5>1. OfflineTypeOK'
          BY EventTypes
        <5>2. ClientTypeOK'
          BY <5>1 DEF OfflineTypeOK, SyncTypeOK, ClientTypeOK, Frames
        <5> QED BY <1>1, <5>2, SaveOutboxType
      <4>2. writes' \in {writes, [writes EXCEPT ![d] = @ \o <<SaveOutbox(d)>>]}
        BY <1>4, <2>1 DEF MutateTab, PersistOutbox, Issue
      <4>3. \A s \in Seq(Writes), op \in Writes : s \o <<op>> = Append(s, op)
        OBVIOUS
      <4> QED BY <1>1, <4>1, <4>2, <4>3
    <3>2. ~syncedThisConnection[d] /\ \A i \in DOMAIN outbox[d] : outbox[d][i].id = 0
      BY DEF Asleep
    <3>3. PICK entry \in Entry : entry.id = 0 /\ outbox'[d] = Append(outbox[d], entry)
      <4>1. [id |-> 0, name |-> m] \in Entry
        BY DEF Entry
      <4>2. outbox'[d] = Append(outbox[d], [id |-> 0, name |-> m])
        BY <1>1, <1>4, <2>1, <3>2 DEF MutateTab, Mutate
      <4> QED BY <4>1, <4>2
    <3>4. \A i \in DOMAIN outbox'[d] : outbox'[d][i].id = 0
      <4>1. \A i \in DOMAIN Append(outbox[d], entry) : Append(outbox[d], entry)[i].id = 0
        BY <1>1, <3>2, <3>3
      <4> QED BY <3>3, <4>1
    <3>5. UNCHANGED <<clientCursor, syncedThisConnection>>
      BY <1>4 DEF MutateTab, Mutate, linkVars, replicaVars
    <3>6. \A n \in 1..Len(writes'[d]) : Early(writes'[d][n], outbox'[d])
      <4>1. \A n \in 1..Len(writes[d]) : Early(writes[d][n], outbox'[d])
        <5>1. Names(outbox[d]) \subseteq Names(outbox'[d])
          BY <1>1, <3>3, NamesAppend
        <5> QED BY <5>1, EarlyStays DEF Asleep
      <4>2. Early(SaveOutbox(d), outbox'[d])
        BY <3>4 DEF Early, SaveOutbox, Snapshotted, Names
      <4>3. PICK ops, op : ops \in Seq(Writes) /\ ops = writes[d] /\ op = SaveOutbox(d)
        BY <1>1
      <4>4. \A n \in 1..Len(Append(ops, op)) : \/ n \in 1..Len(ops) /\ Append(ops, op)[n] = ops[n]
                                              \/ Append(ops, op)[n] = op
        BY <4>3
      <4> QED BY <3>1, <4>1, <4>2, <4>3, <4>4
    <3> QED BY <3>4, <3>5, <3>6 DEF Asleep
  <2>2. CASE c # d
    <3>1. /\ outbox'[d] = outbox[d] /\ writes'[d] = writes[d]
          /\ UNCHANGED <<clientCursor, syncedThisConnection>>
      BY <1>1, <1>4, <2>2 DEF MutateTab, Mutate, linkVars, replicaVars, PersistOutbox, Issue
    <3> QED BY <3>1 DEF Asleep
  <2> QED BY <2>1, <2>2
<1>5. ASSUME NEW c \in Clients, ReceivePokeTab(c) PROVE Asleep(d)'
  <2>1. c # d
    BY <1>5 DEF ReceivePokeTab, Running
  <2>2. writes'[d] = writes[d]
    BY <1>1, <1>5, <2>1 DEF ReceivePokeTab, PersistPoke, Issue
  <2>3. /\ outbox'[d] = outbox[d] /\ clientCursor'[d] = clientCursor[d]
        /\ syncedThisConnection'[d] = syncedThisConnection[d]
    BY <1>1, <1>5, <2>1 DEF ReceivePokeTab, ReceivePoke, DropPoke, ApplyPoke, replicaVars, queueVars
  <2> QED BY <2>2, <2>3 DEF Asleep
<1>6. ASSUME NEW c \in Clients, OtherEvent(c) PROVE Asleep(d)'
  <2>1. c # d /\ writes' = writes
    BY <1>6 DEF OtherEvent, Running, offlineVars
  <2>2. /\ outbox'[d] = outbox[d] /\ clientCursor'[d] = clientCursor[d]
        /\ syncedThisConnection'[d] = syncedThisConnection[d]
    BY <1>1, <1>6, <2>1 DEF OtherEvent, Connect, Disconnect, SeeClose, LoseSocket, Resync, ReceiveError,
       RetryPush, replicaVars, queueVars
  <2> QED BY <2>1, <2>2 DEF Asleep
<1> QED BY <1>3, <1>4, <1>5, <1>6 DEF SyncEvent

\* Records that are ordered stay so when operations are issued with ordered ones.
LEMMA OrderedIssue ==
  ASSUME OfflineTypeOK, TabInv, NEW c \in Clients, NEW ops \in Seq(Writes),
         writes' = [writes EXCEPT ![c] = @ \o ops], diskOutbox' = diskOutbox,
         \A i \in 1..Len(ops) : Ordered(ops[i].outbox.entries, ops[i].outbox.confirmed),
         NEW d \in Clients, NEW n \in 0..Len(writes'[d])
  PROVE  Ordered(Record(d, n).entries, Record(d, n).confirmed)'
<1>1. CASE n \in 0..Len(writes[d])
  <2>1. Record(d, n)' = Record(d, n)
    BY <1>1, IssuedRecords
  <2> QED BY <1>1, <2>1 DEF TabInv, Ordered
<1>2. CASE n \notin 0..Len(writes[d])
  <2>1. \A k \in 0..Len(writes'[d]) :
          \/ k \in 0..Len(writes[d])
          \/ /\ d = c /\ k - Len(writes[d]) \in 1..Len(ops) /\ k > Len(writes[d])
             /\ Record(d, k)' = ops[k - Len(writes[d])].outbox
    BY IssuedRecords
  <2>2. n - Len(writes[d]) \in 1..Len(ops) /\ Record(d, n)' = ops[n - Len(writes[d])].outbox
    BY <1>2, <2>1
  <2> QED BY <2>2 DEF Ordered
<1> QED BY <1>1, <1>2

LEMMA EventTabs ==
  ASSUME OfflineBase, TabInv, SyncEvent
  PROVE  TabInv'
<1>1. OfflineTypeOK /\ HistoryInv /\ SyncTypeOK /\ OutboxInv
  BY DEF OfflineBase, OfflineTypeOK, TabInv
<1>2. OutboxInv'
  BY <1>1, EventIsSync, StepOutbox
<1>3. UNCHANGED tab /\ UNCHANGED diskOutbox
  BY <1>1, EventIssues
<1>4. ASSUME NEW d \in Clients, tab'[d] # "running" PROVE Asleep(d)'
  BY <1>1, <1>3, <1>4, StaysAsleep DEF TabInv
<1>5. ASSUME NEW d \in Clients, NEW n \in 0..Len(writes'[d])
      PROVE  Ordered(Record(d, n).entries, Record(d, n).confirmed)'
  <2>1. CASE writes' = writes
    BY <1>3, <2>1 DEF TabInv, Record, Ordered
  <2>2. ASSUME NEW c \in Clients, NEW ops \in Seq(Writes), writes' = [writes EXCEPT ![c] = @ \o ops],
               \A i \in 1..Len(ops) : ops[i].outbox = Snapshotted(c)
        PROVE  Ordered(Record(d, n).entries, Record(d, n).confirmed)'
    <3>1. Ordered(outbox'[c], confirmedLmid'[c])
      BY <1>2 DEF OutboxInv, OutboxOrdered
    <3>2. \A i \in 1..Len(ops) : Ordered(ops[i].outbox.entries, ops[i].outbox.confirmed)
      BY <2>2, <3>1 DEF Snapshotted
    <3> QED BY <1>1, <1>3, <2>2, <3>2, OrderedIssue
  <2> QED BY <1>1, <2>1, <2>2, EventIssues
<1> QED BY <1>2, <1>4, <1>5 DEF TabInv

LEMMA SameTabs ==
  ASSUME TabInv, UNCHANGED <<outbox, confirmedLmid, syncedThisConnection, clientCursor, diskOutbox, writes>>,
         \A c \in Clients : tab'[c] = "running" \/ tab[c] # "running"
  PROVE  TabInv'
<1>1. OutboxInv'
  BY DEF TabInv, OutboxInv, OutboxOrdered, Ordered, Numbered
<1>2. ASSUME NEW c \in Clients, tab'[c] # "running" PROVE Asleep(c)'
  <2>1. Asleep(c)
    BY <1>2 DEF TabInv
  <2> QED BY <2>1 DEF Asleep
<1>3. ASSUME NEW c \in Clients, NEW n \in 0..Len(writes'[c])
      PROVE  Ordered(Record(c, n).entries, Record(c, n).confirmed)'
  <2>1. Ordered(Record(c, n).entries, Record(c, n).confirmed) /\ Record(c, n)' = Record(c, n)
    BY DEF TabInv, Record
  <2> QED BY <2>1 DEF Ordered
<1> QED BY <1>1, <1>2, <1>3 DEF TabInv

LEMMA TabTabs ==
  ASSUME OfflineBase, TabInv, NEW c \in Clients, TabEvent(c)
  PROVE  TabInv'
<1>1. OfflineTypeOK /\ OfflineTypeOK' /\ SyncTypeOK /\ OutboxInv
  BY TabTypes DEF OfflineBase, OfflineTypeOK, TabInv
<1>2. /\ outbox \in [Clients -> Seq(Entry)] /\ confirmedLmid \in [Clients -> Nat]
      /\ syncedThisConnection \in [Clients -> BOOLEAN]
      /\ clientCursor \in [Clients -> Cursors \cup {NoCursor}]
      /\ tab \in [Clients -> {"closed", "made", "hydrating", "running"}]
      /\ writes \in [Clients -> Seq(Writes)]
  BY <1>1, OfflineTypeIs DEF SyncTypeOK, TabTypeOK
<1>3. ASSUME Wakes(c) PROVE TabInv'
  <2>1. /\ UNCHANGED <<outbox, confirmedLmid, syncedThisConnection, clientCursor, diskOutbox, writes>>
        /\ tab[c] # "running" /\ \E to \in {"made", "hydrating"} : tab' = [tab EXCEPT ![c] = to]
    BY <1>3, WakesTab DEF vars, clientVars, queueVars, linkVars, replicaVars, diskVars
  <2> QED BY <1>2, <2>1, SameTabs
<1>4. ASSUME Hydrate(c) \/ FailHydrate(c) PROVE TabInv'
  <2>1. tab[c] = "hydrating" /\ tab' = [tab EXCEPT ![c] = "running"] /\ UNCHANGED diskOutbox
    BY <1>4 DEF Hydrate, FailHydrate, Loads, diskVars
  <2>2. Asleep(c) /\ Ordered(Record(c, 0).entries, Record(c, 0).confirmed)
    BY <1>2, <2>1 DEF TabInv
  <2>3. /\ outbox[c] \in Seq(Entry) /\ diskOutbox[c].entries \in Seq(Entry)
        /\ diskOutbox[c].confirmed \in Nat
    BY <1>1, TypesOf
  <2>4. PICK ops \in Seq(Writes) :
          /\ writes' = [writes EXCEPT ![c] = @ \o ops]
          /\ \A i \in 1..Len(ops) : Ordered(ops[i].outbox.entries, ops[i].outbox.confirmed)
    <3>1. CASE Hydrate(c)
      <4>1. Ordered(outbox'[c], confirmedLmid'[c])
        <5>1. Ordered(Hydrated(c), diskOutbox[c].confirmed)
          BY <2>2, <2>3, UnnumberedAfter DEF Hydrated, Record, Asleep
        <5> QED BY <1>2, <3>1, <5>1 DEF Hydrate
      <4>2. SaveOutbox(c) \in Writes /\ SaveOutbox(c).outbox = Snapshotted(c)
        <5>1. ClientTypeOK'
          BY <1>1 DEF OfflineTypeOK, SyncTypeOK, ClientTypeOK, Frames
        <5> QED BY <5>1, SaveOutboxType DEF SaveOutbox
      <4> DEFINE ops == <<SaveOutbox(c)>>
      <4>3. /\ ops \in Seq(Writes) /\ <<>> \in Seq(Writes) /\ Len(<<>>) = 0
            /\ \A i \in 1..Len(ops) : ops[i].outbox = Snapshotted(c)
        BY <4>2
      <4>4. \E s \in {<<>>, ops} : writes' = [writes EXCEPT ![c] = @ \o s]
        BY <3>1 DEF Hydrate, Issue
      <4> HIDE DEF ops
      <4>5. \A s \in {<<>>, ops} : /\ s \in Seq(Writes)
                                   /\ \A i \in 1..Len(s) : Ordered(s[i].outbox.entries, s[i].outbox.confirmed)
        <5>1. \A i \in 1..Len(ops) : Ordered(ops[i].outbox.entries, ops[i].outbox.confirmed)
          BY <4>1, <4>3 DEF Snapshotted
        <5>2. 1..Len(<<>>) = {}
          BY <4>3
        <5> QED BY <4>3, <5>1, <5>2, Zenon
      <4> QED BY <4>4, <4>5
    <3>2. CASE FailHydrate(c)
      <4> DEFINE op == [type |-> "outbox", outbox |-> [entries |-> outbox[c], confirmed |-> 0]]
                 ops == <<op>>
      <4>1. op \in Writes /\ op.outbox.entries = outbox[c] /\ op.outbox.confirmed = 0
        BY <2>3 DEF Writes, OutboxWrites, OutboxRecords
      <4>2. Ordered(outbox[c], 0)
        BY <2>2 DEF Asleep, Ordered
      <4>3. \E s \in {<<>>, ops} : writes' = [writes EXCEPT ![c] = @ \o s]
        BY <3>2 DEF FailHydrate, Issue
      <4> HIDE DEF op
      <4>4. /\ ops \in Seq(Writes) /\ <<>> \in Seq(Writes) /\ Len(<<>>) = 0
            /\ \A i \in 1..Len(ops) : ops[i] = op
        BY <4>1
      <4> HIDE DEF ops
      <4>5. \A s \in {<<>>, ops} : /\ s \in Seq(Writes)
                                   /\ \A i \in 1..Len(s) : Ordered(s[i].outbox.entries, s[i].outbox.confirmed)
        <5>1. \A i \in 1..Len(ops) : Ordered(ops[i].outbox.entries, ops[i].outbox.confirmed)
          BY <4>1, <4>2, <4>4
        <5>2. 1..Len(<<>>) = {}
          BY <4>4
        <5> QED BY <4>4, <5>1, <5>2, Zenon
      <4> QED BY <4>3, <4>5
    <3> QED BY <1>4, <3>1, <3>2
  <2>5. ASSUME NEW d \in Clients, NEW n \in 0..Len(writes'[d])
        PROVE  Ordered(Record(d, n).entries, Record(d, n).confirmed)'
    BY <1>1, <2>1, <2>4, OrderedIssue
  <2>6. ASSUME NEW d \in Clients, tab'[d] # "running" PROVE Asleep(d)'
    <3>1. d # c /\ tab[d] # "running"
      BY <1>2, <2>1, <2>6
    <3>2. writes'[d] = writes[d]
      BY <1>2, <2>4, <3>1
    <3>3. /\ outbox'[d] = outbox[d] /\ clientCursor'[d] = clientCursor[d]
          /\ UNCHANGED syncedThisConnection
      BY <1>2, <1>4, <3>1 DEF Hydrate, FailHydrate, clientVars, queueVars, linkVars, replicaVars
    <3> QED BY <3>1, <3>2, <3>3 DEF TabInv, Asleep
  <2>7. OutboxInv'
    <3>1. CASE Hydrate(c)
      <4>1. /\ outbox' = [outbox EXCEPT ![c] = Hydrated(c)]
            /\ confirmedLmid' = [confirmedLmid EXCEPT ![c] = diskOutbox[c].confirmed]
            /\ syncedThisConnection' = [syncedThisConnection EXCEPT ![c] = syncedThisConnection[c]]
        BY <1>2, <3>1 DEF Hydrate, linkVars
      <4>2. Ordered(Hydrated(c), diskOutbox[c].confirmed)
        BY <2>2, <2>3, UnnumberedAfter DEF Hydrated, Record, Asleep
      <4>3. syncedThisConnection[c] => Numbered(Hydrated(c))
        BY <2>2 DEF Asleep
      <4> QED BY <1>1, <4>1, <4>2, <4>3, OneQueue
    <3>2. CASE FailHydrate(c)
      BY <1>1, <3>2 DEF FailHydrate, clientVars, queueVars, linkVars, OutboxInv, OutboxOrdered, Ordered,
         Numbered
    <3> QED BY <1>4, <3>1, <3>2
  <2> QED BY <2>5, <2>6, <2>7 DEF TabInv
<1>5. ASSUME Crash(c) PROVE TabInv'
  <2>1. /\ outbox' = [outbox EXCEPT ![c] = <<>>] /\ confirmedLmid' = [confirmedLmid EXCEPT ![c] = 0]
        /\ syncedThisConnection' = [syncedThisConnection EXCEPT ![c] = FALSE]
        /\ clientCursor' = [clientCursor EXCEPT ![c] = NoCursor]
        /\ tab' = [tab EXCEPT ![c] = "closed"] /\ writes' = [writes EXCEPT ![c] = <<>>]
        /\ UNCHANGED diskOutbox
    BY <1>5 DEF Crash, diskVars
  <2>2. DOMAIN <<>> = {} /\ Len(<<>>) = 0
    OBVIOUS
  <2>3. OutboxInv'
    <3>1. Ordered(<<>>, 0)
      BY <2>2 DEF Ordered
    <3>2. \A d \in Clients : /\ Ordered(outbox'[d], confirmedLmid'[d])
                             /\ syncedThisConnection'[d] => Numbered(outbox'[d])
      BY <1>1, <1>2, <2>1, <3>1 DEF OutboxInv, OutboxOrdered
    <3> QED BY <3>2 DEF OutboxInv, OutboxOrdered
  <2>4. ASSUME NEW d \in Clients, tab'[d] # "running" PROVE Asleep(d)'
    <3>1. CASE d = c
      BY <1>2, <2>1, <2>2, <3>1 DEF Asleep
    <3>2. CASE d # c
      <4>1. /\ outbox'[d] = outbox[d] /\ clientCursor'[d] = clientCursor[d] /\ tab'[d] = tab[d]
            /\ syncedThisConnection'[d] = syncedThisConnection[d] /\ writes'[d] = writes[d]
        BY <1>2, <2>1, <3>2
      <4> QED BY <2>4, <4>1 DEF TabInv, Asleep
    <3> QED BY <3>1, <3>2
  <2>5. ASSUME NEW d \in Clients, NEW n \in 0..Len(writes'[d])
        PROVE  Ordered(Record(d, n).entries, Record(d, n).confirmed)'
    <3>1. n \in 0..Len(writes[d]) /\ Record(d, n)' = Record(d, n)
      <4>1. CASE d = c
        <5>1. n = 0 /\ Len(writes[d]) \in Nat
          BY <1>2, <2>1, <2>2, <4>1
        <5> QED BY <2>1, <5>1 DEF Record
      <4>2. CASE d # c
        BY <1>2, <2>1, <4>2 DEF Record
      <4> QED BY <4>1, <4>2
    <3> QED BY <3>1 DEF TabInv, Ordered
  <2> QED BY <2>3, <2>4, <2>5 DEF TabInv
<1>6. ASSUME Commit(c) \/ FailWrite(c) PROVE TabInv'
  <2>1. /\ UNCHANGED <<outbox, confirmedLmid, syncedThisConnection, clientCursor, tab>>
        /\ writes[c] # <<>> /\ writes' = [writes EXCEPT ![c] = Tail(@)]
        /\ \/ diskOutbox' = [diskOutbox EXCEPT ![c] = Head(writes[c]).outbox]
           \/ diskOutbox' = diskOutbox
    BY <1>6 DEF Commit, FailWrite, vars, clientVars, queueVars, linkVars, replicaVars
  <2>2. OutboxInv'
    BY <2>1 DEF TabInv, OutboxInv, OutboxOrdered, Ordered, Numbered
  <2>3. ASSUME NEW d \in Clients, tab'[d] # "running" PROVE Asleep(d)'
    <3>1. Asleep(d)
      BY <2>1, <2>3 DEF TabInv
    <3>2. ASSUME NEW n \in 1..Len(writes'[d]) PROVE \E k \in 1..Len(writes[d]) : writes'[d][n] = writes[d][k]
      <4>1. CASE d # c
        <5>1. writes'[d] = writes[d]
          BY <1>2, <2>1, <4>1
        <5> QED BY <3>2, <5>1
      <4>2. CASE d = c
        <5>1. writes'[c][n] = writes[c][n + 1] /\ n + 1 \in 1..Len(writes[c])
          BY <1>1, <2>1, <3>2, <4>2, CommittedRecords
        <5> QED BY <4>2, <5>1
      <4> QED BY <4>1, <4>2
    <3>3. \A n \in 1..Len(writes'[d]) : Early(writes'[d][n], outbox[d])
      BY <3>1, <3>2 DEF Asleep
    <3> QED BY <2>1, <3>1, <3>3 DEF Asleep
  <2>4. ASSUME NEW d \in Clients, NEW n \in 0..Len(writes'[d])
        PROVE  Ordered(Record(d, n).entries, Record(d, n).confirmed)'
    <3>1. \E k \in 0..Len(writes[d]) : Record(d, n)' = Record(d, k)
      <4>1. CASE d # c
        <5>1. writes'[d] = writes[d] /\ \A k \in 0..Len(writes[d]) : Record(d, k)' = Record(d, k)
          BY <1>1, <2>1, <4>1, CommittedRecords
        <5> QED BY <5>1
      <4>2. CASE d = c
        <5>1. /\ \A k \in 1..Len(writes'[c]) : Record(c, k)' = Record(c, k + 1) /\ k + 1 \in 1..Len(writes[c])
              /\ \/ Record(c, 0)' = Record(c, 0)
                 \/ Record(c, 0)' = Record(c, 1) /\ 1 \in 1..Len(writes[c])
          BY <1>1, <2>1, CommittedRecords
        <5>2. Len(writes[c]) \in Nat
          BY <1>2
        <5>3. n = 0 \/ n \in 1..Len(writes'[c])
          BY <4>2
        <5> QED BY <4>2, <5>1, <5>2, <5>3
      <4> QED BY <4>1, <4>2
    <3> QED BY <3>1 DEF TabInv, Ordered
  <2> QED BY <2>2, <2>3, <2>4 DEF TabInv
<1> QED BY <1>3, <1>4, <1>5, <1>6 DEF TabEvent

LEMMA TabsHold == OfflineSpec => [](OfflineBase /\ TabInv)
<1>1. OfflineInit => TabInv
  <2> SUFFICES ASSUME OfflineInit PROVE TabInv
    OBVIOUS
  <2>1. DOMAIN <<>> = {} /\ Len(<<>>) = 0
    OBVIOUS
  <2> QED BY <2>1 DEF OfflineInit, SyncInit, TabInv, OutboxInv, OutboxOrdered, Ordered, Numbered, Asleep,
         Record, NoRecord
<1>2. OfflineBase /\ TabInv /\ OfflineNext => TabInv'
  BY EventTabs, TabTabs, OfflineSteps
<1>3. TabInv /\ UNCHANGED allVars => TabInv'
  <2> SUFFICES ASSUME TabInv, UNCHANGED allVars PROVE TabInv'
    OBVIOUS
  <2>1. UNCHANGED <<outbox, confirmedLmid, syncedThisConnection, clientCursor, diskOutbox, writes, tab>>
    BY DEF allVars, vars, clientVars, queueVars, linkVars, replicaVars, offlineVars, diskVars
  <2> QED BY <2>1, SameTabs
<1> QED BY <1>1, <1>2, <1>3, OfflineBaseHolds, PTL DEF OfflineSpec

\* What a reload restores goes before what was queued meanwhile, so every queue keeps the order
\* of its ids through crashes, failed loads and failed writes, in memory and in the store.
THEOREM ReloadsKeepOrder == OfflineSpec => []OutboxOrdered
<1>1. TabInv => OutboxOrdered
  BY DEF TabInv, OutboxInv
<1> QED BY <1>1, TabsHold, PTL

-----------------------------------------------------------------------------
(* What the store holds of the rows *)

\* What is delivered ends where the server is, so at or past what it is based on.
LEMMA DownForward ==
  ASSUME StoreOK, PokesForward, StoreOK', HistoryInv', DownStep
  PROVE  PokesForward'
<1> SUFFICES ASSUME NEW c \in Clients, NEW i \in 1..Len(down'[c]), down'[c][i].type = "poke",
                    ~down'[c][i].clear
             PROVE  /\ down'[c][i].base # NoCursor
                    /\ NotBehind(down'[c][i].cursor, down'[c][i].base)
  BY DEF PokesForward
<1>1. down[c] \in Seq(Pokes \cup Errors) /\ Len(down[c]) \in Nat /\ down \in [Clients -> Seq(Pokes \cup Errors)]
  BY DEF StoreOK
<1>2. ASSUME NEW k \in 1..Len(down[c]), down'[c][i] = down[c][k]
      PROVE  /\ down'[c][i].base # NoCursor
             /\ NotBehind(down'[c][i].cursor, down'[c][i].base)
  BY <1>2 DEF PokesForward
<1>3. ASSUME down'[c][i].cursor = Cursor'
      PROVE  /\ down'[c][i].base # NoCursor
             /\ NotBehind(down'[c][i].cursor, down'[c][i].base)
  <2>1. SoundIn(snaps', down'[c][i])
    BY DEF HistoryInv, PokesSound
  <2>2. down'[c][i].base \in DOMAIN snaps'
    BY <2>1 DEF SoundIn
  <2>3. down'[c][i].base # NoCursor
    BY <2>2, NoCursorAssumption DEF StoreOK, Cursors
  <2> QED BY <1>3, <2>2, <2>3, CursorLeads
<1>4. CASE \E targets, frame : /\ Deliver(targets, frame)
                               /\ frame.type = "poke" => frame.cursor = Cursor'
  <2>1. PICK targets, frame : Deliver(targets, frame) /\ (frame.type = "poke" => frame.cursor = Cursor')
    BY <1>4
  <2>2. down'[c] = Append(down[c], frame) \/ down'[c] = down[c]
    BY <2>1 DEF Deliver
  <2>3. (i \in 1..Len(down[c]) /\ down'[c][i] = down[c][i]) \/ down'[c][i] = frame
    BY <1>1, <2>2
  <2> QED BY <1>2, <1>3, <2>1, <2>3
<1>5. CASE \E d \in Clients : down' = [down EXCEPT ![d] = <<>>]
  <2>1. down'[c] = <<>> \/ down'[c] = down[c]
    BY <1>1, <1>5
  <2>2. i \in 1..Len(down[c]) /\ down'[c][i] = down[c][i]
    BY <2>1
  <2> QED BY <1>2, <2>2
<1>6. CASE \E d \in Clients : down[d] # <<>> /\ down' = [down EXCEPT ![d] = Tail(@)]
  <2>1. (down[c] # <<>> /\ down'[c] = Tail(down[c])) \/ down'[c] = down[c]
    BY <1>1, <1>6
  <2>2. \E k \in 1..Len(down[c]) : down'[c][i] = down[c][k]
    <3>1. CASE down'[c] = down[c]
      BY <3>1
    <3>2. CASE down[c] # <<>> /\ down'[c] = Tail(down[c])
      <4>1. i + 1 \in 1..Len(down[c]) /\ down'[c][i] = down[c][i + 1]
        BY <1>1, <3>2
      <4> QED BY <4>1
    <3> QED BY <2>1, <3>1, <3>2
  <2> QED BY <1>2, <2>2
<1>7. CASE down' = down
  BY <1>2, <1>7
<1> QED BY <1>4, <1>5, <1>6, <1>7 DEF DownStep

\* The frames under way only change as SyncSystem says, or go with the tab.
LEMMA OfflineDown ==
  ASSUME OfflineBase, OfflineNext
  PROVE  DownStep
<1>1. StoreOK /\ ReplicaOK
  BY SyncReplicaOK DEF OfflineBase, OfflineTypeOK, SyncTypeOK, TypeOK
<1>2. CASE SyncEvent
  <2>1. AnyStep \/ UNCHANGED serverVars
    BY <1>1, <1>2, EventIsSync, ServerPart
  <2> QED BY <1>1, <2>1, AnyDownStep DEF serverVars, DownStep
<1>3. ASSUME NEW c \in Clients, TabEvent(c) PROVE DownStep
  <2>1. CASE Crash(c)
    BY <2>1 DEF Crash, DownStep
  <2>2. CASE Wakes(c) \/ Hydrate(c) \/ FailHydrate(c) \/ Commit(c) \/ FailWrite(c)
    BY <2>2, WakesTab DEF Hydrate, FailHydrate, Commit, FailWrite, vars, serverVars, DownStep
  <2> QED BY <1>3, <2>1, <2>2 DEF TabEvent
<1> QED BY <1>2, <1>3, OfflineSteps

\* The first of the operations may go once the store could hold what it leaves.
LEMMA StoredTail ==
  ASSUME NEW ops \in Seq(Writes), ops # <<>>, NEW n \in 1..Len(ops), NEW x, NEW starts, NEW later,
         ops[1].type = "poke" => ops[1].cursor \in later,
         ops[1].type = "outbox" => starts \subseteq later,
         StoredAt(ops, n, x, starts)
  PROVE  StoredAt(Tail(ops), n - 1, x, later)
<1> DEFINE rest == Tail(ops)
<1>1. /\ Len(ops) \in Nat /\ Len(rest) = Len(ops) - 1 /\ 1 \in 1..n
      /\ \A i \in 1..(Len(ops) - 1) : rest[i] = ops[i + 1]
  OBVIOUS
<1>2. \A i \in 1..(n - 1) : i + 1 \in 1..n /\ rest[i] = ops[i + 1]
  BY <1>1
<1> HIDE DEF rest
<1>3. CASE \A i \in 1..n : ops[i].type = "outbox" /\ x \in starts
  BY <1>1, <1>2, <1>3 DEF StoredAt
<1>4. ASSUME NEW i \in 1..n, ops[i].type = "poke", ops[i].cursor = x,
             \A j \in (i + 1)..n : ops[j].type = "outbox"
      PROVE  StoredAt(rest, n - 1, x, later)
  <2>1. CASE i = 1
    <3>0. \A j \in 1..(n - 1) : j + 1 \in (i + 1)..n
      BY <1>1, <2>1
    <3>1. \A j \in 1..(n - 1) : rest[j].type = "outbox"
      BY <1>2, <1>4, <3>0, Zenon
    <3> QED BY <1>4, <2>1, <3>1 DEF StoredAt
  <2>2. CASE i # 1
    <3>1. i - 1 \in 1..(n - 1) /\ rest[i - 1] = ops[i]
      BY <1>2, <2>2
    <3>2. \A j \in ((i - 1) + 1)..(n - 1) : rest[j].type = "outbox"
      BY <1>2, <1>4, <2>2
    <3> QED BY <1>4, <3>1, <3>2 DEF StoredAt
  <2> QED BY <2>1, <2>2
<1>5. StoredAt(rest, n - 1, x, later)
  BY <1>1, <1>3, <1>4 DEF StoredAt
<1> QED BY <1>5 DEF rest

\* What a tab issues leads on: an outbox changes nothing, a poke is based on what the store holds.
LEMMA LeadsAppend ==
  ASSUME NEW ops \in Seq(Writes), NEW op \in Writes, NEW cursor, NEW next, NEW starts, NEW history,
         Leads(ops, cursor, starts, history),
         \/ op.type = "outbox" /\ next \in {cursor, NoCursor}
         \/ /\ op.type = "poke" /\ next = op.cursor
            /\ \E x \in DOMAIN history :
                 /\ SoundIn(history, Mirrored(op, x))
                 /\ ~op.clear => cursor # NoCursor /\ x = cursor /\ NotBehind(op.cursor, x)
  PROVE  Leads(Append(ops, op), next, starts, history)
<1> DEFINE all == Append(ops, op)
           last == Len(ops) + 1
<1>1. /\ Len(ops) \in Nat /\ Len(all) = last /\ all[last] = op
      /\ \A i \in 1..Len(ops) : all[i] = ops[i]
  OBVIOUS
<1>2. ASSUME NEW n \in 0..Len(ops), NEW x, StoredAt(ops, n, x, starts)
      PROVE  StoredAt(all, n, x, starts)
  <2>1. \A i \in 1..n : i \in 1..Len(ops)
    BY <1>1
  <2>2. \A i \in 1..n : \A j \in (i + 1)..n : j \in 1..n
    BY <1>1
  <2> QED BY <1>1, <1>2, <2>1, <2>2 DEF StoredAt
<1> HIDE DEF all
<1>3. ASSUME NEW n \in 1..Len(all), all[n].type = "poke"
      PROVE  \E x \in DOMAIN history : /\ SoundIn(history, Mirrored(all[n], x))
                                       /\ ~all[n].clear => /\ StoredAt(all, n - 1, x, starts)
                                                           /\ NotBehind(all[n].cursor, x)
  <2>1. CASE n \in 1..Len(ops)
    <3>1. all[n] = ops[n] /\ n - 1 \in 0..Len(ops)
      BY <1>1, <2>1
    <3>2. PICK x \in DOMAIN history : /\ SoundIn(history, Mirrored(ops[n], x))
                                      /\ ~ops[n].clear => /\ StoredAt(ops, n - 1, x, starts)
                                                          /\ NotBehind(ops[n].cursor, x)
      BY <1>3, <2>1, <3>1 DEF Leads
    <3> QED BY <1>2, <3>1, <3>2
  <2>2. CASE n \notin 1..Len(ops)
    <3>1. n = last /\ all[n] = op /\ n - 1 = Len(ops) /\ Len(ops) \in 0..Len(ops)
      BY <1>1, <2>2
    <3>2. op.type = "poke" /\ op.type # "outbox"
      BY <1>3, <3>1
    <3>3. PICK x \in DOMAIN history :
            /\ SoundIn(history, Mirrored(op, x))
            /\ ~op.clear => cursor # NoCursor /\ x = cursor /\ NotBehind(op.cursor, x)
      BY <3>2
    <3>4. ~op.clear => StoredAt(ops, Len(ops), x, starts)
      BY <3>3 DEF Leads
    <3> QED BY <1>2, <3>1, <3>3, <3>4
  <2> QED BY <2>1, <2>2
<1>4. next # NoCursor => StoredAt(all, Len(all), next, starts)
  <2> SUFFICES ASSUME next # NoCursor PROVE StoredAt(all, last, next, starts)
    BY <1>1
  <2>1. CASE op.type = "poke" /\ next = op.cursor
    <3>1. last \in 1..last /\ (last + 1)..last = {}
      BY <1>1
    <3> QED BY <1>1, <2>1, <3>1 DEF StoredAt
  <2>2. CASE op.type = "outbox" /\ next = cursor
    <3>1. StoredAt(ops, Len(ops), next, starts)
      BY <2>2 DEF Leads
    <3>2. \A i \in 1..last : i \in 1..Len(ops) \/ i = last
      BY <1>1
    <3>3. CASE next \in starts /\ \A i \in 1..Len(ops) : ops[i].type = "outbox"
      BY <1>1, <2>2, <3>2, <3>3 DEF StoredAt
    <3>4. ASSUME NEW i \in 1..Len(ops), ops[i].type = "poke", ops[i].cursor = next,
                 \A j \in (i + 1)..Len(ops) : ops[j].type = "outbox"
          PROVE  StoredAt(all, last, next, starts)
      <4>1. i \in 1..last /\ \A j \in (i + 1)..last : j \in (i + 1)..Len(ops) \/ j = last
        BY <1>1
      <4>2. \A j \in (i + 1)..Len(ops) : j \in 1..Len(ops)
        BY <1>1
      <4>3. \A j \in (i + 1)..last : all[j].type = "outbox"
        BY <1>1, <2>2, <3>4, <4>1, <4>2
      <4> QED BY <1>1, <3>4, <4>1, <4>3 DEF StoredAt
    <3> QED BY <3>1, <3>3, <3>4 DEF StoredAt
  <2> QED BY <2>1, <2>2
<1>5. Leads(all, next, starts, history)
  BY <1>3, <1>4 DEF Leads
<1> QED BY <1>5 DEF all

\* The rest leads on from what the first operation leaves in the store.
LEMMA LeadsTail ==
  ASSUME NEW ops \in Seq(Writes), ops # <<>>, NEW cursor, NEW starts, NEW later, NEW history,
         ops[1].type = "poke" => ops[1].cursor \in later,
         ops[1].type = "outbox" => starts \subseteq later,
         Leads(ops, cursor, starts, history)
  PROVE  Leads(Tail(ops), cursor, later, history)
<1> DEFINE rest == Tail(ops)
<1>1. /\ Len(ops) \in Nat \ {0} /\ Len(rest) = Len(ops) - 1
      /\ \A i \in 1..(Len(ops) - 1) : rest[i] = ops[i + 1]
  OBVIOUS
<1>2. \A n \in 1..Len(ops) : \A x : StoredAt(ops, n, x, starts) => StoredAt(rest, n - 1, x, later)
  BY StoredTail
<1> HIDE DEF rest
<1>3. ASSUME NEW n \in 1..Len(rest), rest[n].type = "poke"
      PROVE  \E x \in DOMAIN history : /\ SoundIn(history, Mirrored(rest[n], x))
                                       /\ ~rest[n].clear => /\ StoredAt(rest, n - 1, x, later)
                                                            /\ NotBehind(rest[n].cursor, x)
  <2>1. rest[n] = ops[n + 1] /\ n \in 1..Len(ops) /\ n + 1 \in 1..Len(ops) /\ (n + 1) - 1 = n
    BY <1>1
  <2>2. PICK x \in DOMAIN history : /\ SoundIn(history, Mirrored(ops[n + 1], x))
                                    /\ ~ops[n + 1].clear => /\ StoredAt(ops, n, x, starts)
                                                            /\ NotBehind(ops[n + 1].cursor, x)
    BY <1>3, <2>1 DEF Leads
  <2> QED BY <1>2, <2>1, <2>2
<1>4. cursor # NoCursor => StoredAt(rest, Len(rest), cursor, later)
  <2>1. Len(ops) \in 1..Len(ops)
    BY <1>1
  <2> QED BY <1>1, <1>2, <2>1 DEF Leads
<1>5. Leads(rest, cursor, later, history)
  BY <1>3, <1>4 DEF Leads
<1> QED BY <1>5 DEF rest

LEMMA LeadsGrow ==
  ASSUME Grows, NEW ops, NEW cursor, NEW starts, Leads(ops, cursor, starts, snaps)
  PROVE  Leads(ops, cursor, starts, snaps')
<1>1. ASSUME NEW op, NEW x \in DOMAIN snaps, SoundIn(snaps, Mirrored(op, x))
      PROVE  x \in DOMAIN snaps' /\ SoundIn(snaps', Mirrored(op, x))
  BY <1>1, SoundGrows DEF Grows
<1> QED BY <1>1 DEF Leads

LEMMA LeadsForget ==
  ASSUME NEW ops, NEW cursor, NEW next, NEW starts, NEW history, next \in {cursor, NoCursor},
         Leads(ops, cursor, starts, history)
  PROVE  Leads(ops, next, starts, history)
BY DEF Leads

LEMMA Appendix ==
  ASSUME NEW S, NEW s \in Seq(S), NEW p \in S, NEW o \in S
  PROVE  /\ s \o <<o>> = Append(s, o) /\ s \o (<<p>> \o <<>>) = Append(s, p)
         /\ s \o (<<p>> \o <<o>>) = Append(Append(s, p), o)
         /\ Append(s, p) \in Seq(S)
OBVIOUS

\* Soundness looks at the base only of what does not clear.
LEMMA SoundAlike ==
  ASSUME NEW history, NEW poke, NEW like, SoundIn(history, poke), like.cursor = poke.cursor,
         like.patch = poke.patch, like.clear = poke.clear, ~poke.clear => like.base = poke.base
  PROVE  SoundIn(history, like)
BY DEF SoundIn

\* A poke is persisted on top of the one before it, as it is applied.
LEMMA PokeLeads ==
  ASSUME OfflineBase, OfflineTypeOK', Grows, PokesForward, NEW c \in Clients, ReceivePokeTab(c), NEW starts,
         Leads(writes[c], clientCursor[c], starts, snaps')
  PROVE  Leads(writes'[c], clientCursor'[c], starts, snaps')
<1> DEFINE poke == Head(down[c])
<1>1. SyncTypeOK /\ TabTypeOK /\ StoreOK /\ HistoryInv /\ ClientTypeOK'
  BY OfflineTypeIs DEF OfflineBase, OfflineTypeOK, SyncTypeOK, TypeOK, ClientTypeOK, Frames
<1>2. /\ writes \in [Clients -> Seq(Writes)] /\ writes[c] \in Seq(Writes)
      /\ clientCursor \in [Clients -> Cursors \cup {NoCursor}]
  BY <1>1 DEF TabTypeOK, SyncTypeOK
<1>3. /\ poke \in Pokes /\ poke.type = "poke" /\ 1 \in 1..Len(down[c]) /\ poke = down[c][1]
  <2>1. poke \in Pokes /\ poke.type = "poke" /\ down[c] # <<>> /\ down[c] \in Seq(Pokes \cup Errors)
    BY <1>1, HeadPoke DEF ReceivePokeTab, ReceivePoke, Read, StoreOK
  <2> QED BY <2>1
<1>4. SoundIn(snaps, poke) /\ (~poke.clear => poke.base # NoCursor /\ NotBehind(poke.cursor, poke.base))
  BY <1>1, <1>3 DEF HistoryInv, PokesSound, PokesForward
<1>5. CASE Mismatched(c, poke)
  <2>1. writes' = writes /\ clientCursor' = clientCursor
    BY <1>5 DEF ReceivePokeTab, ReceivePoke, DropPoke, ApplyPoke, replicaVars
  <2> QED BY <2>1
<1>6. CASE ~Mismatched(c, poke)
  <2> DEFINE op == SavePoke(c, poke)
             save == SaveOutbox(c)
  <2>1. op \in Writes /\ op.type = "poke" /\ op.cursor = poke.cursor /\ op.clear = poke.clear
    BY <1>1, <1>3, SavePokeType DEF SavePoke
  <2>like. \A x : LET like == Mirrored(op, x)
              IN  /\ like.base = x /\ like.clear = poke.clear
                  /\ like.patch = poke.patch /\ like.cursor = poke.cursor
    BY DEF SavePoke, Mirrored
  <2>sound. poke.cursor \in DOMAIN snaps' /\ SoundIn(snaps', poke)
    BY <1>1, <1>4, SoundGrows DEF SoundIn
  <2>2. save \in Writes /\ save.type = "outbox"
    BY <1>1, SaveOutboxType DEF SaveOutbox
  <2>3. clientCursor'[c] = poke.cursor
    BY <1>2, <1>6 DEF ReceivePokeTab, ReceivePoke, DropPoke, ApplyPoke
  <2>4. \/ writes'[c] = writes[c] \o (<<op>> \o <<save>>)
        \/ writes'[c] = writes[c] \o (<<op>> \o <<>>)
    BY <1>2, <1>6 DEF ReceivePokeTab, PersistPoke, Issue
  <2> HIDE DEF op, save
  <2>5. /\ writes[c] \o (<<op>> \o <<save>>) = Append(Append(writes[c], op), save)
        /\ writes[c] \o (<<op>> \o <<>>) = Append(writes[c], op)
        /\ Append(writes[c], op) \in Seq(Writes)
    BY <1>2, <2>1, <2>2, Appendix
  <2>6. \E x \in DOMAIN snaps' :
          /\ SoundIn(snaps', Mirrored(op, x))
          /\ ~op.clear => clientCursor[c] # NoCursor /\ x = clientCursor[c] /\ NotBehind(op.cursor, x)
    <3>1. CASE poke.clear
      <4>1. poke.cursor \in DOMAIN snaps' /\ SoundIn(snaps', Mirrored(op, poke.cursor))
        BY <2>like, <2>sound, <3>1, SoundAlike
      <4> QED BY <2>1, <3>1, <4>1
    <3>2. CASE ~poke.clear
      <4>1. poke.base = clientCursor[c]
        BY <1>6, <3>2 DEF Mismatched
      <4>2. poke.base \in DOMAIN snaps' /\ SoundIn(snaps', Mirrored(op, poke.base))
        <5>1. poke.base \in DOMAIN snaps'
          BY <2>sound, <3>2 DEF SoundIn
        <5>2. SoundIn(snaps', Mirrored(op, poke.base))
          BY <2>like, <2>sound, SoundAlike
        <5> QED BY <5>1, <5>2
      <4> QED BY <1>4, <2>1, <3>2, <4>1, <4>2
    <3> QED BY <3>1, <3>2
  <2>7. Leads(Append(writes[c], op), poke.cursor, starts, snaps')
    BY <1>2, <2>1, <2>6, LeadsAppend
  <2>8. Leads(Append(Append(writes[c], op), save), poke.cursor, starts, snaps')
    BY <2>2, <2>5, <2>7, LeadsAppend
  <2> QED BY <2>3, <2>4, <2>5, <2>7, <2>8
<1> QED BY <1>5, <1>6

LEMMA EventLeads ==
  ASSUME OfflineBase, DiskInv, SyncEvent
  PROVE  WritesLead'
<1>1. /\ OfflineTypeOK /\ OfflineTypeOK' /\ HistoryInv /\ Grows /\ ClientTypeOK'
      /\ writes \in [Clients -> Seq(Writes)] /\ clientCursor \in [Clients -> Cursors \cup {NoCursor}]
  <2>1. OfflineTypeOK /\ HistoryInv /\ OfflineTypeOK'
    BY EventTypes DEF OfflineBase
  <2>2. Grows
    BY <2>1, OfflineServer, OfflineSteps
  <2> QED BY <2>1, <2>2, OfflineTypeIs DEF OfflineTypeOK, SyncTypeOK, ClientTypeOK, Frames, TabTypeOK
<1>2. Starts' = Starts
  BY <1>1, EventIssues DEF Starts
<1>3. ASSUME NEW d \in Clients PROVE Leads(writes[d], clientCursor[d], Starts, snaps')
  BY <1>1, LeadsGrow DEF DiskInv, WritesLead
<1>4. ASSUME NEW d \in Clients, writes'[d] = writes[d], clientCursor'[d] \in {clientCursor[d], NoCursor}
      PROVE  Leads(writes'[d], clientCursor'[d], Starts, snaps')
  BY <1>3, <1>4, LeadsForget
<1>5. ASSUME NEW d \in Clients PROVE Leads(writes'[d], clientCursor'[d], Starts, snaps')
  <2>1. CASE ServerNext /\ UNCHANGED offlineVars
    <3>1. UNCHANGED clientVars
      BY <2>1 DEF ServerNext, ServeHello, FailHello, ServePush, ServerClose, PushStep, Throw, Maintain
    <3> QED BY <1>4, <2>1, <3>1 DEF clientVars, replicaVars, offlineVars
  <2>2. ASSUME NEW c \in Clients, NEW m \in Mutations, MutateTab(c, m)
        PROVE  Leads(writes'[d], clientCursor'[d], Starts, snaps')
    <3>1. clientCursor' = clientCursor
      BY <2>2 DEF MutateTab, Mutate, replicaVars
    <3>2. writes'[d] = writes[d] \/ writes'[d] = writes[d] \o <<SaveOutbox(d)>>
      BY <1>1, <2>2 DEF MutateTab, PersistOutbox, Issue
    <3>3. SaveOutbox(d) \in Writes /\ SaveOutbox(d).type = "outbox"
      BY <1>1, SaveOutboxType DEF SaveOutbox
    <3>4. writes[d] \in Seq(Writes) /\ writes[d] \o <<SaveOutbox(d)>> = Append(writes[d], SaveOutbox(d))
      BY <1>1, <3>3, Appendix
    <3>5. Leads(Append(writes[d], SaveOutbox(d)), clientCursor[d], Starts, snaps')
      BY <1>3, <3>3, <3>4, LeadsAppend
    <3> QED BY <1>3, <3>1, <3>2, <3>4, <3>5
  <2>3. ASSUME NEW c \in Clients, ReceivePokeTab(c)
        PROVE  Leads(writes'[d], clientCursor'[d], Starts, snaps')
    <3>1. CASE d = c
      BY <1>1, <1>3, <2>3, <3>1, PokeLeads DEF DiskInv
    <3>2. CASE d # c
      <4>1. writes'[d] = writes[d]
        BY <1>1, <2>3, <3>2 DEF ReceivePokeTab, PersistPoke, Issue
      <4>2. clientCursor'[d] = clientCursor[d]
        BY <1>1, <2>3, <3>2 DEF ReceivePokeTab, ReceivePoke, DropPoke, ApplyPoke, replicaVars
      <4> QED BY <1>4, <4>1, <4>2
    <3> QED BY <3>1, <3>2
  <2>4. ASSUME NEW c \in Clients, OtherEvent(c)
        PROVE  Leads(writes'[d], clientCursor'[d], Starts, snaps')
    <3>1. writes' = writes
      BY <2>4 DEF OtherEvent, offlineVars
    <3>2. clientCursor'[d] \in {clientCursor[d], NoCursor}
      BY <1>1, <2>4 DEF OtherEvent, Connect, Disconnect, SeeClose, LoseSocket, Resync, ReceiveError,
         RetryPush, replicaVars
    <3> QED BY <1>4, <3>1, <3>2
  <2> QED BY <2>1, <2>2, <2>3, <2>4 DEF SyncEvent
<1> QED BY <1>2, <1>5 DEF WritesLead

LEMMA NothingLeads ==
  ASSUME NEW cursor, NEW starts, NEW history, cursor # NoCursor => cursor \in starts
  PROVE  Leads(<<>>, cursor, starts, history)
<1>1. Len(<<>>) = 0 /\ 1..0 = {}
  OBVIOUS
<1> QED BY <1>1 DEF Leads, StoredAt

\* Saves of the outbox alone leave a store where it is.
LEMMA OutboxesLead ==
  ASSUME NEW ops, NEW cursor, NEW starts, NEW history, cursor # NoCursor => cursor \in starts,
         \A n \in 1..Len(ops) : ops[n].type = "outbox"
  PROVE  Leads(ops, cursor, starts, history)
BY DEF Leads, StoredAt

\* The first operation of the only tab leaves in the store what the next one is based on.
LEMMA HeadWrite ==
  ASSUME OfflineBase, DiskInv, NEW c \in Clients, Commit(c) \/ FailWrite(c)
  PROVE  /\ DiskSound'
         /\ Leads(writes'[c], clientCursor'[c], Starts', snaps')
<1>1. /\ OfflineTypeOK /\ StoreOK /\ diskCursor \in Cursors \cup {NoCursor} /\ diskRows \in Rows
      /\ writes \in [Clients -> Seq(Writes)] /\ DOMAIN snaps \subseteq Cursors
  BY OfflineTypeIs DEF OfflineBase, SyncTypeOK, TypeOK, StoreOK, TabTypeOK
<1>2. /\ writes[c] \in Seq(Writes) /\ writes[c] # <<>> /\ UNCHANGED <<snaps, clientCursor>>
      /\ writes'[c] = Tail(writes[c])
  BY <1>1 DEF Commit, FailWrite, vars, serverVars, clientVars, replicaVars, store
<1> DEFINE op == Head(writes[c])
<1>3. op = writes[c][1] /\ op \in Writes /\ 1 \in 1..Len(writes[c])
  BY <1>2, TailElements
<1>4. \/ op.type = "outbox" /\ op.type # "poke"
      \/ op \in PokeWrites /\ op.type = "poke" /\ op.type # "outbox" /\ op.cursor \in Cursors
  BY <1>3 DEF Writes, PokeWrites, OutboxWrites
<1>5. Leads(writes[c], clientCursor[c], Starts, snaps)
  BY DEF DiskInv, WritesLead
<1>6. ASSUME NEW later, op.type = "poke" => op.cursor \in later,
             op.type = "outbox" => Starts \subseteq later
      PROVE  Leads(writes'[c], clientCursor[c], later, snaps)
  BY <1>2, <1>3, <1>5, <1>6, LeadsTail
<1>7. CASE FailWrite(c)
  <2>1. UNCHANGED <<diskRows, diskCursor>> /\ (skipped' <=> skipped \/ op.type = "poke")
    BY <1>7 DEF FailWrite
  <2>2. DiskSound'
    BY <1>2, <2>1 DEF DiskInv, DiskSound
  <2>3. /\ op.type = "poke" => op.cursor \in Starts'
        /\ op.type = "outbox" => Starts \subseteq Starts'
    BY <1>4, <2>1 DEF Starts
  <2> QED BY <1>2, <1>6, <2>2, <2>3
<1>8. CASE Commit(c) /\ (op.type = "outbox" \/ Subsumed(op))
  <2>1. UNCHANGED <<diskRows, diskCursor, skipped>>
    BY <1>8 DEF Commit
  <2>2. DiskSound' /\ Starts' = Starts
    BY <1>2, <2>1 DEF DiskInv, DiskSound, Starts
  <2>3. ASSUME op.type = "poke" PROVE op.cursor \in Starts
    <3>1. Subsumed(op) /\ op.cursor \in Cursors
      BY <1>4, <1>8, <2>3
    <3>2. PICK x \in DOMAIN snaps : StoredAt(writes[c], 0, x, Starts) /\ NotBehind(op.cursor, x)
      <4>1. 1 - 1 = 0 /\ ~op.clear
        BY <3>1 DEF Subsumed
      <4> QED BY <1>3, <1>5, <2>3, <4>1 DEF Leads
    <3>3. x \in Starts /\ x \in Cursors
      BY <1>1, <3>2 DEF StoredAt
    <3>4. CASE skipped
      BY <3>1, <3>4 DEF Starts
    <3>5. CASE ~skipped
      <4>1. x = diskCursor /\ NotBehind(op.cursor, diskCursor)
        BY <3>2, <3>3, <3>5 DEF Starts
      <4>2. /\ diskCursor.backendId = op.cursor.backendId /\ diskCursor.version >= op.cursor.version
            /\ op.cursor.version >= diskCursor.version
        BY <3>1, <4>1 DEF Subsumed, NotBehind
      <4>3. op.cursor = diskCursor
        BY <3>1, <3>3, <4>1, <4>2 DEF Cursors
      <4> QED BY <3>3, <4>1, <4>3
    <3> QED BY <3>4, <3>5
  <2> QED BY <1>2, <1>6, <2>2, <2>3
<1>9. CASE Commit(c) /\ ~(op.type = "outbox" \/ Subsumed(op))
  <2>1. /\ diskRows' = Patched(diskRows, op.clear, op.patch) /\ diskCursor' = op.cursor
        /\ (skipped' <=> skipped /\ ~op.clear)
    BY <1>9 DEF Commit, RowsAfter
  <2>2. op.type = "poke" /\ op.type # "outbox" /\ op.cursor \in Cursors
    BY <1>4, <1>9
  <2>3. op.cursor \in Starts'
    BY <2>1, <2>2 DEF Starts
  <2>4. PICK x \in DOMAIN snaps :
          /\ SoundIn(snaps, Mirrored(op, x))
          /\ ~op.clear => StoredAt(writes[c], 0, x, Starts)
    <3>1. 1 - 1 = 0
      OBVIOUS
    <3> QED BY <1>3, <1>5, <2>2, <3>1 DEF Leads
  <2>5. /\ op.cursor \in DOMAIN snaps
        /\ op.clear => \A data \in Rows : Patched(data, TRUE, op.patch) = snaps[op.cursor]
        /\ ~op.clear => Patched(snaps[x], FALSE, op.patch) = snaps[op.cursor]
    BY <2>4 DEF SoundIn, Mirrored
  <2>6. ASSUME ~skipped' PROVE diskRows' = snaps[op.cursor]
    <3>1. CASE op.clear
      <4>1. diskRows' = Patched(diskRows, TRUE, op.patch)
        BY <2>1, <3>1 DEF Patched
      <4> QED BY <1>1, <2>5, <3>1, <4>1
    <3>2. CASE ~op.clear
      <4>1. ~skipped
        BY <2>1, <2>6, <3>2
      <4>2. x \in Starts /\ x = diskCursor /\ x # NoCursor
        <5>1. x \in Starts
          BY <2>4, <3>2 DEF StoredAt
        <5> QED BY <1>1, <4>1, <5>1, NoCursorAssumption DEF Starts, Cursors
      <4>3. diskRows = snaps[x]
        BY <4>1, <4>2 DEF DiskInv, DiskSound
      <4>4. diskRows' = Patched(snaps[x], FALSE, op.patch)
        BY <2>1, <3>2, <4>3 DEF Patched
      <4> QED BY <2>5, <3>2, <4>4
    <3> QED BY <3>1, <3>2
  <2>7. DiskSound'
    BY <1>2, <2>1, <2>5, <2>6 DEF DiskSound
  <2> QED BY <1>2, <1>6, <2>2, <2>3, <2>7
<1> QED BY <1>7, <1>8, <1>9

LEMMA TabDisk ==
  ASSUME \A a, b \in Clients : a = b, OfflineBase, TabInv, DiskInv, NEW c \in Clients, TabEvent(c)
  PROVE  DiskSound' /\ WritesLead'
<1>1. SUFFICES DiskSound' /\ Leads(writes'[c], clientCursor'[c], Starts', snaps')
  <2>1. \A d \in Clients : d = c
    OBVIOUS
  <2> QED BY <2>1, Zenon DEF WritesLead
<1>2. /\ OfflineTypeOK /\ OfflineTypeOK' /\ ClientTypeOK' /\ diskCursor \in Cursors \cup {NoCursor}
      /\ writes \in [Clients -> Seq(Writes)]
      /\ clientCursor \in [Clients -> Cursors \cup {NoCursor}]
      /\ tab \in [Clients -> {"closed", "made", "hydrating", "running"}]
  <2>1. OfflineTypeOK /\ OfflineTypeOK'
    BY TabTypes DEF OfflineBase
  <2> QED BY <2>1, OfflineTypeIs DEF OfflineTypeOK, SyncTypeOK, ClientTypeOK, Frames, TabTypeOK
<1>3. Leads(writes[c], clientCursor[c], Starts, snaps) /\ DiskSound
  BY DEF DiskInv, WritesLead
<1>4. diskCursor # NoCursor => diskCursor \in Starts
  BY <1>2 DEF Starts
<1>5. ASSUME UNCHANGED <<snaps, diskRows, diskCursor, skipped>>
      PROVE  DiskSound' /\ Starts' = Starts
  BY <1>3, <1>5 DEF DiskSound, Starts
<1>6. ASSUME Asleep(c), NEW save \in Writes, save.type = "outbox", NEW cursor,
             cursor # NoCursor => cursor \in Starts,
             writes'[c] = writes[c] \o <<>> \/ writes'[c] = writes[c] \o <<save>>
      PROVE  Leads(writes'[c], cursor, Starts, snaps)
  <2>1. PICK ops \in Seq(Writes) : ops = writes[c]
    BY <1>2
  <2>2. \A n \in 1..Len(ops) : ops[n].type = "outbox"
    BY <1>6, <2>1 DEF Asleep, Early
  <2>3. /\ ops \o <<>> = ops /\ ops \o <<save>> = Append(ops, save)
        /\ \A n \in 1..Len(Append(ops, save)) : Append(ops, save)[n] = save \/ (n \in 1..Len(ops) /\ Append(ops, save)[n] = ops[n])
    BY <2>1
  <2>4. \A n \in 1..Len(writes'[c]) : writes'[c][n].type = "outbox"
    BY <1>6, <2>1, <2>2, <2>3
  <2> QED BY <1>6, <2>4, OutboxesLead
<1>7. CASE Wakes(c)
  <2>1. UNCHANGED <<snaps, diskRows, diskCursor, skipped, writes, clientCursor>>
    BY <1>7, WakesTab DEF vars, serverVars, store, clientVars, replicaVars, diskVars
  <2> QED BY <1>3, <1>5, <2>1
<1>8. CASE Hydrate(c)
  <2>1. UNCHANGED <<snaps, diskRows, diskCursor, skipped>> /\ clientCursor'[c] = diskCursor
    BY <1>2, <1>8 DEF Hydrate, serverVars, store, diskVars
  <2>2. Asleep(c)
    BY <1>8 DEF Hydrate, Loads, TabInv
  <2>3. SaveOutbox(c) \in Writes /\ SaveOutbox(c).type = "outbox"
    BY <1>2, SaveOutboxType DEF SaveOutbox
  <2>4. writes'[c] = writes[c] \o <<>> \/ writes'[c] = writes[c] \o <<SaveOutbox(c)>>
    BY <1>2, <1>8 DEF Hydrate, Issue
  <2>5. Leads(writes'[c], clientCursor'[c], Starts, snaps)
    BY <1>4, <1>6, <2>1, <2>2, <2>3, <2>4
  <2> QED BY <1>5, <2>1, <2>5
<1>9. CASE FailHydrate(c)
  <2>1. UNCHANGED <<snaps, diskRows, diskCursor, skipped, clientCursor>>
    BY <1>9 DEF FailHydrate, serverVars, store, clientVars, replicaVars
  <2>2. Asleep(c) /\ clientCursor[c] = NoCursor
    BY <1>9 DEF FailHydrate, Loads, TabInv, Asleep
  <2> DEFINE save == [type |-> "outbox", outbox |-> [entries |-> outbox[c], confirmed |-> 0]]
  <2>3. save \in Writes /\ save.type = "outbox"
    <3>1. outbox[c] \in Seq(Entry)
      BY <1>2, TypesOf
    <3> QED BY <3>1 DEF Writes, OutboxWrites, OutboxRecords
  <2>4. writes'[c] = writes[c] \o <<>> \/ writes'[c] = writes[c] \o <<save>>
    BY <1>2, <1>9 DEF FailHydrate, Issue
  <2> HIDE DEF save
  <2>5. Leads(writes'[c], clientCursor'[c], Starts, snaps)
    BY <1>6, <2>1, <2>2, <2>3, <2>4
  <2> QED BY <1>5, <2>1, <2>5
<1>10. CASE Crash(c)
  <2>1. /\ UNCHANGED <<snaps, diskRows, diskCursor, skipped>>
        /\ writes'[c] = <<>> /\ clientCursor'[c] = NoCursor
    BY <1>2, <1>10 DEF Crash, store, diskVars
  <2> QED BY <1>5, <2>1, NothingLeads
<1>11. CASE Commit(c) \/ FailWrite(c)
  BY <1>11, HeadWrite
<1> QED BY <1>7, <1>8, <1>9, <1>10, <1>11 DEF TabEvent

LEMMA StepDisk ==
  ASSUME \A a, b \in Clients : a = b, OfflineBase, TabInv, DiskInv, OfflineNext
  PROVE  DiskInv'
<1>1. StoreOK /\ StoreOK' /\ HistoryInv' /\ Grows
  BY OfflineServer DEF OfflineBase, OfflineTypeOK, SyncTypeOK, TypeOK
<1>2. PokesForward'
  BY <1>1, OfflineDown, DownForward DEF DiskInv
<1>3. CASE SyncEvent
  <2>1. UNCHANGED <<diskRows, diskCursor, skipped>>
    BY <1>3, EventIssues DEF OfflineBase
  <2>2. DiskSound'
    BY <1>1, <2>1 DEF DiskInv, DiskSound, Grows
  <2> QED BY <1>2, <1>3, <2>2, EventLeads DEF DiskInv
<1>4. ASSUME NEW c \in Clients, TabEvent(c) PROVE DiskInv'
  BY <1>2, <1>4, TabDisk DEF DiskInv
<1> QED BY <1>3, <1>4, OfflineSteps

LEMMA InitDisk == OfflineInit => DiskInv
<1> SUFFICES ASSUME OfflineInit PROVE DiskInv
  OBVIOUS
<1>1. \A c \in Clients : writes[c] = <<>> /\ clientCursor[c] = NoCursor /\ down[c] = <<>>
  BY DEF OfflineInit, SyncInit, Init
<1>2. WritesLead
  BY <1>1, NothingLeads DEF WritesLead
<1>3. PokesForward
  <2>1. Len(<<>>) = 0 /\ 1..0 = {}
    OBVIOUS
  <2> QED BY <1>1, <2>1 DEF PokesForward
<1>4. DiskSound
  BY DEF OfflineInit, DiskSound
<1> QED BY <1>2, <1>3, <1>4 DEF DiskInv

LEMMA SameDisk == DiskInv /\ UNCHANGED allVars => DiskInv'
<1> SUFFICES ASSUME DiskInv, UNCHANGED allVars PROVE DiskInv'
  OBVIOUS
<1>1. UNCHANGED <<snaps, down, clientCursor, writes, diskRows, diskCursor, skipped>>
  BY DEF allVars, vars, serverVars, clientVars, replicaVars, offlineVars, diskVars
<1>2. DiskSound' /\ PokesForward'
  BY <1>1 DEF DiskInv, DiskSound, PokesForward
<1>3. Starts' = Starts
  BY <1>1 DEF Starts
<1>4. WritesLead'
  BY <1>1, <1>3, Zenon DEF DiskInv, WritesLead
<1> QED BY <1>2, <1>4 DEF DiskInv

\* A tab alone with its store, wherever it died or failed: each poke it persists is based on what
\* the store will hold by then, one that is taken to be covered is, and the rows in the store are
\* the server's rows at the cursor next to them, unless a poke was lost on the way there.
THEOREM StoreIsAServerState ==
  ASSUME \A a, b \in Clients : a = b
  PROVE  OfflineSpec => []DiskSound
<1>1. OfflineBase /\ TabInv /\ DiskInv /\ [OfflineNext]_allVars => DiskInv'
  BY StepDisk, SameDisk
<1>2. DiskInv => DiskSound
  BY DEF DiskInv
<1> QED BY <1>1, <1>2, InitDisk, TabsHold, PTL DEF OfflineSpec

\* What a tab reloads is completed by the catch-up from its cursor, whatever was compacted,
\* imported or reset since: client.ts:1386.
THEOREM StoreCatchesUp ==
  ASSUME \A a, b \in Clients : a = b
  PROVE  OfflineSpec => []DiskCatchesUp
<1>1. OfflineBase /\ DiskSound => DiskCatchesUp
  <2> SUFFICES ASSUME OfflineBase, DiskSound, CursorValid(diskCursor), ~skipped
               PROVE  Patched(diskRows, FALSE, PatchSince(diskCursor.version)) = Live
    BY DEF DiskCatchesUp
  <2>1. /\ StoreOK /\ HistoryInv /\ diskCursor \in Cursors
        /\ currentVersion \in Nat /\ minCursorVersion \in Nat
    BY OfflineTypeIs DEF OfflineBase, SyncTypeOK, TypeOK, TabTypeOK, CursorValid, StoreOK
  <2>2. /\ diskCursor.version \in minCursorVersion..currentVersion
        /\ diskCursor = CursorAt(diskCursor.version)
    BY <2>1 DEF CursorValid, Cursors, CursorAt
  <2>3. diskRows = snaps[diskCursor]
    BY DEF DiskSound, CursorValid
  <2> QED BY <2>1, <2>2, <2>3, CatchUp
<1> QED BY <1>1, OfflineBaseHolds, StoreIsAServerState, PTL

-----------------------------------------------------------------------------
(* The first poke of a queue of frames *)

LEMMA NothingFirst == \A cursor, change : AnswerFirst(<<>>, cursor, change)
<1>1. DOMAIN <<>> = {}
  OBVIOUS
<1> QED BY <1>1 DEF AnswerFirst

\* What follows a poke, or is none, leaves the first one the first.
LEMMA FirstStays ==
  ASSUME NEW S, NEW frames \in Seq(S), NEW frame, NEW cursor, NEW change,
         AnswerFirst(frames, cursor, change), frame.type = "poke" => Poked(frames)
  PROVE  /\ AnswerFirst(Append(frames, frame), cursor, change)
         /\ Poked(frames) => Poked(Append(frames, frame))
<1> DEFINE after == Append(frames, frame)
<1>1. /\ Len(frames) \in Nat /\ DOMAIN frames = 1..Len(frames)
      /\ DOMAIN after = 1..(Len(frames) + 1) /\ after[Len(frames) + 1] = frame
      /\ \A i \in 1..Len(frames) : after[i] = frames[i]
      /\ \A i \in 1..(Len(frames) + 1) : i \in 1..Len(frames) \/ i = Len(frames) + 1
  BY Appended
<1> HIDE DEF after
<1>2. Poked(frames) => Poked(after)
  BY <1>1 DEF Poked
<1>3. ASSUME NEW i \in DOMAIN after, after[i].type = "poke", \A j \in 1..(i - 1) : after[j].type # "poke"
      PROVE  Answer(after[i], cursor, change)
  <2>1. CASE i \in 1..Len(frames)
    <3>1. \A j \in 1..(i - 1) : j \in 1..Len(frames) /\ frames[j].type # "poke"
      BY <1>1, <1>3, <2>1
    <3> QED BY <1>1, <1>3, <2>1, <3>1 DEF AnswerFirst
  <2>2. CASE i = Len(frames) + 1
    <3>1. PICK k \in 1..Len(frames) : frames[k].type = "poke"
      BY <1>1, <1>3, <2>2 DEF Poked
    <3>2. k \in 1..(i - 1)
      BY <1>1, <2>2
    <3> QED BY <1>1, <1>3, <3>1, <3>2
  <2> QED BY <1>1, <2>1, <2>2
<1> QED BY <1>2, <1>3 DEF AnswerFirst, after

LEMMA FirstAnswered ==
  ASSUME NEW S, NEW frames \in Seq(S), NEW frame, NEW cursor, NEW change,
         AnswerFirst(frames, cursor, change), frame.type = "poke", Answer(frame, cursor, change)
  PROVE  /\ AnswerFirst(Append(frames, frame), cursor, change)
         /\ Poked(Append(frames, frame))
<1> DEFINE after == Append(frames, frame)
<1>1. /\ Len(frames) \in Nat /\ DOMAIN frames = 1..Len(frames)
      /\ DOMAIN after = 1..(Len(frames) + 1) /\ after[Len(frames) + 1] = frame
      /\ \A i \in 1..Len(frames) : after[i] = frames[i]
      /\ \A i \in 1..(Len(frames) + 1) : i \in 1..Len(frames) \/ i = Len(frames) + 1
  BY Appended
<1> HIDE DEF after
<1>2. Poked(after)
  BY <1>1 DEF Poked
<1>3. ASSUME NEW i \in DOMAIN after, after[i].type = "poke", \A j \in 1..(i - 1) : after[j].type # "poke"
      PROVE  Answer(after[i], cursor, change)
  <2>1. CASE i \in 1..Len(frames)
    <3>1. \A j \in 1..(i - 1) : j \in 1..Len(frames) /\ frames[j].type # "poke"
      BY <1>1, <1>3, <2>1
    <3> QED BY <1>1, <1>3, <2>1, <3>1 DEF AnswerFirst
  <2> QED BY <1>1, <2>1
<1> QED BY <1>2, <1>3 DEF AnswerFirst, after

LEMMA FirstRead ==
  ASSUME NEW S, NEW frames \in Seq(S), frames # <<>>, NEW cursor, NEW change,
         AnswerFirst(frames, cursor, change)
  PROVE  /\ Head(frames).type = "poke" => Answer(Head(frames), cursor, change)
         /\ Head(frames).type # "poke" => /\ AnswerFirst(Tail(frames), cursor, change)
                                          /\ Poked(frames) => Poked(Tail(frames))
<1> DEFINE after == Tail(frames)
<1>1. /\ Len(frames) \in Nat \ {0} /\ DOMAIN frames = 1..Len(frames) /\ Head(frames) = frames[1]
      /\ DOMAIN after = 1..(Len(frames) - 1)
      /\ \A i \in 1..(Len(frames) - 1) : after[i] = frames[i + 1]
  OBVIOUS
<1> HIDE DEF after
<1>2. 1 \in DOMAIN frames /\ 1..(1 - 1) = {}
  BY <1>1
<1>3. Head(frames).type = "poke" => Answer(Head(frames), cursor, change)
  BY <1>1, <1>2 DEF AnswerFirst
<1>4. ASSUME Head(frames).type # "poke", NEW i \in DOMAIN after, after[i].type = "poke",
             \A j \in 1..(i - 1) : after[j].type # "poke"
      PROVE  Answer(after[i], cursor, change)
  <2>1. i + 1 \in DOMAIN frames /\ after[i] = frames[i + 1]
    BY <1>1
  <2>2. \A j \in 1..((i + 1) - 1) : frames[j].type # "poke"
    <3> SUFFICES ASSUME NEW j \in 1..((i + 1) - 1) PROVE frames[j].type # "poke"
      OBVIOUS
    <3>1. CASE j = 1
      BY <1>1, <1>4, <3>1
    <3>2. CASE j # 1
      <4>1. j - 1 \in 1..(i - 1) /\ j - 1 \in 1..(Len(frames) - 1) /\ (j - 1) + 1 = j
        BY <1>1, <3>2
      <4>2. after[j - 1] = frames[j]
        BY <1>1, <4>1
      <4> QED BY <1>4, <4>1, <4>2
    <3> QED BY <3>1, <3>2
  <2> QED BY <1>4, <2>1, <2>2 DEF AnswerFirst
<1>5. ASSUME Head(frames).type # "poke", NEW k \in DOMAIN frames, frames[k].type = "poke"
      PROVE  Poked(after)
  <2>1. k # 1
    BY <1>1, <1>5
  <2>2. k - 1 \in DOMAIN after /\ (k - 1) + 1 = k /\ k - 1 \in 1..(Len(frames) - 1)
    BY <1>1, <2>1
  <2>3. after[k - 1] = frames[k]
    BY <1>1, <2>2
  <2> QED BY <1>5, <2>2, <2>3 DEF Poked
<1> QED BY <1>3, <1>4, <1>5 DEF AnswerFirst, Poked, after

-----------------------------------------------------------------------------
(* What a socket carries *)

LEMMA SocketTypes ==
  ASSUME OfflineTypeOK, NEW c \in Clients
  PROVE  /\ up[c] \in Seq(Frames) /\ down[c] \in Seq(Pokes \cup Errors)
         /\ sess[c] \in {"none", "open", "ready"} /\ push # Idle => push.client \in Clients
         /\ lastMutationId[c] \in Nat /\ clientCursor[c] \in Cursors \cup {NoCursor}
         /\ syncedThisConnection[c] \in BOOLEAN /\ awaitingCatchUp[c] \in BOOLEAN
         /\ tab[c] \in {"closed", "made", "hydrating", "running"}
BY OfflineTypeIs DEF SyncTypeOK, TypeOK, StoreOK, TabTypeOK, Frames, PushesOf

LEMMA FramesIn ==
  ASSUME OfflineTypeOK, OfflineTypeOK', NEW c \in Clients,
         \A d \in Clients : lastMutationId[d] <= lastMutationId'[d],
         sess'[c] = "open" => sess[c] = "open"
  PROVE  /\ DownFrames(c) \subseteq DownFrames(c)'
         /\ ~Unsynced(c)' => UpFrames(c) \subseteq UpFrames(c)'
         /\ Unsynced(c) /\ clientCursor'[c] = clientCursor[c] => UpFrames(c) \subseteq UpFrames(c)'
<1>1. ASSUME NEW frame \in DownFrames(c), frame.type = "poke", NEW change \in frame.lmids
      PROVE  change.lmid <= lastMutationId'[change.client]
  <2>1. change.client \in Clients /\ change.lmid \in Nat
    BY <1>1 DEF DownFrames, Pokes, Errors, LmidChanges
  <2>2. change.lmid <= lastMutationId[change.client]
    BY <1>1 DEF DownFrames
  <2>3. /\ lastMutationId[change.client] \in Nat /\ lastMutationId'[change.client] \in Nat
        /\ lastMutationId[change.client] <= lastMutationId'[change.client]
    BY <2>1 DEF OfflineTypeOK, SyncTypeOK, TypeOK, StoreOK
  <2> QED BY <2>1, <2>2, <2>3
<1>2. DownFrames(c) \subseteq DownFrames(c)'
  BY <1>1 DEF DownFrames
<1>3. ~Unsynced(c)' => UpFrames(c) \subseteq UpFrames(c)'
  BY DEF UpFrames
<1>4. Unsynced(c) /\ clientCursor'[c] = clientCursor[c] => UpFrames(c) \subseteq UpFrames(c)'
  <2> SUFFICES ASSUME Unsynced(c), clientCursor'[c] = clientCursor[c], NEW frame \in UpFrames(c)
               PROVE  frame \in UpFrames(c)'
    OBVIOUS
  <2>1. PICK hello : hello = HelloFrame(clientCursor[c])
    OBVIOUS
  <2>2. frame \in Hellos \cup PushFrames /\ frame = hello /\ (sess'[c] = "open" => frame.type = "hello")
    BY <2>1 DEF UpFrames, Unsynced
  <2>3. hello = HelloFrame(clientCursor'[c])
    BY <2>1
  <2> QED BY <2>2, <2>3 DEF UpFrames
<1> QED BY <1>2, <1>3, <1>4

\* The sockets of whoever a step does not concern, or only by a frame taken or sent.
LEMMA Unaffected ==
  ASSUME OfflineTypeOK, OfflineTypeOK', NEW d \in Clients, Socket(d), clients \subseteq clients',
         sess'[d] \in {sess[d], "none"}, (d \in listening') = (d \in listening),
         tab'[d] = tab[d], syncedThisConnection'[d] = syncedThisConnection[d],
         clientCursor'[d] = clientCursor[d], awaitingCatchUp'[d] = awaitingCatchUp[d],
         \A c \in Clients : lastMutationId[c] <= lastMutationId'[c],
         Unsynced(d) => lastMutationId'[d] = lastMutationId[d],
         \/ up'[d] \in {up[d], <<>>}
         \/ up[d] # <<>> /\ up'[d] = Tail(up[d])
         \/ \E frame \in UpFrames(d)' : up'[d] = Append(up[d], frame),
         \/ down'[d] = down[d]
         \/ \E frame \in DownFrames(d)' : /\ down'[d] = Append(down[d], frame) /\ d \in listening
                                          /\ frame.type = "poke" => sess[d] = "ready"
  PROVE  Socket(d)'
<1>1. Unsynced(d)' = Unsynced(d)
  BY DEF Unsynced
<1>2. sess'[d] = "open" => sess[d] = "open"
  BY SocketTypes
<1>3. UpFrames(d) \subseteq UpFrames(d)' /\ DownFrames(d) \subseteq DownFrames(d)'
  BY <1>1, <1>2, FramesIn
<1> DEFINE U == UpFrames(d)' D == DownFrames(d)'
<1>4. up[d] \in Seq(U) /\ down[d] \in Seq(D)
  BY <1>3, SequenceOf, ElementsIn DEF Socket
<1>5. \/ up'[d] \in {up[d], <<>>}
      \/ up[d] # <<>> /\ up'[d] = Tail(up[d])
      \/ \E frame \in U : up'[d] = Append(up[d], frame)
  OBVIOUS
<1>6. down'[d] = down[d] \/ \E frame \in D : down'[d] = Append(down[d], frame)
  OBVIOUS
<1>7. up'[d] \in Seq(U)
  <2> HIDE DEF U, D
  <2> QED BY <1>4, <1>5, MovedSequence
<1>8. down'[d] \in Seq(D)
  <2> HIDE DEF U, D
  <2> QED BY <1>4, <1>6, MovedSequence
<1>9. IF d \in listening' THEN tab'[d] = "running" ELSE down'[d] = <<>>
  BY DEF Socket
<1>10. ASSUME Unsynced(d) PROVE Awaits(d)'
  <2>1. PICK change, cursor : /\ change = [client |-> d, lmid |-> lastMutationId[d]]
                              /\ cursor = clientCursor[d]
    OBVIOUS
  <2>2. /\ AnswerFirst(down[d], cursor, change) /\ awaitingCatchUp[d]
        /\ sess[d] = "ready" => Poked(down[d])
    BY <1>10, <2>1 DEF Socket, Awaits
  <2>3. AnswerFirst(down'[d], cursor, change) /\ (Poked(down[d]) => Poked(down'[d]))
    <3>1. CASE down'[d] = down[d]
      BY <2>2, <3>1
    <3>2. CASE down'[d] # down[d]
      <4>1. PICK frame : /\ down'[d] = Append(down[d], frame)
                         /\ frame.type = "poke" => sess[d] = "ready"
        BY <3>2
      <4>2. down[d] \in Seq(Pokes \cup Errors) /\ (frame.type = "poke" => Poked(down[d]))
        BY <2>2, <4>1, SocketTypes
      <4> QED BY <2>2, <4>1, <4>2, FirstStays
    <3> QED BY <3>1, <3>2
  <2>4. change = [client |-> d, lmid |-> lastMutationId'[d]] /\ cursor = clientCursor'[d]
    BY <1>10, <2>1
  <2>5. sess'[d] = "ready" => sess[d] = "ready"
    OBVIOUS
  <2> QED BY <2>2, <2>3, <2>4, <2>5 DEF Awaits
<1>11. (sess'[d] = "ready" => d \in clients') /\ (sess'[d] = "open" => ~syncedThisConnection'[d])
  BY <1>2 DEF Socket
<1> QED BY <1>1, <1>7, <1>8, <1>9, <1>10, <1>11 DEF Socket

\* The socket of a client that waits for no answer after a step.
LEMMA NotWaiting ==
  ASSUME OfflineTypeOK, OfflineTypeOK', NEW c \in Clients, Socket(c), ~Unsynced(c)',
         \A d \in Clients : lastMutationId[d] <= lastMutationId'[d],
         sess'[c] = "ready" => c \in clients',
         sess'[c] = "open" => sess[c] = "open" /\ ~syncedThisConnection'[c],
         IF c \in listening' THEN tab'[c] = "running" ELSE down'[c] = <<>>,
         \/ up'[c] \in {up[c], <<>>}
         \/ up[c] # <<>> /\ up'[c] = Tail(up[c])
         \/ \E frame \in UpFrames(c)' : up'[c] = Append(up[c], frame),
         \/ down'[c] \in {down[c], <<>>}
         \/ down[c] # <<>> /\ down'[c] = Tail(down[c])
         \/ \E frame \in DownFrames(c)' : down'[c] = Append(down[c], frame)
  PROVE  Socket(c)'
<1>1. UpFrames(c) \subseteq UpFrames(c)' /\ DownFrames(c) \subseteq DownFrames(c)'
  BY FramesIn
<1> DEFINE U == UpFrames(c)' D == DownFrames(c)'
<1>2. up[c] \in Seq(U) /\ down[c] \in Seq(D)
  BY <1>1, SequenceOf, ElementsIn DEF Socket
<1>3. \/ up'[c] \in {up[c], <<>>}
      \/ up[c] # <<>> /\ up'[c] = Tail(up[c])
      \/ \E frame \in U : up'[c] = Append(up[c], frame)
  OBVIOUS
<1>4. \/ down'[c] \in {down[c], <<>>}
      \/ down[c] # <<>> /\ down'[c] = Tail(down[c])
      \/ \E frame \in D : down'[c] = Append(down[c], frame)
  OBVIOUS
<1>5. up'[c] \in Seq(U)
  <2> HIDE DEF U, D
  <2> QED BY <1>2, <1>3, MovedSequence
<1>6. down'[c] \in Seq(D)
  <2> HIDE DEF U, D
  <2> QED BY <1>2, <1>4, MovedSequence
<1> QED BY <1>5, <1>6 DEF Socket

\* A step that concerns one client leaves the sockets of the others.
LEMMA OneSocket ==
  ASSUME OfflineTypeOK, OfflineTypeOK', SocketInv, NEW c \in Clients, Socket(c)',
         clients \subseteq clients', lastMutationId' = lastMutationId,
         \A d \in Clients \ {c} :
           /\ sess'[d] = sess[d] /\ (d \in listening') = (d \in listening) /\ tab'[d] = tab[d]
           /\ syncedThisConnection'[d] = syncedThisConnection[d]
           /\ clientCursor'[d] = clientCursor[d] /\ awaitingCatchUp'[d] = awaitingCatchUp[d]
           /\ up'[d] = up[d] /\ down'[d] = down[d]
  PROVE  \A d \in Clients : Socket(d)'
<1>1. \A d \in Clients : lastMutationId[d] <= lastMutationId'[d]
  BY SocketTypes
<1>2. ASSUME NEW d \in Clients \ {c} PROVE Socket(d)'
  BY <1>1, <1>2, Unaffected DEF SocketInv
<1> QED BY <1>2

\* What a client's events leave alone.
LEMMA Others ==
  ASSUME OfflineTypeOK, NEW c \in Clients, NEW d \in Clients \ {c},
         \/ \E m \in Mutations : Mutate(c, m)
         \/ Connect(c) \/ Disconnect(c) \/ SeeClose(c) \/ Resync(c)
         \/ ReceivePoke(c) \/ ReceiveError(c) \/ RetryPush(c)
  PROVE  /\ sess'[d] = sess[d] /\ (d \in listening') = (d \in listening)
         /\ syncedThisConnection'[d] = syncedThisConnection[d]
         /\ clientCursor'[d] = clientCursor[d] /\ awaitingCatchUp'[d] = awaitingCatchUp[d]
         /\ up'[d] = up[d] /\ down'[d] = down[d]
<1>1. /\ up \in [Clients -> Seq(Frames)] /\ down \in [Clients -> Seq(Pokes \cup Errors)]
      /\ sess \in [Clients -> {"none", "open", "ready"}]
      /\ syncedThisConnection \in [Clients -> BOOLEAN] /\ awaitingCatchUp \in [Clients -> BOOLEAN]
      /\ clientCursor \in [Clients -> Cursors \cup {NoCursor}]
  BY OfflineTypeIs DEF SyncTypeOK, TypeOK, StoreOK, Frames
<1>2. ASSUME NEW m \in Mutations, Mutate(c, m)
      PROVE  UNCHANGED <<sess, listening, syncedThisConnection, clientCursor, awaitingCatchUp, down>>
             /\ up'[d] = up[d]
  BY <1>1, <1>2 DEF Mutate, serverVars, linkVars, replicaVars, Flushed, Sent
<1>3. CASE Connect(c)
  BY <1>1, <1>3 DEF Connect, Upgrade, replicaVars
<1>4. CASE Disconnect(c) \/ SeeClose(c)
  BY <1>1, <1>4 DEF Disconnect, SeeClose, LoseSocket, PeerGone, replicaVars
<1>5. CASE Resync(c)
  BY <1>1, <1>5 DEF Resync, serverVars, Sent
<1>6. CASE ReceivePoke(c)
  <2>1. UNCHANGED <<sess, listening>> /\ down'[d] = down[d]
    BY <1>1, <1>6 DEF ReceivePoke, Read, sockets
  <2>2. CASE DropPoke(c)
    BY <1>1, <2>1, <2>2 DEF DropPoke, RequestResync, Sent, replicaVars
  <2>3. CASE ApplyPoke(c)
    BY <1>1, <2>1, <2>3 DEF ApplyPoke, Flushed, Sent
  <2> QED BY <1>6, <2>2, <2>3 DEF ReceivePoke
<1>7. CASE ReceiveError(c)
  BY <1>1, <1>7 DEF ReceiveError, Read, sockets, RequestResync, Sent, replicaVars
<1>8. CASE RetryPush(c)
  BY <1>1, <1>8 DEF RetryPush, serverVars, Flushed, Sent, replicaVars
<1> QED BY <1>2, <1>3, <1>4, <1>5, <1>6, <1>7, <1>8

\* A push goes out only from a client that has synced.
LEMMA PushSent ==
  ASSUME OfflineTypeOK, OfflineTypeOK', NEW c \in Clients, NEW box, NEW confirmed, NEW synced,
         up' = Flushed(c, box, confirmed, synced),
         synced => sess'[c] # "open" /\ ~Unsynced(c)'
  PROVE  up'[c] = up[c] \/ \E frame \in UpFrames(c)' : up'[c] = Append(up[c], frame)
<1> DEFINE frame == [type |-> "push", mutations |-> Pending(box, confirmed)]
<1>1. up[c] \in Seq(Frames) /\ up'[c] \in Seq(Frames)
  BY DEF OfflineTypeOK, SyncTypeOK, Frames
<1>2. up \in [Clients -> Seq(Frames)]
  BY OfflineTypeIs DEF SyncTypeOK, Frames
<1>3. up'[c] = up[c] \/ (synced /\ up'[c] = Append(up[c], frame))
  BY <1>2 DEF Flushed, Sent
<1> HIDE DEF frame
<1>4. ASSUME synced, up'[c] = Append(up[c], frame) PROVE frame \in UpFrames(c)'
  <2>1. frame \in Frames
    BY <1>1, <1>4, LastOf
  <2> QED BY <1>4, <2>1 DEF UpFrames, Frames
<1> QED BY <1>3, <1>4

LEMMA HelloSent ==
  ASSUME OfflineTypeOK, NEW c \in Clients, NEW cursor \in Cursors \cup {NoCursor}, ~Unsynced(c)',
         up' \in {up, Sent(c, HelloFrame(cursor))}
  PROVE  up'[c] = up[c] \/ \E frame \in UpFrames(c)' : up'[c] = Append(up[c], frame)
<1>1. up \in [Clients -> Seq(Frames)]
  BY OfflineTypeIs DEF SyncTypeOK, Frames
<1>2. HelloFrame(cursor) \in UpFrames(c)'
  BY DEF UpFrames, HelloFrame, Hellos
<1> QED BY <1>1, <1>2 DEF Sent

\* Connecting begins a socket with the hello and nothing else.
LEMMA ConnectSocket ==
  ASSUME OfflineTypeOK, OfflineTypeOK', SocketInv, NEW c \in Clients, Connect(c), tab'[c] = "running"
  PROVE  Socket(c)'
<1>1. /\ up \in [Clients -> Seq(Frames)] /\ down \in [Clients -> Seq(Pokes \cup Errors)]
      /\ sess \in [Clients -> {"none", "open", "ready"}]
      /\ syncedThisConnection \in [Clients -> BOOLEAN] /\ awaitingCatchUp \in [Clients -> BOOLEAN]
      /\ clientCursor[c] \in Cursors \cup {NoCursor}
  BY OfflineTypeIs DEF SyncTypeOK, TypeOK, StoreOK, Frames
<1>2. /\ sess'[c] = "open" /\ c \in listening' /\ down'[c] = <<>> /\ clientCursor' = clientCursor
      /\ ~syncedThisConnection'[c] /\ awaitingCatchUp'[c] /\ up'[c] = <<HelloFrame(clientCursor[c])>>
  BY <1>1 DEF Connect, Upgrade, replicaVars
<1>3. PICK hello : hello = HelloFrame(clientCursor[c])
  OBVIOUS
<1>4. hello = HelloFrame(clientCursor'[c])
  BY <1>2, <1>3
<1>5. hello \in UpFrames(c)'
  <2>1. hello \in Hellos /\ hello.type = "hello"
    BY <1>1, <1>3 DEF HelloFrame, Hellos
  <2> QED BY <1>4, <2>1 DEF UpFrames
<1>6. <<hello>> \in Seq(UpFrames(c)') /\ <<>> \in Seq(DownFrames(c)')
  BY <1>5
<1>7. Awaits(c)'
  <2>1. AnswerFirst(down[c], clientCursor[c], [client |-> c, lmid |-> lastMutationId[c]])'
    BY <1>2, NothingFirst
  <2> QED BY <1>2, <2>1 DEF Awaits
<1> QED BY <1>2, <1>3, <1>6, <1>7 DEF Socket

\* A client that has synced, or reads the answer it waits for, or an error.
LEMMA ClientSocket ==
  ASSUME OfflineTypeOK, OfflineTypeOK', SocketInv, NEW c \in Clients, tab'[c] = tab[c],
         \/ \E m \in Mutations : Mutate(c, m)
         \/ Disconnect(c) \/ SeeClose(c) \/ Resync(c)
         \/ ReceivePoke(c) \/ ReceiveError(c) \/ RetryPush(c)
  PROVE  Socket(c)'
<1>1. /\ up \in [Clients -> Seq(Frames)] /\ down \in [Clients -> Seq(Pokes \cup Errors)]
      /\ sess \in [Clients -> {"none", "open", "ready"}]
      /\ syncedThisConnection \in [Clients -> BOOLEAN] /\ awaitingCatchUp \in [Clients -> BOOLEAN]
      /\ clientCursor[c] \in Cursors \cup {NoCursor} /\ NoCursor \in Cursors \cup {NoCursor}
  BY OfflineTypeIs DEF SyncTypeOK, TypeOK, StoreOK, Frames
<1>2. UNCHANGED <<sess, clients, lastMutationId>>
  BY DEF Mutate, Disconnect, SeeClose, LoseSocket, PeerGone, Resync, ReceivePoke, ReceiveError,
     RetryPush, Read, serverVars, sockets, store
<1>3. /\ \A d \in Clients : lastMutationId[d] <= lastMutationId'[d]
      /\ Socket(c) /\ clients \subseteq clients' /\ sess'[c] \in {sess[c], "none"}
  BY <1>2, SocketTypes DEF SocketInv
<1>4. ASSUME Disconnect(c) \/ SeeClose(c) PROVE Socket(c)'
  <2>1. /\ c \notin listening' /\ down'[c] = <<>> /\ up' = up
        /\ UNCHANGED syncedThisConnection
    BY <1>1, <1>4 DEF Disconnect, SeeClose, LoseSocket, PeerGone
  <2>2. ~Unsynced(c)'
    BY <2>1 DEF Unsynced
  <2>3. sess'[c] = "ready" => c \in clients'
    BY <1>2, <1>3 DEF Socket
  <2>4. sess'[c] = "open" => sess[c] = "open" /\ ~syncedThisConnection'[c]
    BY <1>2, <1>3, <2>1 DEF Socket
  <2> QED BY <1>3, <2>1, <2>2, <2>3, <2>4, NotWaiting
<1>5. ASSUME NEW m \in Mutations, Mutate(c, m) PROVE Socket(c)'
  <2>1. UNCHANGED <<listening, syncedThisConnection, clientCursor, awaitingCatchUp, down>>
    BY <1>5 DEF Mutate, serverVars, linkVars, replicaVars
  <2>2. PICK box, synced : synced = syncedThisConnection[c]
                           /\ up' = Flushed(c, box, confirmedLmid[c], synced)
    BY <1>5, Zenon DEF Mutate
  <2>3. synced => sess'[c] # "open" /\ ~Unsynced(c)'
    BY <1>2, <1>3, <2>1, <2>2 DEF Socket, Unsynced
  <2>4. up'[c] = up[c] \/ \E frame \in UpFrames(c)' : up'[c] = Append(up[c], frame)
    BY <2>2, <2>3, PushSent
  <2> QED BY <1>2, <1>3, <2>1, <2>4, Unaffected
<1>6. ASSUME RetryPush(c) PROVE Socket(c)'
  <2>1. UNCHANGED <<listening, syncedThisConnection, clientCursor, awaitingCatchUp, down>>
    BY <1>6 DEF RetryPush, serverVars, replicaVars
  <2>2. PICK synced : /\ synced = syncedThisConnection[c]
                      /\ up' = up \/ up' = Flushed(c, outbox[c], confirmedLmid[c], synced)
    BY <1>6, Zenon DEF RetryPush
  <2>3. synced => sess'[c] # "open" /\ ~Unsynced(c)'
    BY <1>2, <1>3, <2>1, <2>2 DEF Socket, Unsynced
  <2>4. up'[c] = up[c] \/ \E frame \in UpFrames(c)' : up'[c] = Append(up[c], frame)
    BY <2>2, <2>3, PushSent
  <2> QED BY <1>2, <1>3, <2>1, <2>4, Unaffected
<1>7. ASSUME Resync(c) PROVE Socket(c)'
  <2>1. UNCHANGED <<listening, syncedThisConnection, down>> /\ syncedThisConnection[c]
        /\ up' = Sent(c, HelloFrame(NoCursor))
    BY <1>7 DEF Resync, serverVars
  <2>2. ~Unsynced(c)' /\ sess[c] # "open"
    BY <1>3, <2>1 DEF Socket, Unsynced
  <2>3. up'[c] = up[c] \/ \E frame \in UpFrames(c)' : up'[c] = Append(up[c], frame)
    BY <1>1, <2>1, <2>2, HelloSent
  <2>4. sess'[c] = "ready" => c \in clients'
    BY <1>2, <1>3 DEF Socket
  <2>5. IF c \in listening' THEN tab'[c] = "running" ELSE down'[c] = <<>>
    BY <1>3, <2>1 DEF Socket
  <2> QED BY <1>2, <1>3, <2>1, <2>2, <2>3, <2>4, <2>5, NotWaiting
<1>8. ASSUME ReceivePoke(c) PROVE Socket(c)'
  <2>1. /\ UNCHANGED <<listening>> /\ down[c] # <<>> /\ down'[c] = Tail(down[c])
        /\ Head(down[c]).type = "poke"
    BY <1>1, <1>8 DEF ReceivePoke, Read, sockets
  <2>2. c \in listening /\ tab[c] = "running"
    BY <1>3, <2>1 DEF Socket
  <2>3. Head(down[c]) \in DownFrames(c)
    BY <1>3, <2>1, TailElements, FirstOf DEF Socket
  <2>4. sess[c] # "open"
    BY <2>1, <2>3 DEF DownFrames
  <2>5. sess'[c] = "ready" => c \in clients'
    BY <1>2, <1>3 DEF Socket
  <2>6. ASSUME ~Unsynced(c)', up'[c] = up[c] \/ \E frame \in UpFrames(c)' : up'[c] = Append(up[c], frame)
        PROVE  Socket(c)'
    BY <1>2, <1>3, <2>1, <2>2, <2>4, <2>5, <2>6, NotWaiting
  <2>7. CASE DropPoke(c)
    <3>1. UNCHANGED syncedThisConnection /\ Mismatched(c, Head(down[c]))
          /\ up' \in {up, Sent(c, HelloFrame(clientCursor[c]))}
      BY <2>7 DEF DropPoke, RequestResync
    <3>2. ~Unsynced(c)
      <4> SUFFICES ASSUME Unsynced(c) PROVE FALSE
        OBVIOUS
      <4>1. Answer(Head(down[c]), clientCursor[c], [client |-> c, lmid |-> lastMutationId[c]])
        BY <1>1, <1>3, <2>1, FirstRead DEF Socket, Awaits
      <4> QED BY <3>1, <4>1 DEF Answer, Mismatched
    <3>3. ~Unsynced(c)'
      BY <2>1, <3>1, <3>2 DEF Unsynced
    <3> QED BY <1>1, <2>6, <3>1, <3>3, HelloSent
  <2>8. CASE ApplyPoke(c)
    <3>1. syncedThisConnection'[c] = TRUE
      BY <1>1, <2>8 DEF ApplyPoke
    <3>2. ~Unsynced(c)'
      BY <3>1 DEF Unsynced
    <3>3. \E box, confirmed : up' = Flushed(c, box, confirmed, TRUE)
      BY <2>8, Zenon DEF ApplyPoke
    <3>4. PICK box, confirmed, synced : up' = Flushed(c, box, confirmed, synced)
      BY <3>3, Zenon
    <3>5. up'[c] = up[c] \/ \E frame \in UpFrames(c)' : up'[c] = Append(up[c], frame)
      BY <1>2, <2>4, <3>2, <3>4, PushSent
    <3> QED BY <2>6, <3>2, <3>5
  <2> QED BY <1>8, <2>7, <2>8 DEF ReceivePoke
<1>9. ASSUME ReceiveError(c) PROVE Socket(c)'
  <2>1. /\ UNCHANGED <<listening, syncedThisConnection, clientCursor>>
        /\ down[c] # <<>> /\ down'[c] = Tail(down[c]) /\ Head(down[c]).type = "error"
    BY <1>1, <1>9 DEF ReceiveError, Read, sockets, replicaVars
  <2>2. c \in listening /\ tab[c] = "running"
    BY <1>3, <2>1 DEF Socket
  <2>3. sess'[c] = "ready" => c \in clients'
    BY <1>2, <1>3 DEF Socket
  <2>4. sess'[c] = "open" => sess[c] = "open" /\ ~syncedThisConnection'[c]
    BY <1>2, <1>3, <2>1 DEF Socket
  <2>5. CASE ~Unsynced(c)
    <3>1. ~Unsynced(c)'
      BY <2>1, <2>5 DEF Unsynced
    <3>2. up' \in {up, Sent(c, HelloFrame(clientCursor[c]))}
      BY <1>9 DEF ReceiveError, RequestResync
    <3>3. up'[c] = up[c] \/ \E frame \in UpFrames(c)' : up'[c] = Append(up[c], frame)
      BY <1>1, <3>1, <3>2, HelloSent
    <3> QED BY <1>3, <2>1, <2>2, <2>3, <2>4, <3>1, <3>3, NotWaiting
  <2>6. CASE Unsynced(c)
    <3>1. PICK change, cursor : /\ change = [client |-> c, lmid |-> lastMutationId[c]]
                                /\ cursor = clientCursor[c]
      OBVIOUS
    <3>2. /\ AnswerFirst(down[c], cursor, change) /\ awaitingCatchUp[c]
          /\ sess[c] = "ready" => Poked(down[c])
      BY <1>3, <2>6, <3>1 DEF Socket, Awaits
    <3>3. AnswerFirst(down'[c], cursor, change) /\ (Poked(down[c]) => Poked(down'[c]))
      BY <1>1, <2>1, <3>2, FirstRead
    <3>4. up' = up /\ awaitingCatchUp'[c]
      BY <1>9, <3>2 DEF ReceiveError, RequestResync
    <3>5. change = [client |-> c, lmid |-> lastMutationId'[c]] /\ cursor = clientCursor'[c]
      BY <1>2, <2>1, <3>1
    <3>6. Awaits(c)'
      BY <1>2, <3>2, <3>3, <3>4, <3>5 DEF Awaits
    <3>7. UpFrames(c) \subseteq UpFrames(c)' /\ DownFrames(c) \subseteq DownFrames(c)'
      BY <1>2, <1>3, <2>1, <2>6, FramesIn
    <3>8. up'[c] \in Seq(UpFrames(c)')
      BY <1>3, <3>4, <3>7, SequenceOf, ElementsIn DEF Socket
    <3>9. down'[c] \in Seq(DownFrames(c)')
      <4>1. down[c] \in Seq(DownFrames(c)')
        BY <1>3, <3>7, SequenceOf, ElementsIn DEF Socket
      <4> QED BY <2>1, <4>1, MovedSequence
    <3> QED BY <1>2, <2>1, <2>2, <2>3, <2>4, <3>6, <3>8, <3>9 DEF Socket
  <2> QED BY <2>5, <2>6
<1> QED BY <1>4, <1>5, <1>6, <1>7, <1>8, <1>9

\* A frame the server delivers, to whoever it reaches.
LEMMA Delivered ==
  ASSUME OfflineTypeOK, OfflineTypeOK', NEW targets, NEW frame, Deliver(targets, frame),
         NEW d \in Clients, d \in targets => sess'[d] # "open" \/ frame.type = "error",
         frame.type = "poke" => \A change \in frame.lmids : change.lmid <= lastMutationId'[change.client]
  PROVE  \/ down'[d] = down[d]
         \/ /\ frame \in DownFrames(d)' /\ down'[d] = Append(down[d], frame)
            /\ d \in listening /\ d \in targets
<1>1. down[d] \in Seq(Pokes \cup Errors) /\ down'[d] \in Seq(Pokes \cup Errors)
  BY DEF OfflineTypeOK, SyncTypeOK, TypeOK, StoreOK
<1>2. \/ down'[d] = down[d]
      \/ down'[d] = Append(down[d], frame) /\ d \in listening /\ d \in targets
  BY DEF Deliver
<1>3. down'[d] = Append(down[d], frame) => frame \in Pokes \cup Errors
  BY <1>1, LastOf
<1> QED BY <1>2, <1>3 DEF DownFrames

\* The server's steps that open or close nobody's socket.
LEMMA ServerSockets ==
  ASSUME OfflineTypeOK, OfflineTypeOK', SocketInv, UNCHANGED tab, UNCHANGED clientVars,
         listening' = listening, clients \subseteq clients',
         \A d \in Clients : sess'[d] \in {sess[d], "none"},
         \A d \in Clients : lastMutationId[d] <= lastMutationId'[d],
         \A d \in Clients : Unsynced(d) => lastMutationId'[d] = lastMutationId[d],
         \A d \in Clients : up'[d] \in {up[d], <<>>} \/ (up[d] # <<>> /\ up'[d] = Tail(up[d])),
         \/ down' = down
         \/ \E targets, frame :
              /\ Deliver(targets, frame) /\ sess' = sess
              /\ frame.type = "error" \/ (frame.type = "poke" /\ targets \subseteq Ready)
              /\ frame.type = "poke" =>
                   \A change \in frame.lmids : change.lmid <= lastMutationId'[change.client]
  PROVE  \A d \in Clients : Socket(d)'
<1> SUFFICES ASSUME NEW d \in Clients PROVE Socket(d)'
  OBVIOUS
<1>1. UNCHANGED <<syncedThisConnection, clientCursor, awaitingCatchUp>>
  BY DEF clientVars, linkVars, replicaVars
<1>2. \/ down'[d] = down[d]
      \/ \E frame \in DownFrames(d)' : /\ down'[d] = Append(down[d], frame) /\ d \in listening
                                       /\ frame.type = "poke" => sess[d] = "ready"
  <2>1. CASE down' = down
    BY <2>1
  <2>2. CASE down' # down
    <3>1. PICK targets, frame :
            /\ Deliver(targets, frame) /\ sess' = sess
            /\ frame.type = "error" \/ (frame.type = "poke" /\ targets \subseteq Ready)
            /\ frame.type = "poke" =>
                 \A change \in frame.lmids : change.lmid <= lastMutationId'[change.client]
      BY <2>2
    <3>2. d \in targets => sess'[d] # "open" \/ frame.type = "error"
      BY <3>1 DEF Ready
    <3>3. \/ down'[d] = down[d]
          \/ /\ frame \in DownFrames(d)' /\ down'[d] = Append(down[d], frame)
             /\ d \in listening /\ d \in targets
      BY <3>1, <3>2, Delivered
    <3>4. d \in targets /\ frame.type = "poke" => sess[d] = "ready"
      BY <3>1 DEF Ready
    <3> QED BY <3>3, <3>4
  <2> QED BY <2>1, <2>2
<1>3. Socket(d)
  BY DEF SocketInv
<1> QED BY <1>1, <1>2, <1>3, Unaffected

\* The step of one mutation: its client has a row, and its LMID follows.
LEMMA AppliedMutation ==
  ASSUME OfflineTypeOK, SocketInv, NEW w, NEW ok, ApplyMutation(w, ok)
  PROVE  /\ push # Idle /\ push.client \in Clients /\ push.lmid = lastMutationId[push.client]
         /\ push.lmid \in Nat /\ NextMutation.id = push.lmid + 1 /\ push.todo # <<>>
         /\ lastMutationId' = [lastMutationId EXCEPT ![push.client] = push.lmid + 1]
         /\ push'.client = push.client /\ push'.lmid = push.lmid + 1
         /\ push'.todo = Tail(push.todo)
         /\ \E entry : /\ entry.name = NextMutation.name
                       /\ mutationLog' = Append(mutationLog, entry)
         /\ UNCHANGED <<sess, listening, clients, down>>
<1>1. push \in Pushes /\ push # Idle
  BY DEF OfflineTypeOK, SyncTypeOK, TypeOK, ApplyMutation, Mutating
<1>2. push.client \in Clients /\ push.lmid \in Nat
  BY <1>1 DEF Pushes, PushesOf
<1>3. /\ sess[push.client] = "ready" /\ push.lmid = lastMutationId[push.client]
  BY <1>1 DEF SocketInv, PushLinked
<1>4. push.client \in clients
  BY <1>2, <1>3 DEF SocketInv, Socket
<1>5. /\ lastMutationId' = [lastMutationId EXCEPT ![push.client] = Expected]
      /\ push.todo # <<>> /\ NextMutation.id = Expected
  BY <1>4 DEF ApplyMutation, Mutating
<1>6. push' = [push EXCEPT !.todo = Tail(@), !.lmid = Expected,
                           !.results = @ \cup {[id |-> Expected, ok |-> ok]}]
  BY DEF ApplyMutation
<1>7. push'.client = push.client /\ push'.lmid = Expected /\ push'.todo = Tail(push.todo)
  BY <1>1, <1>6 DEF Pushes, PushesOf
<1>8. \E entry : entry.name = NextMutation.name /\ mutationLog' = Append(mutationLog, entry)
  <2> DEFINE entry == [client |-> push.client, id |-> Expected, name |-> NextMutation.name,
                       version |-> IF Written(w) # {}
                                   THEN IF Written(w) # {} THEN currentVersion + 1 ELSE currentVersion
                                   ELSE 0, ok |-> ok]
  <2>1. entry.name = NextMutation.name /\ mutationLog' = Append(mutationLog, entry)
    BY DEF ApplyMutation
  <2> QED BY <2>1
<1>9. UNCHANGED <<sess, listening, clients, down>>
  BY DEF ApplyMutation, sockets
<1> QED BY <1>1, <1>2, <1>3, <1>5, <1>7, <1>8, <1>9 DEF Expected

LEMMA ServerStep ==
  ASSUME OfflineTypeOK, OfflineTypeOK', SocketInv, UNCHANGED tab, MaxBackend = 0,
         \/ PushStep \/ Throw \/ Maintain
         \/ \E c \in Clients : FailHello(c) \/ ServePush(c) \/ ServerClose(c)
  PROVE  SocketInv'
<1>1. /\ up \in [Clients -> Seq(Frames)] /\ down \in [Clients -> Seq(Pokes \cup Errors)]
      /\ sess \in [Clients -> {"none", "open", "ready"}] /\ lastMutationId \in [Clients -> Nat]
      /\ backendId \in Nat
      /\ push # Idle => push \in Pushes /\ push.client \in Clients /\ push.lmid \in Nat
  BY DEF OfflineTypeOK, SyncTypeOK, TypeOK, StoreOK, Frames, Pushes, PushesOf
<1>2. UNCHANGED clientVars
  BY DEF PushStep, Throw, Maintain, FailHello, ServePush, ServerClose
<1>3. UNCHANGED syncedThisConnection
  BY <1>2 DEF clientVars, linkVars
<1>4. ASSUME NEW c \in Clients, FailHello(c) PROVE SocketInv'
  <2>1. /\ UNCHANGED <<sess, listening, clients, lastMutationId, push>> /\ push = Idle
        /\ Deliver({c}, Error("Internal"))
        /\ \A d \in Clients : up'[d] = up[d] \/ (up[d] # <<>> /\ up'[d] = Tail(up[d]))
    BY <1>1, <1>4 DEF FailHello, Handled, sockets, store
  <2>2. Error("Internal").type = "error"
    BY DEF Error
  <2>3. \A d \in Clients : lastMutationId[d] <= lastMutationId'[d]
    BY <1>1, <2>1
  <2>4. \A d \in Clients : Socket(d)'
    BY <1>2, <2>1, <2>2, <2>3, ServerSockets
  <2> QED BY <2>1, <2>4 DEF SocketInv, PushLinked
<1>5. ASSUME NEW c \in Clients, ServePush(c) PROVE SocketInv'
  <2>1. /\ up[c] # <<>> /\ Head(up[c]).type = "push" /\ Socket(c)
        /\ \A d \in Clients : up'[d] = up[d] \/ (up[d] # <<>> /\ up'[d] = Tail(up[d]))
    BY <1>1, <1>5 DEF ServePush, Handled, SocketInv
  <2>2. Head(up[c]) \in UpFrames(c)
    BY <2>1, TailElements, FirstOf DEF Socket
  <2>3. sess[c] # "open" /\ ~Unsynced(c)
    BY <2>1, <2>2 DEF UpFrames, HelloFrame
  <2>4. StartPush(c, Head(up[c]).mutations)
    BY <1>5, <2>3 DEF ServePush, RefusePush
  <2>5. /\ UNCHANGED <<sess, listening, clients, lastMutationId, down>> /\ sess[c] = "ready"
        /\ push'.client = c /\ push'.lmid = lastMutationId[c]
    BY <2>4 DEF StartPush, sockets, store
  <2>6. \A d \in Clients : lastMutationId[d] <= lastMutationId'[d]
    BY <1>1, <2>5
  <2>7. \A d \in Clients : Socket(d)'
    BY <1>2, <2>1, <2>5, <2>6, ServerSockets
  <2>8. ~Unsynced(c)'
    BY <1>3, <2>3, <2>5 DEF Unsynced
  <2>9. PushLinked'
    <3>1. ~Unsynced(push.client)'
      BY <2>5, <2>8
    <3> QED BY <2>5, <3>1 DEF PushLinked
  <2> QED BY <2>7, <2>9 DEF SocketInv
<1>6. ASSUME NEW c \in Clients, ServerClose(c) PROVE SocketInv'
  <2>1. /\ UNCHANGED <<listening, clients, lastMutationId, down, push>> /\ push = Idle
        /\ \A d \in Clients : sess'[d] \in {sess[d], "none"} /\ up'[d] \in {up[d], <<>>}
    BY <1>1, <1>6 DEF ServerClose, CloseSocket, store
  <2>2. \A d \in Clients : lastMutationId[d] <= lastMutationId'[d]
    BY <1>1, <2>1
  <2>3. \A d \in Clients : Socket(d)'
    BY <1>2, <2>1, <2>2, ServerSockets
  <2> QED BY <2>1, <2>3 DEF SocketInv, PushLinked
<1>7. ASSUME Maintain PROVE SocketInv'
  <2>1. ~Reset
    <3>1. Reset => backendId < MaxBackend
      BY DEF Reset
    <3> QED BY <1>1, <3>1
  <2>2. PICK data : \/ (Compact \/ Hibernate \/ Import(data)) /\ UNCHANGED up
                    \/ ImportExtension(data) /\ up' = [c \in Clients |-> <<>>]
    BY <1>7, <2>1, Zenon DEF Maintain
  <2>3. /\ UNCHANGED <<listening, clients, lastMutationId, push>> /\ push = Idle
        /\ \A d \in Clients : up'[d] \in {up[d], <<>>} /\ sess'[d] \in {sess[d], "none"}
    BY <1>1, <2>2 DEF Compact, Hibernate, Import, ImportExtension, ReplaceRows, sockets, store
  <2>4. \/ down' = down
        \/ \E targets, frame :
             /\ Deliver(targets, frame) /\ sess' = sess
             /\ frame.type = "error" \/ (frame.type = "poke" /\ targets \subseteq Ready)
             /\ frame.type = "poke" =>
                  \A change \in frame.lmids : change.lmid <= lastMutationId'[change.client]
    <3>1. CASE Compact \/ Hibernate \/ ImportExtension(data)
      BY <3>1 DEF Compact, Hibernate, ImportExtension
    <3>2. CASE Import(data)
      <4>1. \E patch, cursor : Deliver(Ready, Poke(NoCursor, TRUE, patch, cursor, {}, {}))
        BY <3>2, Zenon DEF Import
      <4>2. PICK frame : Deliver(Ready, frame) /\ frame.type = "poke" /\ frame.lmids = {}
        BY <4>1 DEF Poke
      <4>3. sess' = sess
        BY <3>2 DEF Import, sockets
      <4> QED BY <4>2, <4>3
    <3> QED BY <2>2, <3>1, <3>2
  <2>5. \A d \in Clients : lastMutationId[d] <= lastMutationId'[d]
    BY <1>1, <2>3
  <2>6. \A d \in Clients : Socket(d)'
    BY <1>2, <2>3, <2>4, <2>5, ServerSockets
  <2> QED BY <2>3, <2>6 DEF SocketInv, PushLinked
<1>8. ASSUME Throw PROVE SocketInv'
  <2>1. /\ UNCHANGED <<sess, listening, clients, lastMutationId, up>> /\ push' = Idle
        /\ Deliver({push.client}, Error("Internal"))
    BY <1>8 DEF Throw, AbortPush, sockets, store
  <2>2. Error("Internal").type = "error"
    BY DEF Error
  <2>3. \A d \in Clients : lastMutationId[d] <= lastMutationId'[d]
    BY <1>1, <2>1
  <2>4. \A d \in Clients : Socket(d)'
    BY <1>2, <2>1, <2>2, <2>3, ServerSockets
  <2> QED BY <2>1, <2>4 DEF SocketInv, PushLinked
<1>9. ASSUME PushStep PROVE SocketInv'
  <2>1. up' = up /\ push # Idle /\ PushLinked
    BY <1>9 DEF PushStep, SkipDuplicate, RejectGap, Succeed, Fail, ApplyMutation, FinishPush, Mutating,
       SocketInv
  <2>2. CASE SkipDuplicate \/ RejectGap
    <3>1. /\ UNCHANGED <<sess, listening, clients, lastMutationId>>
          /\ push'.client = push.client /\ push'.lmid = push.lmid
      BY <1>1, <2>1, <2>2 DEF SkipDuplicate, RejectGap, sockets, store, Pushes, PushesOf
    <3>2. \A d \in Clients : lastMutationId[d] <= lastMutationId'[d]
      BY <1>1, <3>1
    <3>3. down' = down \/ Deliver({push.client}, Error("PushInvalid"))
      BY <2>2 DEF SkipDuplicate, RejectGap
    <3>4. Error("PushInvalid").type = "error"
      BY DEF Error
    <3>5. \A d \in Clients : Socket(d)'
      BY <1>2, <2>1, <3>1, <3>2, <3>3, <3>4, ServerSockets
    <3>6. PushLinked'
      <4>1. ~Unsynced(push.client)'
        BY <1>3, <2>1, <3>1 DEF PushLinked, Unsynced
      <4> QED BY <2>1, <3>1, <4>1 DEF PushLinked
    <3> QED BY <3>5, <3>6 DEF SocketInv
  <2>3. CASE Succeed \/ Fail
    <3>1. \E w, ok : ApplyMutation(w, ok)
      BY <2>3, Zenon DEF Succeed, Fail
    <3>2. /\ push.client \in Clients /\ push.lmid = lastMutationId[push.client] /\ push.lmid \in Nat
          /\ lastMutationId' = [lastMutationId EXCEPT ![push.client] = push.lmid + 1]
          /\ push'.client = push.client /\ push'.lmid = push.lmid + 1
          /\ UNCHANGED <<sess, listening, clients, down>>
      BY <3>1, AppliedMutation
    <3>3. \A d \in Clients : lastMutationId[d] <= lastMutationId'[d]
      BY <1>1, <3>2
    <3>4. \A d \in Clients : Unsynced(d) => lastMutationId'[d] = lastMutationId[d]
      BY <1>1, <2>1, <3>2 DEF PushLinked
    <3>5. \A d \in Clients : Socket(d)'
      BY <1>2, <2>1, <3>2, <3>3, <3>4, ServerSockets
    <3>6. PushLinked'
      <4>1. ~Unsynced(push.client)'
        BY <1>3, <2>1, <3>2 DEF PushLinked, Unsynced
      <4> QED BY <1>1, <2>1, <3>2, <4>1 DEF PushLinked
    <3> QED BY <3>5, <3>6 DEF SocketInv
  <2>4. CASE FinishPush
    <3>1. UNCHANGED <<sess, listening, clients, lastMutationId>> /\ push' = Idle
      BY <2>4 DEF FinishPush, sockets, store
    <3>2. \A d \in Clients : lastMutationId[d] <= lastMutationId'[d]
      BY <1>1, <3>1
    <3> DEFINE lmids == {[client |-> push.client, lmid |-> push.lmid]}
    <3>3. \E targets, base, clear, patch : \E results \in {{}, push.results} :
            /\ targets \in {Ready, {push.client}}
            /\ Deliver(targets, Poke(base, clear, patch, Cursor, lmids, results))
      BY <2>4, Zenon DEF FinishPush
    <3>4. PICK targets, frame : /\ targets \in {Ready, {push.client}} /\ Deliver(targets, frame)
                                /\ frame.type = "poke" /\ frame.lmids = lmids
      BY <3>3 DEF Poke
    <3>5. targets \subseteq Ready
      BY <1>1, <2>1, <3>4 DEF Ready, PushLinked
    <3>6. \A change \in frame.lmids : change.lmid <= lastMutationId'[change.client]
      BY <1>1, <2>1, <3>1, <3>4 DEF PushLinked
    <3> HIDE DEF lmids
    <3>7. \A d \in Clients : Socket(d)'
      BY <1>2, <2>1, <3>1, <3>2, <3>4, <3>5, <3>6, ServerSockets
    <3> QED BY <3>1, <3>7 DEF SocketInv, PushLinked
  <2> QED BY <1>9, <2>2, <2>3, <2>4 DEF PushStep
<1> QED BY <1>4, <1>5, <1>6, <1>7, <1>8, <1>9

\* The answer of a hello is the first poke of its socket.
LEMMA HelloStep ==
  ASSUME OfflineTypeOK, OfflineTypeOK', SocketInv, UNCHANGED tab, NEW c \in Clients, ServeHello(c)
  PROVE  SocketInv'
<1>1. /\ up \in [Clients -> Seq(Frames)] /\ down \in [Clients -> Seq(Pokes \cup Errors)]
      /\ sess \in [Clients -> {"none", "open", "ready"}] /\ lastMutationId \in [Clients -> Nat]
      /\ syncedThisConnection \in [Clients -> BOOLEAN]
  BY OfflineTypeIs DEF SyncTypeOK, TypeOK, StoreOK, Frames
<1>2. /\ up[c] # <<>> /\ up'[c] = Tail(up[c]) /\ \A d \in Clients \ {c} : up'[d] = up[d]
      /\ sess' = [sess EXCEPT ![c] = "ready"] /\ sess[c] # "none" /\ clients' = clients \cup {c}
      /\ push = Idle /\ HandleHello(c, Head(up[c]).cursor)
      /\ UNCHANGED <<listening, lastMutationId, push, syncedThisConnection, clientCursor, awaitingCatchUp>>
  BY <1>1 DEF ServeHello, Handled, HandleHello, clientVars, linkVars, replicaVars
<1>3. PICK change, cursor : /\ change = [client |-> c, lmid |-> lastMutationId[c]]
                            /\ cursor = Head(up[c]).cursor
  OBVIOUS
<1>4. PICK frame : /\ Deliver({c}, frame) /\ frame.type = "poke"
                   /\ frame.clear \/ frame.base = cursor
                   /\ frame.lmids = {change}
  <2>1. CASE CursorValid(cursor)
    <3>1. \E clear, patch, end : Deliver({c}, Poke(cursor, clear, patch, end, {change}, {}))
      BY <1>2, <1>3, <2>1, Zenon DEF HandleHello
    <3> QED BY <3>1 DEF Poke
  <2>2. CASE ~CursorValid(cursor)
    <3>1. \E base, clear, patch, end : /\ Deliver({c}, Poke(base, clear, patch, end, {change}, {}))
                                       /\ clear
      BY <1>2, <1>3, <2>2, Zenon DEF HandleHello
    <3> QED BY <3>1 DEF Poke
  <2> QED BY <2>1, <2>2
<1>5. \A d \in Clients : lastMutationId[d] <= lastMutationId'[d]
  BY <1>1, <1>2
<1>6. Socket(c) /\ down[c] \in Seq(Pokes \cup Errors)
  BY <1>1 DEF SocketInv
<1>7. \/ down'[c] = down[c]
      \/ /\ frame \in DownFrames(c)' /\ down'[c] = Append(down[c], frame) /\ c \in listening
  <2>1. c \in {c} => sess'[c] # "open"
    BY <1>1, <1>2
  <2>2. \A ch \in frame.lmids : ch.lmid <= lastMutationId'[ch.client]
    BY <1>1, <1>2, <1>3, <1>4
  <2> QED BY <1>4, <2>1, <2>2, Delivered
<1>8. c \in listening => down'[c] = Append(down[c], frame)
  BY <1>2, <1>4 DEF Deliver
<1>9. IF c \in listening' THEN tab'[c] = "running" ELSE down'[c] = <<>>
  BY <1>2, <1>6, <1>7 DEF Socket
<1>10. sess'[c] = "ready" /\ c \in clients'
  BY <1>1, <1>2
<1>11. ASSUME ~Unsynced(c) PROVE Socket(c)'
  <2>1. ~Unsynced(c)'
    BY <1>2, <1>11 DEF Unsynced
  <2>2. down'[c] = down[c] \/ \E f \in DownFrames(c)' : down'[c] = Append(down[c], f)
    BY <1>7
  <2> QED BY <1>2, <1>5, <1>6, <1>9, <1>10, <2>1, <2>2, NotWaiting
<1>12. ASSUME Unsynced(c) PROVE Socket(c)'
  <2>1. c \in listening /\ tab[c] = "running"
    BY <1>6, <1>12 DEF Unsynced, Socket
  <2>2. Head(up[c]) \in UpFrames(c)
    BY <1>2, <1>6, TailElements, FirstOf DEF Socket
  <2>3. cursor = clientCursor[c]
    BY <1>3, <1>12, <2>2 DEF UpFrames, HelloFrame
  <2>4. Answer(frame, cursor, change) /\ AnswerFirst(down[c], cursor, change) /\ awaitingCatchUp[c]
    BY <1>3, <1>4, <1>6, <1>12, <2>3 DEF Answer, Socket, Awaits
  <2>5. AnswerFirst(down'[c], cursor, change) /\ Poked(down'[c])
    <3>1. /\ down[c] \in Seq(Pokes \cup Errors) /\ frame.type = "poke"
          /\ Answer(frame, cursor, change) /\ AnswerFirst(down[c], cursor, change)
      BY <1>4, <1>6, <2>4
    <3>2. AnswerFirst(Append(down[c], frame), cursor, change) /\ Poked(Append(down[c], frame))
      BY ONLY <3>1, FirstAnswered
    <3> QED BY <1>8, <2>1, <3>2
  <2>6. change = [client |-> c, lmid |-> lastMutationId'[c]] /\ cursor = clientCursor'[c]
    BY <1>2, <1>3, <2>3
  <2>7. Awaits(c)'
    BY <1>2, <2>4, <2>5, <2>6 DEF Awaits
  <2>8. sess'[c] = "open" => sess[c] = "open"
    BY <1>10
  <2>9. UpFrames(c) \subseteq UpFrames(c)' /\ DownFrames(c) \subseteq DownFrames(c)'
    BY <1>2, <1>5, <1>12, <2>8, FramesIn
  <2>10. up'[c] \in Seq(UpFrames(c)')
    <3>1. up[c] \in Seq(UpFrames(c)')
      BY <1>6, <2>9, SequenceOf, ElementsIn DEF Socket
    <3> QED BY <1>2, <3>1, MovedSequence
  <2>11. down'[c] \in Seq(DownFrames(c)')
    <3>1. down[c] \in Seq(DownFrames(c)')
      BY <1>6, <2>9, SequenceOf, ElementsIn DEF Socket
    <3> QED BY <1>7, <3>1, MovedSequence
  <2> QED BY <1>9, <1>10, <2>7, <2>10, <2>11 DEF Socket
<1>13. Socket(c)'
  BY <1>11, <1>12
<1>14. \A d \in Clients \ {c} : sess'[d] = sess[d] /\ down'[d] = down[d]
  BY <1>1, <1>2, <1>4 DEF Deliver
<1>15. \A d \in Clients : Socket(d)'
  BY <1>2, <1>13, <1>14, OneSocket
<1> QED BY <1>2, <1>15 DEF SocketInv, PushLinked

LEMMA TabSockets ==
  ASSUME OfflineTypeOK, OfflineTypeOK', SocketInv, NEW c \in Clients, TabEvent(c)
  PROVE  SocketInv'
<1>1. /\ up \in [Clients -> Seq(Frames)] /\ down \in [Clients -> Seq(Pokes \cup Errors)]
      /\ sess \in [Clients -> {"none", "open", "ready"}] /\ lastMutationId \in [Clients -> Nat]
      /\ syncedThisConnection \in [Clients -> BOOLEAN] /\ awaitingCatchUp \in [Clients -> BOOLEAN]
      /\ clientCursor \in [Clients -> Cursors \cup {NoCursor}]
      /\ tab \in [Clients -> {"closed", "made", "hydrating", "running"}]
  BY OfflineTypeIs DEF SyncTypeOK, TypeOK, StoreOK, TabTypeOK, Frames
<1>2. /\ UNCHANGED <<sess, clients, lastMutationId, push, up>>
      /\ \A d \in Clients \ {c} :
           /\ (d \in listening') = (d \in listening) /\ tab'[d] = tab[d]
           /\ syncedThisConnection'[d] = syncedThisConnection[d]
           /\ clientCursor'[d] = clientCursor[d] /\ awaitingCatchUp'[d] = awaitingCatchUp[d]
           /\ down'[d] = down[d]
  <2>1. CASE Wakes(c)
    BY <1>1, <2>1, WakesTab DEF vars, serverVars, clientVars, linkVars, replicaVars
  <2>2. CASE Hydrate(c)
    BY <1>1, <2>2 DEF Hydrate, serverVars, linkVars
  <2>3. CASE FailHydrate(c)
    BY <1>1, <2>3 DEF FailHydrate, serverVars, clientVars, linkVars, replicaVars
  <2>4. CASE Crash(c)
    BY <1>1, <2>4 DEF Crash, store
  <2>5. CASE Commit(c) \/ FailWrite(c)
    BY <1>1, <2>5 DEF Commit, FailWrite, vars, serverVars, clientVars, linkVars, replicaVars
  <2> QED BY <2>1, <2>2, <2>3, <2>4, <2>5 DEF TabEvent
<1>3. Socket(c) /\ \A d \in Clients : lastMutationId[d] <= lastMutationId'[d]
  BY <1>1, <1>2 DEF SocketInv
<1>4. ASSUME Commit(c) \/ FailWrite(c) PROVE Socket(c)'
  <2>1. UNCHANGED <<listening, tab, down, syncedThisConnection, clientCursor, awaitingCatchUp>>
    BY <1>4 DEF Commit, FailWrite, vars, serverVars, clientVars, linkVars, replicaVars
  <2> QED BY <1>2, <1>3, <2>1, Unaffected
<1>5. ASSUME Wakes(c) \/ Hydrate(c) \/ FailHydrate(c) \/ Crash(c) PROVE Socket(c)'
  <2>1. c \notin listening' /\ down'[c] = <<>>
    <3>1. CASE Crash(c)
      BY <1>1, <3>1 DEF Crash
    <3>2. CASE Wakes(c) \/ Hydrate(c) \/ FailHydrate(c)
      <4>1. tab[c] # "running" /\ UNCHANGED <<listening, down>>
        BY <3>2, WakesTab DEF Hydrate, FailHydrate, Loads, vars, serverVars
      <4> QED BY <1>3, <4>1 DEF Socket
    <3> QED BY <1>5, <3>1, <3>2
  <2>2. ~Unsynced(c)'
    BY <2>1 DEF Unsynced
  <2>3. syncedThisConnection'[c] = syncedThisConnection[c] \/ ~syncedThisConnection'[c]
    BY <1>1, <1>5, WakesTab DEF Hydrate, FailHydrate, Crash, vars, clientVars, linkVars
  <2>4. sess'[c] = "ready" => c \in clients'
    BY <1>2, <1>3 DEF Socket
  <2>5. sess'[c] = "open" => sess[c] = "open" /\ ~syncedThisConnection'[c]
    BY <1>2, <1>3, <2>3 DEF Socket
  <2> QED BY <1>2, <1>3, <2>1, <2>2, <2>4, <2>5, NotWaiting
<1>6. \A d \in Clients : Socket(d)'
  <2>1. Socket(c)'
    BY <1>4, <1>5 DEF TabEvent
  <2> QED BY <1>2, <2>1, OneSocket
<1>7. PushLinked'
  <2>1. CASE push = Idle
    BY <1>2, <2>1 DEF PushLinked
  <2>2. CASE push # Idle
    <3>1. Commit(c) \/ FailWrite(c)
      BY <2>2, WakesTab DEF TabEvent, Hydrate, FailHydrate, Loads, Crash
    <3>2. UNCHANGED <<listening, syncedThisConnection>>
      BY <3>1 DEF Commit, FailWrite, vars, serverVars, clientVars, linkVars
    <3> QED BY <1>2, <3>2 DEF PushLinked, SocketInv, Unsynced
  <2> QED BY <2>1, <2>2
<1> QED BY <1>6, <1>7 DEF SocketInv

LEMMA StepSockets ==
  ASSUME MaxBackend = 0, OfflineBase, SocketInv, OfflineNext
  PROVE  SocketInv'
<1>1. OfflineTypeOK /\ OfflineTypeOK'
  BY StepOfflineBase DEF OfflineBase
<1>2. ASSUME ServerNext /\ UNCHANGED offlineVars PROVE SocketInv'
  <2>1. UNCHANGED tab
    BY <1>2 DEF offlineVars
  <2> QED BY <1>1, <1>2, <2>1, HelloStep, ServerStep DEF ServerNext
<1>3. ASSUME NEW c \in Clients,
             (\E m \in Mutations : MutateTab(c, m)) \/ ReceivePokeTab(c) \/ OtherEvent(c)
      PROVE  SocketInv'
  <2>1. UNCHANGED tab
    BY <1>3 DEF MutateTab, ReceivePokeTab, OtherEvent, offlineVars
  <2>2. \/ \E m \in Mutations : Mutate(c, m)
        \/ Connect(c) \/ Disconnect(c) \/ SeeClose(c) \/ Resync(c)
        \/ ReceivePoke(c) \/ ReceiveError(c) \/ RetryPush(c)
    BY <1>3 DEF MutateTab, ReceivePokeTab, OtherEvent
  <2>3. Connect(c) => tab'[c] = "running"
    <3>1. ASSUME Connect(c) PROVE tab[c] = "running"
      <4>1. c \in listening'
        BY <3>1 DEF Connect, Upgrade
      <4>2. c \notin listening
        BY <3>1 DEF Connect
      <4>3. OtherEvent(c)
        BY <1>3, <4>1, <4>2 DEF MutateTab, Mutate, ReceivePokeTab, ReceivePoke, Read, serverVars, sockets
      <4> QED BY <4>3 DEF OtherEvent, Running
    <3> QED BY <2>1, <3>1
  <2>4. Socket(c)'
    BY <1>1, <2>1, <2>2, <2>3, ConnectSocket, ClientSocket
  <2>5. \A d \in Clients \ {c} :
          /\ sess'[d] = sess[d] /\ (d \in listening') = (d \in listening)
          /\ syncedThisConnection'[d] = syncedThisConnection[d]
          /\ clientCursor'[d] = clientCursor[d] /\ awaitingCatchUp'[d] = awaitingCatchUp[d]
          /\ up'[d] = up[d] /\ down'[d] = down[d]
    BY <1>1, <2>2, Others
  <2>6. UNCHANGED <<clients, lastMutationId, push>> /\ push = Idle
    BY <2>2 DEF Mutate, Calm, Answering, Connect, Upgrade, Disconnect, SeeClose, LoseSocket, PeerGone,
       Resync, ReceivePoke, ReceiveError, RetryPush, Read, serverVars, store
  <2>7. \A d \in Clients : Socket(d)'
    BY <1>1, <2>1, <2>4, <2>5, <2>6, OneSocket
  <2> QED BY <2>6, <2>7 DEF SocketInv, PushLinked
<1>4. ASSUME NEW c \in Clients, TabEvent(c) PROVE SocketInv'
  BY <1>1, <1>4, TabSockets
<1> QED BY <1>2, <1>3, <1>4, OfflineSteps DEF SyncEvent

LEMMA InitSockets == OfflineInit => SocketInv
<1> SUFFICES ASSUME OfflineInit, NEW c \in Clients PROVE Socket(c) /\ PushLinked
  BY DEF OfflineInit, SyncInit, Init, SocketInv, PushLinked
<1>1. /\ up[c] = <<>> /\ down[c] = <<>> /\ sess[c] = "none" /\ c \notin listening /\ push = Idle
  BY DEF OfflineInit, SyncInit, Init
<1>2. <<>> \in Seq(UpFrames(c)) /\ <<>> \in Seq(DownFrames(c))
  OBVIOUS
<1> QED BY <1>1, <1>2 DEF Socket, Unsynced, PushLinked

LEMMA SameSockets == SocketInv /\ UNCHANGED allVars => SocketInv'
<1> SUFFICES ASSUME SocketInv, UNCHANGED allVars PROVE SocketInv'
  OBVIOUS
<1>1. UNCHANGED <<up, down, sess, clients, listening, tab, push, lastMutationId, syncedThisConnection,
                  clientCursor, awaitingCatchUp>>
  BY DEF allVars, vars, serverVars, clientVars, linkVars, replicaVars, offlineVars
<1>2. ASSUME NEW c \in Clients PROVE Socket(c)'
  <2>1. Socket(c)
    BY DEF SocketInv
  <2>2. UpFrames(c)' = UpFrames(c) /\ DownFrames(c)' = DownFrames(c)
    BY <1>1 DEF UpFrames, DownFrames, Unsynced
  <2> QED BY <1>1, <2>1, <2>2 DEF Socket, Awaits, Unsynced
<1>3. PushLinked'
  BY <1>1 DEF SocketInv, PushLinked, Unsynced
<1> QED BY <1>2, <1>3 DEF SocketInv

-----------------------------------------------------------------------------
(* Entries that go over into another queue, or are done with *)

\* Done with under an id is done with for whoever has that id or none yet.
CarriesOn(gone) == \A e, f \in Entry : f \in gone /\ e.name = f.name /\ e.id \in {0, f.id} => e \in gone

LEMMA FollowsOn ==
  ASSUME NEW gone, NEW more, gone \subseteq more, CarriesOn(more),
         NEW a \in Seq(Entry), NEW b \in Seq(Entry), NEW c \in Seq(Entry),
         Follows(a, b, gone), Follows(b, c, more)
  PROVE  Follows(a, c, more)
<1>1. /\ DOMAIN a = 1..Len(a) /\ \A i \in DOMAIN a : a[i] \in Entry /\ a[i].id \in Nat
      /\ DOMAIN b = 1..Len(b) /\ \A i \in DOMAIN b : b[i] \in Entry /\ b[i].id \in Nat
  BY EntriesOf
<1>2. ASSUME NEW i \in DOMAIN a, a[i] \notin more
      PROVE  \E j \in DOMAIN c : c[j].name = a[i].name /\ a[i].id \in {0, c[j].id}
  <2>1. PICK k \in DOMAIN b : b[k].name = a[i].name /\ a[i].id \in {0, b[k].id}
    BY <1>2 DEF Follows
  <2>2. b[k] \notin more
    BY <1>1, <1>2, <2>1 DEF CarriesOn
  <2>3. PICK j \in DOMAIN c : c[j].name = b[k].name /\ b[k].id \in {0, c[j].id}
    BY <2>2 DEF Follows
  <2> QED BY <2>1, <2>3
<1> QED BY <1>2 DEF Follows

LEMMA FollowsSelf == \A gone, box : Follows(box, box, gone)
BY DEF Follows

LEMMA FollowsGrow ==
  ASSUME NEW gone, NEW more, gone \subseteq more, NEW a, NEW b, Follows(a, b, gone)
  PROVE  Follows(a, b, more)
BY DEF Follows

\* What leads to a queue that has passed an LMID has passed it.
LEMMA FollowsPassed ==
  ASSUME NEW gone, CarriesOn(gone), NEW lmid \in Nat,
         NEW a \in Seq(Entry), NEW b \in Seq(Entry), Follows(a, b, gone), Passed(b, lmid, gone)
  PROVE  Passed(a, lmid, gone)
<1>1. /\ \A i \in DOMAIN a : a[i] \in Entry /\ a[i].id \in Nat
      /\ \A i \in DOMAIN b : b[i] \in Entry /\ b[i].id \in Nat
  BY EntriesOf
<1> SUFFICES ASSUME NEW i \in DOMAIN a, a[i].id \in 1..lmid, a[i] \notin gone PROVE FALSE
  BY DEF Passed
<1>2. PICK j \in DOMAIN b : b[j].name = a[i].name /\ a[i].id \in {0, b[j].id}
  BY DEF Follows
<1>3. a[i].id = b[j].id /\ b[j].id \in 1..lmid
  BY <1>2
<1>4. b[j] \in gone
  BY <1>3 DEF Passed
<1> QED BY <1>1, <1>2, <1>3, <1>4 DEF CarriesOn

-----------------------------------------------------------------------------
(* Batches *)

LEMMA BatchIds ==
  ASSUME NEW batch \in Seq(Mutation)
  PROVE  /\ DOMAIN batch = 1..Len(batch) /\ Len(batch) \in Nat
         /\ \A j \in DOMAIN batch : batch[j].id \in Nat
<1>1. DOMAIN batch = 1..Len(batch) /\ Len(batch) \in Nat /\ \A j \in 1..Len(batch) : batch[j] \in Mutation
  BY SequenceOf
<1> QED BY <1>1 DEF Mutation

\* A batch stays in step while the server moves on and the queue keeps what it gave out.
LEMMA StaysInStep ==
  ASSUME NEW batch \in Seq(Mutation), NEW lmid \in Nat, NEW next \in Nat, lmid <= next,
         NEW ids, NEW wider, ids \subseteq wider, NEW box \in Seq(Entry), NEW after \in Seq(Entry),
         NEW lost, NEW more, lost \subseteq more, InStep(batch, lmid, ids, box, lost),
         \A i \in DOMAIN after : after[i].id > next /\ after[i].id \in ids =>
           \/ after[i].name \in more
           \/ \E k \in DOMAIN box : box[k].id = after[i].id /\ box[k].name = after[i].name
  PROVE  InStep(batch, next, wider, after, more)
<1>1. /\ \A j \in DOMAIN batch : batch[j].id \in Nat
      /\ \A i \in DOMAIN after : after[i].id \in Nat
      /\ \A i \in DOMAIN box : box[i].id \in Nat
      /\ DOMAIN batch = 1..Len(batch) /\ Len(batch) \in Nat
  BY EntriesOf, BatchIds
<1> SUFFICES ASSUME NEW j \in DOMAIN batch
             PROVE  /\ batch[1].id <= next + 1
                    /\ batch[j].id = batch[1].id + j - 1
                    /\ batch[j].id \in wider
                    /\ \A i \in DOMAIN after : after[i].id = batch[j].id /\ batch[j].id > next =>
                         after[i].name \in {batch[j].name} \cup more
  BY DEF InStep
<1>2. /\ batch[1].id <= lmid + 1 /\ batch[j].id = batch[1].id + j - 1 /\ batch[j].id \in ids
      /\ \A i \in DOMAIN box : box[i].id = batch[j].id /\ batch[j].id > lmid =>
           box[i].name \in {batch[j].name} \cup lost
  BY DEF InStep
<1>3. 1 \in DOMAIN batch /\ batch[1].id \in Nat
  BY <1>1
<1>4. ASSUME NEW i \in DOMAIN after, after[i].id = batch[j].id, batch[j].id > next, after[i].name \notin more
      PROVE  after[i].name = batch[j].name
  <2>1. PICK k \in DOMAIN box : box[k].id = after[i].id /\ box[k].name = after[i].name
    BY <1>2, <1>4
  <2>2. batch[j].id > lmid
    BY <1>1, <1>4
  <2> QED BY <1>2, <1>4, <2>1, <2>2
<1>5. batch[1].id <= next + 1
  BY <1>2, <1>3
<1> QED BY <1>2, <1>4, <1>5

\* What is left of a batch whose first mutation the server has passed.
LEMMA RestInStep ==
  ASSUME NEW batch \in Seq(Mutation), batch # <<>>, NEW lmid \in Nat, NEW ids,
         NEW box \in Seq(Entry), NEW lost, InStep(batch, lmid, ids, box, lost), batch[1].id <= lmid
  PROVE  InStep(Tail(batch), lmid, ids, box, lost)
<1>1. /\ Tail(batch) \in Seq(Mutation) /\ Len(Tail(batch)) = Len(batch) - 1 /\ 1 \in 1..Len(batch)
      /\ \A i \in 1..Len(Tail(batch)) : Tail(batch)[i] = batch[i + 1] /\ i + 1 \in 1..Len(batch)
  BY TailElements
<1>2. /\ DOMAIN batch = 1..Len(batch) /\ Len(batch) \in Nat /\ DOMAIN Tail(batch) = 1..Len(Tail(batch))
      /\ \A j \in DOMAIN batch : batch[j].id \in Nat
  <2>1. DOMAIN Tail(batch) = 1..Len(Tail(batch))
    BY <1>1, BatchIds
  <2> QED BY <2>1, BatchIds
<1> DEFINE rest == Tail(batch)
<1> HIDE DEF rest
<1>3. ASSUME NEW j \in DOMAIN rest
      PROVE  /\ rest[1].id <= lmid + 1
             /\ rest[j].id = rest[1].id + j - 1
             /\ rest[j].id \in ids
             /\ \A i \in DOMAIN box : box[i].id = rest[j].id /\ rest[j].id > lmid =>
                  box[i].name \in {rest[j].name} \cup lost
  <2>1. /\ j \in 1..Len(rest) /\ 1 \in 1..Len(rest) /\ j + 1 \in DOMAIN batch /\ 1 + 1 \in DOMAIN batch
        /\ rest[j] = batch[j + 1] /\ rest[1] = batch[1 + 1] /\ j \in Nat
    BY <1>1, <1>2, <1>3 DEF rest
  <2>2. batch[1 + 1].id = batch[1].id + (1 + 1) - 1 /\ batch[j + 1].id = batch[1].id + (j + 1) - 1
    BY <2>1 DEF InStep
  <2>3. /\ batch[j + 1].id \in ids
        /\ \A i \in DOMAIN box : box[i].id = batch[j + 1].id /\ batch[j + 1].id > lmid =>
             box[i].name \in {batch[j + 1].name} \cup lost
    BY <2>1 DEF InStep
  <2>4. rest[1].id <= lmid + 1 /\ rest[j].id = rest[1].id + j - 1
    <3>1. 1 \in DOMAIN batch /\ batch[1].id \in Nat
      BY <1>1, <1>2
    <3>2. rest[1].id = batch[1].id + 1 /\ rest[j].id = batch[1].id + j /\ j \in Nat
      BY ONLY <2>1, <2>2, <3>1
    <3> QED BY ONLY <3>1, <3>2, batch[1].id <= lmid, lmid \in Nat
  <2> QED BY <2>1, <2>3, <2>4
<1> QED BY <1>3 DEF InStep, rest

\* A numbered queue that begins where the server is, or before, is a batch in step with itself.
LEMMA QueueInStep ==
  ASSUME NEW box \in Seq(Entry), NEW confirmed \in Nat, NEW lmid \in Nat, confirmed <= lmid,
         Placed(box, confirmed), NEW lost
  PROVE  InStep(box, lmid, 0..(confirmed + Len(box)), box, lost)
<1>1. DOMAIN box = 1..Len(box) /\ Len(box) \in Nat
  BY EntriesOf
<1>2. \A i \in 1..Len(box) : box[i].id = confirmed + i
  BY DEF Placed
<1> SUFFICES ASSUME NEW j \in DOMAIN box
             PROVE  /\ box[1].id <= lmid + 1
                    /\ box[j].id = box[1].id + j - 1
                    /\ box[j].id \in 0..(confirmed + Len(box))
                    /\ \A i \in DOMAIN box : box[i].id = box[j].id /\ box[j].id > lmid =>
                         box[i].name \in {box[j].name} \cup lost
  BY DEF InStep
<1>3. box[1].id = confirmed + 1 /\ box[j].id = confirmed + j
  BY <1>1, <1>2
<1>4. \A i \in DOMAIN box : box[i].id = box[j].id => i = j
  BY <1>1, <1>2
<1>5. box[1].id <= lmid + 1 /\ box[j].id = box[1].id + j - 1 /\ box[j].id \in 0..(confirmed + Len(box))
  BY <1>1, <1>3
<1> QED BY <1>4, <1>5

-----------------------------------------------------------------------------
(* The queue of a client *)

LEMMA GoneGrows ==
  ASSUME OfflineTypeOK, OfflineTypeOK', NEW c \in Clients,
         lastMutationId[c] <= lastMutationId'[c], unread \subseteq unread',
         \A m : Processed(m) => Processed(m)'
  PROVE  Gone(c) \subseteq Gone(c)' /\ CarriesOn(Gone(c)) /\ CarriesOn(Gone(c)')
<1>1. lastMutationId[c] \in Nat /\ lastMutationId'[c] \in Nat
  BY DEF OfflineTypeOK, SyncTypeOK, TypeOK, StoreOK
<1>2. \A e \in Entry : e.id \in Nat
  BY DEF Entry
<1>3. Gone(c) \subseteq Gone(c)'
  BY <1>1, <1>2 DEF Gone
<1>4. CarriesOn(Gone(c))
  BY <1>1, <1>2 DEF Gone, CarriesOn
<1>5. CarriesOn(Gone(c)')
  BY <1>1, <1>2 DEF Gone, CarriesOn
<1> QED BY <1>3, <1>4, <1>5

LEMMA HeldType ==
  ASSUME OfflineTypeOK, NEW c \in Clients
  PROVE  Held(c) \in Seq(Entry)
<1>1. Len(writes[c]) \in 0..Len(writes[c]) /\ \A n \in 0..Len(writes[c]) : Record(c, n).entries \in Seq(Entry)
  BY TypesOf
<1>2. outbox[c] \in Seq(Entry)
  BY TypesOf
<1> QED BY <1>1, <1>2 DEF Held

LEMMA HeldTypeNext ==
  ASSUME OfflineTypeOK', NEW c \in Clients
  PROVE  Held(c)' \in Seq(Entry)
<1>1. /\ outbox'[c] \in Seq(Entry) /\ diskOutbox'[c] \in OutboxRecords
      /\ writes'[c] \in Seq(PokeWrites \cup OutboxWrites)
  BY DEF OfflineTypeOK, SyncTypeOK
<1>2. PICK ops \in Seq(PokeWrites \cup OutboxWrites) : ops = writes'[c]
  BY <1>1
<1>3. \A n \in 1..Len(ops) : ops[n].outbox \in OutboxRecords
  <2>1. \A n \in 1..Len(ops) : ops[n] \in PokeWrites \cup OutboxWrites
    OBVIOUS
  <2> QED BY <2>1 DEF PokeWrites, OutboxWrites
<1>4. Len(ops) = 0 \/ Len(ops) \in 1..Len(ops)
  OBVIOUS
<1>5. Record(c, Len(writes[c]))' \in OutboxRecords
  BY <1>1, <1>2, <1>3, <1>4 DEF Record
<1> QED BY <1>1, <1>5 DEF Held, OutboxRecords

\* What an unstarted tab holds is what it has saved, under no id, or what is stored.
LEMMA AsleepHolds ==
  ASSUME OfflineTypeOK, NEW c \in Clients, tab[c] # "running", Asleep(c)
  PROVE  \/ writes[c] = <<>> /\ Held(c) = diskOutbox[c].entries
         \/ \A i \in DOMAIN Held(c) : Held(c)[i].id = 0 /\ Held(c)[i].name \in Names(outbox[c])
<1>1. writes[c] \in Seq(Writes) /\ Len(writes[c]) \in Nat
  BY TypesOf
<1>2. CASE Len(writes[c]) = 0
  <2>1. writes[c] = <<>>
    BY <1>1, <1>2
  <2> QED BY <1>2, <2>1 DEF Held, Record
<1>3. CASE Len(writes[c]) # 0
  <2>1. Len(writes[c]) \in 1..Len(writes[c])
    BY <1>1, <1>3
  <2>2. Held(c) = writes[c][Len(writes[c])].outbox.entries
    BY <1>3 DEF Held, Record
  <2> QED BY <2>1, <2>2 DEF Asleep, Early
<1> QED BY <1>2, <1>3

\* Entries without an id are followed by any queue that has their names.
LEMMA NamesFollow ==
  ASSUME NEW box, NEW later, NEW gone,
         \A i \in DOMAIN box : box[i] \in gone \/ (box[i].id = 0 /\ box[i].name \in Names(later))
  PROVE  Follows(box, later, gone)
BY DEF Follows, Names

\* A queue that goes on, whose store operations are the old ones and then ones that hold it.
LEMMA QueueMoved ==
  ASSUME OfflineTypeOK, OfflineTypeOK', NEW d \in Clients, QueueKept(d), CarriesOn(Gone(d)'),
         Gone(d) \subseteq Gone(d)', lastMutationId[d] <= lastMutationId'[d],
         Placement(outbox'[d], confirmedLmid'[d], lastMutationId'[d]),
         syncedThisConnection'[d] => lastMutationId'[d] <= confirmedLmid'[d] + Len(outbox'[d]),
         ~needsRebase'[d], Passed(Held(d)', lastMutationId'[d], Gone(d)'),
         Follows(Held(d), Held(d)', Gone(d)'),
         \A n \in 0..Len(writes'[d]) :
           \/ n \in 0..Len(writes[d]) /\ Record(d, n)' = Record(d, n)
           \/ /\ n > Len(writes[d]) /\ Record(d, n)'.entries = Held(d)'
              /\ Placement(Record(d, n)'.entries, Record(d, n)'.confirmed, lastMutationId'[d])
  PROVE  QueueKept(d)'
<1> DEFINE gone == Gone(d)
           now == Gone(d)'
           old == Held(d)
           new == Held(d)'
<1>1. /\ Len(writes[d]) \in Nat /\ \A n \in 0..Len(writes[d]) : /\ Record(d, n).entries \in Seq(Entry)
                                                               /\ Record(d, n).confirmed \in Nat
      /\ old \in Seq(Entry) /\ lastMutationId[d] \in Nat
  BY TypesOf, HeldType DEF OfflineTypeOK, SyncTypeOK, TypeOK, StoreOK
<1>2. Len(writes'[d]) \in Nat /\ lastMutationId'[d] \in Nat /\ new \in Seq(Entry)
  <2>1. writes'[d] \in Seq(PokeWrites \cup OutboxWrites) /\ lastMutationId'[d] \in Nat
    BY DEF OfflineTypeOK, SyncTypeOK, TypeOK, StoreOK
  <2> QED BY <2>1, HeldTypeNext
<1>3. \A n \in 0..Len(writes[d]) :
        /\ Placement(Record(d, n).entries, Record(d, n).confirmed, lastMutationId[d])
        /\ Follows(Record(d, n).entries, old, gone)
        /\ \A k \in n..Len(writes[d]) : Follows(Record(d, n).entries, Record(d, k).entries, gone)
  BY DEF QueueKept
<1>4. gone \subseteq now /\ CarriesOn(now) /\ Follows(old, new, now)
  OBVIOUS
<1>5. \A n \in 0..Len(writes'[d]) :
        \/ n \in 0..Len(writes[d]) /\ Record(d, n)' = Record(d, n)
        \/ /\ n > Len(writes[d]) /\ Record(d, n)'.entries = new
           /\ Placement(Record(d, n)'.entries, Record(d, n)'.confirmed, lastMutationId'[d])
  OBVIOUS
<1> HIDE DEF gone, now, old, new
<1>6. \A n \in 0..Len(writes[d]) : Follows(Record(d, n).entries, new, now)
  BY <1>1, <1>2, <1>3, <1>4, FollowsOn
<1>7. ASSUME NEW n \in 0..Len(writes'[d])
      PROVE  /\ Placement(Record(d, n)'.entries, Record(d, n)'.confirmed, lastMutationId'[d])
             /\ Follows(Record(d, n)'.entries, new, now)
             /\ \A k \in n..Len(writes'[d]) : Follows(Record(d, n)'.entries, Record(d, k)'.entries, now)
  <2>1. CASE n \in 0..Len(writes[d]) /\ Record(d, n)' = Record(d, n)
    <3>1. Placement(Record(d, n)'.entries, Record(d, n)'.confirmed, lastMutationId'[d])
      BY <1>1, <1>2, <1>3, <2>1 DEF Placement
    <3>2. Follows(Record(d, n)'.entries, new, now)
      BY <1>6, <2>1
    <3>3. ASSUME NEW k \in n..Len(writes'[d])
          PROVE  Follows(Record(d, n)'.entries, Record(d, k)'.entries, now)
      <4>1. k \in 0..Len(writes'[d])
        BY <1>2, <1>7, <3>3
      <4>2. CASE k \in 0..Len(writes[d]) /\ Record(d, k)' = Record(d, k)
        <5>1. k \in n..Len(writes[d])
          BY <1>1, <1>2, <3>3, <4>2
        <5>2. Follows(Record(d, n).entries, Record(d, k).entries, gone)
          BY <1>3, <2>1, <5>1
        <5> QED BY <1>4, <2>1, <4>2, <5>2, FollowsGrow
      <4>3. CASE Record(d, k)'.entries = new
        BY <3>2, <4>3
      <4> QED BY <1>5, <4>1, <4>2, <4>3
    <3> QED BY <3>1, <3>2, <3>3
  <2>2. CASE /\ n > Len(writes[d]) /\ Record(d, n)'.entries = new
             /\ Placement(Record(d, n)'.entries, Record(d, n)'.confirmed, lastMutationId'[d])
    <3>1. ASSUME NEW k \in n..Len(writes'[d]) PROVE Record(d, k)'.entries = new
      <4>1. k \in 0..Len(writes'[d]) /\ k \notin 0..Len(writes[d])
        BY <1>1, <1>2, <1>7, <2>2, <3>1
      <4> QED BY <1>5, <4>1
    <3> QED BY <2>2, <3>1, FollowsSelf
  <2> QED BY <1>5, <2>1, <2>2
<1>8. \A n \in 0..Len(writes'[d]) :
        /\ Placement(Record(d, n).entries, Record(d, n).confirmed, lastMutationId[d])'
        /\ Follows(Record(d, n).entries, Held(d), Gone(d))'
        /\ \A k \in n..Len(writes'[d]) : Follows(Record(d, n).entries, Record(d, k).entries, Gone(d))'
  BY <1>7 DEF new, now, Placement, Follows, InPlace
<1> QED BY <1>8 DEF QueueKept, Placement, Passed, InPlace

\* A queue nobody touches, while the server may pass one more of its ids.
LEMMA QueueStays ==
  ASSUME OfflineTypeOK, OfflineTypeOK', NEW d \in Clients, QueueKept(d), CarriesOn(Gone(d)'),
         Gone(d) \subseteq Gone(d)', lastMutationId[d] <= lastMutationId'[d],
         outbox'[d] = outbox[d], confirmedLmid'[d] = confirmedLmid[d], writes'[d] = writes[d],
         diskOutbox'[d] = diskOutbox[d], Held(d)' = Held(d), ~needsRebase'[d],
         syncedThisConnection'[d] => lastMutationId'[d] <= confirmedLmid[d] + Len(outbox[d]),
         Passed(Held(d), lastMutationId'[d], Gone(d)')
  PROVE  QueueKept(d)'
<1>1. /\ confirmedLmid[d] \in Nat /\ lastMutationId[d] \in Nat /\ lastMutationId'[d] \in Nat
      /\ Len(writes[d]) \in Nat
  BY TypesOf DEF OfflineTypeOK, SyncTypeOK, TypeOK, StoreOK
<1>2. Placement(outbox'[d], confirmedLmid'[d], lastMutationId'[d])
  BY <1>1 DEF QueueKept, Placement
<1>3. \A n \in 0..Len(writes'[d]) : n \in 0..Len(writes[d]) /\ Record(d, n)' = Record(d, n)
  BY DEF Record
<1>4. Passed(Held(d)', lastMutationId'[d], Gone(d)')
  OBVIOUS
<1>5. Follows(Held(d), Held(d)', Gone(d)')
  BY FollowsSelf
<1>6. syncedThisConnection'[d] => lastMutationId'[d] <= confirmedLmid'[d] + Len(outbox'[d])
  OBVIOUS
<1> QED BY <1>2, <1>3, <1>4, <1>5, <1>6, QueueMoved

\* ... and when it passes none.
LEMMA QueueSame ==
  ASSUME OfflineTypeOK, OfflineTypeOK', NEW d \in Clients, QueueKept(d), CarriesOn(Gone(d)'),
         Gone(d) \subseteq Gone(d)', lastMutationId'[d] = lastMutationId[d],
         outbox'[d] = outbox[d], confirmedLmid'[d] = confirmedLmid[d], writes'[d] = writes[d],
         diskOutbox'[d] = diskOutbox[d], needsRebase'[d] = needsRebase[d],
         syncedThisConnection'[d] => syncedThisConnection[d],
         tab'[d] = "running" <=> tab[d] = "running"
  PROVE  QueueKept(d)'
<1>1. lastMutationId[d] \in Nat
  BY DEF OfflineTypeOK, SyncTypeOK, TypeOK, StoreOK
<1>2. Held(d)' = Held(d)
  BY DEF Held, Record
<1>3. Passed(Held(d), lastMutationId'[d], Gone(d)')
  BY DEF QueueKept, Passed
<1>4. syncedThisConnection'[d] => lastMutationId'[d] <= confirmedLmid[d] + Len(outbox[d])
  BY DEF QueueKept
<1> QED BY <1>1, <1>2, <1>3, <1>4, QueueStays DEF QueueKept

\* The oldest store operation is over; its record is the stored one, if it got there.
LEMMA QueueShifted ==
  ASSUME OfflineTypeOK, OfflineTypeOK', NEW c \in Clients, NEW d \in Clients, QueueKept(d),
         Commit(c) \/ FailWrite(c), CarriesOn(Gone(d)'), Gone(d) \subseteq Gone(d)',
         d = c => Held(d)' = Held(d)
  PROVE  QueueKept(d)'
<1>1. /\ writes[c] # <<>> /\ writes' = [writes EXCEPT ![c] = Tail(@)]
      /\ \/ diskOutbox' = [diskOutbox EXCEPT ![c] = Head(writes[c]).outbox]
         \/ diskOutbox' = diskOutbox
      /\ UNCHANGED <<outbox, confirmedLmid, needsRebase, syncedThisConnection, tab, lastMutationId>>
  BY DEF Commit, FailWrite, vars, serverVars, clientVars, queueVars, linkVars
<1>2. CASE d # c
  <2>1. writes'[d] = writes[d] /\ diskOutbox'[d] = diskOutbox[d]
    BY <1>1, <1>2 DEF OfflineTypeOK
  <2> QED BY <1>1, <2>1, QueueSame
<1>3. CASE d = c
  <2>1. Held(d)' = Held(d)
    BY <1>3
  <2>2. /\ Len(writes[d]) \in Nat /\ Len(writes'[d]) = Len(writes[d]) - 1
        /\ \A n \in 1..Len(writes'[d]) : Record(d, n)' = Record(d, n + 1) /\ n + 1 \in 1..Len(writes[d])
        /\ Record(d, 0)' = Record(d, 0) \/ (Record(d, 0)' = Record(d, 1) /\ 1 \in 1..Len(writes[d]))
    BY <1>1, <1>3, CommittedRecords, TypesOf
  <2>3. \A n \in 0..Len(writes[d]) :
          /\ Placement(Record(d, n).entries, Record(d, n).confirmed, lastMutationId[d])
          /\ Follows(Record(d, n).entries, Held(d), Gone(d))
          /\ \A k \in n..Len(writes[d]) : Follows(Record(d, n).entries, Record(d, k).entries, Gone(d))
    BY DEF QueueKept
  <2>4. PICK base \in 0..Len(writes[d]) : base \in {0, 1} /\ Record(d, 0)' = Record(d, base)
    BY <2>2
  <2>5. ASSUME NEW n \in 0..Len(writes'[d])
        PROVE  \E m \in 0..Len(writes[d]) : /\ Record(d, n)' = Record(d, m)
                                            /\ m = IF n = 0 THEN base ELSE n + 1
    <3>1. CASE n = 0
      BY <2>4, <3>1
    <3>2. CASE n # 0
      <4>1. n \in 1..Len(writes'[d])
        BY <2>2, <3>2
      <4> QED BY <2>2, <3>2, <4>1
    <3> QED BY <3>1, <3>2
  <2>6. ASSUME NEW n \in 0..Len(writes'[d])
        PROVE  /\ Placement(Record(d, n)'.entries, Record(d, n)'.confirmed, lastMutationId'[d])
               /\ Follows(Record(d, n)'.entries, Held(d)', Gone(d)')
               /\ \A k \in n..Len(writes'[d]) :
                    Follows(Record(d, n)'.entries, Record(d, k)'.entries, Gone(d)')
    <3>1. PICK m \in 0..Len(writes[d]) : Record(d, n)' = Record(d, m) /\ m = IF n = 0 THEN base ELSE n + 1
      BY <2>5
    <3>2. Follows(Record(d, m).entries, Held(d), Gone(d)')
      BY <2>3, FollowsGrow
    <3>3. ASSUME NEW k \in n..Len(writes'[d])
          PROVE  Follows(Record(d, n)'.entries, Record(d, k)'.entries, Gone(d)')
      <4>1. k \in 0..Len(writes'[d])
        BY <2>2, <3>3
      <4>2. PICK l \in 0..Len(writes[d]) : Record(d, k)' = Record(d, l) /\ l = IF k = 0 THEN base ELSE k + 1
        BY <2>5, <4>1
      <4>3. l \in m..Len(writes[d])
        BY <2>2, <2>4, <3>1, <3>3, <4>2
      <4>4. Follows(Record(d, m).entries, Record(d, l).entries, Gone(d))
        BY <2>3, <4>3
      <4> QED BY <3>1, <4>2, <4>4, FollowsGrow
    <3> QED BY <1>1, <2>1, <2>3, <3>1, <3>2, <3>3
  <2>7. \A n \in 0..Len(writes'[d]) :
          /\ Placement(Record(d, n).entries, Record(d, n).confirmed, lastMutationId[d])'
          /\ Follows(Record(d, n).entries, Held(d), Gone(d))'
          /\ \A k \in n..Len(writes'[d]) : Follows(Record(d, n).entries, Record(d, k).entries, Gone(d))'
    BY <2>6 DEF Placement, Follows, InPlace
  <2>8. Passed(Held(d), lastMutationId[d], Gone(d))'
    BY <1>1, <2>1 DEF QueueKept, Passed
  <2> QED BY <1>1, <2>7, <2>8 DEF QueueKept, Placement, InPlace
<1> QED BY <1>2, <1>3

\* What is left of a tab with nothing on its way to the store is the stored queue.
LEMMA QueueReloaded ==
  ASSUME OfflineTypeOK, OfflineTypeOK', NEW d \in Clients, QueueKept(d), CarriesOn(Gone(d)),
         Gone(d)' = Gone(d), tab'[d] # "running", writes'[d] = <<>>, diskOutbox'[d] = diskOutbox[d],
         lastMutationId'[d] = lastMutationId[d], ~syncedThisConnection'[d], ~needsRebase'[d],
         Placement(outbox'[d], confirmedLmid'[d], lastMutationId[d])
  PROVE  QueueKept(d)'
<1>1. lastMutationId[d] \in Nat /\ Len(writes[d]) \in Nat
  BY TypesOf DEF OfflineTypeOK, SyncTypeOK, TypeOK, StoreOK
<1>2. PICK box : box = diskOutbox[d].entries /\ box \in Seq(Entry) /\ box = Record(d, 0).entries
  BY TypesOf DEF Record
<1>3. Len(writes'[d]) = 0 /\ 0..0 = {0}
  OBVIOUS
<1>4. Held(d)' = box /\ Record(d, 0)' = Record(d, 0) /\ 0 \in 0..Len(writes[d])
  BY <1>1, <1>2, <1>3 DEF Held, Record
<1>5. /\ Placement(box, Record(d, 0).confirmed, lastMutationId[d])
      /\ Follows(box, Held(d), Gone(d)) /\ Passed(Held(d), lastMutationId[d], Gone(d))
  BY <1>2, <1>4 DEF QueueKept
<1>6. Passed(box, lastMutationId[d], Gone(d))
  BY <1>1, <1>2, <1>5, HeldType, FollowsPassed
<1>7. Placement(outbox[d], confirmedLmid[d], lastMutationId[d])'
  BY DEF Placement, InPlace
<1>8. Passed(Held(d), lastMutationId[d], Gone(d))'
  BY <1>4, <1>6 DEF Passed
<1>9. ASSUME NEW n \in 0..Len(writes'[d])
      PROVE  /\ Placement(Record(d, n).entries, Record(d, n).confirmed, lastMutationId[d])'
             /\ Follows(Record(d, n).entries, Held(d), Gone(d))'
             /\ \A k \in n..Len(writes'[d]) : Follows(Record(d, n).entries, Record(d, k).entries, Gone(d))'
  <2>1. n = 0 /\ \A k \in n..Len(writes'[d]) : k = 0
    BY <1>3, <1>9
  <2>2. Follows(Record(d, 0)'.entries, box, Gone(d)')
    BY <1>2, <1>4, FollowsSelf
  <2> QED BY <1>2, <1>4, <1>5, <2>1, <2>2 DEF Placement, InPlace, Follows
<1> QED BY <1>7, <1>8, <1>9 DEF QueueKept

\* Entries without an id join a queue.
LEMMA Joined ==
  ASSUME NEW s \in Seq(Entry), NEW t \in Seq(Entry), \A i \in DOMAIN t : t[i].id = 0
  PROVE  /\ s \o t \in Seq(Entry)
         /\ \A confirmed : InPlace(s, confirmed) => InPlace(s \o t, confirmed)
         /\ \A gone : Follows(s, s \o t, gone)
         /\ \A lmid, gone : Passed(s, lmid, gone) => Passed(s \o t, lmid, gone)
         /\ \A i \in DOMAIN (s \o t) : (s \o t)[i].id # 0 => \E k \in DOMAIN s : s[k] = (s \o t)[i]
         /\ Names(t) \subseteq Names(s \o t)
<1> DEFINE box == s \o t
<1>1. /\ box \in Seq(Entry) /\ Len(box) = Len(s) + Len(t) /\ Len(s) \in Nat /\ Len(t) \in Nat
      /\ \A i \in 1..Len(s) : box[i] = s[i]
      /\ \A i \in (Len(s) + 1)..(Len(s) + Len(t)) : box[i] = t[i - Len(s)]
  BY Concatenated
<1>2. DOMAIN box = 1..Len(box) /\ DOMAIN s = 1..Len(s) /\ DOMAIN t = 1..Len(t)
  BY <1>1
<1> HIDE DEF box
<1>3. ASSUME NEW i \in DOMAIN box
      PROVE  (i \in DOMAIN s /\ box[i] = s[i]) \/ box[i].id = 0
  <2>1. CASE i \in 1..Len(s)
    BY <1>1, <1>2, <2>1
  <2>2. CASE i \notin 1..Len(s)
    <3>1. i \in (Len(s) + 1)..(Len(s) + Len(t)) /\ i - Len(s) \in DOMAIN t
      BY <1>1, <1>2, <2>2
    <3> QED BY <1>1, <3>1
  <2> QED BY <2>1, <2>2
<1>4. \A confirmed : InPlace(s, confirmed) => InPlace(box, confirmed)
  BY <1>2, <1>3 DEF InPlace
<1>5. \A gone : Follows(s, box, gone)
  <2>1. \A i \in DOMAIN s : i \in DOMAIN box /\ box[i] = s[i]
    BY <1>1, <1>2
  <2> QED BY <2>1 DEF Follows
<1>6. \A lmid, gone : Passed(s, lmid, gone) => Passed(box, lmid, gone)
  <2>1. \A lmid : 0 \notin 1..lmid
    OBVIOUS
  <2> QED BY <1>3, <2>1 DEF Passed
<1>7. \A i \in DOMAIN box : box[i].id # 0 => \E k \in DOMAIN s : s[k] = box[i]
  BY <1>3
<1>8. Names(t) \subseteq Names(box)
  <2>1. ASSUME NEW i \in DOMAIN t PROVE Len(s) + i \in DOMAIN box /\ box[Len(s) + i] = t[i]
    <3>1. Len(s) + i \in (Len(s) + 1)..(Len(s) + Len(t)) /\ (Len(s) + i) - Len(s) = i
      BY <1>1, <1>2
    <3> QED BY <1>1, <1>2, <3>1
  <2> QED BY <2>1 DEF Names
<1> QED BY <1>1, <1>4, <1>5, <1>6, <1>7, <1>8 DEF box

\* The records of a tab that issues operations: the old ones, then those of the operations.
LEMMA OwnRecords ==
  ASSUME OfflineTypeOK, NEW d \in Clients, NEW ops \in Seq(Writes),
         writes' = [writes EXCEPT ![d] = @ \o ops], diskOutbox' = diskOutbox
  PROVE  \A n \in 0..Len(writes'[d]) :
           \/ n \in 0..Len(writes[d]) /\ Record(d, n)' = Record(d, n)
           \/ n > Len(writes[d]) /\ \E i \in 1..Len(ops) : Record(d, n)' = ops[i].outbox
<1>1. writes[d] \in Seq(Writes) /\ Len(writes[d]) \in Nat
  BY TypesOf
<1>2. writes'[d] = writes[d] \o ops
  BY OfflineTypeIs DEF TabTypeOK
<1>3. /\ \A n \in 1..Len(writes[d]) : writes'[d][n] = writes[d][n]
      /\ \A n \in (Len(writes[d]) + 1)..Len(writes'[d]) : writes'[d][n] = ops[n - Len(writes[d])]
      /\ Len(writes'[d]) = Len(writes[d]) + Len(ops) /\ Len(ops) \in Nat
  <2>1. PICK old \in Seq(Writes) : old = writes[d]
    BY <1>1
  <2> QED BY <1>2, <2>1, Concatenated
<1>4. ASSUME NEW n \in 0..Len(writes'[d])
      PROVE  \/ n \in 0..Len(writes[d]) /\ Record(d, n)' = Record(d, n)
             \/ n > Len(writes[d]) /\ \E i \in 1..Len(ops) : Record(d, n)' = ops[i].outbox
  <2>1. CASE n \in 0..Len(writes[d])
    BY <1>1, <1>3, <2>1 DEF Record
  <2>2. CASE n > Len(writes[d])
    <3>1. n \in (Len(writes[d]) + 1)..Len(writes'[d]) /\ n - Len(writes[d]) \in 1..Len(ops) /\ n # 0
      BY <1>1, <1>3, <2>2
    <3>2. Record(d, n)' = ops[n - Len(writes[d])].outbox
      BY <1>3, <3>1 DEF Record
    <3> QED BY <2>2, <3>1, <3>2
  <2> QED BY <1>1, <1>3, <2>1, <2>2
<1> QED BY <1>4

\* A tab restores its queue.
LEMMA QueueHydrated ==
  ASSUME OfflineTypeOK, OfflineTypeOK', TabInv, NEW d \in Clients, QueueKept(d), Hydrate(d),
         CarriesOn(Gone(d)'), Gone(d)' = Gone(d)
  PROVE  /\ QueueKept(d)'
         /\ \A i \in DOMAIN Held(d)' : Held(d)'[i].id # 0 =>
              \E k \in DOMAIN diskOutbox[d].entries : diskOutbox[d].entries[k] = Held(d)'[i]
<1>1. /\ outbox \in [Clients -> Seq(Entry)] /\ confirmedLmid \in [Clients -> Nat]
      /\ writes \in [Clients -> Seq(Writes)] /\ tab \in [Clients -> {"closed", "made", "hydrating", "running"}]
      /\ lastMutationId[d] \in Nat /\ Len(writes[d]) \in Nat /\ diskOutbox[d].confirmed \in Nat
      /\ ClientTypeOK'
  BY OfflineTypeIs, TypesOf DEF SyncTypeOK, TabTypeOK, TypeOK, StoreOK, OfflineTypeOK, ClientTypeOK, Frames
<1>2. /\ tab[d] = "hydrating" /\ tab'[d] = "running" /\ outbox'[d] = Hydrated(d)
      /\ confirmedLmid'[d] = diskOutbox[d].confirmed
      /\ UNCHANGED <<lastMutationId, diskOutbox, syncedThisConnection, needsRebase>>
      /\ Issue(d, IF outbox'[d] = <<>> THEN <<>> ELSE <<SaveOutbox(d)>>)
  BY <1>1 DEF Hydrate, Loads, serverVars, linkVars, diskVars
<1>3. Asleep(d) /\ ~syncedThisConnection[d] /\ \A i \in DOMAIN outbox[d] : outbox[d][i].id = 0
  BY <1>2 DEF TabInv, Asleep
<1>4. PICK s \in Seq(Entry), t \in Seq(Entry) :
        /\ s = diskOutbox[d].entries /\ t = outbox[d] /\ s = Record(d, 0).entries
        /\ diskOutbox[d].confirmed = Record(d, 0).confirmed
  BY TypesOf DEF Record
<1>5. Held(d)' = s \o t /\ outbox'[d] = s \o t
  BY <1>2, <1>4 DEF Held, Hydrated
<1>6. \A i \in DOMAIN t : t[i].id = 0
  BY <1>3, <1>4
<1>7. /\ \A confirmed : InPlace(s, confirmed) => InPlace(s \o t, confirmed)
      /\ \A gone : Follows(s, s \o t, gone)
      /\ \A lmid, gone : Passed(s, lmid, gone) => Passed(s \o t, lmid, gone)
      /\ \A i \in DOMAIN (s \o t) : (s \o t)[i].id # 0 => \E k \in DOMAIN s : s[k] = (s \o t)[i]
  BY <1>6, Joined
<1>8. /\ Placement(s, diskOutbox[d].confirmed, lastMutationId[d])
      /\ Passed(s, lastMutationId[d], Gone(d)) /\ ~needsRebase[d]
  <2>1. 0 \in 0..Len(writes[d])
    BY <1>1
  <2>2. /\ Placement(s, diskOutbox[d].confirmed, lastMutationId[d]) /\ ~needsRebase[d]
        /\ Follows(s, Held(d), Gone(d)) /\ Passed(Held(d), lastMutationId[d], Gone(d))
    BY <1>4, <2>1 DEF QueueKept
  <2> QED BY <1>1, <2>2, HeldType, FollowsPassed
<1>9. Placement(s \o t, diskOutbox[d].confirmed, lastMutationId[d])
  BY <1>7, <1>8 DEF Placement
<1>10. PICK ops \in Seq(Writes) : /\ writes' = [writes EXCEPT ![d] = @ \o ops]
                                  /\ \A i \in 1..Len(ops) : ops[i].outbox = Snapshotted(d)
  <2>1. SaveOutbox(d) \in Writes /\ SaveOutbox(d).outbox = Snapshotted(d)
    BY <1>1, SaveOutboxType DEF SaveOutbox
  <2>2. <<>> \in Seq(Writes) /\ \A i \in 1..Len(<<>>) : <<>>[i].outbox = Snapshotted(d)
    OBVIOUS
  <2>3. <<SaveOutbox(d)>> \in Seq(Writes) /\ \A i \in 1..Len(<<SaveOutbox(d)>>) : <<SaveOutbox(d)>>[i].outbox = Snapshotted(d)
    BY <2>1
  <2>4. \/ writes' = [writes EXCEPT ![d] = @ \o <<>>]
        \/ writes' = [writes EXCEPT ![d] = @ \o <<SaveOutbox(d)>>]
    BY <1>2 DEF Issue
  <2> QED BY <2>2, <2>3, <2>4
<1>11. \A n \in 0..Len(writes'[d]) :
         \/ n \in 0..Len(writes[d]) /\ Record(d, n)' = Record(d, n)
         \/ /\ n > Len(writes[d]) /\ Record(d, n)'.entries = Held(d)'
            /\ Placement(Record(d, n)'.entries, Record(d, n)'.confirmed, lastMutationId'[d])
  <2>1. ASSUME NEW n \in 0..Len(writes'[d])
        PROVE  \/ n \in 0..Len(writes[d]) /\ Record(d, n)' = Record(d, n)
               \/ n > Len(writes[d]) /\ Record(d, n)' = Snapshotted(d)
    <3>1. PICK new : new = Snapshotted(d)
      OBVIOUS
    <3>2. \A i \in 1..Len(ops) : ops[i].outbox = new
      BY <1>10, <3>1
    <3>3. diskOutbox' = diskOutbox
      BY <1>2
    <3>4. \/ n \in 0..Len(writes[d]) /\ Record(d, n)' = Record(d, n)
          \/ n > Len(writes[d]) /\ \E i \in 1..Len(ops) : Record(d, n)' = ops[i].outbox
      BY <1>10, <3>3, OwnRecords
    <3> QED BY <3>1, <3>2, <3>4
  <2>2. Snapshotted(d).entries = s \o t /\ Snapshotted(d).confirmed = diskOutbox[d].confirmed
    BY <1>2, <1>5 DEF Snapshotted
  <2> QED BY <1>2, <1>5, <1>9, <2>1, <2>2
<1>12. QueueKept(d)'
  <2>1. Placement(outbox'[d], confirmedLmid'[d], lastMutationId'[d])
    BY <1>2, <1>5, <1>9
  <2>2. ~needsRebase'[d] /\ ~syncedThisConnection'[d]
    BY <1>2, <1>3, <1>8
  <2>3. Passed(Held(d)', lastMutationId'[d], Gone(d)')
    BY <1>2, <1>5, <1>7, <1>8
  <2>4. lastMutationId[d] <= lastMutationId'[d]
    BY <1>1, <1>2
  <2>5. Follows(Held(d), Held(d)', Gone(d)')
    <3>1. CASE Held(d) = s
      BY <1>5, <1>7, <3>1
    <3>2. CASE \A i \in DOMAIN Held(d) : Held(d)[i].id = 0 /\ Held(d)[i].name \in Names(t)
      <4>1. Names(t) \subseteq Names(s \o t)
        BY Joined, <1>6
      <4> QED BY <1>5, <3>2, <4>1, NamesFollow
    <3>3. Held(d) = s \/ \A i \in DOMAIN Held(d) : Held(d)[i].id = 0 /\ Held(d)[i].name \in Names(t)
      BY <1>2, <1>3, <1>4, AsleepHolds
    <3> QED BY <3>1, <3>2, <3>3
  <2> QED BY <1>11, <2>1, <2>2, <2>3, <2>4, <2>5, QueueMoved
<1> QED BY <1>4, <1>5, <1>7, <1>12

\* A tab whose load fails begins with what it was told meanwhile.
LEMMA QueueLost ==
  ASSUME OfflineTypeOK, OfflineTypeOK', TabInv, NEW d \in Clients, QueueKept(d), FailHydrate(d),
         CarriesOn(Gone(d)'), Gone(d) \subseteq Gone(d)'
  PROVE  QueueKept(d)' /\ \A i \in DOMAIN Held(d)' : Held(d)'[i].id = 0
<1>1. /\ outbox[d] \in Seq(Entry) /\ confirmedLmid[d] \in Nat /\ writes \in [Clients -> Seq(Writes)]
      /\ tab \in [Clients -> {"closed", "made", "hydrating", "running"}]
      /\ lastMutationId[d] \in Nat /\ Len(writes[d]) \in Nat
  BY OfflineTypeIs, TypesOf DEF SyncTypeOK, TabTypeOK, TypeOK, StoreOK
<1>2. /\ tab[d] = "hydrating" /\ tab'[d] = "running"
      /\ unread' = unread \cup Names(diskOutbox[d].entries)
      /\ UNCHANGED <<lastMutationId, diskOutbox, syncedThisConnection, needsRebase, outbox, confirmedLmid>>
      /\ Issue(d, IF outbox[d] = <<>> THEN <<>>
                  ELSE <<[type |-> "outbox", outbox |-> [entries |-> outbox[d], confirmed |-> 0]]>>)
  BY <1>1 DEF FailHydrate, Loads, serverVars, clientVars, queueVars, linkVars
<1>3. Asleep(d) /\ ~syncedThisConnection[d] /\ \A i \in DOMAIN outbox[d] : outbox[d][i].id = 0
  BY <1>2 DEF TabInv, Asleep
<1>4. /\ diskOutbox[d].entries \in Seq(Entry) /\ Held(d)' = outbox[d]
      /\ DOMAIN outbox[d] = 1..Len(outbox[d])
  BY <1>1, <1>2, TypesOf, EntriesOf DEF Held
<1>5. PICK new : new = [entries |-> outbox[d], confirmed |-> 0]
  OBVIOUS
<1>6. PICK ops \in Seq(Writes) : /\ writes' = [writes EXCEPT ![d] = @ \o ops]
                                 /\ \A i \in 1..Len(ops) : ops[i].outbox = new
  <2>1. PICK op \in Writes : op = [type |-> "outbox", outbox |-> new] /\ op.outbox = new
    <3>1. new \in OutboxRecords
      BY <1>1, <1>5 DEF OutboxRecords
    <3>2. [type |-> "outbox", outbox |-> new] \in OutboxWrites
      BY <3>1 DEF OutboxWrites
    <3>3. [type |-> "outbox", outbox |-> new].outbox = new
      OBVIOUS
    <3> QED BY <3>2, <3>3 DEF Writes
  <2>2. <<>> \in Seq(Writes) /\ \A i \in 1..Len(<<>>) : <<>>[i].outbox = new
    OBVIOUS
  <2>3. <<op>> \in Seq(Writes) /\ \A i \in 1..Len(<<op>>) : <<op>>[i].outbox = new
    BY <2>1
  <2>4. \/ writes' = [writes EXCEPT ![d] = @ \o <<>>]
        \/ writes' = [writes EXCEPT ![d] = @ \o <<op>>]
    BY <1>2, <1>5, <2>1 DEF Issue
  <2> QED BY <2>2, <2>3, <2>4
<1>7. \A confirmed : InPlace(outbox[d], confirmed)
  BY <1>3, <1>4 DEF InPlace
<1>8. \A n \in 0..Len(writes'[d]) :
        \/ n \in 0..Len(writes[d]) /\ Record(d, n)' = Record(d, n)
        \/ /\ n > Len(writes[d]) /\ Record(d, n)'.entries = Held(d)'
           /\ Placement(Record(d, n)'.entries, Record(d, n)'.confirmed, lastMutationId'[d])
  <2>1. diskOutbox' = diskOutbox
    BY <1>2
  <2>2. ASSUME NEW n \in 0..Len(writes'[d])
        PROVE  \/ n \in 0..Len(writes[d]) /\ Record(d, n)' = Record(d, n)
               \/ n > Len(writes[d]) /\ Record(d, n)' = new
    <3>1. \/ n \in 0..Len(writes[d]) /\ Record(d, n)' = Record(d, n)
          \/ n > Len(writes[d]) /\ \E i \in 1..Len(ops) : Record(d, n)' = ops[i].outbox
      BY <1>6, <2>1, OwnRecords
    <3> QED BY <1>6, <3>1
  <2>3. new.entries = Held(d)' /\ new.confirmed = 0 /\ Placement(new.entries, new.confirmed, lastMutationId'[d])
    BY <1>1, <1>2, <1>4, <1>5, <1>7 DEF Placement
  <2> QED BY <2>2, <2>3
<1>9. Follows(Held(d), Held(d)', Gone(d)')
  <2>1. CASE Held(d) = diskOutbox[d].entries
    <3>1. \A i \in DOMAIN Held(d) : Held(d)[i] \in Entry /\ Held(d)[i].name \in unread'
      BY <1>2, <1>4, <2>1, EntriesOf DEF Names
    <3> QED BY <3>1 DEF Follows, Gone
  <2>2. CASE \A i \in DOMAIN Held(d) : Held(d)[i].id = 0 /\ Held(d)[i].name \in Names(outbox[d])
    BY <1>4, <2>2, NamesFollow
  <2> QED BY <1>2, <1>3, <2>1, <2>2, AsleepHolds
<1>10. Passed(Held(d)', lastMutationId'[d], Gone(d)') /\ \A i \in DOMAIN Held(d)' : Held(d)'[i].id = 0
  <2>1. 0 \notin 1..lastMutationId[d]
    OBVIOUS
  <2> QED BY <1>2, <1>3, <1>4, <2>1 DEF Passed
<1>11. QueueKept(d)'
  <2>1. Placement(outbox'[d], confirmedLmid'[d], lastMutationId'[d])
    BY <1>2, <1>7 DEF Placement, QueueKept
  <2>2. ~needsRebase'[d] /\ ~syncedThisConnection'[d]
    BY <1>2, <1>3 DEF QueueKept
  <2>3. lastMutationId[d] <= lastMutationId'[d]
    BY <1>1, <1>2
  <2> QED BY <1>8, <1>9, <1>10, <2>1, <2>2, <2>3, QueueMoved
<1> QED BY <1>10, <1>11

-----------------------------------------------------------------------------
(* The batches under way *)

\* What a client has given out under an id to come it holds under that id, or gave up.
HoldsOn(c) ==
  /\ lastMutationId[c] <= lastMutationId'[c] /\ unread \subseteq unread'
  /\ Numbers(c) \subseteq Numbers(c)'
  /\ \A i \in DOMAIN Held(c)' :
       Held(c)'[i].id > lastMutationId'[c] /\ Held(c)'[i].id \in Numbers(c) =>
         \/ Held(c)'[i].name \in unread'
         \/ \E k \in DOMAIN Held(c) : /\ Held(c)[k].id = Held(c)'[i].id
                                      /\ Held(c)[k].name = Held(c)'[i].name

LEMMA BatchGoesOn ==
  ASSUME OfflineTypeOK, OfflineTypeOK', NEW c \in Clients, HoldsOn(c),
         NEW batch \in Seq(Mutation), Agrees(c, batch)
  PROVE  InStep(batch, lastMutationId'[c], Numbers(c)', Held(c)', unread')
<1>1. Held(c) \in Seq(Entry) /\ lastMutationId[c] \in Nat
  BY HeldType DEF OfflineTypeOK, SyncTypeOK, TypeOK, StoreOK
<1>2. Held(c)' \in Seq(Entry) /\ lastMutationId'[c] \in Nat
  <2>1. lastMutationId'[c] \in Nat
    BY DEF OfflineTypeOK, SyncTypeOK, TypeOK, StoreOK
  <2> QED BY <2>1, HeldTypeNext
<1>3. PICK lmid, next, ids, wider, box, after, lost, more :
        /\ lmid = lastMutationId[c] /\ next = lastMutationId'[c] /\ ids = Numbers(c) /\ wider = Numbers(c)'
        /\ box = Held(c) /\ after = Held(c)' /\ lost = unread /\ more = unread'
  OBVIOUS
<1>4. /\ lmid \in Nat /\ next \in Nat /\ lmid <= next /\ ids \subseteq wider /\ lost \subseteq more
      /\ box \in Seq(Entry) /\ after \in Seq(Entry)
      /\ \A i \in DOMAIN after : after[i].id > next /\ after[i].id \in ids =>
           \/ after[i].name \in more
           \/ \E k \in DOMAIN box : box[k].id = after[i].id /\ box[k].name = after[i].name
  BY <1>1, <1>2, <1>3 DEF HoldsOn
<1>5. InStep(batch, lmid, ids, box, lost)
  BY <1>3 DEF Agrees
<1>6. InStep(batch, next, wider, after, more)
  BY ONLY <1>4, <1>5, batch \in Seq(Mutation), StaysInStep
<1> QED BY <1>3, <1>6

LEMMA FramesGoOn ==
  ASSUME OfflineTypeOK, OfflineTypeOK', NEW c \in Clients, HoldsOn(c)
  PROVE  AgreedUp(c) \subseteq AgreedUp(c)'
<1> SUFFICES ASSUME NEW frame \in Hellos \cup PushFrames, frame.type = "push", Agrees(c, frame.mutations)
             PROVE  Agrees(c, frame.mutations)'
  BY DEF AgreedUp
<1>1. PICK batch \in Seq(Mutation) : batch = frame.mutations
  BY DEF Hellos, PushFrames
<1>2. InStep(batch, lastMutationId'[c], Numbers(c)', Held(c)', unread')
  BY <1>1, BatchGoesOn
<1> QED BY <1>1, <1>2 DEF Agrees, InStep

\* The frames of a client that sends nothing but what agrees.
LEMMA FramesMove ==
  ASSUME OfflineTypeOK, OfflineTypeOK', BatchesAgree, NEW c \in Clients, HoldsOn(c),
         \/ up'[c] \in {up[c], <<>>}
         \/ up[c] # <<>> /\ up'[c] = Tail(up[c])
         \/ \E frame \in AgreedUp(c)' : up'[c] = Append(up[c], frame)
  PROVE  up'[c] \in Seq(AgreedUp(c)')
<1>1. up[c] \in Seq(AgreedUp(c))
  BY DEF BatchesAgree
<1>2. up[c] \in Seq(AgreedUp(c)')
  BY <1>1, FramesGoOn, SequenceOf, ElementsIn
<1> QED BY <1>2, MovedSequence

\* A client that the step leaves as it is holds on.
LEMMA HoldsStill ==
  ASSUME NEW c \in Clients, lastMutationId[c] <= lastMutationId'[c], unread \subseteq unread',
         outbox'[c] = outbox[c], confirmedLmid'[c] = confirmedLmid[c], Held(c)' = Held(c),
         syncedThisConnection'[c] => syncedThisConnection[c], confirmedLmid[c] \in Nat,
         Len(outbox[c]) \in Nat
  PROVE  HoldsOn(c)
<1>1. Numbers(c) \subseteq Numbers(c)'
  BY DEF Numbers
<1> QED BY <1>1 DEF HoldsOn

LEMMA DownAgrees ==
  ASSUME OfflineTypeOK, OfflineTypeOK', NEW targets, NEW frame, Deliver(targets, frame),
         frame.type = "error" => frame.code # "PushInvalid", NEW d \in Clients
  PROVE  down'[d] = down[d] \/ \E f \in AgreedDown : down'[d] = Append(down[d], f)
<1>1. down[d] \in Seq(Pokes \cup Errors) /\ down'[d] \in Seq(Pokes \cup Errors)
  BY DEF OfflineTypeOK, SyncTypeOK, TypeOK, StoreOK
<1>2. CASE down'[d] = down[d]
  BY <1>2
<1>3. CASE down'[d] # down[d]
  <2>1. down'[d] = Append(down[d], frame)
    BY <1>3 DEF Deliver
  <2>2. frame \in Pokes \cup Errors
    BY <1>1, <2>1, LastOf
  <2> QED BY <2>1, <2>2 DEF AgreedDown
<1> QED BY <1>2, <1>3

-----------------------------------------------------------------------------
(* The server's steps *)

LEMMA LogKept ==
  ASSUME OfflineTypeOK, mutationLog' = mutationLog \/ \E entry : mutationLog' = Append(mutationLog, entry)
  PROVE  \A m : Processed(m) => Processed(m)'
<1>1. mutationLog \in Seq(LogEntries)
  BY DEF OfflineTypeOK, SyncTypeOK, TypeOK
<1>2. ASSUME NEW i \in DOMAIN mutationLog PROVE i \in DOMAIN mutationLog' /\ mutationLog'[i] = mutationLog[i]
  BY <1>1
<1> QED BY <1>2 DEF Processed

\* A step of the server that processes nothing.
LEMMA QuietServer ==
  ASSUME OfflineTypeOK, OfflineTypeOK', \A c \in Clients : QueueKept(c), BatchesAgree,
         UNCHANGED clientVars, UNCHANGED offlineVars, UNCHANGED <<lastMutationId, mutationLog>>,
         \A d \in Clients : up'[d] \in {up[d], <<>>} \/ (up[d] # <<>> /\ up'[d] = Tail(up[d])),
         \A d \in Clients : down'[d] = down[d] \/ \E f \in AgreedDown : down'[d] = Append(down[d], f),
         push' # Idle => \E c \in Clients, batch \in Seq(Mutation) :
                           push'.client = c /\ push'.todo = batch /\ Agrees(c, batch)
  PROVE  (\A c \in Clients : QueueKept(c)') /\ BatchesAgree'
<1>1. UNCHANGED <<outbox, confirmedLmid, syncedThisConnection, needsRebase, tab, writes, diskOutbox, unread>>
  BY DEF clientVars, queueVars, linkVars, offlineVars, diskVars
<1>2. ASSUME NEW d \in Clients
      PROVE  /\ Gone(d) \subseteq Gone(d)' /\ CarriesOn(Gone(d)')
             /\ lastMutationId[d] \in Nat /\ confirmedLmid[d] \in Nat /\ Len(outbox[d]) \in Nat
             /\ Held(d)' = Held(d)
  <2>1. lastMutationId[d] \in Nat /\ confirmedLmid[d] \in Nat /\ outbox[d] \in Seq(Entry)
    BY TypesOf DEF OfflineTypeOK, SyncTypeOK, TypeOK, StoreOK
  <2>2. \A m : Processed(m) => Processed(m)'
    BY LogKept
  <2>3. Gone(d) \subseteq Gone(d)' /\ CarriesOn(Gone(d)')
    BY <1>1, <2>1, <2>2, GoneGrows
  <2> QED BY <1>1, <2>1, <2>3, EntriesOf DEF Held, Record
<1>3. ASSUME NEW d \in Clients PROVE QueueKept(d)'
  BY <1>1, <1>2, QueueSame
<1>4. ASSUME NEW d \in Clients PROVE HoldsOn(d)
  <2>1. lastMutationId[d] <= lastMutationId'[d]
    BY <1>2
  <2> QED BY <1>1, <1>2, <2>1, HoldsStill
<1>5. ASSUME NEW d \in Clients PROVE up'[d] \in Seq(AgreedUp(d)')
  <2>1. \/ up'[d] \in {up[d], <<>>}
        \/ up[d] # <<>> /\ up'[d] = Tail(up[d])
    OBVIOUS
  <2> QED BY <1>4, <2>1, FramesMove
<1>6. ASSUME NEW d \in Clients PROVE down'[d] \in Seq(AgreedDown)
  <2>1. down[d] \in Seq(AgreedDown)
    BY DEF BatchesAgree
  <2> QED BY <2>1, MovedSequence
<1>7. ASSUME push' # Idle PROVE Agrees(push.client, push.todo)'
  <2>1. PICK c \in Clients, batch \in Seq(Mutation) :
          push'.client = c /\ push'.todo = batch /\ Agrees(c, batch)
    BY <1>7
  <2>2. InStep(batch, lastMutationId'[c], Numbers(c)', Held(c)', unread')
    BY <1>4, <2>1, BatchGoesOn
  <2>3. Agrees(c, batch)'
    BY <2>2 DEF Agrees, InStep
  <2> QED BY <2>1, <2>3
<1> QED BY <1>3, <1>5, <1>6, <1>7 DEF BatchesAgree, AgreedDown

\* The server processes a mutation: what its client holds under that id is the same one.
LEMMA AppliedServer ==
  ASSUME OfflineTypeOK, OfflineTypeOK', SocketInv, \A c \in Clients : QueueKept(c), BatchesAgree,
         UNCHANGED clientVars, UNCHANGED offlineVars, UNCHANGED up, NEW w, NEW ok, ApplyMutation(w, ok)
  PROVE  (\A c \in Clients : QueueKept(c)') /\ BatchesAgree'
<1>1. UNCHANGED <<outbox, confirmedLmid, syncedThisConnection, needsRebase, tab, writes, diskOutbox, unread>>
  BY DEF clientVars, queueVars, linkVars, offlineVars, diskVars
<1>2. PICK c \in Clients, lmid \in Nat, batch \in Seq(Mutation) :
        /\ c = push.client /\ lmid = lastMutationId[c] /\ batch = push.todo /\ batch # <<>>
        /\ batch[1].id = lmid + 1 /\ NextMutation = batch[1] /\ push # Idle
        /\ lastMutationId' = [lastMutationId EXCEPT ![c] = lmid + 1]
        /\ push'.client = c /\ push'.todo = Tail(batch) /\ down' = down
  <2>1. push.todo \in Seq(Mutation)
    BY AppliedMutation DEF OfflineTypeOK, SyncTypeOK, TypeOK, Pushes, PushesOf
  <2>2. push.todo # <<>> /\ NextMutation = push.todo[1]
    BY <2>1, AppliedMutation, TailElements DEF NextMutation
  <2> QED BY <2>1, <2>2, AppliedMutation
<1>3. PICK entry : entry.name = batch[1].name /\ mutationLog' = Append(mutationLog, entry)
  <2>1. \E entry : entry.name = NextMutation.name /\ mutationLog' = Append(mutationLog, entry)
    BY AppliedMutation
  <2> QED BY <1>2, <2>1
<1>4. \A m : Processed(m) => Processed(m)'
  BY <1>3, LogKept
<1>5. Processed(batch[1].name)'
  <2>1. mutationLog \in Seq(LogEntries)
    BY DEF OfflineTypeOK, SyncTypeOK, TypeOK
  <2>2. Len(mutationLog) + 1 \in DOMAIN mutationLog' /\ mutationLog'[Len(mutationLog) + 1] = entry
    BY <1>3, <2>1, Appended
  <2> QED BY <1>3, <2>2 DEF Processed
<1>6. ASSUME NEW d \in Clients
      PROVE  /\ Gone(d) \subseteq Gone(d)' /\ CarriesOn(Gone(d)')
             /\ lastMutationId[d] \in Nat /\ confirmedLmid[d] \in Nat /\ outbox[d] \in Seq(Entry)
             /\ Len(outbox[d]) \in Nat /\ Held(d)' = Held(d) /\ lastMutationId[d] <= lastMutationId'[d]
  <2>1. lastMutationId \in [Clients -> Nat] /\ confirmedLmid[d] \in Nat /\ outbox[d] \in Seq(Entry)
    BY TypesOf DEF OfflineTypeOK, SyncTypeOK, TypeOK, StoreOK
  <2>2. lastMutationId[d] <= lastMutationId'[d]
    BY <1>2, <2>1
  <2>3. Gone(d) \subseteq Gone(d)' /\ CarriesOn(Gone(d)')
    BY <1>1, <1>4, <2>2, GoneGrows
  <2> QED BY <1>1, <2>1, <2>2, <2>3, EntriesOf DEF Held, Record
<1>7. lastMutationId'[c] = lmid + 1
  <2>1. lastMutationId \in [Clients -> Nat]
    BY DEF OfflineTypeOK, SyncTypeOK, TypeOK, StoreOK
  <2> QED BY <1>2, <2>1
<1>8. Agrees(c, batch) /\ 1 \in DOMAIN batch
  BY <1>2, FirstOf DEF BatchesAgree
<1>9. /\ batch[1].id \in Numbers(c)
      /\ \A i \in DOMAIN Held(c) : Held(c)[i].id = lmid + 1 =>
           Held(c)[i].name \in {batch[1].name} \cup unread
  <2>1. batch[1].id > lmid
    BY <1>2
  <2> QED BY <1>2, <1>8, <2>1 DEF Agrees, InStep
<1>10. QueueKept(c)'
  <2>1. syncedThisConnection'[c] => lastMutationId'[c] <= confirmedLmid[c] + Len(outbox[c])
    BY <1>1, <1>2, <1>6, <1>7, <1>9 DEF Numbers
  <2>2. Passed(Held(c), lastMutationId'[c], Gone(c)')
    <3>1. \A i \in DOMAIN Held(c) : Held(c)[i] \in Entry /\ Held(c)[i].id \in Nat
      BY HeldType, EntriesOf
    <3> SUFFICES ASSUME NEW i \in DOMAIN Held(c), Held(c)[i].id \in 1..(lmid + 1) PROVE Held(c)[i] \in Gone(c)'
      BY <1>7 DEF Passed
    <3>2. CASE Held(c)[i].id \in 1..lmid
      BY <1>2, <1>6, <3>2 DEF QueueKept, Passed
    <3>3. CASE Held(c)[i].id \notin 1..lmid
      <4>1. Held(c)[i].id = lmid + 1
        BY <3>1, <3>3
      <4>2. Held(c)[i].name \in {batch[1].name} \cup unread
        BY <1>9, <4>1
      <4> QED BY <1>1, <1>5, <1>7, <3>1, <4>1, <4>2 DEF Gone
    <3> QED BY <3>2, <3>3
  <2>3. ~needsRebase'[c]
    BY <1>1 DEF QueueKept
  <2> QED BY <1>1, <1>6, <2>1, <2>2, <2>3, QueueStays
<1>11. ASSUME NEW d \in Clients, d # c PROVE QueueKept(d)'
  <2>1. lastMutationId'[d] = lastMutationId[d]
    BY <1>2, <1>11 DEF OfflineTypeOK
  <2> QED BY <1>1, <1>6, <2>1, QueueSame
<1>12. ASSUME NEW d \in Clients PROVE HoldsOn(d)
  BY <1>1, <1>6, HoldsStill
<1>13. ASSUME NEW d \in Clients PROVE up'[d] \in Seq(AgreedUp(d)') /\ down'[d] \in Seq(AgreedDown)
  BY <1>2, <1>12, FramesMove DEF BatchesAgree
<1>14. Agrees(push.client, push.todo)'
  <2>1. InStep(batch, lastMutationId'[c], Numbers(c)', Held(c)', unread')
    BY <1>8, <1>12, BatchGoesOn
  <2>2. PICK ids, box, lost : ids = Numbers(c)' /\ box = Held(c) /\ box = Held(c)' /\ lost = unread'
    BY <1>6
  <2>3. InStep(Tail(batch), lmid + 1, ids, box, lost)
    <3>1. box \in Seq(Entry) /\ lmid + 1 \in Nat /\ batch[1].id <= lmid + 1
      <4>1. box \in Seq(Entry)
        BY <2>2, HeldType
      <4>2. batch[1].id = lmid + 1
        BY <1>2
      <4> QED BY <4>1, <4>2
    <3>2. InStep(batch, lmid + 1, ids, box, lost)
      BY <1>7, <2>1, <2>2
    <3> QED BY <1>2, <3>1, <3>2, RestInStep
  <2>4. Agrees(c, Tail(batch))'
    BY <1>7, <2>2, <2>3 DEF Agrees, InStep
  <2> QED BY <1>2, <2>4
<1> QED BY <1>10, <1>11, <1>13, <1>14 DEF BatchesAgree, AgreedDown

LEMMA ServerQueues ==
  ASSUME MaxBackend = 0, OfflineTypeOK, OfflineTypeOK', SocketInv, \A c \in Clients : QueueKept(c),
         BatchesAgree, ServerNext, UNCHANGED offlineVars
  PROVE  (\A c \in Clients : QueueKept(c)') /\ BatchesAgree'
<1>1. /\ up \in [Clients -> Seq(Frames)] /\ backendId \in Nat
      /\ sess \in [Clients -> {"none", "open", "ready"}]
      /\ push # Idle => push \in Pushes /\ push.client \in Clients /\ push.todo \in Seq(Mutation)
  BY DEF OfflineTypeOK, SyncTypeOK, TypeOK, StoreOK, Frames, Pushes, PushesOf
<1>2. UNCHANGED clientVars
  BY DEF ServerNext, ServeHello, PushStep, Throw, Maintain, FailHello, ServePush, ServerClose
<1>3. push # Idle => \E c \in Clients, batch \in Seq(Mutation) :
                       push.client = c /\ push.todo = batch /\ Agrees(c, batch)
  BY <1>1 DEF BatchesAgree
<1>4. ASSUME NEW c \in Clients, ServeHello(c) \/ FailHello(c)
      PROVE  (\A d \in Clients : QueueKept(d)') /\ BatchesAgree'
  <2>1. /\ UNCHANGED <<lastMutationId, mutationLog, push>>
        /\ \A d \in Clients : up'[d] = up[d] \/ (up[d] # <<>> /\ up'[d] = Tail(up[d]))
    BY <1>1, <1>4 DEF ServeHello, FailHello, Handled, HandleHello, store
  <2>2. \E frame : /\ Deliver({c}, frame)
                   /\ frame.type = "error" => frame.code # "PushInvalid"
    <3>1. CASE FailHello(c)
      BY <3>1 DEF FailHello, Error
    <3>2. CASE ServeHello(c)
      <4>1. \E base, clear, patch, end, lmids : Deliver({c}, Poke(base, clear, patch, end, lmids, {}))
        BY <3>2, Zenon DEF ServeHello, HandleHello
      <4> QED BY <4>1 DEF Poke
    <3> QED BY <1>4, <3>1, <3>2
  <2>3. \A d \in Clients : down'[d] = down[d] \/ \E f \in AgreedDown : down'[d] = Append(down[d], f)
    BY <2>2, DownAgrees
  <2> QED BY <1>2, <1>3, <2>1, <2>3, QuietServer
<1>5. ASSUME NEW c \in Clients, ServePush(c)
      PROVE  (\A d \in Clients : QueueKept(d)') /\ BatchesAgree'
  <2>1. /\ up[c] # <<>> /\ Head(up[c]).type = "push" /\ Socket(c)
        /\ \A d \in Clients : up'[d] = up[d] \/ (up[d] # <<>> /\ up'[d] = Tail(up[d]))
    BY <1>1, <1>5 DEF ServePush, Handled, SocketInv
  <2>2. Head(up[c]) \in UpFrames(c) /\ Head(up[c]) \in AgreedUp(c)
    BY <2>1, TailElements, FirstOf DEF Socket, BatchesAgree
  <2>3. StartPush(c, Head(up[c]).mutations)
    BY <1>5, <2>1, <2>2 DEF ServePush, RefusePush, UpFrames
  <2>4. PICK batch \in Seq(Mutation) : batch = Head(up[c]).mutations /\ Agrees(c, batch)
    BY <2>1, <2>2 DEF AgreedUp, Hellos, PushFrames
  <2>5. /\ UNCHANGED <<lastMutationId, mutationLog, down>> /\ push'.client = c /\ push'.todo = batch
    BY <2>3, <2>4 DEF StartPush, store
  <2> QED BY <1>2, <2>1, <2>4, <2>5, QuietServer
<1>6. ASSUME NEW c \in Clients, ServerClose(c)
      PROVE  (\A d \in Clients : QueueKept(d)') /\ BatchesAgree'
  <2>1. /\ UNCHANGED <<lastMutationId, mutationLog, down, push>>
        /\ \A d \in Clients : up'[d] \in {up[d], <<>>}
    BY <1>1, <1>6 DEF ServerClose, CloseSocket, store
  <2> QED BY <1>2, <1>3, <2>1, QuietServer
<1>7. ASSUME Maintain PROVE (\A d \in Clients : QueueKept(d)') /\ BatchesAgree'
  <2>1. ~Reset
    <3>1. Reset => backendId < MaxBackend
      BY DEF Reset
    <3> QED BY <1>1, <3>1
  <2>2. PICK data : \/ (Compact \/ Hibernate \/ Import(data)) /\ UNCHANGED up
                    \/ ImportExtension(data) /\ up' = [c \in Clients |-> <<>>]
    BY <1>7, <2>1, Zenon DEF Maintain
  <2>3. /\ UNCHANGED <<lastMutationId, mutationLog, push>>
        /\ \A d \in Clients : up'[d] \in {up[d], <<>>}
    BY <1>1, <2>2 DEF Compact, Hibernate, Import, ImportExtension, ReplaceRows, store
  <2>4. \/ down' = down
        \/ \E targets, frame : Deliver(targets, frame) /\ frame.type = "poke"
    <3>1. CASE Compact \/ Hibernate \/ ImportExtension(data)
      BY <3>1 DEF Compact, Hibernate, ImportExtension
    <3>2. CASE Import(data)
      <4>1. \E patch, cursor : Deliver(Ready, Poke(NoCursor, TRUE, patch, cursor, {}, {}))
        BY <3>2, Zenon DEF Import
      <4> QED BY <4>1 DEF Poke
    <3> QED BY <2>2, <3>1, <3>2
  <2>5. \A d \in Clients : down'[d] = down[d] \/ \E f \in AgreedDown : down'[d] = Append(down[d], f)
    BY <2>4, DownAgrees
  <2> QED BY <1>2, <1>3, <2>3, <2>5, QuietServer
<1>8. ASSUME Throw PROVE (\A d \in Clients : QueueKept(d)') /\ BatchesAgree'
  <2>1. /\ UNCHANGED <<lastMutationId, mutationLog, up>> /\ push' = Idle
        /\ Deliver({push.client}, Error("Internal"))
    BY <1>8 DEF Throw, AbortPush, store
  <2>2. Error("Internal").type = "error" /\ Error("Internal").code # "PushInvalid"
    BY DEF Error
  <2>3. \A d \in Clients : down'[d] = down[d] \/ \E f \in AgreedDown : down'[d] = Append(down[d], f)
    BY <2>1, <2>2, DownAgrees
  <2> QED BY <1>2, <2>1, <2>3, QuietServer
<1>9. ASSUME PushStep PROVE (\A d \in Clients : QueueKept(d)') /\ BatchesAgree'
  <2>1. up' = up /\ push # Idle /\ PushLinked
    BY <1>9 DEF PushStep, SkipDuplicate, RejectGap, Succeed, Fail, ApplyMutation, FinishPush, Mutating,
       SocketInv
  <2>2. PICK c \in Clients, lmid \in Nat, batch \in Seq(Mutation) :
          /\ push.client = c /\ push.todo = batch /\ Agrees(c, batch)
          /\ lmid = lastMutationId[c] /\ push.lmid = lmid
    <3>1. lastMutationId[push.client] \in Nat /\ push.lmid = lastMutationId[push.client]
      BY <1>1, <2>1 DEF OfflineTypeOK, SyncTypeOK, TypeOK, StoreOK, PushLinked
    <3> QED BY <1>3, <2>1, <3>1
  <2>3. Mutating => /\ batch # <<>> /\ NextMutation = batch[1] /\ batch[1].id \in Nat /\ batch[1].id <= lmid + 1
    <3> SUFFICES ASSUME Mutating
                 PROVE  /\ batch # <<>> /\ NextMutation = batch[1] /\ batch[1].id \in Nat
                        /\ batch[1].id <= lmid + 1
      OBVIOUS
    <3>1. batch # <<>> /\ NextMutation = batch[1] /\ 1 \in DOMAIN batch
      BY <2>2, TailElements, FirstOf DEF Mutating, NextMutation
    <3>2. batch[1].id <= lmid + 1
      BY <2>2, <3>1 DEF Agrees, InStep
    <3> QED BY <3>1, <3>2, FirstId
  <2>4. CASE SkipDuplicate
    <3>1. /\ UNCHANGED <<lastMutationId, mutationLog, down>> /\ Mutating /\ NextMutation.id < lmid + 1
          /\ push' = [push EXCEPT !.todo = Tail(@)]
      BY <2>2, <2>4 DEF SkipDuplicate, store, Expected
    <3>2. push'.client = c /\ push'.todo = Tail(batch)
      BY <1>1, <2>1, <2>2, <3>1 DEF Pushes, PushesOf
    <3>3. Tail(batch) \in Seq(Mutation) /\ Agrees(c, Tail(batch))
      <4>1. batch # <<>> /\ batch[1].id <= lmid
        BY <2>3, <3>1
      <4>2. Tail(batch) \in Seq(Mutation)
        BY <4>1, TailElements
      <4>3. PICK ids, box, lost : ids = Numbers(c) /\ box = Held(c) /\ lost = unread
        OBVIOUS
      <4>4. box \in Seq(Entry) /\ InStep(batch, lmid, ids, box, lost)
        BY <2>2, <4>3, HeldType DEF Agrees
      <4>5. InStep(Tail(batch), lmid, ids, box, lost)
        BY <4>1, <4>4, RestInStep
      <4> QED BY <2>2, <4>2, <4>3, <4>5 DEF Agrees
    <3> QED BY <1>2, <2>1, <3>1, <3>2, <3>3, QuietServer
  <2>5. ~RejectGap
    BY <2>2, <2>3 DEF RejectGap, Expected
  <2>6. CASE Succeed \/ Fail
    <3>1. PICK w, ok : ApplyMutation(w, ok)
      BY <2>6, Zenon DEF Succeed, Fail
    <3> QED BY <1>2, <2>1, <3>1, AppliedServer
  <2>7. CASE FinishPush
    <3>1. UNCHANGED <<lastMutationId, mutationLog>> /\ push' = Idle
      BY <2>7 DEF FinishPush, store
    <3>2. \E targets, base, clear, patch, lmids, results :
            Deliver(targets, Poke(base, clear, patch, Cursor, lmids, results))
      BY <2>7, Zenon DEF FinishPush
    <3>3. \E targets, frame : Deliver(targets, frame) /\ frame.type = "poke"
      BY <3>2 DEF Poke
    <3>4. \A d \in Clients : down'[d] = down[d] \/ \E f \in AgreedDown : down'[d] = Append(down[d], f)
      BY <3>3, DownAgrees
    <3> QED BY <1>2, <2>1, <3>1, <3>4, QuietServer
  <2> QED BY <1>9, <2>4, <2>5, <2>6, <2>7 DEF PushStep
<1> QED BY <1>4, <1>5, <1>6, <1>7, <1>8, <1>9 DEF ServerNext

-----------------------------------------------------------------------------
(* The life of a tab *)

\* Whoever a step of a tab does not concern.
LEMMA OtherQueue ==
  ASSUME OfflineTypeOK, OfflineTypeOK', NEW d \in Clients, QueueKept(d), unread \subseteq unread',
         UNCHANGED <<lastMutationId, mutationLog>>,
         outbox'[d] = outbox[d], confirmedLmid'[d] = confirmedLmid[d], writes'[d] = writes[d],
         diskOutbox'[d] = diskOutbox[d], needsRebase'[d] = needsRebase[d],
         syncedThisConnection'[d] => syncedThisConnection[d],
         tab'[d] = "running" <=> tab[d] = "running"
  PROVE  QueueKept(d)' /\ HoldsOn(d)
<1>1. lastMutationId[d] \in Nat /\ confirmedLmid[d] \in Nat /\ outbox[d] \in Seq(Entry)
  BY TypesOf DEF OfflineTypeOK, SyncTypeOK, TypeOK, StoreOK
<1>2. \A m : Processed(m) => Processed(m)'
  BY LogKept
<1>3. lastMutationId[d] <= lastMutationId'[d] /\ Len(outbox[d]) \in Nat
  BY <1>1, EntriesOf
<1>4. Gone(d) \subseteq Gone(d)' /\ CarriesOn(Gone(d)')
  BY <1>2, <1>3, GoneGrows
<1>5. QueueKept(d)'
  BY <1>4, QueueSame
<1>6. Held(d)' = Held(d)
  BY DEF Held, Record
<1> QED BY <1>1, <1>3, <1>5, <1>6, HoldsStill

LEMMA Agreement ==
  ASSUME OfflineTypeOK, OfflineTypeOK', BatchesAgree, push' = push,
         push # Idle => \A d \in Clients : HoldsOn(d),
         \A d \in Clients : up'[d] \in Seq(AgreedUp(d)'),
         \A d \in Clients : \/ down'[d] \in {down[d], <<>>}
                            \/ down[d] # <<>> /\ down'[d] = Tail(down[d])
  PROVE  BatchesAgree'
<1>1. ASSUME NEW d \in Clients PROVE down'[d] \in Seq(AgreedDown)
  <2>1. down[d] \in Seq(AgreedDown)
    BY DEF BatchesAgree
  <2>2. \/ down'[d] \in {down[d], <<>>}
        \/ down[d] # <<>> /\ down'[d] = Tail(down[d])
    OBVIOUS
  <2> QED BY <2>1, <2>2, MovedSequence
<1>2. ASSUME push' # Idle PROVE Agrees(push.client, push.todo)'
  <2>1. PICK c \in Clients, batch \in Seq(Mutation) :
          push.client = c /\ push.todo = batch /\ Agrees(c, batch)
    BY <1>2 DEF BatchesAgree, OfflineTypeOK, SyncTypeOK, TypeOK, Pushes, PushesOf
  <2>2. InStep(batch, lastMutationId'[c], Numbers(c)', Held(c)', unread')
    BY <1>2, <2>1, BatchGoesOn
  <2>3. Agrees(c, batch)'
    BY <2>2 DEF Agrees, InStep
  <2> QED BY <2>1, <2>3
<1> QED BY <1>1, <1>2 DEF BatchesAgree, AgreedDown

\* A tab that falls back on the stored queue held what of it is not done with.
LEMMA StoredHeld ==
  ASSUME OfflineTypeOK, NEW c \in Clients, QueueKept(c), NEW i \in DOMAIN diskOutbox[c].entries,
         diskOutbox[c].entries[i].id > lastMutationId[c], diskOutbox[c].entries[i].name \notin unread
  PROVE  \E k \in DOMAIN Held(c) : /\ Held(c)[k].id = diskOutbox[c].entries[i].id
                                   /\ Held(c)[k].name = diskOutbox[c].entries[i].name
<1>1. PICK box \in Seq(Entry) : box = diskOutbox[c].entries /\ box = Record(c, 0).entries
  BY TypesOf DEF Record
<1>2. Follows(box, Held(c), Gone(c))
  <2>1. 0 \in 0..Len(writes[c])
    BY TypesOf
  <2> QED BY <1>1, <2>1 DEF QueueKept
<1>3. PICK low \in Nat, entry \in Entry :
        /\ low = lastMutationId[c] /\ entry = box[i] /\ entry.id \in Nat /\ entry.id > low
  <2>1. lastMutationId[c] \in Nat
    BY DEF OfflineTypeOK, SyncTypeOK, TypeOK, StoreOK
  <2>2. box[i] \in Entry /\ box[i].id \in Nat
    BY <1>1, EntriesOf
  <2> QED BY <1>1, <2>1, <2>2
<1>4. entry.id # 0 /\ ~(entry.id <= low)
  BY ONLY <1>3
<1>5. box[i] \notin Gone(c)
  BY <1>1, <1>3, <1>4 DEF Gone
<1> QED BY <1>1, <1>2, <1>3, <1>4, <1>5 DEF Follows

LEMMA TabQueues ==
  ASSUME OfflineTypeOK, OfflineTypeOK', TabInv, \A c \in Clients : QueueKept(c), BatchesAgree,
         NEW c \in Clients, TabEvent(c)
  PROVE  (\A d \in Clients : QueueKept(d)') /\ BatchesAgree'
<1>1. /\ down \in [Clients -> Seq(Pokes \cup Errors)] /\ lastMutationId \in [Clients -> Nat]
      /\ syncedThisConnection \in [Clients -> BOOLEAN] /\ needsRebase \in [Clients -> BOOLEAN]
      /\ tab \in [Clients -> {"closed", "made", "hydrating", "running"}]
      /\ outbox \in [Clients -> Seq(Entry)] /\ confirmedLmid \in [Clients -> Nat]
      /\ writes \in [Clients -> Seq(Writes)] /\ diskOutbox \in [Clients -> OutboxRecords]
  BY OfflineTypeIs DEF SyncTypeOK, TypeOK, StoreOK, TabTypeOK
<1>2. /\ UNCHANGED <<lastMutationId, mutationLog, push, up>> /\ unread \subseteq unread'
      /\ \A d \in Clients \ {c} :
           /\ outbox'[d] = outbox[d] /\ confirmedLmid'[d] = confirmedLmid[d] /\ writes'[d] = writes[d]
           /\ diskOutbox'[d] = diskOutbox[d] /\ needsRebase'[d] = needsRebase[d]
           /\ syncedThisConnection'[d] = syncedThisConnection[d] /\ tab'[d] = tab[d]
      /\ \A d \in Clients : down'[d] \in {down[d], <<>>}
  <2>1. CASE Wakes(c)
    BY <1>1, <2>1, WakesTab DEF vars, serverVars, clientVars, linkVars, queueVars, diskVars
  <2>2. CASE Hydrate(c)
    BY <1>1, <2>2 DEF Hydrate, serverVars, linkVars, Issue, diskVars
  <2>3. CASE FailHydrate(c)
    BY <1>1, <2>3 DEF FailHydrate, serverVars, clientVars, linkVars, queueVars, Issue
  <2>4. CASE Crash(c)
    BY <1>1, <2>4 DEF Crash, store, diskVars
  <2>5. CASE Commit(c)
    BY <1>1, <2>5 DEF Commit, vars, serverVars, clientVars, linkVars, queueVars
  <2>6. CASE FailWrite(c)
    BY <1>1, <2>6 DEF FailWrite, serverVars, clientVars, linkVars, queueVars
  <2> QED BY <2>1, <2>2, <2>3, <2>4, <2>5, <2>6 DEF TabEvent
<1>3. ASSUME NEW d \in Clients
      PROVE  /\ lastMutationId[d] <= lastMutationId'[d]
             /\ Gone(d) \subseteq Gone(d)' /\ CarriesOn(Gone(d)) /\ CarriesOn(Gone(d)')
             /\ lastMutationId[d] \in Nat /\ confirmedLmid[d] \in Nat /\ Len(outbox[d]) \in Nat
  <2>1. lastMutationId[d] <= lastMutationId'[d]
    BY <1>1, <1>2
  <2>2. \A m : Processed(m) => Processed(m)'
    BY <1>2, LogKept
  <2>3. lastMutationId[d] \in Nat /\ confirmedLmid[d] \in Nat /\ Len(outbox[d]) \in Nat
    BY <1>1, EntriesOf
  <2> QED BY <1>2, <2>1, <2>2, <2>3, GoneGrows
<1>4. ASSUME NEW d \in Clients, d # c PROVE QueueKept(d)' /\ HoldsOn(d)
  BY <1>2, <1>4, OtherQueue
<1>5. ASSUME Wakes(c) PROVE QueueKept(c)' /\ HoldsOn(c)
  <2>1. /\ tab[c] # "running" /\ tab'[c] # "running"
        /\ UNCHANGED <<outbox, confirmedLmid, writes, diskOutbox, needsRebase, syncedThisConnection>>
    BY <1>1, <1>5, WakesTab DEF vars, clientVars, linkVars, queueVars, diskVars
  <2> QED BY <1>2, <2>1, OtherQueue
<1>hold. ASSUME unread' = unread, Numbers(c) \subseteq Numbers(c)',
                \A i \in DOMAIN Held(c)' : Held(c)'[i].id # 0 =>
                  \E k \in DOMAIN diskOutbox[c].entries : diskOutbox[c].entries[k] = Held(c)'[i]
         PROVE  HoldsOn(c)
  <2>1. ASSUME NEW i \in DOMAIN Held(c)', Held(c)'[i].id > lastMutationId'[c], Held(c)'[i].name \notin unread'
        PROVE  \E k \in DOMAIN Held(c) : Held(c)[k].id = Held(c)'[i].id /\ Held(c)[k].name = Held(c)'[i].name
    <3>1. Held(c)'[i].id # 0
      BY <1>2, <1>3, <2>1
    <3>2. PICK k \in DOMAIN diskOutbox[c].entries : diskOutbox[c].entries[k] = Held(c)'[i]
      BY <1>hold, <3>1
    <3>3. diskOutbox[c].entries[k].id > lastMutationId[c] /\ diskOutbox[c].entries[k].name \notin unread
      BY <1>2, <1>hold, <2>1, <3>2
    <3> QED BY <3>2, <3>3, StoredHeld
  <2> QED BY <1>3, <1>hold, <2>1 DEF HoldsOn
<1>6. ASSUME Hydrate(c) PROVE QueueKept(c)' /\ HoldsOn(c)
  <2>1. UNCHANGED <<unread, syncedThisConnection>> /\ tab[c] = "hydrating"
    BY <1>6 DEF Hydrate, Loads, diskVars, linkVars
  <2>2. ~syncedThisConnection[c]
    BY <2>1 DEF TabInv, Asleep
  <2>3. Gone(c)' = Gone(c)
    BY <1>2, <2>1 DEF Gone, Processed
  <2>4. /\ QueueKept(c)'
        /\ \A i \in DOMAIN Held(c)' : Held(c)'[i].id # 0 =>
             \E k \in DOMAIN diskOutbox[c].entries : diskOutbox[c].entries[k] = Held(c)'[i]
    BY <1>3, <1>6, <2>3, QueueHydrated
  <2>5. Numbers(c) \subseteq Numbers(c)'
    BY <2>1, <2>2 DEF Numbers
  <2> QED BY <1>hold, <2>1, <2>4, <2>5
<1>7. ASSUME FailHydrate(c) PROVE QueueKept(c)' /\ HoldsOn(c)
  <2>1. UNCHANGED <<syncedThisConnection>> /\ tab[c] = "hydrating"
    BY <1>7 DEF FailHydrate, Loads, clientVars, linkVars
  <2>2. ~syncedThisConnection[c]
    BY <2>1 DEF TabInv, Asleep
  <2>3. QueueKept(c)' /\ \A i \in DOMAIN Held(c)' : Held(c)'[i].id = 0
    BY <1>3, <1>7, QueueLost
  <2>4. Numbers(c) \subseteq Numbers(c)'
    BY <2>1, <2>2 DEF Numbers
  <2>5. \A id : id > lastMutationId'[c] /\ id \in Numbers(c) => id # 0
    BY <1>1, <1>2, <1>3
  <2> QED BY <1>2, <1>3, <2>3, <2>4, <2>5 DEF HoldsOn
<1>8. ASSUME Crash(c) PROVE QueueKept(c)' /\ HoldsOn(c)
  <2>1. /\ UNCHANGED <<unread, diskOutbox>> /\ tab'[c] = "closed" /\ ~syncedThisConnection'[c]
        /\ writes'[c] = <<>> /\ outbox'[c] = <<>> /\ confirmedLmid'[c] = 0 /\ ~needsRebase'[c]
    BY <1>1, <1>8 DEF Crash, diskVars
  <2>2. Gone(c)' = Gone(c)
    BY <1>2, <2>1 DEF Gone, Processed
  <2>3. QueueKept(c)'
    <3>1. Placement(<<>>, 0, lastMutationId[c])
      <4>1. DOMAIN <<>> = {} /\ Len(<<>>) = 0
        OBVIOUS
      <4> QED BY <1>3, <4>1 DEF Placement, InPlace
    <3> QED BY <1>2, <1>3, <2>1, <2>2, <3>1, QueueReloaded
  <2>4. Numbers(c) \subseteq Numbers(c)'
    <3>1. 0..(confirmedLmid[c] + Len(outbox[c])) \subseteq Nat
      BY <1>3
    <3> QED BY <2>1, <3>1 DEF Numbers
  <2>5. Held(c)' = diskOutbox[c].entries
    BY <2>1 DEF Record, Held
  <2> QED BY <1>hold, <2>1, <2>3, <2>4, <2>5
<1>9. ASSUME Commit(c) \/ FailWrite(c) PROVE QueueKept(c)' /\ HoldsOn(c)
  <2>1. /\ UNCHANGED <<unread, tab, outbox, confirmedLmid, syncedThisConnection, needsRebase>>
        /\ writes[c] # <<>> /\ writes' = [writes EXCEPT ![c] = Tail(@)]
        /\ \/ diskOutbox' = [diskOutbox EXCEPT ![c] = Head(writes[c]).outbox]
           \/ diskOutbox' = diskOutbox
    BY <1>9 DEF Commit, FailWrite, vars, clientVars, queueVars, linkVars
  <2>2. ASSUME Held(c)' = Held(c) PROVE QueueKept(c)' /\ HoldsOn(c)
    <3>1. QueueKept(c)'
      BY <1>3, <1>9, <2>2, QueueShifted
    <3> QED BY <1>3, <2>1, <2>2, <3>1, HoldsStill
  <2>3. CASE tab[c] = "running"
    <3>1. Held(c)' = Held(c)
      BY <2>1, <2>3 DEF Held
    <3> QED BY <2>2, <3>1
  <2>tail. /\ Len(writes'[c]) = Len(writes[c]) - 1 /\ Len(writes[c]) \in Nat /\ Len(writes'[c]) \in Nat
           /\ writes'[c] \in Seq(Writes)
    <3>1. /\ Len(writes'[c]) = Len(writes[c]) - 1 /\ writes'[c] = Tail(writes[c])
          /\ writes[c] \in Seq(Writes) /\ Len(writes[c]) \in Nat
      BY <2>1, CommittedRecords, TypesOf
    <3>2. Tail(writes[c]) \in Seq(Writes)
      BY <2>1, <3>1, TailElements
    <3>3. writes'[c] \in Seq(Writes)
      BY <3>1, <3>2
    <3>4. Len(writes'[c]) \in Nat
      BY <3>3
    <3> QED BY <3>1, <3>3, <3>4
  <2>len. PICK last \in Nat, now \in Nat :
            last = Len(writes[c]) /\ now = Len(writes'[c]) /\ last = now + 1
    <3>1. \A m \in Nat, n \in Nat : n = m - 1 => m = n + 1
      OBVIOUS
    <3>2. Len(writes[c]) = Len(writes'[c]) + 1
      BY <2>tail, <3>1
    <3> QED BY <2>tail, <3>2
  <2>4. CASE tab[c] # "running" /\ (last > 1 \/ Commit(c))
    <3>1. \A n \in 1..now : Record(c, n)' = Record(c, n + 1)
      BY <2>1, <2>len, CommittedRecords
    <3>2. Commit(c) => Record(c, 0)' = Record(c, 1)
      <4>1. Commit(c) => diskOutbox'[c] = Head(writes[c]).outbox
        BY <1>1 DEF Commit
      <4>2. Head(writes[c]) = writes[c][1]
        BY <1>1, <2>1
      <4> QED BY <4>1, <4>2 DEF Record
    <3>3. Record(c, now)' = Record(c, last)
      <4>1. CASE last > 1
        <5>1. now \in 1..now
          BY <2>len, <4>1
        <5> QED BY <2>len, <3>1, <5>1
      <4>2. CASE ~(last > 1) /\ Commit(c)
        <5>1. last = 1 /\ now = 0
          BY <2>len, <4>2
        <5> QED BY <3>2, <4>2, <5>1
      <4> QED BY <2>4, <4>1, <4>2
    <3>4. Held(c)' = Held(c)
      <4>1. tab'[c] # "running" /\ Len(writes'[c]) = now
        BY <2>1, <2>len, <2>4
      <4>2. Held(c)' = Record(c, now)'.entries
        BY <4>1 DEF Held, Record
      <4> QED BY <2>4, <2>len, <3>3, <4>2 DEF Held
    <3> QED BY <2>2, <3>4
  <2>5. CASE tab[c] # "running" /\ ~(last > 1) /\ FailWrite(c)
    <3>1. writes'[c] = <<>>
      <4>1. now = 0
        BY <2>len, <2>5
      <4>2. PICK rest \in Seq(Writes) : rest = writes'[c] /\ Len(rest) = 0
        BY <2>tail, <2>len, <4>1
      <4> QED BY <4>2
    <3>2. diskOutbox' = diskOutbox
      BY <2>5 DEF FailWrite
    <3>3. ~syncedThisConnection[c]
      BY <2>5 DEF TabInv, Asleep
    <3>4. Gone(c)' = Gone(c)
      BY <1>2, <2>1 DEF Gone, Processed
    <3>5. QueueKept(c)'
      <4>1. Placement(outbox[c], confirmedLmid[c], lastMutationId[c]) /\ ~needsRebase[c]
        BY DEF QueueKept
      <4> QED BY <1>2, <1>3, <2>1, <2>5, <3>1, <3>2, <3>3, <3>4, <4>1, QueueReloaded
    <3>6. Held(c)' = diskOutbox[c].entries
      BY <2>1, <2>5, <3>1, <3>2 DEF Held, Record
    <3>7. Numbers(c)' = Numbers(c)
      BY <2>1 DEF Numbers
    <3> QED BY <1>hold, <2>1, <3>5, <3>6, <3>7
  <2> QED BY <1>9, <2>3, <2>4, <2>5
<1>10. \A d \in Clients : QueueKept(d)' /\ HoldsOn(d)
  BY <1>4, <1>5, <1>6, <1>7, <1>8, <1>9 DEF TabEvent
<1>11. \A d \in Clients : up'[d] \in Seq(AgreedUp(d)')
  BY <1>2, <1>10, FramesMove
<1> QED BY <1>2, <1>10, <1>11, Agreement

-----------------------------------------------------------------------------
(* The events of a client *)

LEMMA HelloAgrees ==
  ASSUME OfflineTypeOK, NEW c \in Clients, NEW cursor \in Cursors \cup {NoCursor}
  PROVE  /\ HelloFrame(cursor) \in AgreedUp(c)'
         /\ up' \in {up, Sent(c, HelloFrame(cursor))} =>
              up'[c] = up[c] \/ \E frame \in AgreedUp(c)' : up'[c] = Append(up[c], frame)
<1>1. up \in [Clients -> Seq(Frames)]
  BY OfflineTypeIs DEF SyncTypeOK, Frames
<1>2. HelloFrame(cursor) \in AgreedUp(c)'
  BY DEF AgreedUp, HelloFrame, Hellos
<1> QED BY <1>1, <1>2 DEF Sent

\* What a client that has synced sends of its queue agrees with it.
LEMMA QueueSent ==
  ASSUME OfflineTypeOK, OfflineTypeOK', NEW c \in Clients, NEW box \in Seq(Entry),
         NEW confirmed \in Nat, NEW synced, confirmed <= lastMutationId'[c],
         outbox'[c] = box, confirmedLmid'[c] = confirmed, Held(c)' = box,
         synced => Placed(box, confirmed) /\ syncedThisConnection'[c],
         up' = up \/ up' = Flushed(c, box, confirmed, synced)
  PROVE  up'[c] = up[c] \/ \E frame \in AgreedUp(c)' : up'[c] = Append(up[c], frame)
<1>1. up \in [Clients -> Seq(Frames)]
  BY OfflineTypeIs DEF SyncTypeOK, Frames
<1>2. lastMutationId'[c] \in Nat
  BY DEF OfflineTypeOK, SyncTypeOK, TypeOK, StoreOK
<1>3. \/ up' = up
      \/ synced /\ up' = Sent(c, [type |-> "push", mutations |-> Pending(box, confirmed)])
  BY DEF Flushed
<1>4. ASSUME synced PROVE [type |-> "push", mutations |-> Pending(box, confirmed)] \in AgreedUp(c)'
  <2>1. Pending(box, confirmed) = box
    BY <1>4, PendingRun
  <2>2. InStep(box, lastMutationId'[c], 0..(confirmed + Len(box)), box, unread')
    BY <1>2, <1>4, QueueInStep
  <2>3. Numbers(c)' = 0..(confirmed + Len(box))
    BY <1>4 DEF Numbers
  <2>4. Agrees(c, box)'
    BY <2>2, <2>3 DEF Agrees, InStep
  <2>5. box \in Seq(Mutation)
    BY DEF Entry, Mutation
  <2>6. [type |-> "push", mutations |-> box] \in PushFrames
    BY <2>5 DEF PushFrames
  <2> QED BY <2>1, <2>4, <2>6 DEF AgreedUp
<1> QED BY <1>1, <1>3, <1>4 DEF Sent

\* An event touches its own client's queue and socket only.
LEMMA OneQueueMoves ==
  ASSUME OfflineTypeOK, OfflineTypeOK', \A d \in Clients : QueueKept(d), BatchesAgree, NEW c \in Clients,
         UNCHANGED <<lastMutationId, mutationLog, push, tab, diskOutbox>>, unread \subseteq unread',
         \A d \in Clients \ {c} :
           /\ outbox'[d] = outbox[d] /\ confirmedLmid'[d] = confirmedLmid[d] /\ writes'[d] = writes[d]
           /\ needsRebase'[d] = needsRebase[d] /\ syncedThisConnection'[d] = syncedThisConnection[d]
           /\ up'[d] = up[d],
         \A d \in Clients : \/ down'[d] \in {down[d], <<>>}
                            \/ down[d] # <<>> /\ down'[d] = Tail(down[d]),
         QueueKept(c)', push # Idle => HoldsOn(c), up'[c] \in Seq(AgreedUp(c)')
  PROVE  (\A d \in Clients : QueueKept(d)') /\ BatchesAgree'
<1>1. ASSUME NEW d \in Clients \ {c} PROVE QueueKept(d)' /\ HoldsOn(d)
  <2>1. unread \subseteq unread' /\ tab'[d] = tab[d] /\ diskOutbox'[d] = diskOutbox[d]
    OBVIOUS
  <2> QED BY <2>1, OtherQueue
<1>2. \A d \in Clients \ {c} : up'[d] \in Seq(AgreedUp(d)')
  BY <1>1, FramesMove
<1>3. \A d \in Clients : up'[d] \in Seq(AgreedUp(d)')
  BY <1>2
<1>4. push # Idle => \A d \in Clients : HoldsOn(d)
  BY <1>1
<1> QED BY <1>1, <1>3, <1>4, Agreement

\* ... and leaves everybody else's alone.
LEMMA EventOthers ==
  ASSUME OfflineTypeOK, NEW c \in Clients,
         \/ \E m \in Mutations : Mutate(c, m)
         \/ Connect(c) \/ Disconnect(c) \/ SeeClose(c) \/ Resync(c)
         \/ ReceivePoke(c) \/ ReceiveError(c) \/ RetryPush(c)
  PROVE  /\ UNCHANGED <<lastMutationId, mutationLog, push>>
         /\ \A d \in Clients \ {c} :
              /\ outbox'[d] = outbox[d] /\ confirmedLmid'[d] = confirmedLmid[d]
              /\ needsRebase'[d] = needsRebase[d] /\ syncedThisConnection'[d] = syncedThisConnection[d]
              /\ up'[d] = up[d]
         /\ \A d \in Clients : \/ down'[d] \in {down[d], <<>>}
                               \/ down[d] # <<>> /\ down'[d] = Tail(down[d])
<1>1. /\ outbox \in [Clients -> Seq(Entry)] /\ confirmedLmid \in [Clients -> Nat]
      /\ needsRebase \in [Clients -> BOOLEAN] /\ down \in [Clients -> Seq(Pokes \cup Errors)]
  BY OfflineTypeIs DEF SyncTypeOK, TypeOK, StoreOK
<1>2. UNCHANGED <<lastMutationId, mutationLog, push>>
  BY DEF Mutate, Connect, Upgrade, Disconnect, SeeClose, LoseSocket, PeerGone, Resync, ReceivePoke,
     ReceiveError, RetryPush, Read, serverVars, store
<1>3. ASSUME NEW d \in Clients \ {c}
      PROVE  /\ outbox'[d] = outbox[d] /\ confirmedLmid'[d] = confirmedLmid[d]
             /\ needsRebase'[d] = needsRebase[d]
  <2>1. CASE \E m \in Mutations : Mutate(c, m)
    BY <1>1, <2>1 DEF Mutate, linkVars
  <2>2. CASE Connect(c) \/ Disconnect(c) \/ SeeClose(c) \/ Resync(c) \/ ReceiveError(c) \/ RetryPush(c)
    BY <1>1, <2>2 DEF Connect, Disconnect, SeeClose, LoseSocket, Resync, ReceiveError, RetryPush, queueVars
  <2>3. CASE DropPoke(c)
    BY <2>3 DEF DropPoke, queueVars
  <2>4. CASE ApplyPoke(c)
    BY <1>1, <2>4 DEF ApplyPoke
  <2> QED BY <2>1, <2>2, <2>3, <2>4 DEF ReceivePoke
<1>4. \A d \in Clients \ {c} : syncedThisConnection'[d] = syncedThisConnection[d] /\ up'[d] = up[d]
  BY Others
<1>5. ASSUME NEW d \in Clients
      PROVE  \/ down'[d] \in {down[d], <<>>}
             \/ down[d] # <<>> /\ down'[d] = Tail(down[d])
  <2>1. CASE (\E m \in Mutations : Mutate(c, m)) \/ Resync(c) \/ RetryPush(c)
    BY <2>1 DEF Mutate, Resync, RetryPush, serverVars
  <2>2. CASE Connect(c) \/ Disconnect(c) \/ SeeClose(c)
    BY <1>1, <2>2 DEF Connect, Upgrade, Disconnect, SeeClose, LoseSocket, PeerGone
  <2>3. CASE ReceivePoke(c) \/ ReceiveError(c)
    BY <1>1, <2>3 DEF ReceivePoke, ReceiveError, Read
  <2> QED BY <2>1, <2>2, <2>3
<1> QED BY <1>2, <1>3, <1>4, <1>5

\* Events that leave the queue as it is: connecting and its end, a hello, a push again.
LEMMA QuietEvents ==
  ASSUME OfflineTypeOK, OfflineTypeOK', OutboxInv, \A d \in Clients : QueueKept(d), BatchesAgree,
         NEW c \in Clients, tab[c] = "running", UNCHANGED <<tab, diskVars, writes>>,
         \/ Connect(c) \/ Disconnect(c) \/ SeeClose(c) \/ Resync(c)
         \/ ReceiveError(c) \/ RetryPush(c) \/ (ReceivePoke(c) /\ DropPoke(c))
  PROVE  (\A d \in Clients : QueueKept(d)') /\ BatchesAgree'
<1>1. /\ outbox[c] \in Seq(Entry) /\ confirmedLmid[c] \in Nat /\ down[c] \in Seq(Pokes \cup Errors)
      /\ up \in [Clients -> Seq(Frames)] /\ clientCursor[c] \in Cursors \cup {NoCursor}
      /\ syncedThisConnection \in [Clients -> BOOLEAN] /\ needsRebase \in [Clients -> BOOLEAN]
  BY OfflineTypeIs DEF SyncTypeOK, TypeOK, StoreOK, Frames
<1>2. UNCHANGED queueVars /\ UNCHANGED diskVars
  BY DEF Connect, Disconnect, SeeClose, LoseSocket, Resync, ReceiveError, RetryPush, DropPoke
<1>3. ASSUME ReceiveError(c) PROVE Head(down[c]).code # "PushInvalid"
  <2>1. down[c] # <<>> /\ Head(down[c]).type = "error" /\ down[c] \in Seq(AgreedDown)
    BY <1>3 DEF ReceiveError, Read, BatchesAgree
  <2>2. Head(down[c]) \in AgreedDown
    BY <2>1, TailElements, FirstOf
  <2> QED BY <2>1, <2>2 DEF AgreedDown
<1>4. needsRebase'[c] = needsRebase[c]
  <2>1. CASE ReceiveError(c)
    BY <1>3, <2>1 DEF ReceiveError
  <2> QED BY <2>1 DEF Connect, Disconnect, SeeClose, LoseSocket, Resync, RetryPush, DropPoke
<1>5. syncedThisConnection'[c] => syncedThisConnection[c]
  BY <1>1 DEF Connect, Disconnect, SeeClose, LoseSocket, Resync, ReceiveError, RetryPush, DropPoke
<1>6. UNCHANGED <<lastMutationId, mutationLog>>
  BY EventOthers
<1>7. QueueKept(c)' /\ HoldsOn(c)
  <2>1. /\ unread \subseteq unread' /\ outbox'[c] = outbox[c] /\ confirmedLmid'[c] = confirmedLmid[c]
        /\ writes'[c] = writes[c] /\ diskOutbox'[c] = diskOutbox[c] /\ tab'[c] = tab[c]
    BY <1>2 DEF queueVars, diskVars
  <2> QED BY <1>4, <1>5, <1>6, <2>1, OtherQueue
<1>8. ASSUME ~Connect(c)
      PROVE  up'[c] = up[c] \/ \E frame \in AgreedUp(c)' : up'[c] = Append(up[c], frame)
  <2>1. CASE Disconnect(c) \/ SeeClose(c)
    BY <2>1 DEF Disconnect, SeeClose, LoseSocket
  <2>2. CASE Resync(c)
    <3>1. up' = Sent(c, HelloFrame(NoCursor)) /\ NoCursor \in Cursors \cup {NoCursor}
      BY <2>2 DEF Resync
    <3> QED BY <3>1, HelloAgrees
  <2>3. CASE ReceiveError(c) \/ DropPoke(c)
    <3>1. up' \in {up, Sent(c, HelloFrame(clientCursor[c]))}
      BY <2>3 DEF ReceiveError, DropPoke, RequestResync
    <3> QED BY <1>1, <3>1, HelloAgrees
  <2>4. CASE RetryPush(c)
    <3>1. PICK box, confirmed, synced :
            /\ box = outbox[c] /\ confirmed = confirmedLmid[c] /\ synced = syncedThisConnection[c]
            /\ up' = up \/ up' = Flushed(c, box, confirmed, synced)
      BY <2>4, Zenon DEF RetryPush
    <3>2. box \in Seq(Entry) /\ confirmed \in Nat /\ InPlace(box, confirmed) /\ confirmed <= lastMutationId'[c]
      BY <1>1, <1>6, <3>1 DEF QueueKept, Placement
    <3>3. outbox'[c] = box /\ confirmedLmid'[c] = confirmed
      BY <1>2, <3>1 DEF queueVars
    <3>4. Held(c)' = box
      BY <3>3 DEF Held
    <3>5. synced => Placed(box, confirmed) /\ syncedThisConnection'[c]
      <4>1. syncedThisConnection' = syncedThisConnection
        BY <2>4 DEF RetryPush
      <4>2. synced => Numbered(box)
        BY <3>1 DEF OutboxInv
      <4>3. DOMAIN box = 1..Len(box)
        BY <3>2, EntriesOf
      <4> QED BY <3>1, <3>2, <4>1, <4>2, <4>3 DEF Numbered, InPlace, Placed
    <3> QED BY <3>1, <3>2, <3>3, <3>4, <3>5, QueueSent
  <2> QED BY <1>8, <2>1, <2>2, <2>3, <2>4
<1>9. up'[c] \in Seq(AgreedUp(c)')
  <2>1. CASE Connect(c)
    <3>1. up'[c] = <<HelloFrame(clientCursor[c])>>
      BY <1>1, <2>1 DEF Connect
    <3>2. HelloFrame(clientCursor[c]) \in AgreedUp(c)'
      BY <1>1, HelloAgrees
    <3> QED BY <3>1, <3>2
  <2>2. CASE ~Connect(c)
    BY <1>7, <1>8, <2>2, FramesMove
  <2> QED BY <2>1, <2>2
<1>10. /\ UNCHANGED <<lastMutationId, mutationLog, push, tab, diskOutbox>> /\ unread \subseteq unread'
       /\ \A d \in Clients \ {c} :
            /\ outbox'[d] = outbox[d] /\ confirmedLmid'[d] = confirmedLmid[d] /\ writes'[d] = writes[d]
            /\ needsRebase'[d] = needsRebase[d] /\ syncedThisConnection'[d] = syncedThisConnection[d]
            /\ up'[d] = up[d]
       /\ \A d \in Clients : \/ down'[d] \in {down[d], <<>>}
                             \/ down[d] # <<>> /\ down'[d] = Tail(down[d])
  <2>1. /\ UNCHANGED <<lastMutationId, mutationLog, push>>
        /\ \A d \in Clients \ {c} :
              /\ outbox'[d] = outbox[d] /\ confirmedLmid'[d] = confirmedLmid[d]
              /\ needsRebase'[d] = needsRebase[d] /\ syncedThisConnection'[d] = syncedThisConnection[d]
              /\ up'[d] = up[d]
        /\ \A d \in Clients : \/ down'[d] \in {down[d], <<>>}
                              \/ down[d] # <<>> /\ down'[d] = Tail(down[d])
    BY EventOthers
  <2> QED BY <1>2, <2>1 DEF diskVars
<1> QED BY <1>7, <1>9, <1>10, OneQueueMoves

\* A new entry at the end, under the next id if its queue is numbered.
LEMMA AppendedQueue ==
  ASSUME NEW box \in Seq(Entry), NEW confirmed \in Nat, NEW lmid \in Nat, NEW entry \in Entry,
         InPlace(box, confirmed),
         \/ entry.id = 0
         \/ Placed(box, confirmed) /\ entry.id = confirmed + Len(box) + 1 /\ lmid <= confirmed + Len(box)
  PROVE  /\ Append(box, entry) \in Seq(Entry) /\ Len(Append(box, entry)) = Len(box) + 1
         /\ InPlace(Append(box, entry), confirmed)
         /\ entry.id # 0 => Placed(Append(box, entry), confirmed)
         /\ \A gone : Follows(box, Append(box, entry), gone)
         /\ \A gone : Passed(box, lmid, gone) => Passed(Append(box, entry), lmid, gone)
         /\ \A i \in DOMAIN Append(box, entry) :
              LET id == Append(box, entry)[i].id
              IN  id # 0 /\ (entry.id # 0 => id <= confirmed + Len(box)) =>
                    \E k \in DOMAIN box : box[k] = Append(box, entry)[i]
<1>1. /\ Len(box) \in Nat /\ DOMAIN box = 1..Len(box) /\ \A i \in 1..Len(box) : box[i].id \in Nat
      /\ entry.id \in Nat
  BY EntriesOf DEF Entry
<1> DEFINE new == Append(box, entry)
<1>2. /\ new \in Seq(Entry) /\ Len(new) = Len(box) + 1 /\ DOMAIN new = 1..(Len(box) + 1)
      /\ \A i \in 1..Len(box) : new[i] = box[i]
      /\ new[Len(box) + 1] = entry
  BY <1>1
<1> HIDE DEF new
<1>3. \A i \in 1..(Len(box) + 1) : i \in 1..Len(box) \/ i = Len(box) + 1
  BY <1>1
<1>4. InPlace(new, confirmed)
  BY <1>1, <1>2, <1>3 DEF InPlace, Placed
<1>5. entry.id # 0 => Placed(new, confirmed)
  <2>1. ASSUME entry.id # 0, NEW i \in 1..(Len(box) + 1) PROVE new[i].id = confirmed + i
    <3>1. CASE i \in 1..Len(box)
      BY <1>1, <1>2, <2>1, <3>1 DEF Placed
    <3>2. CASE i = Len(box) + 1
      BY <1>1, <1>2, <2>1, <3>2
    <3> QED BY <1>3, <3>1, <3>2
  <2> QED BY <1>2, <2>1 DEF Placed
<1>6. \A gone : Follows(box, new, gone)
  <2>1. ASSUME NEW gone, NEW i \in DOMAIN box
        PROVE  \E j \in DOMAIN new : new[j].name = box[i].name /\ box[i].id \in {0, new[j].id}
    BY <1>1, <1>2, <2>1
  <2> QED BY <2>1 DEF Follows
<1>7. ASSUME NEW gone, Passed(box, lmid, gone) PROVE Passed(new, lmid, gone)
  <2>1. entry.id \notin 1..lmid
    BY <1>1
  <2> QED BY <1>1, <1>2, <1>3, <1>7, <2>1 DEF Passed
<1>8. \A i \in DOMAIN new : new[i].id # 0 /\ (entry.id # 0 => new[i].id <= confirmed + Len(box)) =>
        \E k \in DOMAIN box : box[k] = new[i]
  <2>1. entry.id # 0 => ~(entry.id <= confirmed + Len(box))
    BY <1>1
  <2> QED BY <1>1, <1>2, <1>3, <2>1
<1> QED BY <1>2, <1>4, <1>5, <1>6, <1>7, <1>8 DEF new

\* What an event of a client adds to its store operations holds the queue it leaves.
LEMMA EventRecords ==
  ASSUME OfflineTypeOK, OfflineTypeOK', HistoryInv, NEW c \in Clients,
         (\E m \in Mutations : MutateTab(c, m)) \/ ReceivePokeTab(c), NEW d \in Clients
  PROVE  /\ d # c => writes'[d] = writes[d]
         /\ \A n \in 0..Len(writes'[d]) :
              \/ n \in 0..Len(writes[d]) /\ Record(d, n)' = Record(d, n)
              \/ /\ n > Len(writes[d]) /\ tab[d] \in {"made", "running"}
                 /\ Record(d, n)'.entries = outbox'[d] /\ Record(d, n)'.confirmed = confirmedLmid'[d]
<1>1. /\ writes \in [Clients -> Seq(Writes)] /\ tab[c] \in {"closed", "made", "hydrating", "running"}
      /\ \A e \in Clients : tab[e] \in {"closed", "made", "hydrating", "running"}
  BY OfflineTypeIs DEF TabTypeOK
<1>2. SyncEvent
  BY DEF SyncEvent
<1>3. diskOutbox' = diskOutbox
  BY DEF MutateTab, ReceivePokeTab, diskVars
<1>4. d # c => writes'[d] = writes[d]
  BY <1>1 DEF MutateTab, ReceivePokeTab, PersistOutbox, PersistPoke, Issue
<1>5. CASE writes' = writes
  BY <1>3, <1>4, <1>5 DEF Record
<1>6. ASSUME NEW e \in Clients, NEW ops \in Seq(Writes), tab[e] # "closed", tab[e] # "hydrating",
             writes' = [writes EXCEPT ![e] = @ \o ops],
             \A i \in 1..Len(ops) : ops[i].outbox = Snapshotted(e)
      PROVE  \A n \in 0..Len(writes'[d]) :
              \/ n \in 0..Len(writes[d]) /\ Record(d, n)' = Record(d, n)
              \/ /\ n > Len(writes[d]) /\ tab[d] \in {"made", "running"}
                 /\ Record(d, n)'.entries = outbox'[d] /\ Record(d, n)'.confirmed = confirmedLmid'[d]
  <2>1. CASE e # d
    <3>1. writes'[d] = writes[d]
      BY <1>1, <1>6, <2>1
    <3> QED BY <1>3, <3>1 DEF Record
  <2>2. ASSUME e = d, NEW n \in 0..Len(writes'[d])
        PROVE  \/ n \in 0..Len(writes[d]) /\ Record(d, n)' = Record(d, n)
               \/ n > Len(writes[d]) /\ Record(d, n)' = Snapshotted(d)
    <3>1. PICK new : new = Snapshotted(d)
      OBVIOUS
    <3>2. writes' = [writes EXCEPT ![d] = @ \o ops]
      BY <1>6, <2>2
    <3>3. \A i \in 1..Len(ops) : ops[i].outbox = new
      BY <1>6, <2>2, <3>1
    <3>4. \/ n \in 0..Len(writes[d]) /\ Record(d, n)' = Record(d, n)
          \/ n > Len(writes[d]) /\ \E i \in 1..Len(ops) : Record(d, n)' = ops[i].outbox
      BY <1>3, <2>2, <3>2, OwnRecords
    <3> QED BY <3>1, <3>3, <3>4
  <2>3. tab[e] \in {"made", "running"}
    BY <1>1, <1>6
  <2>4. /\ Snapshotted(d).entries = outbox'[d] /\ Snapshotted(d).confirmed = confirmedLmid'[d]
    BY DEF Snapshotted
  <2> QED BY <2>1, <2>2, <2>3, <2>4
<1> QED BY <1>2, <1>4, <1>5, <1>6, EventIssues

LEMMA MutateQueues ==
  ASSUME OfflineTypeOK, OfflineTypeOK', HistoryInv, TabInv, \A d \in Clients : QueueKept(d), BatchesAgree,
         NEW c \in Clients, NEW m \in Mutations, MutateTab(c, m)
  PROVE  (\A d \in Clients : QueueKept(d)') /\ BatchesAgree'
<1>1. /\ outbox \in [Clients -> Seq(Entry)] /\ outbox[c] \in Seq(Entry) /\ confirmedLmid[c] \in Nat
      /\ lastMutationId[c] \in Nat /\ syncedThisConnection \in [Clients -> BOOLEAN]
      /\ writes \in [Clients -> Seq(Writes)]
      /\ syncedThisConnection[c] \in BOOLEAN
  BY OfflineTypeIs DEF SyncTypeOK, TypeOK, StoreOK, TabTypeOK
<1>2. /\ UNCHANGED <<confirmedLmid, linkVars, tab, diskOutbox>> /\ push = Idle /\ unread \subseteq unread'
      /\ tab[c] = "made" => unread' = unread \cup WrittenOver(c)
      /\ Mutate(c, m)
  BY DEF MutateTab, Mutate, Calm
<1>3. PICK box, entry, synced :
        /\ synced = syncedThisConnection[c]
        /\ entry = [id |-> IF synced THEN LastId(outbox[c], confirmedLmid[c]) + 1 ELSE 0, name |-> m]
        /\ box = Append(outbox[c], entry)
        /\ outbox' = [outbox EXCEPT ![c] = box]
        /\ up' = Flushed(c, box, confirmedLmid[c], synced)
  BY <1>2, Zenon DEF Mutate
<1>4. PICK old \in Seq(Entry), confirmed \in Nat, lmid \in Nat :
        /\ old = outbox[c] /\ confirmed = confirmedLmid[c] /\ lmid = lastMutationId[c]
        /\ InPlace(old, confirmed) /\ confirmed <= lmid /\ (synced => lmid <= confirmed + Len(old))
        /\ Ordered(old, confirmed) /\ (synced => Numbered(old))
  <2>1. /\ InPlace(outbox[c], confirmedLmid[c]) /\ confirmedLmid[c] <= lastMutationId[c]
        /\ syncedThisConnection[c] => lastMutationId[c] <= confirmedLmid[c] + Len(outbox[c])
    BY DEF QueueKept, Placement
  <2>2. /\ Ordered(outbox[c], confirmedLmid[c]) /\ (syncedThisConnection[c] => Numbered(outbox[c]))
    BY DEF TabInv, OutboxInv, OutboxOrdered
  <2> QED BY <1>1, <1>3, <2>1, <2>2
<1>5. Len(old) \in Nat /\ DOMAIN old = 1..Len(old)
  BY EntriesOf
<1>6. synced => Placed(old, confirmed)
  BY <1>4, <1>5 DEF Placed, InPlace, Numbered
<1>7. synced => LastId(old, confirmed) = confirmed + Len(old)
  <2>1. ASSUME synced PROVE LastId(old, confirmed) = confirmed + Len(old)
    <3>1. PICK k \in 0..Len(old) :
            /\ LastId(old, confirmed) = confirmed + k
            /\ \A i \in 1..Len(old) : i > k => old[i].id = 0
      BY <1>4, LastIdRun
    <3>2. k = Len(old)
      BY <1>4, <1>5, <2>1, <3>1 DEF Numbered
    <3> QED BY <3>1, <3>2
  <2> QED BY <2>1
<1>8. /\ entry \in Entry /\ entry.name = m /\ (~synced => entry.id = 0)
      /\ (synced => entry.id = confirmed + Len(old) + 1)
  <2>1. CASE synced
    BY <1>3, <1>4, <1>5, <1>7, <2>1 DEF Entry
  <2>2. CASE ~synced
    BY <1>3, <2>2 DEF Entry
  <2> QED BY <2>1, <2>2
<1>9. \/ entry.id = 0
      \/ Placed(old, confirmed) /\ entry.id = confirmed + Len(old) + 1 /\ lmid <= confirmed + Len(old)
  BY <1>3, <1>4, <1>6, <1>8
<1>10. /\ box \in Seq(Entry) /\ Len(box) = Len(old) + 1
       /\ InPlace(box, confirmed)
       /\ entry.id # 0 => Placed(box, confirmed)
       /\ \A gone : Follows(old, box, gone)
       /\ \A gone : Passed(old, lmid, gone) => Passed(box, lmid, gone)
       /\ \A i \in DOMAIN box : box[i].id # 0 /\ (entry.id # 0 => box[i].id <= confirmed + Len(old)) =>
            \E k \in DOMAIN old : old[k] = box[i]
  BY <1>3, <1>4, <1>8, <1>9, AppendedQueue, SMTT(30)
<1>11. outbox'[c] = box /\ confirmedLmid'[c] = confirmed /\ syncedThisConnection'[c] = synced
  BY <1>1, <1>2, <1>3, <1>4 DEF linkVars
<1>12. /\ UNCHANGED <<lastMutationId, mutationLog, push, tab, diskOutbox>> /\ unread \subseteq unread'
       /\ \A d \in Clients \ {c} :
            /\ outbox'[d] = outbox[d] /\ confirmedLmid'[d] = confirmedLmid[d]
            /\ needsRebase'[d] = needsRebase[d] /\ syncedThisConnection'[d] = syncedThisConnection[d]
            /\ up'[d] = up[d]
       /\ \A d \in Clients : \/ down'[d] \in {down[d], <<>>}
                             \/ down[d] # <<>> /\ down'[d] = Tail(down[d])
  BY <1>2, EventOthers
<1>13. /\ Gone(c) \subseteq Gone(c)' /\ CarriesOn(Gone(c)) /\ CarriesOn(Gone(c)')
       /\ lastMutationId'[c] = lmid
  <2>1. \A p : Processed(p) => Processed(p)'
    BY <1>12 DEF Processed
  <2>2. lastMutationId[c] <= lastMutationId'[c] /\ unread \subseteq unread'
    BY <1>4, <1>12
  <2> QED BY <1>4, <1>12, <2>1, <2>2, GoneGrows
<1>14. tab[c] # "running" => ~synced
  BY <1>3 DEF TabInv, Asleep
<1>15. Len(box) \in Nat /\ DOMAIN box = 1..Len(box) /\ \A i \in DOMAIN box : box[i].id \in Nat
  BY <1>10, EntriesOf
<1>state. tab[c] \in {"closed", "made", "hydrating", "running"}
  BY OfflineTypeIs DEF TabTypeOK
<1>run. ASSUME tab[c] = "running" PROVE Held(c) = old /\ Held(c)' = box
  BY <1>4, <1>11, <1>12, <1>run DEF Held
<1>wait. ASSUME tab[c] # "running", tab[c] # "made" PROVE Held(c)' = Held(c)
  <2>1. tab[c] = "hydrating"
    BY <1>state, <1>wait DEF MutateTab
  <2>2. UNCHANGED <<writes, tab, diskOutbox>>
    BY <1>12, <2>1 DEF MutateTab, PersistOutbox
  <2> QED BY <1>wait, <2>2 DEF Held, Record
<1>early. ASSUME tab[c] = "made"
          PROVE  Held(c)' = box /\ \A i \in DOMAIN box : box[i].id = 0
  <2>1. writes'[c] = Append(writes[c], SaveOutbox(c))
    <3>1. writes' = [writes EXCEPT ![c] = @ \o <<SaveOutbox(c)>>]
      BY <1>early DEF MutateTab, PersistOutbox, Issue
    <3> QED BY <1>1, <3>1
  <2>2. PICK last \in Nat, now \in Nat :
          last = Len(writes[c]) /\ now = Len(writes'[c]) /\ now = last + 1
    <3>1. Len(writes[c]) \in Nat
      BY <1>1
    <3>2. Len(writes'[c]) = Len(writes[c]) + 1
      <4>1. PICK ops, op : ops \in Seq(Writes) /\ ops = writes[c] /\ op = SaveOutbox(c)
        BY <1>1
      <4>2. Len(Append(ops, op)) = Len(ops) + 1
        BY <4>1
      <4> QED BY <2>1, <4>1, <4>2
    <3>3. Len(writes[c]) + 1 \in Nat
      BY <3>1
    <3> QED BY <3>1, <3>2, <3>3
  <2>3. Record(c, now)'.entries = outbox'[c]
    <3>1. now \in 0..Len(writes'[c]) /\ now \notin 0..Len(writes[c])
      BY <2>2
    <3> QED BY <3>1, EventRecords
  <2>4. Held(c)' = Record(c, now)'.entries
    BY <1>12, <1>early, <2>2 DEF Held, Record
  <2>5. \A i \in DOMAIN old : old[i].id = 0
    BY <1>4, <1>early DEF TabInv, Asleep
  <2>6. ~synced /\ entry.id = 0
    BY <1>8, <1>14, <1>early
  <2>7. \A i \in DOMAIN box : box[i].id = 0
    BY <1>3, <1>4, <1>5, <1>8, <2>5, <2>6
  <2> QED BY <1>11, <2>3, <2>4, <2>7
<1>16. Follows(Held(c), Held(c)', Gone(c)')
  <2>1. CASE tab[c] = "running"
    BY <1>10, <1>run, <2>1
  <2>2. CASE tab[c] # "running" /\ tab[c] # "made"
    BY <1>wait, <2>2, FollowsSelf
  <2>3. CASE tab[c] = "made"
    <3>1. Names(old) \subseteq Names(box)
      BY <1>3, <1>4, <1>8, NamesAppend
    <3>2. PICK held : held = Held(c)
      OBVIOUS
    <3>3. \/ held = diskOutbox[c].entries
          \/ \A i \in DOMAIN held : held[i].id = 0 /\ held[i].name \in Names(old)
      <4>1. tab[c] # "running" /\ Asleep(c)
        BY <2>3 DEF TabInv
      <4> QED BY <1>4, <3>2, <4>1, AsleepHolds
    <3>4. CASE held = diskOutbox[c].entries
      <4>1. ASSUME NEW i \in DOMAIN held
            PROVE  held[i] \in Gone(c)' \/ (held[i].id = 0 /\ held[i].name \in Names(box))
        <5>1. CASE held[i] \in Entries(old)
          <6>1. PICK k \in DOMAIN old : old[k] = held[i]
            BY <5>1 DEF Entries
          <6>2. old[k].id = 0
            BY <1>4, <2>3 DEF TabInv, Asleep
          <6>3. old[k].name \in Names(old)
            BY DEF Names
          <6> QED BY <3>1, <6>1, <6>2, <6>3
        <5>2. CASE held[i] \notin Entries(old)
          <6>1. held[i] \in Entry
            BY <3>2, HeldType, EntriesOf
          <6>2. held[i].name \in WrittenOver(c)
            BY <1>4, <3>4, <5>2 DEF WrittenOver, Entries
          <6>3. held[i].name \in unread'
            BY <1>2, <2>3, <6>2
          <6> QED BY <6>1, <6>3 DEF Gone
        <5> QED BY <5>1, <5>2
      <4>2. Follows(held, box, Gone(c)')
        BY <4>1, NamesFollow
      <4> QED BY <1>early, <2>3, <3>2, <4>2
    <3>5. CASE \A i \in DOMAIN held : held[i].id = 0 /\ held[i].name \in Names(old)
      <4>1. Follows(held, box, Gone(c)')
        BY <3>1, <3>5, NamesFollow
      <4> QED BY <1>early, <2>3, <3>2, <4>1
    <3> QED BY <3>3, <3>4, <3>5
  <2> QED BY <2>1, <2>2, <2>3
<1>17. Passed(Held(c)', lmid, Gone(c)')
  <2>1. Passed(Held(c), lmid, Gone(c)')
    BY <1>4, <1>13 DEF QueueKept, Passed
  <2>2. CASE tab[c] = "running"
    BY <1>10, <1>run, <2>1, <2>2
  <2>3. CASE tab[c] # "running" /\ tab[c] # "made"
    BY <1>wait, <2>1, <2>3
  <2>4. CASE tab[c] = "made"
    <3>1. 0 \notin 1..lmid
      OBVIOUS
    <3> QED BY <1>early, <2>4, <3>1 DEF Passed
  <2> QED BY <2>2, <2>3, <2>4
<1>18. QueueKept(c)'
  <2>1. \A n \in 0..Len(writes'[c]) :
          \/ n \in 0..Len(writes[c]) /\ Record(c, n)' = Record(c, n)
          \/ /\ n > Len(writes[c]) /\ Record(c, n)'.entries = Held(c)'
             /\ Placement(Record(c, n)'.entries, Record(c, n)'.confirmed, lastMutationId'[c])
    <3>1. ASSUME NEW n \in 0..Len(writes'[c]), n > Len(writes[c]), tab[c] \in {"made", "running"},
                 Record(c, n)'.entries = outbox'[c], Record(c, n)'.confirmed = confirmedLmid'[c]
          PROVE  /\ Record(c, n)'.entries = Held(c)'
                 /\ Placement(Record(c, n)'.entries, Record(c, n)'.confirmed, lastMutationId'[c])
      <4>1. Held(c)' = box
        BY <1>run, <1>early, <3>1
      <4> QED BY <1>4, <1>10, <1>11, <1>13, <3>1, <4>1 DEF Placement
    <3> QED BY <3>1, EventRecords
  <2>2. Placement(outbox'[c], confirmedLmid'[c], lastMutationId'[c])
    BY <1>4, <1>10, <1>11, <1>13 DEF Placement
  <2>3. syncedThisConnection'[c] => lastMutationId'[c] <= confirmedLmid'[c] + Len(outbox'[c])
    BY <1>4, <1>5, <1>10, <1>11, <1>13
  <2>4. ~needsRebase'[c]
    BY <1>2 DEF QueueKept, linkVars
  <2>5. lastMutationId[c] <= lastMutationId'[c]
    BY <1>4, <1>13
  <2> QED BY <1>13, <1>16, <1>17, <2>1, <2>2, <2>3, <2>4, <2>5, QueueMoved
<1>19. HoldsOn(c)
  <2>1. lastMutationId[c] <= lastMutationId'[c] /\ unread \subseteq unread'
    BY <1>4, <1>12, <1>13
  <2>2. Numbers(c) \subseteq Numbers(c)'
    <3>1. CASE synced
      <4>1. Numbers(c) = 0..(confirmed + Len(old)) /\ Numbers(c)' = 0..(confirmed + (Len(old) + 1))
        BY <1>3, <1>4, <1>10, <1>11, <3>1 DEF Numbers
      <4>2. 0..(confirmed + Len(old)) \subseteq 0..(confirmed + (Len(old) + 1))
        BY <1>5
      <4> QED BY <4>1, <4>2
    <3>2. CASE ~synced
      BY <1>3, <1>11, <3>2 DEF Numbers
    <3> QED BY <3>1, <3>2
  <2>3. ASSUME NEW i \in DOMAIN Held(c)', Held(c)'[i].id > lastMutationId'[c], Held(c)'[i].id \in Numbers(c)
        PROVE  \E k \in DOMAIN Held(c) : Held(c)[k].id = Held(c)'[i].id /\ Held(c)[k].name = Held(c)'[i].name
    <3>1. CASE tab[c] # "running" /\ tab[c] # "made"
      BY <1>wait, <2>3, <3>1
    <3>2. CASE tab[c] = "running"
      <4>1. Held(c)' = box /\ Held(c) = old
        BY <1>run, <3>2
      <4>2. i \in DOMAIN box /\ box[i].id > lmid /\ box[i].id \in Numbers(c)
        BY <1>13, <2>3, <4>1
      <4>3. box[i].id # 0
        BY <1>15, <4>2
      <4>4. entry.id # 0 => box[i].id <= confirmed + Len(old)
        BY <1>3, <1>4, <1>5, <1>8, <4>2 DEF Numbers
      <4>5. \E k \in DOMAIN old : old[k] = box[i]
        BY <1>10, <4>2, <4>3, <4>4
      <4> QED BY <4>1, <4>5
    <3>3. tab[c] # "made"
      BY <1>13, <1>early, <2>3
    <3> QED BY <3>1, <3>2, <3>3
  <2> QED BY <2>1, <2>2, <2>3 DEF HoldsOn
<1>20. up'[c] = up[c] \/ \E frame \in AgreedUp(c)' : up'[c] = Append(up[c], frame)
  <2>1. CASE synced
    <3>1. Held(c)' = box
      BY <1>14, <1>run, <2>1
    <3>2. Placed(box, confirmed) /\ syncedThisConnection'[c] /\ confirmed <= lastMutationId'[c]
      BY <1>4, <1>5, <1>8, <1>10, <1>11, <1>13, <2>1
    <3>3. up' = Flushed(c, box, confirmed, synced)
      BY <1>3, <1>4
    <3> QED BY <1>10, <1>11, <3>1, <3>2, <3>3, QueueSent
  <2>2. CASE ~synced
    BY <1>3, <2>2 DEF Flushed
  <2> QED BY <2>1, <2>2
<1>21. up'[c] \in Seq(AgreedUp(c)')
  BY <1>19, <1>20, FramesMove
<1>22. \A d \in Clients \ {c} : writes'[d] = writes[d]
  BY EventRecords
<1> QED BY <1>12, <1>18, <1>19, <1>21, <1>22, OneQueueMoves

\* What a confirmed LMID leaves of a queue is its end.
LEMMA RestIs ==
  ASSUME NEW box \in Seq(Entry), NEW confirmed \in Nat, NEW next \in Nat, confirmed <= next,
         InPlace(box, confirmed), Ordered(box, confirmed)
  PROVE  \E done \in 0..Len(box) :
           /\ Unsettled(box, next) = [i \in 1..(Len(box) - done) |-> box[done + i]]
           /\ \A i \in 1..done : box[i].id \in 1..next
           /\ \A i \in 1..Len(box) : i > done => box[i].id \in {0, next + (i - done)}
           /\ Numbered(box) /\ next <= confirmed + Len(box) => next = confirmed + done
<1>1. /\ Len(box) \in Nat /\ DOMAIN box = 1..Len(box)
      /\ \A i \in 1..Len(box) : box[i].id \in Nat
  BY EntriesOf
<1>2. PICK k \in 0..Len(box) :
        \A i \in 1..Len(box) : /\ i <= k => box[i].id = confirmed + i
                               /\ i > k => box[i].id = 0
  BY LastIdRun
<1>3. CASE next <= confirmed + k
  <2>1. PICK done \in 0..Len(box) : next = confirmed + done /\ done <= k
    <3>1. next - confirmed \in 0..Len(box) /\ next = confirmed + (next - confirmed) /\ next - confirmed <= k
      BY <1>1, <1>3
    <3> QED BY <3>1
  <2>2. \A i \in 1..done : box[i].id # 0 /\ box[i].id \in 1..next
    BY <1>1, <1>2, <2>1
  <2>3. Unsettled(box, next) = [i \in 1..(Len(box) - done) |-> box[done + i]]
    BY <2>1, <2>2, UnsettledRun
  <2>4. \A i \in 1..Len(box) : i > done => box[i].id \in {0, next + (i - done)}
    <3>1. ASSUME NEW i \in 1..Len(box), i > done PROVE box[i].id \in {0, next + (i - done)}
      <4>1. next + (i - done) = confirmed + i
        BY <1>1, <2>1
      <4>2. box[i].id \in {0, confirmed + i}
        BY <1>1, <1>2
      <4> QED BY <4>1, <4>2
    <3> QED BY <3>1
  <2> QED BY <2>1, <2>2, <2>3, <2>4
<1>4. CASE ~(next <= confirmed + k)
  <2>1. \A i \in 1..k : box[i].id # 0 /\ box[i].id \in 1..next
    BY <1>1, <1>2, <1>4
  <2>2. Unsettled(box, confirmed + k) = [i \in 1..(Len(box) - k) |-> box[k + i]]
    BY <2>1, UnsettledRun
  <2>3. \A i \in DOMAIN box : Settled(box[i], next) <=> Settled(box[i], confirmed + k)
    BY <1>1, <1>2, <1>4 DEF Settled
  <2>4. Unsettled(box, next) = Unsettled(box, confirmed + k)
    <3>1. {i \in DOMAIN box : ~Settled(box[i], next)} = {i \in DOMAIN box : ~Settled(box[i], confirmed + k)}
      BY <2>3
    <3> QED BY <3>1 DEF Unsettled
  <2>5. \A i \in 1..Len(box) : i > k => box[i].id = 0
    BY <1>2
  <2>6. Numbered(box) => k = Len(box)
    <3>1. ASSUME Numbered(box), k # Len(box) PROVE FALSE
      <4>1. Len(box) \in 1..Len(box) /\ Len(box) > k
        <5>1. \A n \in Nat : \A j \in 0..n : j # n => n \in 1..n /\ n > j
          BY ONLY TRUE, SMT
        <5> QED BY <1>1, <3>1, <5>1, Zenon
      <4>2. box[Len(box)].id = 0 /\ Len(box) \in DOMAIN box
        BY <1>1, <2>5, <4>1
      <4> QED BY <3>1, <4>2 DEF Numbered
    <3> QED BY <3>1
  <2> QED BY <1>1, <1>4, <2>1, <2>2, <2>4, <2>5, <2>6
<1> QED BY <1>1, <1>3, <1>4

\* ... and stands for all that is not done with.
LEMMA SettledQueue ==
  ASSUME NEW box \in Seq(Entry), NEW confirmed \in Nat, NEW next \in Nat, confirmed <= next,
         InPlace(box, confirmed), Ordered(box, confirmed),
         NEW gone, NEW lmid \in Nat, next <= lmid, Passed(box, lmid, gone)
  PROVE  \E rest \in Seq(Entry) :
         /\ rest = Unsettled(box, next) /\ InPlace(rest, next) /\ Ordered(rest, next)
         /\ \A i \in DOMAIN rest : \E k \in DOMAIN box : box[k] = rest[i]
         /\ Follows(box, rest, gone) /\ Passed(rest, lmid, gone)
         /\ Numbered(box) => Numbered(rest)
         /\ Numbered(box) /\ next <= confirmed + Len(box) => next + Len(rest) = confirmed + Len(box)
<1> DEFINE rest == Unsettled(box, next)
<1>1. /\ Len(box) \in Nat /\ DOMAIN box = 1..Len(box)
      /\ \A i \in 1..Len(box) : box[i] \in Entry /\ box[i].id \in Nat
  BY EntriesOf
<1>2. rest \in Seq(Entry) /\ Ordered(rest, next) /\ (Numbered(box) => Numbered(rest))
  BY UnsettledIs
<1>3. PICK done \in 0..Len(box) :
        /\ rest = [i \in 1..(Len(box) - done) |-> box[done + i]]
        /\ \A i \in 1..done : box[i].id \in 1..next
        /\ \A i \in 1..Len(box) : i > done => box[i].id \in {0, next + (i - done)}
        /\ Numbered(box) /\ next <= confirmed + Len(box) => next = confirmed + done
  BY RestIs
<1> HIDE DEF rest
<1>4. /\ Len(rest) = Len(box) - done /\ DOMAIN rest = 1..(Len(box) - done)
      /\ \A i \in 1..(Len(box) - done) : rest[i] = box[done + i] /\ done + i \in 1..Len(box)
  <2>1. Len(box) - done \in Nat
    BY <1>1, <1>3
  <2>2. DOMAIN rest = 1..(Len(box) - done)
    BY <1>3
  <2>3. Len(rest) = Len(box) - done
    BY <1>2, <2>1, <2>2, EntriesOf
  <2> QED BY <1>1, <1>3, <2>2, <2>3
<1>5. InPlace(rest, next)
  <2>1. ASSUME NEW i \in 1..Len(rest) PROVE rest[i].id \in {0, next + i}
    <3>1. rest[i] = box[done + i] /\ done + i \in 1..Len(box) /\ done + i > done
      BY <1>1, <1>4, <2>1
    <3>2. box[done + i].id \in {0, next + ((done + i) - done)}
      BY <1>3, <3>1
    <3>3. (done + i) - done = i
      BY <1>1, <1>4
    <3> QED BY <3>1, <3>2, <3>3
  <2> QED BY <2>1 DEF InPlace
<1>6. \A i \in DOMAIN rest : \E k \in DOMAIN box : box[k] = rest[i]
  BY <1>1, <1>4
<1>7. Follows(box, rest, gone)
  <2>1. ASSUME NEW i \in DOMAIN box
        PROVE  \/ box[i] \in gone
               \/ \E j \in DOMAIN rest : rest[j].name = box[i].name /\ box[i].id \in {0, rest[j].id}
    <3>1. CASE i <= done
      <4>1. box[i].id \in 1..next
        BY <1>1, <1>3, <3>1
      <4>2. box[i].id \in 1..lmid
        BY <4>1
      <4>3. box[i] \in gone
        BY <4>2, Zenon DEF Passed
      <4> QED BY <4>3
    <3>2. CASE i > done
      <4>1. i - done \in 1..(Len(box) - done) /\ done + (i - done) = i
        BY <1>1, <1>3, <3>2
      <4>2. rest[i - done] = box[i] /\ i - done \in DOMAIN rest
        BY <1>4, <4>1
      <4> QED BY <4>2
    <3> QED BY <1>1, <3>1, <3>2
  <2> QED BY <2>1 DEF Follows
<1>8. Passed(rest, lmid, gone)
  <2>1. ASSUME NEW i \in DOMAIN rest, rest[i].id \in 1..lmid PROVE rest[i] \in gone
    <3>1. PICK k \in DOMAIN box : box[k] = rest[i]
      BY <1>6
    <3> QED BY <2>1, <3>1 DEF Passed
  <2> QED BY <2>1 DEF Passed
<1>9. Numbered(box) /\ next <= confirmed + Len(box) => next + Len(rest) = confirmed + Len(box)
  BY <1>1, <1>3, <1>4
<1> QED BY <1>2, <1>5, <1>6, <1>7, <1>8, <1>9 DEF rest

\* The ids a queue gets at its client's first poke.
LEMMA AssignedQueue ==
  ASSUME NEW box \in Seq(Entry), NEW next \in Nat, InPlace(box, next), Ordered(box, next)
  PROVE  \E after \in Seq(Entry) :
         /\ after = Assigned(box, next) /\ Len(after) = Len(box) /\ Placed(after, next)
         /\ \A gone : Follows(box, after, gone) /\ Passed(after, next, gone)
<1> DEFINE after == Assigned(box, next)
<1>1. /\ Len(box) \in Nat /\ DOMAIN box = 1..Len(box)
      /\ \A i \in 1..Len(box) : box[i].id \in Nat
  BY EntriesOf
<1>2. /\ after \in Seq(Entry) /\ Len(after) = Len(box)
      /\ \A i \in 1..Len(box) : /\ after[i].name = box[i].name
                                /\ box[i].id # 0 => after[i].id = box[i].id
  BY AssignedIs
<1>3. Placed(after, next)
  BY AssignedRun
<1> HIDE DEF after
<1>4. DOMAIN after = 1..Len(box)
  BY <1>2, EntriesOf
<1>5. \A gone : Follows(box, after, gone)
  <2>1. \A i \in DOMAIN box : \E j \in DOMAIN after : after[j].name = box[i].name /\ box[i].id \in {0, after[j].id}
    BY <1>1, <1>2, <1>4
  <2> QED BY <2>1 DEF Follows
<1>6. \A gone : Passed(after, next, gone)
  <2>1. ASSUME NEW i \in DOMAIN after PROVE after[i].id \notin 1..next
    <3>1. i \in 1..Len(box) /\ after[i].id = next + i
      BY <1>2, <1>3, <1>4, <2>1 DEF Placed
    <3> QED BY <1>1, <3>1
  <2> QED BY <2>1 DEF Passed
<1> QED BY <1>2, <1>3, <1>5, <1>6 DEF after

\* The LMID a poke confirms is one the server has reached, and on a new connection its own.
LEMMA ConfirmedTells ==
  ASSUME OfflineTypeOK, SocketInv, NEW c \in Clients, QueueKept(c), down[c] # <<>>,
         Head(down[c]).type = "poke", ~BackendChanged(c, Head(down[c]))
  PROVE  LET next == ConfirmedBy(c, Head(down[c])) IN
         /\ Head(down[c]) \in Pokes /\ tab[c] = "running"
         /\ next \in Nat /\ confirmedLmid[c] <= next /\ next <= lastMutationId[c]
         /\ ~syncedThisConnection[c] => next = lastMutationId[c]
         /\ ~syncedThisConnection[c] => \A i \in 1..Len(up[c]) : up[c][i].type = "hello"
<1>1. PICK poke, next : poke = Head(down[c]) /\ next = ConfirmedBy(c, poke)
  OBVIOUS
<1>2. /\ confirmedLmid \in [Clients -> Nat] /\ lastMutationId \in [Clients -> Nat]
      /\ down[c] \in Seq(DownFrames(c)) /\ up[c] \in Seq(UpFrames(c)) /\ StoreOK
      /\ confirmedLmid[c] <= lastMutationId[c]
  BY DEF OfflineTypeOK, SyncTypeOK, TypeOK, StoreOK, SocketInv, Socket, QueueKept, Placement
<1>3. poke \in Pokes
  BY <1>1, <1>2, HeadPoke
<1>4. \A change \in poke.lmids : change.lmid <= lastMutationId[change.client]
  <2>1. poke \in DownFrames(c)
    BY <1>1, <1>2, TailElements, FirstOf
  <2> QED BY <1>1, <2>1 DEF DownFrames
<1>5. /\ next \in Nat /\ confirmedLmid[c] <= next
      /\ next = confirmedLmid[c] \/ \E change \in poke.lmids : change.client = c /\ change.lmid = next
  <2>1. next >= confirmedLmid[c] /\ next \in Nat
    BY <1>1, <1>2, <1>3, ConfirmedIs
  <2>2. next = confirmedLmid[c] \/ \E change \in poke.lmids : change.client = c /\ change.lmid = next
    BY <1>1, <1>2, <1>3, ConfirmedIs
  <2> QED BY <1>2, <2>1, <2>2
<1>6. next <= lastMutationId[c]
  BY <1>2, <1>4, <1>5
<1>7. c \in listening /\ tab[c] = "running"
  BY DEF SocketInv, Socket
<1>8. ASSUME ~syncedThisConnection[c]
      PROVE  next = lastMutationId[c] /\ \A i \in 1..Len(up[c]) : up[c][i].type = "hello"
  <2>1. PICK change : change = [client |-> c, lmid |-> lastMutationId[c]]
    OBVIOUS
  <2>2. AnswerFirst(down[c], clientCursor[c], change)
    BY <1>7, <1>8, <2>1 DEF SocketInv, Socket, Unsynced, Awaits
  <2>3. poke.lmids = {change}
    BY <1>1, <1>2, <2>2, FirstRead DEF Answer
  <2>4. {x.lmid : x \in {x \in poke.lmids : x.client = c}} = {lastMutationId[c]}
    BY <2>1, <2>3
  <2>5. ~BackendChanged(c, poke)
    BY <1>1
  <2>6. ASSUME lastMutationId[c] > confirmedLmid[c] PROVE next = lastMutationId[c]
    <3> DEFINE mine == {x.lmid : x \in {x \in poke.lmids : x.client = c}}
               newer == {lmid \in mine : lmid > confirmedLmid[c] \/ BackendChanged(c, poke)}
    <3>1. ConfirmedBy(c, poke) = IF newer # {} THEN CHOOSE lmid \in newer : TRUE
                                 ELSE IF BackendChanged(c, poke) THEN 0 ELSE confirmedLmid[c]
      BY DEF ConfirmedBy
    <3>2. lastMutationId[c] \in newer
      BY <2>4, <2>6
    <3>3. \A x \in newer : x = lastMutationId[c]
      BY <2>4
    <3> HIDE DEF newer
    <3>4. ConfirmedBy(c, poke) \in newer
      BY <3>1, <3>2
    <3> QED BY <1>1, <3>3, <3>4
  <2>7. ASSUME ~(lastMutationId[c] > confirmedLmid[c]) PROVE next = lastMutationId[c]
    BY <1>2, <1>5, <1>6, <2>7
  <2>8. ASSUME NEW i \in 1..Len(up[c]) PROVE up[c][i].type = "hello"
    <3>1. up[c][i] \in UpFrames(c)
      BY <1>2, <2>8
    <3>2. up[c][i] = HelloFrame(clientCursor[c])
      BY <1>7, <1>8, <3>1 DEF UpFrames, Unsynced
    <3> QED BY <3>2 DEF HelloFrame
  <2> QED BY <2>6, <2>7, <2>8
<1> QED BY <1>1, <1>3, <1>5, <1>6, <1>7, <1>8

\* The queue a poke leaves, of a client that counts on from this LMID.
LEMMA QueueLeft ==
  ASSUME OfflineTypeOK, SocketInv, TabInv, NEW c \in Clients, QueueKept(c), down[c] # <<>>,
         Head(down[c]).type = "poke", ~BackendChanged(c, Head(down[c])), CarriesOn(Gone(c))
  PROVE  \E after \in Seq(Entry), next \in Nat :
           /\ after = QueueAfter(c, Head(down[c])) /\ next = ConfirmedBy(c, Head(down[c]))
           /\ next <= lastMutationId[c] /\ lastMutationId[c] <= next + Len(after)
           /\ Placed(after, next) /\ Follows(outbox[c], after, Gone(c))
           /\ Passed(after, lastMutationId[c], Gone(c))
           /\ syncedThisConnection[c] =>
                /\ next + Len(after) = confirmedLmid[c] + Len(outbox[c])
                /\ \A i \in DOMAIN after : \E k \in DOMAIN outbox[c] : outbox[c][k] = after[i]
           /\ ~syncedThisConnection[c] => next = lastMutationId[c]
<1>1. PICK poke, next : poke = Head(down[c]) /\ next = ConfirmedBy(c, poke)
  OBVIOUS
<1>2. /\ poke \in Pokes /\ tab[c] = "running" /\ next \in Nat
      /\ confirmedLmid[c] <= next /\ next <= lastMutationId[c]
      /\ ~syncedThisConnection[c] => next = lastMutationId[c]
  BY <1>1, ConfirmedTells
<1>3. PICK box, confirmed, lmid, gone :
        /\ box = outbox[c] /\ confirmed = confirmedLmid[c] /\ lmid = lastMutationId[c] /\ gone = Gone(c)
        /\ box \in Seq(Entry) /\ confirmed \in Nat /\ lmid \in Nat
  BY TypesOf DEF OfflineTypeOK, SyncTypeOK, TypeOK, StoreOK
<1>4. /\ InPlace(box, confirmed) /\ Ordered(box, confirmed) /\ Passed(box, lmid, gone)
      /\ syncedThisConnection[c] => Numbered(box) /\ lmid <= confirmed + Len(box)
  <2>1. InPlace(box, confirmed) /\ (syncedThisConnection[c] => lmid <= confirmed + Len(box))
    BY <1>3 DEF QueueKept, Placement
  <2>2. Held(c) = box
    BY <1>2, <1>3 DEF Held
  <2>3. Passed(box, lmid, gone)
    BY <1>3, <2>2 DEF QueueKept
  <2>4. Ordered(box, confirmed) /\ (syncedThisConnection[c] => Numbered(box))
    BY <1>3 DEF TabInv, OutboxInv, OutboxOrdered
  <2> QED BY <2>1, <2>3, <2>4
<1>5. confirmed <= next /\ next <= lmid /\ next \in Nat
  BY <1>2, <1>3
<1>6. PICK rest \in Seq(Entry) :
      /\ rest = Unsettled(box, next) /\ InPlace(rest, next) /\ Ordered(rest, next)
      /\ \A i \in DOMAIN rest : \E k \in DOMAIN box : box[k] = rest[i]
      /\ Follows(box, rest, gone) /\ Passed(rest, lmid, gone)
      /\ Numbered(box) => Numbered(rest)
      /\ Numbered(box) /\ next <= confirmed + Len(box) => next + Len(rest) = confirmed + Len(box)
  BY <1>3, <1>4, <1>5, SettledQueue, SMTT(30)
<1>7. /\ QueueAt(c, poke) = box /\ ~needsRebase[c]
      /\ QueueAfter(c, poke) = IF syncedThisConnection[c] THEN rest ELSE Assigned(rest, next)
  <2>1. QueueAt(c, poke) = box /\ ~needsRebase[c]
    BY <1>1, <1>3 DEF QueueAt, QueueKept
  <2> QED BY <1>1, <1>6, <2>1 DEF QueueAfter
<1>8. Len(box) \in Nat /\ Len(rest) \in Nat
  BY <1>6, EntriesOf
<1>9. CASE syncedThisConnection[c]
  <2>1. next + Len(rest) = confirmed + Len(box)
    BY <1>2, <1>3, <1>4, <1>6, <1>8, <1>9
  <2>2. Placed(rest, next)
    <3>1. DOMAIN rest = 1..Len(rest)
      BY <1>6, EntriesOf
    <3> QED BY <1>4, <1>6, <1>9, <3>1 DEF Placed, InPlace, Numbered
  <2>3. lmid <= next + Len(rest)
    BY <1>4, <1>9, <2>1
  <2> QED BY <1>1, <1>2, <1>3, <1>6, <1>7, <1>9, <2>1, <2>2, <2>3
<1>10. CASE ~syncedThisConnection[c]
  <2>1. PICK after \in Seq(Entry) :
          /\ after = Assigned(rest, next) /\ Len(after) = Len(rest) /\ Placed(after, next)
          /\ Follows(rest, after, gone) /\ Passed(after, next, gone)
    BY <1>5, <1>6, AssignedQueue
  <2>2. after \in Seq(Entry)
    OBVIOUS
  <2>3. Follows(box, after, gone)
    <3>1. CarriesOn(gone)
      BY <1>3
    <3>2. gone \subseteq gone /\ Follows(box, rest, gone) /\ Follows(rest, after, gone)
      BY <1>6, <2>1
    <3> QED BY <1>3, <3>1, <3>2, FollowsOn
  <2>4. next = lmid /\ lmid <= next + Len(after)
    BY <1>2, <1>3, <1>8, <1>10, <2>2
  <2> QED BY <1>1, <1>2, <1>3, <1>7, <1>10, <2>1, <2>2, <2>3, <2>4
<1> QED BY <1>9, <1>10

LEMMA PokeQueues ==
  ASSUME OfflineTypeOK, OfflineTypeOK', HistoryInv, SocketInv, TabInv, \A d \in Clients : QueueKept(d),
         BatchesAgree, NEW c \in Clients, ReceivePokeTab(c), ApplyPoke(c),
         ~BackendChanged(c, Head(down[c]))
  PROVE  (\A d \in Clients : QueueKept(d)') /\ BatchesAgree'
<1>1. /\ outbox \in [Clients -> Seq(Entry)] /\ outbox[c] \in Seq(Entry) /\ confirmedLmid[c] \in Nat
      /\ lastMutationId[c] \in Nat /\ syncedThisConnection \in [Clients -> BOOLEAN]
      /\ confirmedLmid \in [Clients -> Nat] /\ needsRebase \in [Clients -> BOOLEAN]
      /\ Len(outbox[c]) \in Nat /\ up[c] \in Seq(Frames)
  BY OfflineTypeIs, EntriesOf DEF SyncTypeOK, TypeOK, StoreOK, Frames
<1>2. /\ down[c] # <<>> /\ Head(down[c]).type = "poke" /\ push = Idle /\ UNCHANGED <<tab, diskVars>>
      /\ ReceivePoke(c) /\ tab[c] = "running"
  BY DEF ReceivePokeTab, ReceivePoke, Answering, Read, Running
<1>3. /\ UNCHANGED <<lastMutationId, mutationLog, push, unread, tab, diskOutbox>> /\ unread \subseteq unread'
      /\ \A d \in Clients \ {c} :
           /\ outbox'[d] = outbox[d] /\ confirmedLmid'[d] = confirmedLmid[d]
           /\ needsRebase'[d] = needsRebase[d] /\ syncedThisConnection'[d] = syncedThisConnection[d]
           /\ up'[d] = up[d]
      /\ \A d \in Clients : \/ down'[d] \in {down[d], <<>>}
                            \/ down[d] # <<>> /\ down'[d] = Tail(down[d])
  BY <1>2, EventOthers DEF diskVars
<1>4. /\ Gone(c)' = Gone(c) /\ CarriesOn(Gone(c)) /\ CarriesOn(Gone(c)')
  <2>1. \A p : Processed(p) => Processed(p)'
    BY <1>3 DEF Processed
  <2>2. lastMutationId[c] <= lastMutationId'[c] /\ unread \subseteq unread'
    BY <1>1, <1>3
  <2>3. Gone(c)' = Gone(c)
    BY <1>3 DEF Gone, Processed
  <2> QED BY <2>1, <2>2, <2>3, GoneGrows
<1>5. PICK after \in Seq(Entry), next \in Nat :
        /\ after = QueueAfter(c, Head(down[c])) /\ next = ConfirmedBy(c, Head(down[c]))
        /\ next <= lastMutationId[c] /\ lastMutationId[c] <= next + Len(after)
        /\ Placed(after, next) /\ Follows(outbox[c], after, Gone(c))
        /\ Passed(after, lastMutationId[c], Gone(c))
        /\ syncedThisConnection[c] =>
             /\ next + Len(after) = confirmedLmid[c] + Len(outbox[c])
             /\ \A i \in DOMAIN after : \E k \in DOMAIN outbox[c] : outbox[c][k] = after[i]
        /\ ~syncedThisConnection[c] => next = lastMutationId[c]
  BY <1>2, <1>4, QueueLeft
<1>6. /\ outbox'[c] = after /\ confirmedLmid'[c] = next /\ syncedThisConnection'[c] = TRUE
      /\ ~needsRebase'[c]
  BY <1>1, <1>5 DEF ApplyPoke
<1>7. Held(c)' = after /\ Held(c) = outbox[c]
  BY <1>2, <1>3, <1>6 DEF Held
<1>8. Placement(after, next, lastMutationId'[c])
  BY <1>3, <1>5 DEF Placement, InPlace, Placed
<1>9. QueueKept(c)'
  <2>1. \A n \in 0..Len(writes'[c]) :
          \/ n \in 0..Len(writes[c]) /\ Record(c, n)' = Record(c, n)
          \/ /\ n > Len(writes[c]) /\ Record(c, n)'.entries = Held(c)'
             /\ Placement(Record(c, n)'.entries, Record(c, n)'.confirmed, lastMutationId'[c])
    <3>1. ASSUME NEW n \in 0..Len(writes'[c]), n > Len(writes[c]),
                 Record(c, n)'.entries = outbox'[c], Record(c, n)'.confirmed = confirmedLmid'[c]
          PROVE  /\ Record(c, n)'.entries = Held(c)'
                 /\ Placement(Record(c, n)'.entries, Record(c, n)'.confirmed, lastMutationId'[c])
      BY <1>6, <1>7, <1>8, <3>1
    <3> QED BY <3>1, EventRecords
  <2>2. Placement(outbox'[c], confirmedLmid'[c], lastMutationId'[c])
    BY <1>6, <1>8
  <2>3. lastMutationId'[c] <= confirmedLmid'[c] + Len(outbox'[c])
    BY <1>3, <1>5, <1>6
  <2>4. lastMutationId[c] <= lastMutationId'[c]
    BY <1>1, <1>3
  <2>5. Follows(Held(c), Held(c)', Gone(c)') /\ Passed(Held(c)', lastMutationId'[c], Gone(c)')
    BY <1>3, <1>4, <1>5, <1>7
  <2> QED BY <1>4, <1>6, <2>1, <2>2, <2>3, <2>4, <2>5, QueueMoved
<1>10. up'[c] = up[c] \/ \E frame \in AgreedUp(c)' : up'[c] = Append(up[c], frame)
  <2>1. PICK synced : synced = TRUE /\ up' = Flushed(c, after, next, synced)
    BY <1>5, Zenon DEF ApplyPoke
  <2>2. Placed(after, next) /\ syncedThisConnection'[c] /\ next <= lastMutationId'[c]
    BY <1>3, <1>5, <1>6
  <2> QED BY <1>5, <1>6, <1>7, <2>1, <2>2, QueueSent
<1>11. up'[c] \in Seq(AgreedUp(c)')
  <2>1. CASE syncedThisConnection[c]
    <3>1. Numbers(c)' = Numbers(c)
      BY <1>5, <1>6, <2>1 DEF Numbers
    <3>2. HoldsOn(c)
      <4>1. lastMutationId[c] <= lastMutationId'[c] /\ unread \subseteq unread'
        BY <1>1, <1>3
      <4>2. \A i \in DOMAIN Held(c)' : \E k \in DOMAIN Held(c) : Held(c)[k] = Held(c)'[i]
        BY <1>5, <1>7, <2>1
      <4> QED BY <3>1, <4>1, <4>2 DEF HoldsOn
    <3> QED BY <1>10, <3>2, FramesMove
  <2>2. CASE ~syncedThisConnection[c]
    <3>1. \A i \in 1..Len(up[c]) : up[c][i].type = "hello" /\ up[c][i] \in Frames
      BY <1>1, <1>2, <2>2, ConfirmedTells
    <3>2. \A i \in 1..Len(up[c]) : up[c][i] \in AgreedUp(c)'
      BY <3>1 DEF AgreedUp, Frames, Hellos, PushFrames
    <3>3. up[c] \in Seq(AgreedUp(c)')
      BY <1>1, <3>2, ElementsIn
    <3>4. PICK frames, agreed : frames = up[c] /\ agreed = AgreedUp(c)'
      OBVIOUS
    <3>5. frames \in Seq(agreed) /\ (up'[c] = frames \/ \E frame \in agreed : up'[c] = Append(frames, frame))
      BY <1>10, <3>3, <3>4
    <3>6. up'[c] \in Seq(agreed)
      BY <3>5, MovedSequence
    <3> QED BY <3>4, <3>6
  <2> QED BY <2>1, <2>2
<1>12. \A d \in Clients \ {c} : writes'[d] = writes[d]
  BY EventRecords
<1>13. push # Idle => HoldsOn(c)
  BY <1>2
<1> QED BY <1>3, <1>9, <1>11, <1>12, <1>13, OneQueueMoves

-----------------------------------------------------------------------------
(* One history *)

\* A poke on its way is of the history there is.
LEMMA PokeInHistory ==
  ASSUME OfflineBase, OneHistory, NEW c \in Clients, down[c] # <<>>, Head(down[c]).type = "poke"
  PROVE  /\ Head(down[c]) \in Pokes /\ InHistory(Head(down[c]).cursor)
         /\ ~BackendChanged(c, Head(down[c]))
<1>1. StoreOK /\ HistoryInv
  BY DEF OfflineBase, OfflineTypeOK, SyncTypeOK, TypeOK
<1>2. \A x \in DOMAIN snaps : x.backendId = 0
  <2>1. \A x \in DOMAIN snaps : x.backendId <= backendId /\ x.backendId \in Nat
    BY <1>1 DEF HistoryInv, Recorded, StoreOK, Cursors
  <2> QED BY <2>1 DEF OneHistory
<1>3. Head(down[c]) = down[c][1] /\ 1 \in 1..Len(down[c])
  <2>1. down[c] \in Seq(Pokes \cup Errors)
    BY <1>1 DEF StoreOK
  <2> QED BY <2>1, TailElements
<1>4. Head(down[c]).cursor \in DOMAIN snaps
  BY <1>1, <1>3, PokeRecorded DEF HistoryInv
<1>5. Head(down[c]) \in Pokes
  BY <1>1, HeadPoke
<1> QED BY <1>2, <1>4, <1>5 DEF BackendChanged, OneHistory, InHistory

\* The operations that are issued are of the history if those of the pokes are.
LEMMA IssuedHistory ==
  ASSUME OfflineTypeOK, NEW c \in Clients, NEW ops \in Seq(Writes), writes' = [writes EXCEPT ![c] = @ \o ops],
         NEW d \in Clients, \A i \in DOMAIN writes[d] : writes[d][i].type = "poke" => InHistory(writes[d][i].cursor),
         \A i \in 1..Len(ops) : ops[i].type = "poke" => InHistory(ops[i].cursor)
  PROVE  \A i \in DOMAIN writes'[d] : writes'[d][i].type = "poke" => InHistory(writes'[d][i].cursor)
<1>1. writes \in [Clients -> Seq(Writes)] /\ writes[c] \in Seq(Writes)
  BY OfflineTypeIs DEF TabTypeOK
<1>2. CASE d # c
  BY <1>1, <1>2
<1>3. CASE d = c
  <2>1. writes'[d] = writes[c] \o ops
    BY <1>1, <1>3
  <2>2. PICK old, new : old = writes[c] /\ new = old \o ops
    OBVIOUS
  <2>3. old \in Seq(Writes) /\ \A i \in 1..Len(old) : old[i].type = "poke" => InHistory(old[i].cursor)
    BY <1>1, <1>3, <2>2
  <2>4. /\ Len(new) = Len(old) + Len(ops) /\ Len(old) \in Nat /\ Len(ops) \in Nat /\ new \in Seq(Writes)
        /\ \A i \in 1..Len(old) : new[i] = old[i]
        /\ \A i \in (Len(old) + 1)..(Len(old) + Len(ops)) : new[i] = ops[i - Len(old)]
    BY <2>2, <2>3, Concatenated
  <2>5. ASSUME NEW i \in 1..Len(new), new[i].type = "poke" PROVE InHistory(new[i].cursor)
    <3>1. CASE i \in 1..Len(old)
      BY <2>3, <2>4, <2>5, <3>1
    <3>2. CASE i \notin 1..Len(old)
      <4>1. i \in (Len(old) + 1)..(Len(old) + Len(ops)) /\ i - Len(old) \in 1..Len(ops)
        BY <2>4, <2>5, <3>2
      <4> QED BY <2>4, <2>5, <4>1
    <3> QED BY <3>1, <3>2
  <2>6. DOMAIN new = 1..Len(new)
    BY <2>4
  <2> QED BY <2>1, <2>2, <2>5, <2>6
<1> QED BY <1>2, <1>3

\* A client event leaves it at that.
LEMMA EventHistory ==
  ASSUME OfflineBase, OneHistory, NEW c \in Clients,
         (\E m \in Mutations : MutateTab(c, m)) \/ ReceivePokeTab(c) \/ OtherEvent(c)
  PROVE  OneHistory'
<1>1. OfflineTypeOK /\ clientCursor \in [Clients -> Cursors \cup {NoCursor}] /\ SyncTypeOK /\ StoreOK
  BY DEF OfflineBase, OfflineTypeOK, SyncTypeOK, TypeOK
<1>2. backendId' = backendId /\ UNCHANGED diskCursor
  BY DEF MutateTab, ReceivePokeTab, OtherEvent, Mutate, Connect, Upgrade, Disconnect, SeeClose, LoseSocket,
     PeerGone, Resync, ReceivePoke, ReceiveError, RetryPush, Read, serverVars, store, meta, offlineVars, diskVars
<1>3. ASSUME NEW d \in Clients PROVE InHistory(clientCursor'[d])
  <2>1. CASE clientCursor'[d] \in {clientCursor[d], NoCursor}
    BY <2>1 DEF OneHistory, InHistory
  <2>2. CASE ReceivePoke(c) /\ ApplyPoke(c)
    <3>1. InHistory(Head(down[c]).cursor)
      BY <2>2, PokeInHistory DEF ReceivePoke, Read
    <3>2. clientCursor'[d] \in {clientCursor[d], Head(down[c]).cursor}
      BY <1>1, <2>2 DEF ApplyPoke
    <3> QED BY <3>1, <3>2 DEF OneHistory
  <2>3. (ReceivePoke(c) /\ ApplyPoke(c)) \/ clientCursor'[d] \in {clientCursor[d], NoCursor}
    BY <1>1 DEF MutateTab, ReceivePokeTab, OtherEvent, Mutate, Connect, Disconnect, SeeClose, LoseSocket,
       Resync, ReceivePoke, DropPoke, ReceiveError, RetryPush, replicaVars
  <2> QED BY <2>1, <2>2, <2>3
<1>4. \/ writes' = writes
      \/ \E ops \in Seq(Writes) :
           /\ writes' = [writes EXCEPT ![c] = @ \o ops]
           /\ \A i \in 1..Len(ops) : ops[i].type = "poke" => InHistory(ops[i].cursor)
  <2>1. CASE \E m \in Mutations : MutateTab(c, m)
    <3>1. PICK m \in Mutations : MutateTab(c, m)
      BY <2>1
    <3>2. SaveOutbox(c) \in Writes /\ SaveOutbox(c).type = "outbox"
      <4>1. ClientTypeOK'
        BY <1>1, <3>1, MutateTypes DEF MutateTab
      <4>2. SaveOutbox(c) \in Writes
        BY <4>1, SaveOutboxType
      <4> QED BY <4>2 DEF SaveOutbox
    <3>3. <<SaveOutbox(c)>> \in Seq(Writes)
          /\ \A i \in 1..Len(<<SaveOutbox(c)>>) : <<SaveOutbox(c)>>[i].type = "poke" => InHistory(<<SaveOutbox(c)>>[i].cursor)
      BY <3>2
    <3>4. writes' = writes \/ writes' = [writes EXCEPT ![c] = @ \o <<SaveOutbox(c)>>]
      BY <3>1 DEF MutateTab, PersistOutbox, Issue
    <3> QED BY <3>3, <3>4
  <2>2. CASE ReceivePokeTab(c)
    <3>1. PICK poke : poke = Head(down[c])
      OBVIOUS
    <3>2. poke \in Pokes /\ InHistory(poke.cursor)
      BY <2>2, <3>1, PokeInHistory DEF ReceivePokeTab, ReceivePoke, Read
    <3>3. ClientTypeOK'
      BY <1>1, <2>2, ClientTypes DEF ReceivePokeTab, ClientNext
    <3>4. /\ SaveOutbox(c) \in Writes /\ SaveOutbox(c).type = "outbox"
          /\ SavePoke(c, poke) \in Writes /\ SavePoke(c, poke).cursor = poke.cursor
      <4>1. SaveOutbox(c) \in Writes
        BY <3>3, SaveOutboxType
      <4>2. SavePoke(c, poke) \in Writes
        BY <3>2, <3>3, SavePokeType
      <4> QED BY <4>1, <4>2 DEF SaveOutbox, SavePoke
    <3>5. \/ writes' = writes
          \/ writes' = [writes EXCEPT ![c] = @ \o (<<SavePoke(c, poke)>> \o <<SaveOutbox(c)>>)]
          \/ writes' = [writes EXCEPT ![c] = @ \o (<<SavePoke(c, poke)>> \o <<>>)]
      BY <2>2, <3>1 DEF ReceivePokeTab, PersistPoke, Issue
    <3>6. PICK a \in Writes, b \in Writes :
            /\ a = SavePoke(c, poke) /\ b = SaveOutbox(c) /\ b.type # "poke" /\ InHistory(a.cursor)
      BY <3>2, <3>4
    <3>7. /\ <<a>> \o <<b>> \in Seq(Writes) /\ <<a>> \o <<>> \in Seq(Writes)
          /\ \A i \in 1..Len(<<a>> \o <<b>>) : (<<a>> \o <<b>>)[i] \in {a, b}
          /\ \A i \in 1..Len(<<a>> \o <<>>) : (<<a>> \o <<>>)[i] \in {a, b}
      OBVIOUS
    <3>8. ASSUME NEW op \in {a, b}, op.type = "poke" PROVE InHistory(op.cursor)
      BY <3>6, <3>8
    <3> QED BY <3>5, <3>6, <3>7, <3>8
  <2>3. CASE OtherEvent(c)
    BY <2>3 DEF OtherEvent, offlineVars
  <2> QED BY <2>1, <2>2, <2>3
<1>5. ASSUME NEW d \in Clients
      PROVE  \A i \in DOMAIN writes'[d] : writes'[d][i].type = "poke" => InHistory(writes'[d][i].cursor)
  <2>1. \A i \in DOMAIN writes[d] : writes[d][i].type = "poke" => InHistory(writes[d][i].cursor)
    BY DEF OneHistory
  <2> QED BY <1>1, <1>4, <2>1, IssuedHistory
<1> QED BY <1>2, <1>3, <1>5 DEF OneHistory, InHistory

LEMMA TabHistory ==
  ASSUME OfflineBase, OneHistory, NEW c \in Clients, TabEvent(c)
  PROVE  OneHistory'
<1>1. /\ OfflineTypeOK /\ clientCursor \in [Clients -> Cursors \cup {NoCursor}]
      /\ writes \in [Clients -> Seq(Writes)] /\ SyncTypeOK' /\ OfflineTypeOK'
  BY OfflineTypeIs, StepOfflineBase, OfflineSteps DEF OfflineBase, OfflineTypeOK, SyncTypeOK, TabTypeOK
<1>2. backendId' = backendId
  BY WakesTab DEF TabEvent, Hydrate, FailHydrate, Crash, Commit, FailWrite, vars, serverVars, meta
<1>3. \A d \in Clients : InHistory(clientCursor'[d])
  <2>1. CASE Hydrate(c)
    BY <1>1, <2>1 DEF Hydrate, OneHistory
  <2>2. CASE ~Hydrate(c)
    <3>1. \A d \in Clients : clientCursor'[d] \in {clientCursor[d], NoCursor}
      BY <1>1, <2>2, WakesTab DEF TabEvent, FailHydrate, Crash, Commit, FailWrite, vars, clientVars, replicaVars
    <3> QED BY <3>1 DEF OneHistory, InHistory
  <2> QED BY <2>1, <2>2
<1>4. ASSUME NEW d \in Clients
      PROVE  \A i \in DOMAIN writes'[d] : writes'[d][i].type = "poke" => InHistory(writes'[d][i].cursor)
  <2>1. \A i \in DOMAIN writes[d] : writes[d][i].type = "poke" => InHistory(writes[d][i].cursor)
    BY DEF OneHistory
  <2>2. CASE Wakes(c)
    BY <2>1, <2>2, WakesTab
  <2>3. CASE Crash(c)
    <3>1. writes'[d] \in {writes[d], <<>>}
      BY <1>1, <2>3 DEF Crash
    <3>2. DOMAIN <<>> = {}
      OBVIOUS
    <3> QED BY <2>1, <3>1, <3>2
  <2>4. CASE Commit(c) \/ FailWrite(c)
    <3>1. writes[c] # <<>> /\ writes' = [writes EXCEPT ![c] = Tail(@)]
      BY <2>4 DEF Commit, FailWrite
    <3>2. CASE d # c
      BY <1>1, <2>1, <3>1, <3>2
    <3>3. CASE d = c
      <4>1. writes'[d] = Tail(writes[d]) /\ writes[d] \in Seq(Writes) /\ writes[d] # <<>>
        BY <1>1, <3>1, <3>3
      <4>2. /\ Tail(writes[d]) \in Seq(Writes)
            /\ \A i \in 1..Len(Tail(writes[d])) : Tail(writes[d])[i] = writes[d][i + 1] /\ i + 1 \in 1..Len(writes[d])
        BY <4>1, TailElements
      <4> QED BY <2>1, <4>1, <4>2
    <3> QED BY <3>2, <3>3
  <2>5. CASE Hydrate(c) \/ FailHydrate(c)
    <3>1. \E ops \in Seq(Writes) :
            /\ writes' = [writes EXCEPT ![c] = @ \o ops]
            /\ \A i \in 1..Len(ops) : ops[i].type # "poke"
      <4>1. <<>> \in Seq(Writes) /\ \A i \in 1..Len(<<>>) : <<>>[i].type # "poke"
        OBVIOUS
      <4>2. CASE Hydrate(c)
        <5>1. SaveOutbox(c) \in Writes
          BY <1>1, SaveOutboxType, SyncTypeIs DEF SyncTypeOK, ClientTypeOK, Frames
        <5>2. PICK op \in Writes : op = SaveOutbox(c) /\ op.type # "poke"
          BY <5>1 DEF SaveOutbox
        <5>3. writes' = [writes EXCEPT ![c] = @ \o <<>>] \/ writes' = [writes EXCEPT ![c] = @ \o <<op>>]
          BY <4>2, <5>2 DEF Hydrate, Issue
        <5>4. <<op>> \in Seq(Writes) /\ \A i \in 1..Len(<<op>>) : <<op>>[i].type # "poke"
          BY <5>2
        <5> QED BY <4>1, <5>3, <5>4
      <4>3. CASE FailHydrate(c)
        <5>1. [type |-> "outbox", outbox |-> [entries |-> outbox[c], confirmed |-> 0]] \in Writes
          BY <1>1, TypesOf DEF Writes, OutboxWrites, OutboxRecords
        <5>2. PICK op \in Writes : /\ op = [type |-> "outbox", outbox |-> [entries |-> outbox[c], confirmed |-> 0]]
                                   /\ op.type # "poke"
          BY <5>1
        <5>3. writes' = [writes EXCEPT ![c] = @ \o <<>>] \/ writes' = [writes EXCEPT ![c] = @ \o <<op>>]
          BY <4>3, <5>2 DEF FailHydrate, Issue
        <5>4. <<op>> \in Seq(Writes) /\ \A i \in 1..Len(<<op>>) : <<op>>[i].type # "poke"
          BY <5>2
        <5> QED BY <4>1, <5>3, <5>4
      <4> QED BY <2>5, <4>2, <4>3
    <3> QED BY <1>1, <2>1, <3>1, IssuedHistory
  <2> QED BY <2>2, <2>3, <2>4, <2>5 DEF TabEvent
<1>5. InHistory(diskCursor')
  <2>1. CASE Commit(c) /\ diskCursor' # diskCursor
    <3>1. writes[c] # <<>> /\ writes[c] \in Seq(Writes) /\ Head(writes[c]).type # "outbox"
          /\ diskCursor' = Head(writes[c]).cursor
      BY <1>1, <2>1 DEF Commit
    <3>2. Head(writes[c]) = writes[c][1] /\ 1 \in DOMAIN writes[c] /\ Head(writes[c]) \in Writes
      BY <3>1
    <3>3. Head(writes[c]).type = "poke"
      BY <3>1, <3>2 DEF Writes, PokeWrites, OutboxWrites
    <3> QED BY <3>1, <3>2, <3>3 DEF OneHistory
  <2>2. CASE diskCursor' = diskCursor
    BY <2>2 DEF OneHistory, InHistory
  <2>3. Commit(c) \/ diskCursor' = diskCursor
    BY WakesTab DEF TabEvent, Hydrate, FailHydrate, Crash, FailWrite, diskVars
  <2> QED BY <2>1, <2>2, <2>3
<1> QED BY <1>2, <1>3, <1>4, <1>5 DEF OneHistory

LEMMA ServerHistory ==
  ASSUME MaxBackend = 0, OfflineBase, OneHistory, ServerNext, UNCHANGED offlineVars
  PROVE  OneHistory'
<1>1. UNCHANGED <<clientCursor, diskCursor, writes>>
  BY DEF ServerNext, ServeHello, FailHello, ServePush, ServerClose, PushStep, Throw, Maintain, clientVars,
     replicaVars, offlineVars, diskVars
<1>2. ~Reset
  <2>1. backendId \in Nat
    BY DEF OfflineBase, OfflineTypeOK, SyncTypeOK, TypeOK, StoreOK
  <2>2. Reset => backendId < MaxBackend
    BY DEF Reset
  <2> QED BY <2>1, <2>2
<1>3. backendId' = backendId
  <2>1. CASE \E c \in Clients : ServeHello(c) \/ FailHello(c) \/ ServePush(c) \/ ServerClose(c)
    BY <2>1 DEF ServeHello, HandleHello, FailHello, ServePush, StartPush, RefusePush, ServerClose, CloseSocket,
       meta
  <2>2. CASE PushStep
    <3>1. Succeed \/ Fail => \E w, ok : ApplyMutation(w, ok)
      BY Zenon DEF Succeed, Fail
    <3> QED BY <2>2, <3>1 DEF PushStep, SkipDuplicate, RejectGap, FinishPush, ApplyMutation, meta
  <2>3. CASE Throw
    BY <2>3 DEF Throw, AbortPush, meta
  <2>4. CASE Maintain
    BY <1>2, <2>4 DEF Maintain, Compact, Hibernate, Import, ImportExtension, ReplaceRows, meta
  <2> QED BY <2>1, <2>2, <2>3, <2>4 DEF ServerNext
<1> QED BY <1>1, <1>3 DEF OneHistory, InHistory

LEMMA StepOneHistory ==
  ASSUME MaxBackend = 0, OfflineBase, OneHistory, OfflineNext
  PROVE  OneHistory'
BY ServerHistory, EventHistory, TabHistory, OfflineSteps DEF SyncEvent

LEMMA InitOneHistory == OfflineInit => OneHistory
<1>1. DOMAIN <<>> = {}
  OBVIOUS
<1> QED BY <1>1 DEF OfflineInit, SyncInit, Init, OneHistory, InHistory

LEMMA SameOneHistory == OneHistory /\ UNCHANGED allVars => OneHistory'
BY DEF OneHistory, InHistory, allVars, vars, serverVars, clientVars, replicaVars, offlineVars, diskVars, meta

-----------------------------------------------------------------------------
(* Queues and batches over every step *)

\* What an event that is not the server's is to the queues.
LEMMA EventQueues ==
  ASSUME OfflineBase, OfflineTypeOK', SocketInv, TabInv, OneHistory, \A d \in Clients : QueueKept(d),
         BatchesAgree, NEW c \in Clients,
         (\E m \in Mutations : MutateTab(c, m)) \/ ReceivePokeTab(c) \/ OtherEvent(c)
  PROVE  (\A d \in Clients : QueueKept(d)') /\ BatchesAgree'
<1>1. OfflineTypeOK /\ HistoryInv /\ OutboxInv
  BY DEF OfflineBase, TabInv
<1>2. CASE \E m \in Mutations : MutateTab(c, m)
  BY <1>1, <1>2, MutateQueues
<1>3. CASE OtherEvent(c)
  <2>1. tab[c] = "running" /\ UNCHANGED <<tab, diskVars, writes>>
    BY <1>3 DEF OtherEvent, Running, offlineVars
  <2>2. Connect(c) \/ Disconnect(c) \/ SeeClose(c) \/ Resync(c) \/ ReceiveError(c) \/ RetryPush(c)
    BY <1>3 DEF OtherEvent
  <2> QED BY <1>1, <2>1, <2>2, QuietEvents
<1>4. CASE ReceivePokeTab(c)
  <2>1. /\ tab[c] = "running" /\ UNCHANGED <<tab, diskVars>> /\ ReceivePoke(c)
        /\ down[c] # <<>> /\ Head(down[c]).type = "poke"
    BY <1>4 DEF ReceivePokeTab, Running, ReceivePoke, Read
  <2>2. CASE DropPoke(c)
    <3>1. UNCHANGED writes
      BY <1>4, <2>2 DEF ReceivePokeTab, DropPoke
    <3> QED BY <1>1, <2>1, <2>2, <3>1, QuietEvents
  <2>3. CASE ApplyPoke(c)
    <3>1. ~BackendChanged(c, Head(down[c]))
      BY <2>1, PokeInHistory
    <3> QED BY <1>1, <1>4, <2>3, <3>1, PokeQueues
  <2> QED BY <2>1, <2>2, <2>3 DEF ReceivePoke
<1> QED BY <1>2, <1>3, <1>4

LEMMA StepQueues ==
  ASSUME MaxBackend = 0, OfflineBase, SocketInv, TabInv, OneHistory, \A d \in Clients : QueueKept(d),
         BatchesAgree, OfflineNext
  PROVE  (\A d \in Clients : QueueKept(d)') /\ BatchesAgree'
<1>1. OfflineTypeOK /\ OfflineTypeOK'
  BY StepOfflineBase DEF OfflineBase
<1>2. ASSUME ServerNext, UNCHANGED offlineVars PROVE (\A d \in Clients : QueueKept(d)') /\ BatchesAgree'
  BY <1>1, <1>2, ServerQueues
<1>3. ASSUME NEW c \in Clients,
             (\E m \in Mutations : MutateTab(c, m)) \/ ReceivePokeTab(c) \/ OtherEvent(c)
      PROVE  (\A d \in Clients : QueueKept(d)') /\ BatchesAgree'
  BY <1>1, <1>3, EventQueues
<1>4. ASSUME NEW c \in Clients, TabEvent(c) PROVE (\A d \in Clients : QueueKept(d)') /\ BatchesAgree'
  BY <1>1, <1>4, TabQueues
<1> QED BY <1>2, <1>3, <1>4, OfflineSteps DEF SyncEvent

LEMMA InitQueues == OfflineInit => (\A c \in Clients : QueueKept(c)) /\ BatchesAgree
<1> SUFFICES ASSUME OfflineInit, NEW c \in Clients
             PROVE  /\ QueueKept(c) /\ push = Idle
                    /\ up[c] \in Seq(AgreedUp(c)) /\ down[c] \in Seq(AgreedDown)
  BY DEF OfflineInit, SyncInit, Init, BatchesAgree
<1>1. /\ up[c] = <<>> /\ down[c] = <<>> /\ push = Idle /\ outbox[c] = <<>> /\ confirmedLmid[c] = 0
      /\ lastMutationId[c] = 0 /\ ~syncedThisConnection[c] /\ ~needsRebase[c] /\ tab[c] = "closed"
      /\ writes[c] = <<>> /\ diskOutbox[c] = NoRecord
  BY DEF OfflineInit, SyncInit, Init
<1>2. <<>> \in Seq(AgreedUp(c)) /\ <<>> \in Seq(AgreedDown) /\ DOMAIN <<>> = {} /\ Len(<<>>) = 0
  OBVIOUS
<1>3. Held(c) = <<>> /\ Record(c, 0) = NoRecord
  BY <1>1 DEF Held, Record, NoRecord
<1>4. \A gone, box : Follows(<<>>, box, gone) /\ Passed(<<>>, 0, gone)
  BY <1>2 DEF Follows, Passed
<1>5. Placement(<<>>, 0, 0)
  BY <1>2 DEF Placement, InPlace
<1>6. \A n \in 0..Len(writes[c]) : n = 0 /\ \A k \in n..Len(writes[c]) : k = 0
  BY <1>1, <1>2
<1>7. QueueKept(c)
  BY <1>1, <1>3, <1>4, <1>5, <1>6 DEF QueueKept, NoRecord
<1> QED BY <1>1, <1>2, <1>7

LEMMA SameQueues ==
  ASSUME OfflineTypeOK, \A c \in Clients : QueueKept(c), BatchesAgree, UNCHANGED allVars
  PROVE  (\A c \in Clients : QueueKept(c)') /\ BatchesAgree'
<1>1. UNCHANGED <<outbox, confirmedLmid, lastMutationId, syncedThisConnection, needsRebase, tab, writes,
                  diskOutbox, unread, mutationLog, up, down, push>>
  BY DEF allVars, vars, serverVars, clientVars, queueVars, linkVars, offlineVars, diskVars
<1>2. ASSUME NEW c \in Clients
      PROVE  /\ Held(c)' = Held(c) /\ Gone(c)' = Gone(c) /\ Numbers(c)' = Numbers(c)
             /\ \A n : Record(c, n)' = Record(c, n)
  BY <1>1 DEF Held, Gone, Processed, Record, Numbers
<1>3. ASSUME NEW c \in Clients PROVE QueueKept(c)' /\ AgreedUp(c)' = AgreedUp(c)
  <2>1. QueueKept(c)'
    BY <1>1, <1>2 DEF QueueKept, Record
  <2>2. AgreedUp(c)' = AgreedUp(c)
    BY <1>1, <1>2 DEF AgreedUp, Agrees, InStep
  <2> QED BY <2>1, <2>2
<1>4. BatchesAgree'
  <2>1. push # Idle => Agrees(push.client, push.todo)'
    <3>1. ASSUME push # Idle PROVE push.client \in Clients /\ Agrees(push.client, push.todo)
      BY <3>1 DEF BatchesAgree, OfflineTypeOK, SyncTypeOK, TypeOK, Pushes, PushesOf
    <3> QED BY <1>1, <1>2, <3>1 DEF Agrees, InStep
  <2> QED BY <1>1, <1>3, <2>1 DEF BatchesAgree, AgreedDown
<1> QED BY <1>3, <1>4

-----------------------------------------------------------------------------
(* What is durable stays queued *)

\* Nothing but the log of what was processed moves at an event that writes nothing to the store.
LEMMA EventLog ==
  ASSUME MaxBackend = 0, OfflineBase, SyncEvent
  PROVE  /\ UNCHANGED <<durable, diskOutbox>> /\ unread \subseteq unread'
         /\ mutationLog' = mutationLog \/ \E entry : mutationLog' = Append(mutationLog, entry)
<1>1. OfflineTypeOK /\ HistoryInv
  BY DEF OfflineBase
<1>2. UNCHANGED <<durable, diskOutbox>> /\ unread \subseteq unread'
  BY <1>1, EventIssues
<1>3. ~Reset
  <2>1. backendId \in Nat
    BY <1>1 DEF OfflineTypeOK, SyncTypeOK, TypeOK, StoreOK
  <2>2. Reset => backendId < MaxBackend
    BY DEF Reset
  <2> QED BY <2>1, <2>2
<1>4. ASSUME ServerNext
      PROVE  mutationLog' = mutationLog \/ \E entry : mutationLog' = Append(mutationLog, entry)
  <2>1. ASSUME \E c \in Clients : ServeHello(c) \/ FailHello(c) \/ ServePush(c) \/ ServerClose(c)
        PROVE  mutationLog' = mutationLog
    BY <2>1 DEF ServeHello, HandleHello, FailHello, ServePush, StartPush, RefusePush, ServerClose, CloseSocket,
       store
  <2>2. ASSUME SkipDuplicate \/ RejectGap \/ FinishPush \/ Throw
        PROVE  mutationLog' = mutationLog
    BY <2>2 DEF SkipDuplicate, RejectGap, FinishPush, Throw, AbortPush, store
  <2>3. ASSUME Succeed \/ Fail PROVE \E entry : mutationLog' = Append(mutationLog, entry)
    <3>1. PICK w, ok : ApplyMutation(w, ok)
      BY <2>3, Zenon DEF Succeed, Fail
    <3> QED BY <3>1, Zenon DEF ApplyMutation
  <2>4. ASSUME Maintain PROVE mutationLog' = mutationLog
    BY <1>3, <2>4 DEF Maintain, Compact, Hibernate, Import, ImportExtension, ReplaceRows, store
  <2> QED BY <1>4, <2>1, <2>2, <2>3, <2>4 DEF ServerNext, PushStep
<1>5. ASSUME NEW c \in Clients,
             (\E m \in Mutations : MutateTab(c, m)) \/ ReceivePokeTab(c) \/ OtherEvent(c)
      PROVE  mutationLog' = mutationLog
  BY <1>1, <1>5, EventOthers DEF MutateTab, ReceivePokeTab, OtherEvent
<1> QED BY <1>2, <1>4, <1>5 DEF SyncEvent

\* A record that takes the place of the stored one has whatever of it is not done with.
LEMMA CommitQueued ==
  ASSUME OfflineTypeOK, DurablyQueued, NEW c \in Clients, QueueKept(c), Commit(c)
  PROVE  DurablyQueued'
<1>1. /\ writes[c] # <<>> /\ writes[c] \in Seq(Writes) /\ diskOutbox \in [Clients -> OutboxRecords]
  BY OfflineTypeIs DEF TabTypeOK, Commit
<1>2. Head(writes[c]) = writes[c][1] /\ 0 \in 0..Len(writes[c]) /\ 1 \in 0..Len(writes[c])
  BY <1>1
<1>3. PICK old, new : old = diskOutbox[c].entries /\ new = writes[c][1].outbox.entries
  OBVIOUS
<1>4. Record(c, 0).entries = old /\ Record(c, 1).entries = new
  BY <1>3 DEF Record
<1>5. Follows(old, new, Gone(c))
  BY <1>2, <1>4 DEF QueueKept
<1>6. /\ diskOutbox' = [diskOutbox EXCEPT ![c] = writes[c][1].outbox]
      /\ durable' = durable \cup Names(new) /\ UNCHANGED <<mutationLog, unread>>
  BY <1>2, <1>3 DEF Commit, vars, serverVars, store
<1>7. diskOutbox'[c].entries = new /\ \A d \in Clients \ {c} : diskOutbox'[d] = diskOutbox[d]
  BY <1>1, <1>3, <1>6
<1>8. ASSUME NEW m \in Names(old), m \notin unread PROVE Processed(m) \/ m \in Names(new)
  <2>1. PICK i \in DOMAIN old : old[i].name = m
    BY <1>8 DEF Names
  <2>2. CASE old[i] \in Gone(c)
    BY <1>8, <2>1, <2>2 DEF Gone
  <2>3. CASE \E j \in DOMAIN new : new[j].name = old[i].name
    BY <2>1, <2>3 DEF Names
  <2> QED BY <1>5, <2>2, <2>3 DEF Follows
<1>9. ASSUME NEW m \in durable' \ unread'
      PROVE  Processed(m)' \/ \E d \in Clients : m \in Names(diskOutbox'[d].entries)
  <2>1. CASE m \in Names(new)
    BY <1>7, <2>1
  <2>2. CASE m \notin Names(new)
    <3>1. Processed(m) \/ \E d \in Clients : m \in Names(diskOutbox[d].entries)
      BY <1>6, <1>9, <2>2 DEF DurablyQueued
    <3>2. Processed(m) => Processed(m)'
      BY <1>6 DEF Processed
    <3>3. ASSUME NEW d \in Clients, m \in Names(diskOutbox[d].entries), ~Processed(m) PROVE d # c
      BY <1>3, <1>6, <1>8, <1>9, <2>2, <3>3
    <3> QED BY <1>7, <3>1, <3>2, <3>3
  <2> QED BY <2>1, <2>2
<1> QED BY <1>9 DEF DurablyQueued, Names

LEMMA StillQueued ==
  ASSUME DurablyQueued, UNCHANGED <<durable, diskOutbox>>, unread \subseteq unread',
         \A m : Processed(m) => Processed(m)'
  PROVE  DurablyQueued'
BY DEF DurablyQueued, Names

LEMMA StepDurable ==
  ASSUME MaxBackend = 0, OfflineBase, DurablyQueued, \A d \in Clients : QueueKept(d), OfflineNext
  PROVE  DurablyQueued'
<1>1. OfflineTypeOK
  BY DEF OfflineBase
<1>2. ASSUME SyncEvent PROVE DurablyQueued'
  <2>1. UNCHANGED <<durable, diskOutbox>> /\ unread \subseteq unread'
    BY <1>2, EventLog
  <2>2. \A m : Processed(m) => Processed(m)'
    BY <1>1, <1>2, EventLog, LogKept
  <2> QED BY <2>1, <2>2, StillQueued
<1>3. ASSUME NEW c \in Clients, TabEvent(c), ~Commit(c) PROVE DurablyQueued'
  <2>1. UNCHANGED <<durable, diskOutbox, mutationLog>> /\ unread \subseteq unread'
    BY <1>3, WakesTab DEF TabEvent, Hydrate, FailHydrate, Crash, FailWrite, vars, serverVars, store, diskVars
  <2>2. \A m : Processed(m) => Processed(m)'
    BY <1>1, <2>1, LogKept
  <2> QED BY <2>1, <2>2, StillQueued
<1>4. ASSUME NEW c \in Clients, Commit(c) PROVE DurablyQueued'
  BY <1>1, <1>4, CommitQueued
<1> QED BY <1>2, <1>3, <1>4, OfflineSteps DEF TabEvent

LEMMA InitDurable == OfflineInit => DurablyQueued
BY DEF OfflineInit, DurablyQueued

LEMMA SameDurable == DurablyQueued /\ UNCHANGED allVars => DurablyQueued'
BY DEF DurablyQueued, Processed, allVars, vars, serverVars, store, offlineVars, diskVars

\* A mutation that reached a stored outbox stays in one until the server has processed it, over
\* crashes, failed writes, lost sockets and whatever the server does but a reset, unless its record
\* was written over unread: any other record that is overwritten is followed by one that has every
\* entry of it which is not done with.
THEOREM NothingDurableIsLost ==
  ASSUME MaxBackend = 0
  PROVE  OfflineSpec => []DurablyQueued
<1> DEFINE Inv == SocketInv /\ OneHistory /\ DurableInv
<1>1. OfflineInit => Inv
  BY InitSockets, InitOneHistory, InitQueues, InitDurable DEF DurableInv
<1>2. OfflineBase /\ TabInv /\ Inv /\ [OfflineNext]_allVars => Inv'
  <2>1. ASSUME OfflineBase, TabInv, Inv, OfflineNext PROVE Inv'
    BY <2>1, StepSockets, StepOneHistory, StepQueues, StepDurable DEF DurableInv
  <2>2. ASSUME OfflineBase, Inv, UNCHANGED allVars PROVE Inv'
    BY <2>2, SameSockets, SameOneHistory, SameQueues, SameDurable DEF OfflineBase, DurableInv
  <2> QED BY <2>1, <2>2
<1>3. Inv => DurablyQueued
  BY DEF DurableInv
<1> QED BY <1>1, <1>2, <1>3, TabsHold, PTL DEF OfflineSpec
=============================================================================
