--------------------------- MODULE WorkspaceProofs ---------------------------
(***************************************************************************)
(* Proofs about Workspace, for every value of its constants: the type      *)
(* invariant, and that every poke is sound and every accepted cursor can   *)
(* catch up.                                                               *)
(***************************************************************************)
EXTENDS Workspace, TLAPS

-----------------------------------------------------------------------------
(* Types of the expressions the actions are built from *)

\* A patch is a function from some keys to what they hold.
LEMMA PatchType ==
  ASSUME NEW K \in SUBSET Keys, NEW f \in [K -> Content]
  PROVE  f \in Patches
BY DEF Patches

LEMMA EmptyPatch == [k \in {} |-> Deleted] \in Patches
<1>1. [k \in {} |-> Deleted] \in [{} -> Content]
  BY DEF Content
<1> QED BY <1>1, PatchType

LEMMA PatchSinceType ==
  ASSUME StoreOK, NEW v \in Nat
  PROVE  PatchSince(v) \in Patches
<1> DEFINE K == {k \in Keys : rows[k].version > v}
<1>1. PatchSince(v) \in [K -> Content]
  BY DEF StoreOK, PatchSince
<1> QED BY <1>1, PatchType

LEMMA BootstrapType ==
  ASSUME StoreOK
  PROVE  BootstrapPatch \in Patches
<1>1. LivePatch \in [LiveKeys -> Content]
  BY DEF StoreOK, LivePatch, LiveKeys
<1>2. LivePatch \in Patches
  BY <1>1, PatchType DEF LiveKeys
<1>3. SnapshotIsCurrent => snapshot.patch \in Patches
  BY DEF StoreOK, SnapshotIsCurrent
<1> QED BY <1>2, <1>3 DEF BootstrapPatch

LEMMA CursorType ==
  ASSUME StoreOK
  PROVE  /\ Cursor \in Cursors
         /\ \A v \in Nat : CursorAt(v) \in Cursors
BY DEF StoreOK, Cursor, CursorAt, Cursors

LEMMA FlushType ==
  ASSUME StoreOK, NEW w \in Patches, NEW v \in Nat
  PROVE  Flush(w, v) \in [Keys -> [val : Content, version : Nat]]
<1> PICK K \in SUBSET Keys : w \in [K -> Content]
  BY DEF Patches
<1> QED BY DEF StoreOK, Flush, Written

\* Delivering a frame keeps the queues typed.
LEMMA DeliverType ==
  ASSUME StoreOK, NEW targets, NEW frame \in Pokes \cup Errors, Deliver(targets, frame)
  PROVE  down' \in [Clients -> Seq(Pokes \cup Errors)]
BY DEF StoreOK, Deliver

\* Recording the rows of a cursor keeps the history typed.
LEMMA SnapType ==
  ASSUME StoreOK, NEW cursor \in Cursors, NEW data \in Rows, Snap(cursor, data)
  PROVE  /\ DOMAIN snaps' \subseteq Cursors
         /\ \A x \in DOMAIN snaps' : snaps'[x] \in Rows
BY DEF StoreOK, Snap

LEMMA PokeType ==
  ASSUME NEW base \in Cursors \cup {NoCursor}, NEW clear \in BOOLEAN, NEW patch \in Patches,
         NEW cursor \in Cursors, NEW lmids \in LmidChanges, NEW results \in Results
  PROVE  Poke(base, clear, patch, cursor, lmids, results) \in Pokes
BY DEF Poke, Pokes

LEMMA ErrorType == \A code \in Codes : Error(code) \in Errors
BY DEF Error, Errors

LEMMA LmidsType ==
  ASSUME NEW c \in Clients, NEW n \in Nat
  PROVE  {[client |-> c, lmid |-> n]} \in LmidChanges
BY DEF LmidChanges

-----------------------------------------------------------------------------
(* Type correctness *)

\* The rows a poke or a replica sees are typed.
LEMMA LiveType ==
  ASSUME StoreOK
  PROVE  [k \in Keys |-> rows[k].val] \in Rows
BY DEF StoreOK, Rows

LEMMA InitType == Init => StoreOK
<1> SUFFICES ASSUME Init PROVE StoreOK
  OBVIOUS
<1>1. rows \in [Keys -> [val : Content, version : Nat]]
  BY DEF Init, NoRow, Content
<1>2. /\ DOMAIN snaps \subseteq Cursors
      /\ \A cursor \in DOMAIN snaps : snaps[cursor] \in Rows
  BY DEF Init, Cursors, Rows, Content
<1>3. down \in [Clients -> Seq(Pokes \cup Errors)]
  BY DEF Init
<1> QED BY <1>1, <1>2, <1>3 DEF Init, StoreOK

\* The frames a push, a hello or an administrator sends are typed.
LEMMA HelloType ==
  ASSUME StoreOK, NEW c \in Clients, NEW cursor \in Cursors \cup {NoCursor},
         HandleHello(c, cursor)
  PROVE  StoreOK'
<1> DEFINE lmids == {[client |-> c, lmid |-> lastMutationId[c]]}
<1>1. lmids \in LmidChanges
  BY LmidsType DEF StoreOK
<1>2. {} \in Results
  BY DEF Results
<1>3. Cursor \in Cursors
  BY CursorType
<1>4. /\ down' \in [Clients -> Seq(Pokes \cup Errors)]
      /\ snapshot' \in [cursor : Cursors, patch : Patches] \cup {NoSnapshot}
  <2>1. CASE CursorValid(cursor)
    <3>1. cursor.version \in Nat /\ cursor \in Cursors
      BY <2>1 DEF CursorValid, Cursors
    <3>2. PatchSince(cursor.version) \in Patches
      BY <3>1, PatchSinceType
    <3>3. Poke(cursor, FALSE, PatchSince(cursor.version), Cursor, lmids, {}) \in Pokes
      BY <1>1, <1>2, <1>3, <3>1, <3>2, PokeType
    <3>4. Deliver({c}, Poke(cursor, FALSE, PatchSince(cursor.version), Cursor, lmids, {}))
      BY <2>1 DEF HandleHello
    <3>5. down' \in [Clients -> Seq(Pokes \cup Errors)]
      BY <3>3, <3>4, DeliverType
    <3> QED BY <2>1, <3>5 DEF HandleHello, StoreOK
  <2>2. CASE ~CursorValid(cursor)
    <3>1. Poke(NoCursor, TRUE, BootstrapPatch, Cursor, lmids, {}) \in Pokes
      BY <1>1, <1>2, <1>3, BootstrapType, PokeType
    <3>2. Deliver({c}, Poke(NoCursor, TRUE, BootstrapPatch, Cursor, lmids, {})) /\ CacheBootstrap
      BY <2>2 DEF HandleHello
    <3>3. down' \in [Clients -> Seq(Pokes \cup Errors)]
      BY <3>1, <3>2, DeliverType
    <3> QED BY <1>3, <3>2, <3>3, BootstrapType DEF CacheBootstrap
  <2> QED BY <2>1, <2>2
<1>5. sess' \in [Clients -> {"none", "open", "ready"}]
  BY DEF HandleHello, StoreOK
<1> QED BY <1>4, <1>5 DEF HandleHello, StoreOK, meta

\* An error frame keeps everything typed when nothing else but sess and push moves.
LEMMA ErrorDelivery ==
  ASSUME StoreOK, NEW targets, NEW code \in Codes, Deliver(targets, Error(code))
  PROVE  down' \in [Clients -> Seq(Pokes \cup Errors)]
<1>1. Error(code) \in Pokes \cup Errors
  BY ErrorType
<1> QED BY <1>1, DeliverType

LEMMA ApplyType ==
  ASSUME StoreOK, NEW w \in Patches, NEW ok \in BOOLEAN, ApplyMutation(w, ok)
  PROVE  StoreOK'
<1> DEFINE wrote == Written(w) # {}
           version == IF wrote THEN currentVersion + 1 ELSE currentVersion
<1>1. push \in PushesOf({push.todo})
  BY DEF ApplyMutation, Mutating, StoreOK
<1>2. push.client \in Clients /\ Expected \in Nat
  BY <1>1 DEF Expected, PushesOf
<1>3. version \in Nat
  BY DEF StoreOK
<1>4. rows' \in [Keys -> [val : Content, version : Nat]]
  <2>1. rows' = Flush(w, currentVersion + 1) /\ currentVersion + 1 \in Nat
    BY DEF ApplyMutation, StoreOK
  <2> QED BY <2>1, FlushType
<1>5. push' \in PushesOf({push'.todo})
  <2>1. push.results \cup {[id |-> Expected, ok |-> ok]} \in Results
    BY <1>1, <1>2 DEF Results, PushesOf
  <2>2. push' = [push EXCEPT !.todo = Tail(push.todo), !.lmid = Expected,
                             !.results = push.results \cup {[id |-> Expected, ok |-> ok]}]
    BY DEF ApplyMutation
  <2> QED BY <1>1, <1>2, <2>1, <2>2 DEF PushesOf
<1>6. /\ DOMAIN snaps' \subseteq Cursors
      /\ \A x \in DOMAIN snaps' : snaps'[x] \in Rows
  <2>1. CursorAt(version) \in Cursors
    BY <1>3, CursorType
  <2>2. [k \in Keys |-> rows'[k].val] \in Rows
    BY <1>4 DEF Rows
  <2>3. Snap(CursorAt(version), [k \in Keys |-> rows'[k].val])
    BY DEF ApplyMutation
  <2> QED BY <2>1, <2>2, <2>3, SnapType
<1>7. lastMutationId' \in [Clients -> Nat]
  BY <1>2 DEF ApplyMutation, StoreOK
<1>8. currentVersion' \in Nat /\ orphans' \subseteq Clients
  BY <1>2, <1>3 DEF ApplyMutation, StoreOK
<1>9. snapshot' \in [cursor : Cursors, patch : Patches] \cup {NoSnapshot}
  BY DEF ApplyMutation, StoreOK
<1> QED BY <1>4, <1>5, <1>6, <1>7, <1>8, <1>9 DEF ApplyMutation, StoreOK, sockets

\* One push is answered by well-typed pokes.
LEMMA FinishType ==
  ASSUME StoreOK, FinishPush
  PROVE  StoreOK'
<1> DEFINE lmids == {[client |-> push.client, lmid |-> push.lmid]}
           empty == [k \in {} |-> Deleted]
           patch == PatchSince(push.startVersion)
           again == Poke(Cursor, FALSE, empty, Cursor, lmids, {})
           advance == Poke(CursorAt(push.startVersion), FALSE, patch, Cursor, lmids, push.results)
<1>1. push \in PushesOf({push.todo})
  BY DEF FinishPush, StoreOK
<1>2. push.client \in Clients /\ push.lmid \in Nat /\ push.startVersion \in Nat
      /\ push.results \in Results
  BY <1>1 DEF PushesOf
<1>3. lmids \in LmidChanges
  BY <1>2, LmidsType
<1>4. Cursor \in Cursors /\ CursorAt(push.startVersion) \in Cursors
  BY <1>2, CursorType
<1>5. again \in Pokes
  BY <1>3, <1>4, EmptyPatch, PokeType DEF Results
<1>6. advance \in Pokes
  <2>1. patch \in Patches
    BY <1>2, PatchSinceType
  <2> QED BY <1>2, <1>3, <1>4, <2>1, PokeType
<1>7. \/ Deliver({push.client}, again)
      \/ \E targets \in {Ready, {push.client}} : Deliver(targets, advance)
  BY DEF FinishPush
<1>8. down' \in [Clients -> Seq(Pokes \cup Errors)]
  BY <1>5, <1>6, <1>7, DeliverType
<1> QED BY <1>8 DEF FinishPush, StoreOK, meta, store, sockets

\* An import leaves typed rows and a typed history.
LEMMA ReplaceType ==
  ASSUME StoreOK, NEW data \in Rows, ReplaceRows(data)
  PROVE  /\ rows' \in [Keys -> [val : Content, version : Nat]]
         /\ currentVersion' \in Nat /\ minCursorVersion' \in Nat
         /\ DOMAIN snaps' \subseteq Cursors
         /\ \A x \in DOMAIN snaps' : snaps'[x] \in Rows
<1>1. currentVersion + 1 \in Nat
  BY DEF StoreOK
<1>2. rows' \in [Keys -> [val : Content, version : Nat]]
  BY <1>1 DEF ReplaceRows, Rows, NoRow, Content
<1>3. CursorAt(currentVersion + 1) \in Cursors
  BY <1>1, CursorType
<1>4. Snap(CursorAt(currentVersion + 1), data)
  BY DEF ReplaceRows
<1>5. /\ DOMAIN snaps' \subseteq Cursors
      /\ \A x \in DOMAIN snaps' : snaps'[x] \in Rows
  BY <1>3, <1>4, SnapType
<1> QED BY <1>1, <1>2, <1>5 DEF ReplaceRows

LEMMA ImportType ==
  ASSUME StoreOK, NEW data \in Rows, Import(data)
  PROVE  StoreOK'
<1> DEFINE cursor == CursorAt(currentVersion + 1)
           K == {k \in Keys : data[k] # Deleted}
           patch == [k \in K |-> data[k]]
<1>1. cursor \in Cursors
  BY CursorType DEF StoreOK
<1>2. patch \in Patches
  <2>1. patch \in [K -> Content]
    BY DEF Rows
  <2> QED BY <2>1, PatchType
<1>3. Poke(NoCursor, TRUE, patch, cursor, {}, {}) \in Pokes
  BY <1>1, <1>2, PokeType DEF LmidChanges, Results
<1>4. /\ Deliver(Ready, Poke(NoCursor, TRUE, patch, cursor, {}, {}))
      /\ snapshot' = [cursor |-> cursor, patch |-> patch]
      /\ ReplaceRows(data)
  BY DEF Import
<1>5. down' \in [Clients -> Seq(Pokes \cup Errors)]
  BY <1>3, <1>4, DeliverType
<1>6. snapshot' \in [cursor : Cursors, patch : Patches]
  BY <1>1, <1>2, <1>4
<1> QED BY <1>4, <1>5, <1>6, ReplaceType DEF Import, StoreOK, sockets

LEMMA ImportExtensionType ==
  ASSUME StoreOK, NEW data \in Rows, ImportExtension(data)
  PROVE  StoreOK'
<1>1. ReplaceRows(data) /\ snapshot' = NoSnapshot /\ sess' = [c \in Clients |-> "none"]
  BY DEF ImportExtension
<1> QED BY <1>1, ReplaceType DEF ImportExtension, StoreOK

LEMMA ResetType ==
  ASSUME StoreOK, Reset
  PROVE  StoreOK'
<1> DEFINE cursor == [backendId |-> backendId + 1, version |-> 0]
           empty == [k \in {} |-> Deleted]
<1>1. cursor \in Cursors
  BY DEF StoreOK, Cursors
<1>2. Poke(NoCursor, TRUE, empty, cursor, {}, {}) \in Pokes
  BY <1>1, EmptyPatch, PokeType DEF LmidChanges, Results
<1>3. /\ Deliver(Ready, Poke(NoCursor, TRUE, empty, cursor, {}, {}))
      /\ Snap(cursor, [k \in Keys |-> Deleted])
  BY DEF Reset
<1>4. down' \in [Clients -> Seq(Pokes \cup Errors)]
  BY <1>2, <1>3, DeliverType
<1>5. /\ DOMAIN snaps' \subseteq Cursors
      /\ \A x \in DOMAIN snaps' : snaps'[x] \in Rows
  BY <1>1, <1>3, SnapType DEF Rows, Content
<1>6. rows' \in [Keys -> [val : Content, version : Nat]]
  BY DEF Reset, NoRow, Content
<1>7. lastMutationId' \in [Clients -> Nat]
  BY DEF Reset
<1> QED BY <1>4, <1>5, <1>6, <1>7 DEF Reset, StoreOK, sockets

LEMMA DeployType ==
  ASSUME StoreOK, NEW w \in Patches, Deploy(w)
  PROVE  StoreOK'
<1> DEFINE wrote == Written(w) # {}
           version == IF wrote THEN currentVersion + 1 ELSE currentVersion
<1>1. version \in Nat /\ currentVersion + 1 \in Nat
  BY DEF StoreOK
<1>2. rows' \in [Keys -> [val : Content, version : Nat]]
  <2>1. rows' = Flush(w, currentVersion + 1)
    BY DEF Deploy
  <2> QED BY <1>1, <2>1, FlushType
<1>3. /\ DOMAIN snaps' \subseteq Cursors
      /\ \A x \in DOMAIN snaps' : snaps'[x] \in Rows
  <2>1. CursorAt(version) \in Cursors
    BY <1>1, CursorType
  <2>2. [k \in Keys |-> rows'[k].val] \in Rows
    BY <1>2 DEF Rows
  <2>3. Snap(CursorAt(version), [k \in Keys |-> rows'[k].val])
    BY DEF Deploy
  <2> QED BY <2>1, <2>2, <2>3, SnapType
<1>4. currentVersion' \in Nat /\ minCursorVersion' \in Nat
  BY <1>1 DEF Deploy, StoreOK
<1>5. schemaVersion' \in Nat /\ sess' \in [Clients -> {"none", "open", "ready"}]
  BY DEF Deploy, StoreOK
<1> QED BY <1>2, <1>3, <1>4, <1>5 DEF Deploy, StoreOK

LEMMA CompactType ==
  ASSUME StoreOK, Compact
  PROVE  StoreOK'
<1>1. rows' \in [Keys -> [val : Content, version : Nat]]
  BY DEF Compact, StoreOK, NoRow, Content
<1>2. minCursorVersion' \in Nat
  BY DEF Compact, StoreOK, Tombstones
<1> QED BY <1>1, <1>2 DEF Compact, StoreOK, sockets

\* The actions that only move sockets, queues and the push in progress.
LEMMA SocketType ==
  ASSUME StoreOK, NEW c \in Clients,
         Upgrade(c) \/ CloseSocket(c) \/ PeerGone(c) \/ Read(c)
  PROVE  StoreOK'
<1>1. CASE Upgrade(c)
  BY <1>1 DEF Upgrade, StoreOK, meta, store
<1>2. CASE CloseSocket(c)
  BY <1>2 DEF CloseSocket, StoreOK, meta, store
<1>3. CASE PeerGone(c)
  BY <1>3 DEF PeerGone, StoreOK, meta, store
<1>4. CASE Read(c)
  <2>1. down' \in [Clients -> Seq(Pokes \cup Errors)]
    BY <1>4 DEF Read, StoreOK
  <2> QED BY <1>4, <2>1 DEF Read, StoreOK, meta, store, sockets
<1> QED BY <1>1, <1>2, <1>3, <1>4

\* The actions that answer with an error, and the push in progress with it.
Answers ==
  \E c \in Clients, code \in Codes :
    /\ Deliver({c}, Error(code))
    /\ UNCHANGED <<meta, store, snapshot, sockets, push>>

LEMMA AnswerType ==
  ASSUME StoreOK, Answers
  PROVE  StoreOK'
<1>1. down' \in [Clients -> Seq(Pokes \cup Errors)]
  BY ErrorDelivery DEF Answers
<1> QED BY <1>1 DEF Answers, StoreOK, meta, store, sockets

LEMMA RefusalType ==
  ASSUME StoreOK, (\E c \in Clients : RefuseHello(c)) \/ RejectGap \/ AbortPush
  PROVE  StoreOK'
<1>1. \E code \in Codes, targets \in SUBSET Clients : Deliver(targets, Error(code))
  <2>1. push # Idle => push.client \in Clients
    BY DEF StoreOK, PushesOf
  <2> QED BY <2>1 DEF RefuseHello, RejectGap, AbortPush, Mutating, Codes
<1>2. down' \in [Clients -> Seq(Pokes \cup Errors)]
  BY <1>1, ErrorDelivery
<1>3. sess' \in [Clients -> {"none", "open", "ready"}]
  BY DEF RefuseHello, RejectGap, AbortPush, StoreOK, sockets
<1>4. push' # Idle => push' \in PushesOf({push'.todo})
  <2>1. CASE (\E c \in Clients : RefuseHello(c)) \/ AbortPush
    BY <2>1 DEF RefuseHello, AbortPush, StoreOK
  <2>2. CASE RejectGap
    <3>1. push \in PushesOf({push.todo}) /\ push' = [push EXCEPT !.todo = <<>>]
      BY <2>2 DEF RejectGap, Mutating, StoreOK
    <3> QED BY <3>1 DEF PushesOf
  <2> QED BY <2>1, <2>2
<1>5. UNCHANGED <<meta, store, snapshot, listening>>
  BY DEF RefuseHello, RejectGap, AbortPush, sockets
<1> QED BY <1>2, <1>3, <1>4, <1>5 DEF StoreOK, meta, store

\* The start of a push, whatever it carries, and a duplicate in it.
LEMMA PushType ==
  ASSUME StoreOK, (\E c \in Clients : \E batch : StartPush(c, batch)) \/ SkipDuplicate
  PROVE  StoreOK'
<1>1. push' \in PushesOf({push'.todo})
  <2>1. ASSUME NEW c \in Clients, NEW batch, StartPush(c, batch)
        PROVE  push' \in PushesOf({push'.todo})
    BY <2>1 DEF StartPush, StoreOK, PushesOf, Results
  <2>2. ASSUME SkipDuplicate PROVE push' \in PushesOf({push'.todo})
    <3>1. push \in PushesOf({push.todo}) /\ push' = [push EXCEPT !.todo = Tail(push.todo)]
      BY <2>2 DEF SkipDuplicate, Mutating, StoreOK
    <3> QED BY <3>1 DEF PushesOf
  <2> QED BY <2>1, <2>2
<1> QED BY <1>1 DEF StartPush, SkipDuplicate, StoreOK, meta, store, sockets

-----------------------------------------------------------------------------
(* The steps of the Workspace under any environment *)

\* What the Workspace does whoever its clients are: a hello may carry any cursor, a push
\* anything, and any handler may answer with an error.
AnyStep ==
  \/ Sockets
  \/ \E c \in Clients : RefuseHello(c) \/ \E cursor \in Cursors \cup {NoCursor} : HandleHello(c, cursor)
  \/ Answers
  \/ \E c \in Clients : \E batch : StartPush(c, batch)
  \/ SkipDuplicate \/ RejectGap \/ Succeed \/ Fail \/ AbortPush \/ FinishPush
  \/ Admin
  \/ Instance

LEMMA NextIsAnyStep == Next => AnyStep
<1>1. SomeCursors \subseteq Cursors \cup {NoCursor}
  BY BoundsAssumption DEF SomeCursors, Cursors
<1>2. \A c \in Clients : RefusePush(c) => Answers
  BY DEF RefusePush, Answers, Codes
<1> QED BY <1>1, <1>2 DEF Next, AnyStep, Hello, Push

LEMMA StepStore ==
  ASSUME StoreOK, AnyStep
  PROVE  StoreOK'
<1>1. CASE Sockets
  BY <1>1, SocketType DEF Sockets
<1>2. CASE \E c \in Clients : \/ RefuseHello(c)
                              \/ \E cursor \in Cursors \cup {NoCursor} : HandleHello(c, cursor)
  BY <1>2, RefusalType, HelloType
<1>3. CASE Answers
  BY <1>3, AnswerType
<1>4. CASE (\E c \in Clients : \E batch : StartPush(c, batch)) \/ SkipDuplicate
  BY <1>4, PushType
<1>5. CASE RejectGap \/ AbortPush
  BY <1>5, RefusalType
<1>6. CASE Succeed \/ Fail
  BY <1>6, ApplyType, EmptyPatch DEF Succeed, Fail, WriteSets
<1>7. CASE FinishPush
  BY <1>7, FinishType
<1>8. CASE Admin
  BY <1>8, ResetType, ImportType, ImportExtensionType DEF Admin
<1>9. CASE Instance
  <2>1. CASE Hibernate
    BY <2>1 DEF Hibernate, StoreOK, meta, store, sockets
  <2> QED BY <1>9, <2>1, CompactType, DeployType DEF Instance, WriteSets
<1> QED BY <1>1, <1>2, <1>3, <1>4, <1>5, <1>6, <1>7, <1>8, <1>9 DEF AnyStep

-----------------------------------------------------------------------------
(* The mutation log and the push in progress *)

\* The batches the environment sends are sequences of mutations.
LEMMA BatchType == Batches \subseteq Seq(Mutation)
<1> SUFFICES ASSUME NEW n \in 1..MaxBatch,
                    NEW batch \in [1..n -> [id : 1..MaxId, name : Mutations]]
             PROVE  batch \in Seq(Mutation)
  BY DEF Batches
<1>1. n \in Nat /\ 1..MaxId \subseteq Nat
  BY BoundsAssumption
<1>2. batch \in [1..n -> Mutation]
  BY <1>1 DEF Mutation
<1> QED BY <1>1, <1>2

\* A mutation leaves a typed entry, and the rest of the batch is still one.
LEMMA ApplyLog ==
  ASSUME TypeOK, NEW w, NEW ok \in BOOLEAN, ApplyMutation(w, ok)
  PROVE  mutationLog' \in Seq(LogEntries) /\ push'.todo \in Seq(Mutation)
<1> DEFINE wrote == Written(w) # {}
           version == IF wrote THEN currentVersion + 1 ELSE currentVersion
           entry == [client |-> push.client, id |-> Expected, name |-> NextMutation.name,
                     version |-> IF wrote THEN version ELSE 0, ok |-> ok]
<1>1. push \in Pushes /\ push.todo \in Seq(Mutation) /\ push.todo # <<>>
  BY DEF ApplyMutation, Mutating, TypeOK, Pushes, PushesOf
<1>2. NextMutation \in Mutation /\ Tail(push.todo) \in Seq(Mutation)
  BY <1>1 DEF NextMutation
<1>3. version \in Nat /\ Expected \in Nat
  BY <1>1 DEF TypeOK, StoreOK, Expected, Pushes, PushesOf
<1>4. entry \in LogEntries
  BY <1>1, <1>2, <1>3 DEF LogEntries, Mutation, Pushes, PushesOf
<1>5. mutationLog' = Append(mutationLog, entry)
  BY DEF ApplyMutation
<1>6. push'.todo = Tail(push.todo)
  BY <1>1 DEF ApplyMutation, Pushes, PushesOf
<1> QED BY <1>2, <1>4, <1>5, <1>6 DEF TypeOK

\* The log grows by typed entries or is emptied; the batch is one, or what is left of one.
LEMMA StepLog ==
  ASSUME TypeOK, Next
  PROVE  /\ mutationLog' \in Seq(LogEntries)
         /\ push' # Idle => push'.todo \in Seq(Mutation)
<1>1. push # Idle => push.todo \in Seq(Mutation)
  BY DEF TypeOK, Pushes, PushesOf
<1>2. CASE Succeed \/ Fail
  BY <1>2, ApplyLog DEF Succeed, Fail
<1>3. CASE \E w \in WriteSets : Deploy(w)
  <2>1. PICK w \in WriteSets : Deploy(w)
    BY <1>3
  <2> DEFINE entry == [client |-> System, id |-> 0, name |-> System,
                       version |-> IF Written(w) # {}
                                   THEN IF Written(w) # {} THEN currentVersion + 1
                                        ELSE currentVersion
                                   ELSE 0, ok |-> TRUE]
  <2>2. entry \in LogEntries
    BY DEF LogEntries, TypeOK, StoreOK
  <2>3. mutationLog' = Append(mutationLog, entry) /\ push' = push
    BY <2>1 DEF Deploy
  <2> QED BY <1>1, <2>2, <2>3 DEF TypeOK
<1>4. CASE Reset
  BY <1>1, <1>4 DEF Reset
<1>5. CASE Sockets \/ Hello \/ Compact \/ Hibernate
           \/ \E data \in Rows : Import(data) \/ ImportExtension(data)
  BY <1>1, <1>5 DEF TypeOK, Sockets, Upgrade, CloseSocket, PeerGone, Read, Hello, RefuseHello,
     HandleHello, Compact, Hibernate, Import, ImportExtension, ReplaceRows, store
<1>6. CASE \E c \in Clients : RefusePush(c) \/ \E batch \in Batches : StartPush(c, batch)
  BY <1>1, <1>6, BatchType DEF TypeOK, RefusePush, StartPush, store
<1>7. CASE SkipDuplicate \/ RejectGap
  <2>1. push \in Pushes /\ push.todo # <<>>
    BY <1>7 DEF SkipDuplicate, RejectGap, Mutating, TypeOK
  <2>2. push' = [push EXCEPT !.todo = Tail(push.todo)] \/ push' = [push EXCEPT !.todo = <<>>]
    BY <1>7 DEF SkipDuplicate, RejectGap
  <2>3. push'.todo = Tail(push.todo) \/ push'.todo = <<>>
    BY <2>1, <2>2 DEF Pushes, PushesOf
  <2>4. Tail(push.todo) \in Seq(Mutation) /\ <<>> \in Seq(Mutation)
    BY <2>1 DEF Pushes, PushesOf
  <2>5. push'.todo \in Seq(Mutation)
    BY <2>3, <2>4
  <2>6. mutationLog' = mutationLog
    BY <1>7 DEF SkipDuplicate, RejectGap, store
  <2> QED BY <2>5, <2>6 DEF TypeOK
<1>8. CASE AbortPush \/ FinishPush
  BY <1>8 DEF TypeOK, AbortPush, FinishPush, store
<1> QED BY <1>2, <1>3, <1>4, <1>5, <1>6, <1>7, <1>8 DEF Next, Push, Admin, Instance

LEMMA StepType ==
  ASSUME TypeOK, Next
  PROVE  TypeOK'
<1>1. StoreOK'
  BY NextIsAnyStep, StepStore DEF TypeOK
<1>2. push' \in Pushes \cup {Idle}
  BY <1>1, StepLog DEF StoreOK, Pushes, PushesOf
<1> QED BY <1>1, <1>2, StepLog DEF TypeOK

\* Every variable keeps its type, whatever the clients, keys, bounds and retention are.
THEOREM TypeCorrect == Spec => []TypeOK
<1>1. Init => TypeOK
  BY InitType DEF Init, TypeOK
<1>2. TypeOK /\ UNCHANGED serverVars => TypeOK'
  BY DEF TypeOK, StoreOK, serverVars
<1>3. TypeOK /\ [Next]_serverVars => TypeOK'
  BY <1>2, StepType
<1> QED BY <1>1, <1>3, PTL DEF Spec

-----------------------------------------------------------------------------
(***************************************************************************)
(* Every poke of the Workspace is sound and every accepted cursor can be   *)
(* caught up, for every value of the constants.  The argument is about the *)
(* history snaps: it only grows, so a poke that was sound stays sound, and *)
(* compaction keeps every row and tombstone an acceptable cursor lacks.    *)
(***************************************************************************)

-----------------------------------------------------------------------------
(* The history only grows *)

\* A step keeps what the history says of every cursor it knows.
Grows == \A x \in DOMAIN snaps : x \in DOMAIN snaps' /\ snaps'[x] = snaps[x]

\* Recording a cursor that is new, or what is known of it already, keeps the rest.
LEMMA SnapGrows ==
  ASSUME NEW cursor, NEW data, Snap(cursor, data),
         cursor \in DOMAIN snaps => snaps[cursor] = data
  PROVE  /\ Grows
         /\ cursor \in DOMAIN snaps' /\ snaps'[cursor] = data
         /\ DOMAIN snaps' = DOMAIN snaps \cup {cursor}
BY DEF Snap, Grows

LEMMA SoundGrows ==
  ASSUME Grows, NEW poke, SoundIn(snaps, poke)
  PROVE  SoundIn(snaps', poke)
BY DEF Grows, SoundIn

\* Frames already queued stay sound, so only the delivered one has to be shown sound.
LEMMA DeliverSound ==
  ASSUME StoreOK, PokesSound, Grows, NEW targets, NEW frame, Deliver(targets, frame),
         frame.type = "poke" => SoundIn(snaps', frame)
  PROVE  PokesSound'
<1> SUFFICES ASSUME NEW c \in Clients, NEW i \in 1..Len(down'[c]), down'[c][i].type = "poke"
             PROVE  SoundIn(snaps', down'[c][i])
  BY DEF PokesSound
<1>1. down[c] \in Seq(Pokes \cup Errors)
  BY DEF StoreOK
<1>2. down'[c] = Append(down[c], frame) \/ down'[c] = down[c]
  BY DEF Deliver
<1>3. CASE i \in 1..Len(down[c]) /\ down'[c][i] = down[c][i]
  <2>1. SoundIn(snaps, down[c][i])
    BY <1>3 DEF PokesSound
  <2> QED BY <1>3, <2>1, SoundGrows
<1>4. CASE down'[c][i] = frame
  BY <1>4
<1>5. \/ i \in 1..Len(down[c]) /\ down'[c][i] = down[c][i]
      \/ down'[c][i] = frame
  BY <1>1, <1>2
<1> QED BY <1>3, <1>4, <1>5

\* Frames may be read and queues cleared.
LEMMA ReadSound ==
  ASSUME StoreOK, PokesSound, Grows, NEW c \in Clients,
         down' = [down EXCEPT ![c] = <<>>]
         \/ (down[c] # <<>> /\ down' = [down EXCEPT ![c] = Tail(@)])
         \/ down' = down
  PROVE  PokesSound'
<1> SUFFICES ASSUME NEW d \in Clients, NEW i \in 1..Len(down'[d]), down'[d][i].type = "poke"
             PROVE  SoundIn(snaps', down'[d][i])
  BY DEF PokesSound
<1>1. down[d] \in Seq(Pokes \cup Errors)
  BY DEF StoreOK
<1>2. down'[d] = <<>> \/ (down[d] # <<>> /\ down'[d] = Tail(down[d])) \/ down'[d] = down[d]
  BY DEF StoreOK
<1>3. \E j \in 1..Len(down[d]) : down'[d][i] = down[d][j]
  <2>1. CASE down'[d] = Tail(down[d]) /\ down[d] # <<>>
    <3>1. i + 1 \in 1..Len(down[d]) /\ down'[d][i] = down[d][i + 1]
      BY <1>1, <2>1
    <3> QED BY <3>1
  <2>2. CASE down'[d] = down[d]
    BY <2>2
  <2>3. CASE down'[d] = <<>>
    BY <2>3
  <2> QED BY <1>2, <2>1, <2>2, <2>3
<1>4. PICK j \in 1..Len(down[d]) : down'[d][i] = down[d][j]
  BY <1>3
<1>5. SoundIn(snaps, down[d][j])
  BY <1>4 DEF PokesSound
<1> QED BY <1>4, <1>5, SoundGrows

-----------------------------------------------------------------------------
(* What the invariant says of the current rows and of the patches *)

\* The history at the current cursor is the live rows.
LEMMA HistoryIsLive ==
  ASSUME StoreOK, HistoryInv
  PROVE  Cursor \in DOMAIN snaps /\ snaps[Cursor] = Live
<1>1. Cursor = CursorAt(currentVersion)
  BY DEF Cursor, CursorAt
<1>2. Cursor \in DOMAIN snaps
  BY <1>1 DEF HistoryInv, Recorded, StoreOK
<1>3. \A k \in Keys : snaps[Cursor][k] = rows[k].val
  BY <1>1 DEF HistoryInv, Kept, Stamped, StoreOK
<1>4. snaps[Cursor] \in Rows
  BY <1>2 DEF StoreOK
<1> QED BY <1>2, <1>3, <1>4 DEF Live, Rows

\* An acceptable cursor is led to the live rows by the rows newer than it.
LEMMA CatchUp ==
  ASSUME StoreOK, HistoryInv, NEW v \in minCursorVersion..currentVersion
  PROVE  /\ CursorAt(v) \in DOMAIN snaps
         /\ Patched(snaps[CursorAt(v)], FALSE, PatchSince(v)) = Live
<1>1. CursorAt(v) \in DOMAIN snaps
  BY DEF HistoryInv, Recorded, StoreOK
<1>2. \A k \in Keys : rows[k].version \in Nat
  BY DEF StoreOK
<1>3. \A k \in Keys :
        (IF k \in DOMAIN PatchSince(v) THEN PatchSince(v)[k] ELSE snaps[CursorAt(v)][k])
          = rows[k].val
  BY <1>2 DEF PatchSince, HistoryInv, Kept, StoreOK
<1> QED BY <1>1, <1>3 DEF Patched, Live

\* A bootstrap takes anything to the live rows, from the cache or from the tables.
LEMMA BootstrapSound ==
  ASSUME StoreOK, HistoryInv, NEW data \in Rows
  PROVE  Patched(data, TRUE, BootstrapPatch) = Live
<1>1. CASE SnapshotIsCurrent
  <2>1. Patched(data, TRUE, snapshot.patch) = snaps[snapshot.cursor]
    BY <1>1 DEF SnapshotIsCurrent, HistoryInv, CacheSound
  <2> QED BY <1>1, <2>1, HistoryIsLive DEF SnapshotIsCurrent, BootstrapPatch
<1>2. CASE ~SnapshotIsCurrent
  BY <1>2 DEF BootstrapPatch, LivePatch, LiveKeys, Patched, Live
<1> QED BY <1>1, <1>2

-----------------------------------------------------------------------------
(* The invariant holds initially and every action preserves it *)

LEMMA InitHistory == Init => HistoryInv
<1> SUFFICES ASSUME Init PROVE HistoryInv
  OBVIOUS
<1>1. Recorded
  BY DEF Init, Recorded, CursorAt
<1>2. Stamped /\ PushAnchored /\ CacheSound
  BY DEF Init, Stamped, NoRow, PushAnchored, CacheSound
<1>3. Kept
  BY DEF Init, Kept, NoRow, CursorAt
<1>4. PokesSound
  BY DEF Init, PokesSound
<1> QED BY <1>1, <1>2, <1>3, <1>4 DEF HistoryInv

\* A step that leaves the rows alone has only the queue and the push in progress to answer for.
LEMMA QuietStep ==
  ASSUME HistoryInv, UNCHANGED <<rows, backendId, currentVersion, minCursorVersion, snaps>>,
         snapshot' \in {snapshot, NoSnapshot}, PushAnchored', PokesSound'
  PROVE  HistoryInv'
<1>1. Recorded' /\ Stamped' /\ Kept'
  BY DEF HistoryInv, Recorded, Stamped, Kept, CursorAt
<1>2. CacheSound'
  BY DEF HistoryInv, CacheSound, Patched
<1> QED BY <1>1, <1>2 DEF HistoryInv

\* Flushing a write set under the next version, the minimum cursor kept or raised to it.
LEMMA WriteStep ==
  ASSUME StoreOK, HistoryInv, NEW w \in Patches,
         rows' = Flush(w, currentVersion + 1),
         currentVersion' = IF Written(w) # {} THEN currentVersion + 1 ELSE currentVersion,
         backendId' = backendId,
         minCursorVersion' \in {minCursorVersion, currentVersion'},
         Snap(CursorAt(currentVersion'), [k \in Keys |-> rows'[k].val])
  PROVE  Grows /\ Recorded' /\ Stamped' /\ Kept'
<1> DEFINE data == [k \in Keys |-> rows'[k].val]
           cursor == CursorAt(currentVersion')
<1>1. CASE Written(w) = {}
  <2>1. rows' = rows
    BY <1>1 DEF Flush, StoreOK
  <2>2. currentVersion' = currentVersion
    BY <1>1
  <2>3. cursor = Cursor /\ data = Live
    BY <2>1, <2>2 DEF Cursor, CursorAt, Live
  <2>4. Grows /\ DOMAIN snaps' = DOMAIN snaps
    <3>1. cursor \in DOMAIN snaps /\ snaps[cursor] = data
      BY <2>3, HistoryIsLive
    <3>2. /\ Grows
          /\ DOMAIN snaps' = DOMAIN snaps \cup {cursor}
      BY <3>1, SnapGrows
    <3> QED BY <3>1, <3>2
  <2>5. Recorded' /\ Stamped'
    BY <2>1, <2>2, <2>4 DEF HistoryInv, Recorded, Stamped, CursorAt
  <2>6. minCursorVersion' \in minCursorVersion..currentVersion
    BY <2>2 DEF HistoryInv, Kept, StoreOK
  <2>7. \A v \in minCursorVersion..currentVersion : snaps'[CursorAt(v)] = snaps[CursorAt(v)]
    BY <2>4 DEF Grows, HistoryInv, Recorded, StoreOK
  <2>8. \A v \in minCursorVersion'..currentVersion' : v \in minCursorVersion..currentVersion
    BY <2>2, <2>6 DEF StoreOK
  <2>9. Kept'
    <3>1. \A v : CursorAt(v)' = CursorAt(v)
      BY DEF CursorAt
    <3>2. minCursorVersion' <= currentVersion'
      BY <2>2, <2>6 DEF StoreOK
    <3> QED BY <2>1, <2>7, <2>8, <3>1, <3>2 DEF HistoryInv, Kept
  <2> QED BY <2>4, <2>5, <2>9
<1>2. CASE Written(w) # {}
  <2>1. currentVersion' = currentVersion + 1
    BY <1>2
  <2>2. cursor \notin DOMAIN snaps
    BY <2>1 DEF CursorAt, HistoryInv, Recorded, StoreOK
  <2>3. /\ Grows
        /\ cursor \in DOMAIN snaps' /\ snaps'[cursor] = data
        /\ DOMAIN snaps' = DOMAIN snaps \cup {cursor}
    BY <2>2, SnapGrows
  <2>4. \A v \in 0..currentVersion' : v \in 0..currentVersion \/ v = currentVersion'
    BY <2>1 DEF StoreOK
  <2>5. Recorded'
    <3>1. \A v \in 0..currentVersion' : CursorAt(v)' \in DOMAIN snaps'
      BY <2>3, <2>4 DEF HistoryInv, Recorded, CursorAt
    <3>2. \A x \in DOMAIN snaps' : /\ x.backendId <= backendId'
                                   /\ x.backendId = backendId' => x.version <= currentVersion'
      <4>1. cursor.backendId <= backendId' /\ cursor.version <= currentVersion'
        BY <2>1 DEF CursorAt, StoreOK
      <4>2. \A x \in DOMAIN snaps :
              /\ x.backendId <= backendId'
              /\ x.backendId = backendId' => x.version <= currentVersion'
        BY <2>1 DEF HistoryInv, Recorded, StoreOK, Cursors
      <4> QED BY <2>3, <4>1, <4>2
    <3> QED BY <3>1, <3>2 DEF Recorded
  <2>6. \A k \in Keys : \/ k \in Written(w) /\ rows'[k].version = currentVersion'
                        \/ rows'[k] = rows[k]
    BY <2>1 DEF Flush
  <2>7. Stamped'
    <3>1. ASSUME NEW k \in Keys
          PROVE  /\ rows'[k].version <= currentVersion'
                 /\ rows'[k].version = 0 => rows'[k].val = Deleted
      <4>1. rows[k].version \in Nat /\ currentVersion \in Nat
        BY DEF StoreOK
      <4>2. /\ rows[k].version <= currentVersion
            /\ rows[k].version = 0 => rows[k].val = Deleted
        BY DEF HistoryInv, Stamped
      <4> QED BY <2>1, <2>6, <4>1, <4>2
    <3> QED BY <3>1 DEF Stamped
  <2>8. ASSUME NEW v \in minCursorVersion'..currentVersion', NEW k \in Keys,
               rows'[k].version <= v
        PROVE  snaps'[CursorAt(v)'][k] = rows'[k].val
    <3>1. CASE v = currentVersion'
      BY <2>3, <3>1 DEF CursorAt
    <3>2. CASE v # currentVersion'
      <4>1. v \in minCursorVersion..currentVersion /\ v < currentVersion'
        BY <2>1, <3>2 DEF StoreOK, HistoryInv, Kept
      <4>2. rows'[k] = rows[k]
        BY <2>6, <2>8, <4>1, <2>1 DEF StoreOK
      <4>3. snaps[CursorAt(v)][k] = rows[k].val
        BY <2>8, <4>1, <4>2 DEF HistoryInv, Kept
      <4>4. CursorAt(v) \in DOMAIN snaps
        BY <4>1, CatchUp
      <4> QED BY <2>3, <4>2, <4>3, <4>4 DEF Grows, CursorAt
    <3> QED BY <3>1, <3>2
  <2>9. minCursorVersion' <= currentVersion'
    BY <2>1 DEF HistoryInv, Kept, StoreOK
  <2> QED BY <2>3, <2>5, <2>7, <2>8, <2>9 DEF Kept
<1> QED BY <1>1, <1>2

LEMMA HelloHistory ==
  ASSUME StoreOK, HistoryInv, NEW c \in Clients, NEW cursor \in Cursors \cup {NoCursor},
         HandleHello(c, cursor)
  PROVE  HistoryInv'
<1> DEFINE lmids == {[client |-> c, lmid |-> lastMutationId[c]]}
           catchUp == Poke(cursor, FALSE, PatchSince(cursor.version), Cursor, lmids, {})
           bootstrap == Poke(NoCursor, TRUE, BootstrapPatch, Cursor, lmids, {})
<1>1. UNCHANGED <<rows, backendId, currentVersion, minCursorVersion, snaps, push>>
  BY DEF HandleHello, meta
<1>2. Grows
  BY <1>1 DEF Grows
<1>3. PushAnchored'
  BY <1>1 DEF HistoryInv, PushAnchored
<1>4. CASE CursorValid(cursor) /\ cursor \in Cursors
  <2>1. cursor.version \in minCursorVersion..currentVersion
    BY <1>4 DEF CursorValid, StoreOK, Cursors
  <2>2. cursor = CursorAt(cursor.version)
    BY <1>4 DEF CursorValid, CursorAt, Cursors
  <2>3. SoundIn(snaps', catchUp)
    BY <1>1, <2>1, <2>2, CatchUp, HistoryIsLive DEF SoundIn, Poke
  <2>4. Deliver({c}, catchUp) /\ snapshot' = snapshot
    BY <1>4 DEF HandleHello
  <2>5. PokesSound'
    BY <1>2, <2>3, <2>4, DeliverSound DEF HistoryInv
  <2> QED BY <1>1, <1>3, <2>4, <2>5, QuietStep
<1>5. CASE ~CursorValid(cursor)
  <2>1. SoundIn(snaps', bootstrap)
    BY <1>1, BootstrapSound, HistoryIsLive DEF SoundIn, Poke
  <2>2. Deliver({c}, bootstrap) /\ CacheBootstrap
    BY <1>5 DEF HandleHello
  <2>3. PokesSound'
    BY <1>2, <2>1, <2>2, DeliverSound DEF HistoryInv
  <2>4. CacheSound'
    <3>1. snapshot' = [cursor |-> Cursor, patch |-> BootstrapPatch]
      BY <2>2 DEF CacheBootstrap
    <3> QED BY <1>1, <3>1, BootstrapSound, HistoryIsLive DEF CacheSound, Patched
  <2>5. Recorded' /\ Stamped' /\ Kept'
    BY <1>1 DEF HistoryInv, Recorded, Stamped, Kept, CursorAt
  <2> QED BY <1>3, <2>3, <2>4, <2>5 DEF HistoryInv
<1> QED BY <1>4, <1>5 DEF CursorValid

LEMMA FinishHistory ==
  ASSUME StoreOK, HistoryInv, FinishPush
  PROVE  HistoryInv'
<1> DEFINE lmids == {[client |-> push.client, lmid |-> push.lmid]}
           empty == [k \in {} |-> Deleted]
           patch == PatchSince(push.startVersion)
           again == Poke(Cursor, FALSE, empty, Cursor, lmids, {})
           advance == Poke(CursorAt(push.startVersion), FALSE, patch, Cursor, lmids, push.results)
<1>1. UNCHANGED <<rows, backendId, currentVersion, minCursorVersion, snaps, snapshot>>
  BY DEF FinishPush, meta, store
<1>2. Grows
  BY <1>1 DEF Grows
<1>3. push.startVersion \in minCursorVersion..currentVersion
  BY DEF FinishPush, HistoryInv, PushAnchored
<1>4. SoundIn(snaps', again)
  <2>1. Patched(Live, FALSE, empty) = Live
    BY DEF Patched, Live
  <2> QED BY <1>1, <2>1, HistoryIsLive DEF SoundIn, Poke
<1>5. SoundIn(snaps', advance)
  BY <1>1, <1>3, CatchUp, HistoryIsLive DEF SoundIn, Poke
<1>6. \/ Deliver({push.client}, again)
      \/ Deliver(IF DOMAIN patch # {} THEN Ready ELSE {push.client}, advance)
  BY DEF FinishPush
<1>7. PokesSound'
  BY <1>2, <1>4, <1>5, <1>6, DeliverSound DEF HistoryInv
<1>8. PushAnchored'
  BY DEF FinishPush, PushAnchored
<1> QED BY <1>1, <1>7, <1>8, QuietStep

\* The actions that answer with an error or with nothing, and leave the rows alone.
LEMMA QuietHistory ==
  ASSUME StoreOK, HistoryInv,
         \/ \E c \in Clients : \/ Upgrade(c) \/ CloseSocket(c) \/ PeerGone(c) \/ Read(c)
                               \/ RefuseHello(c)
                               \/ \E batch : StartPush(c, batch)
         \/ Answers \/ SkipDuplicate \/ RejectGap \/ AbortPush \/ Hibernate
  PROVE  HistoryInv'
<1>1. /\ UNCHANGED <<rows, backendId, currentVersion, minCursorVersion, snaps>>
      /\ snapshot' \in {snapshot, NoSnapshot}
  BY DEF Upgrade, CloseSocket, PeerGone, Read, RefuseHello, Answers, StartPush,
         SkipDuplicate, RejectGap, AbortPush, Hibernate, meta, store
<1>2. Grows
  BY <1>1 DEF Grows
<1>3. PushAnchored'
  <2>1. CASE push' \in {push, Idle}
    BY <1>1, <2>1 DEF HistoryInv, PushAnchored
  <2>2. CASE \E c \in Clients : \E batch : StartPush(c, batch)
    BY <1>1, <2>2 DEF StartPush, HistoryInv, PushAnchored, Kept, StoreOK
  <2>3. CASE SkipDuplicate \/ RejectGap
    <3>1. push \in PushesOf({push.todo}) /\ push # Idle
      BY <2>3 DEF SkipDuplicate, RejectGap, Mutating, StoreOK
    <3>2. push'.startVersion = push.startVersion
      BY <2>3, <3>1 DEF SkipDuplicate, RejectGap, PushesOf
    <3> QED BY <1>1, <3>1, <3>2 DEF HistoryInv, PushAnchored
  <2> QED BY <2>1, <2>2, <2>3 DEF Upgrade, CloseSocket, PeerGone, Read, RefuseHello,
         Answers, AbortPush, Hibernate
<1>4. PokesSound'
  <2>1. CASE \E targets, code : Deliver(targets, Error(code))
    <3>1. \A code : Error(code).type # "poke"
      BY DEF Error
    <3> QED BY <1>2, <2>1, <3>1, DeliverSound DEF HistoryInv
  <2>2. CASE \E c \in Clients : \/ down' = [down EXCEPT ![c] = <<>>]
                                \/ (down[c] # <<>> /\ down' = [down EXCEPT ![c] = Tail(@)])
                                \/ down' = down
    BY <1>2, <2>2, ReadSound DEF HistoryInv
  <2>3. CASE down' = down
    BY <1>1, <2>3 DEF HistoryInv, PokesSound, SoundIn
  <2> QED BY <2>1, <2>2, <2>3 DEF Upgrade, CloseSocket, PeerGone, Read, RefuseHello, Answers,
         StartPush, SkipDuplicate, RejectGap, AbortPush, Hibernate
<1> QED BY <1>1, <1>3, <1>4, QuietStep

LEMMA ApplyHistory ==
  ASSUME StoreOK, HistoryInv, NEW w \in Patches, NEW ok \in BOOLEAN, ApplyMutation(w, ok)
  PROVE  HistoryInv'
<1>1. /\ rows' = Flush(w, currentVersion + 1)
      /\ currentVersion' = IF Written(w) # {} THEN currentVersion + 1 ELSE currentVersion
      /\ Snap(CursorAt(currentVersion'), [k \in Keys |-> rows'[k].val])
      /\ UNCHANGED <<backendId, minCursorVersion, down>>
      /\ snapshot' \in {snapshot, NoSnapshot}
  BY DEF ApplyMutation
<1>2. Grows /\ Recorded' /\ Stamped' /\ Kept'
  BY <1>1, WriteStep
<1>3. CacheSound'
  BY <1>1, <1>2 DEF HistoryInv, CacheSound, Grows, Patched
<1>4. PushAnchored'
  <2>1. push \in PushesOf({push.todo}) /\ push # Idle
    BY DEF ApplyMutation, Mutating, StoreOK
  <2>2. push'.startVersion = push.startVersion
    BY <2>1 DEF ApplyMutation, PushesOf
  <2>3. currentVersion <= currentVersion' /\ currentVersion' \in Nat
    BY <1>1 DEF StoreOK
  <2> QED BY <1>1, <2>1, <2>2, <2>3 DEF HistoryInv, PushAnchored, StoreOK
<1>5. PokesSound'
  <2>1. ASSUME NEW c \in Clients, NEW i \in 1..Len(down[c]), down[c][i].type = "poke"
        PROVE  SoundIn(snaps', down[c][i])
    BY <1>2, <2>1, SoundGrows DEF HistoryInv, PokesSound
  <2> QED BY <1>1, <2>1 DEF PokesSound
<1> QED BY <1>2, <1>3, <1>4, <1>5 DEF HistoryInv

\* Compaction drops a tombstone only when every acceptable cursor has seen it.
LEMMA CompactHistory ==
  ASSUME StoreOK, HistoryInv, Compact
  PROVE  HistoryInv'
<1> DEFINE gone == Tombstones(currentVersion - Retention)
<1>1. /\ UNCHANGED <<backendId, currentVersion, snaps, snapshot, push, down>>
      /\ push = Idle
      /\ rows' = [k \in Keys |-> IF k \in gone THEN NoRow ELSE rows[k]]
  BY DEF Compact
<1>2. /\ minCursorVersion' \in minCursorVersion..currentVersion
      /\ \A k \in gone : rows[k].version <= minCursorVersion'
  <2>1. PICK k \in gone :
          /\ \A j \in gone : rows[j].version <= rows[k].version
          /\ minCursorVersion' = IF rows[k].version > minCursorVersion
                                 THEN rows[k].version ELSE minCursorVersion
    BY DEF Compact
  <2>2. \A j \in Keys : rows[j].version \in Nat /\ rows[j].version <= currentVersion
    BY DEF HistoryInv, Stamped, StoreOK
  <2>3. gone \subseteq Keys
    BY DEF Tombstones
  <2> QED BY <2>1, <2>2, <2>3 DEF HistoryInv, Kept, StoreOK
<1>3. Recorded'
  BY <1>1 DEF HistoryInv, Recorded, CursorAt
<1>4. Stamped'
  BY <1>1 DEF HistoryInv, Stamped, NoRow, StoreOK
<1>5. Kept'
  <2>1. ASSUME NEW v \in minCursorVersion'..currentVersion', NEW k \in Keys,
               rows'[k].version <= v
        PROVE  snaps'[CursorAt(v)'][k] = rows'[k].val
    <3>1. v \in minCursorVersion..currentVersion /\ minCursorVersion' <= v
      BY <1>1, <1>2 DEF StoreOK
    <3>2. snaps'[CursorAt(v)'] = snaps[CursorAt(v)]
      BY <1>1 DEF CursorAt
    <3>3. rows[k].version <= v
      <4>1. rows[k].version \in Nat
        BY DEF StoreOK
      <4> QED BY <1>1, <1>2, <2>1, <3>1, <4>1 DEF StoreOK
    <3>4. snaps[CursorAt(v)][k] = rows[k].val
      BY <3>1, <3>3 DEF HistoryInv, Kept
    <3>5. rows'[k].val = rows[k].val
      BY <1>1 DEF Tombstones, NoRow
    <3> QED BY <3>2, <3>4, <3>5
  <2>2. minCursorVersion' <= currentVersion'
    BY <1>1, <1>2 DEF StoreOK
  <2> QED BY <2>1, <2>2 DEF Kept
<1>6. CacheSound' /\ PushAnchored' /\ PokesSound'
  BY <1>1 DEF HistoryInv, CacheSound, Patched, PushAnchored, PokesSound, SoundIn
<1> QED BY <1>3, <1>4, <1>5, <1>6 DEF HistoryInv

\* Replacing every row leaves the new version as the only acceptable one.
LEMMA ReplaceHistory ==
  ASSUME StoreOK, HistoryInv, NEW data \in Rows, ReplaceRows(data), backendId' = backendId
  PROVE  /\ Grows /\ Recorded' /\ Stamped' /\ Kept'
         /\ CursorAt(currentVersion + 1) \in DOMAIN snaps'
         /\ snaps'[CursorAt(currentVersion + 1)] = data
<1> DEFINE cursor == CursorAt(currentVersion + 1)
<1>1. /\ currentVersion' = currentVersion + 1
      /\ minCursorVersion' = currentVersion + 1
      /\ rows' = [k \in Keys |-> IF data[k] = Deleted THEN NoRow
                                 ELSE [val |-> data[k], version |-> currentVersion + 1]]
      /\ Snap(cursor, data)
  BY DEF ReplaceRows
<1>2. cursor \notin DOMAIN snaps
  BY DEF CursorAt, HistoryInv, Recorded, StoreOK
<1>3. /\ Grows
      /\ cursor \in DOMAIN snaps' /\ snaps'[cursor] = data
      /\ DOMAIN snaps' = DOMAIN snaps \cup {cursor}
  BY <1>1, <1>2, SnapGrows
<1>4. Recorded'
  <2>1. \A v \in 0..currentVersion' : v \in 0..currentVersion \/ v = currentVersion'
    BY <1>1 DEF StoreOK
  <2>2. \A v \in 0..currentVersion' : CursorAt(v)' \in DOMAIN snaps'
    BY <1>1, <1>3, <2>1 DEF HistoryInv, Recorded, CursorAt
  <2>3. cursor.backendId <= backendId' /\ cursor.version <= currentVersion'
    BY <1>1 DEF CursorAt, StoreOK
  <2>4. \A x \in DOMAIN snaps :
          /\ x.backendId <= backendId'
          /\ x.backendId = backendId' => x.version <= currentVersion'
    BY <1>1 DEF HistoryInv, Recorded, StoreOK, Cursors
  <2> QED BY <1>3, <2>2, <2>3, <2>4 DEF Recorded
<1>5. Stamped'
  BY <1>1 DEF Stamped, NoRow, StoreOK
<1>6. Kept'
  <2>1. \A k \in Keys : rows'[k].val = data[k]
    BY <1>1 DEF NoRow
  <2>2. minCursorVersion'..currentVersion' = {currentVersion + 1}
    BY <1>1 DEF StoreOK
  <2> QED BY <1>1, <1>3, <2>1, <2>2 DEF Kept, CursorAt, StoreOK
<1> QED BY <1>3, <1>4, <1>5, <1>6

LEMMA ImportHistory ==
  ASSUME StoreOK, HistoryInv, NEW data \in Rows, Import(data) \/ ImportExtension(data)
  PROVE  HistoryInv'
<1> DEFINE cursor == CursorAt(currentVersion + 1)
           patch == [k \in {k \in Keys : data[k] # Deleted} |-> data[k]]
           frame == Poke(NoCursor, TRUE, patch, cursor, {}, {})
<1>1. ReplaceRows(data) /\ backendId' = backendId /\ push' = Idle
  BY DEF Import, ImportExtension, ReplaceRows
<1>2. /\ Grows /\ Recorded' /\ Stamped' /\ Kept'
      /\ cursor \in DOMAIN snaps' /\ snaps'[cursor] = data
  BY <1>1, ReplaceHistory
<1>3. PushAnchored'
  BY <1>1 DEF PushAnchored
<1>4. \A old \in Rows : Patched(old, TRUE, patch) = data
  BY DEF Patched, Rows
<1>5. CASE Import(data)
  <2>1. snapshot' = [cursor |-> cursor, patch |-> patch] /\ Deliver(Ready, frame)
    BY <1>5 DEF Import
  <2>2. CacheSound'
    BY <1>2, <1>4, <2>1 DEF CacheSound, Patched
  <2>3. SoundIn(snaps', frame)
    BY <1>2, <1>4 DEF SoundIn, Poke
  <2>4. PokesSound'
    BY <1>2, <2>1, <2>3, DeliverSound DEF HistoryInv
  <2> QED BY <1>2, <1>3, <2>2, <2>4 DEF HistoryInv
<1>6. CASE ImportExtension(data)
  <2>1. snapshot' = NoSnapshot /\ down' = down
    BY <1>6 DEF ImportExtension
  <2>2. PokesSound'
    BY <1>2, <2>1, SoundGrows DEF HistoryInv, PokesSound
  <2> QED BY <1>2, <1>3, <2>1, <2>2 DEF HistoryInv, CacheSound
<1> QED BY <1>5, <1>6

\* A reset opens a history no cursor of which was ever given out.
LEMMA ResetHistory ==
  ASSUME StoreOK, HistoryInv, Reset
  PROVE  HistoryInv'
<1> DEFINE cursor == [backendId |-> backendId + 1, version |-> 0]
           none == [k \in Keys |-> Deleted]
           frame == Poke(NoCursor, TRUE, [k \in {} |-> Deleted], cursor, {}, {})
<1>1. /\ rows' = [k \in Keys |-> NoRow]
      /\ backendId' = backendId + 1 /\ currentVersion' = 0 /\ minCursorVersion' = 0
      /\ snapshot' = NoSnapshot /\ push' = Idle
      /\ Snap(cursor, none) /\ Deliver(Ready, frame)
  BY DEF Reset
<1>2. cursor \notin DOMAIN snaps
  BY DEF HistoryInv, Recorded, StoreOK
<1>3. /\ Grows
      /\ cursor \in DOMAIN snaps' /\ snaps'[cursor] = none
      /\ DOMAIN snaps' = DOMAIN snaps \cup {cursor}
  BY <1>1, <1>2, SnapGrows
<1>4. CursorAt(0)' = cursor
  BY <1>1 DEF CursorAt
<1>5. Recorded'
  <2>1. \A x \in DOMAIN snaps : x.backendId <= backendId' /\ x.backendId # backendId'
    BY <1>1 DEF HistoryInv, Recorded, StoreOK, Cursors
  <2>2. \A v \in 0..currentVersion' : v = 0
    BY <1>1
  <2>3. \A v \in 0..currentVersion' : CursorAt(v)' \in DOMAIN snaps'
    BY <1>3, <1>4, <2>2
  <2>4. /\ cursor.backendId <= backendId'
        /\ cursor.version <= currentVersion'
    BY <1>1 DEF StoreOK
  <2> QED BY <1>3, <2>1, <2>3, <2>4 DEF Recorded
<1>6. Stamped' /\ CacheSound' /\ PushAnchored'
  BY <1>1 DEF Stamped, NoRow, CacheSound, PushAnchored
<1>7. Kept'
  <2>1. \A v \in minCursorVersion'..currentVersion' : v = 0
    BY <1>1
  <2> QED BY <1>1, <1>3, <1>4, <2>1 DEF Kept, NoRow
<1>8. PokesSound'
  <2>1. \A data \in Rows : Patched(data, TRUE, [k \in {} |-> Deleted]) = none
    BY DEF Patched
  <2>2. SoundIn(snaps', frame)
    BY <1>3, <2>1 DEF SoundIn, Poke
  <2> QED BY <1>1, <1>3, <2>2, DeliverSound DEF HistoryInv
<1> QED BY <1>5, <1>6, <1>7, <1>8 DEF HistoryInv

LEMMA DeployHistory ==
  ASSUME StoreOK, HistoryInv, NEW w \in Patches, Deploy(w)
  PROVE  HistoryInv'
<1>1. /\ rows' = Flush(w, currentVersion + 1)
      /\ currentVersion' = IF Written(w) # {} THEN currentVersion + 1 ELSE currentVersion
      /\ minCursorVersion' \in {minCursorVersion, currentVersion'}
      /\ Snap(CursorAt(currentVersion'), [k \in Keys |-> rows'[k].val])
      /\ backendId' = backendId
      /\ snapshot' = NoSnapshot /\ push' = Idle /\ down' = down
  BY DEF Deploy
<1>2. Grows /\ Recorded' /\ Stamped' /\ Kept'
  BY <1>1, WriteStep
<1>3. PokesSound'
  BY <1>1, <1>2, SoundGrows DEF HistoryInv, PokesSound
<1> QED BY <1>1, <1>2, <1>3 DEF HistoryInv, CacheSound, PushAnchored

LEMMA StepHistory ==
  ASSUME StoreOK, HistoryInv, AnyStep
  PROVE  HistoryInv'
<1>1. CASE Sockets
  BY <1>1, QuietHistory DEF Sockets
<1>2. CASE \E c \in Clients : \/ RefuseHello(c)
                              \/ \E cursor \in Cursors \cup {NoCursor} : HandleHello(c, cursor)
  BY <1>2, QuietHistory, HelloHistory
<1>3. CASE \/ Answers
           \/ \E c \in Clients : \E batch : StartPush(c, batch)
           \/ SkipDuplicate \/ RejectGap \/ AbortPush
  BY <1>3, QuietHistory
<1>4. CASE Succeed \/ Fail
  BY <1>4, ApplyHistory, EmptyPatch DEF Succeed, Fail, WriteSets
<1>5. CASE FinishPush
  BY <1>5, FinishHistory
<1>6. CASE Admin
  BY <1>6, ResetHistory, ImportHistory DEF Admin
<1>7. CASE Instance
  BY <1>7, QuietHistory, CompactHistory, DeployHistory DEF Instance, WriteSets
<1> QED BY <1>1, <1>2, <1>3, <1>4, <1>5, <1>6, <1>7 DEF AnyStep

\* No step changes what the history says of a cursor it knows.
LEMMA StepGrows ==
  ASSUME StoreOK, HistoryInv, AnyStep
  PROVE  Grows
<1>1. CASE snaps' = snaps
  BY <1>1 DEF Grows
<1>2. CASE \E w \in Patches : \/ \E ok \in BOOLEAN : ApplyMutation(w, ok)
                              \/ Deploy(w)
  <2>1. PICK w \in Patches :
          /\ rows' = Flush(w, currentVersion + 1)
          /\ currentVersion' = IF Written(w) # {} THEN currentVersion + 1 ELSE currentVersion
          /\ Snap(CursorAt(currentVersion'), [k \in Keys |-> rows'[k].val])
          /\ backendId' = backendId
          /\ minCursorVersion' \in {minCursorVersion, currentVersion'}
    BY <1>2 DEF ApplyMutation, Deploy
  <2> QED BY <2>1, WriteStep
<1>3. CASE \E data \in Rows : Import(data) \/ ImportExtension(data)
  <2>1. PICK data \in Rows : ReplaceRows(data) /\ backendId' = backendId
    BY <1>3 DEF Import, ImportExtension
  <2> QED BY <2>1, ReplaceHistory
<1>4. CASE Reset
  <2> DEFINE cursor == [backendId |-> backendId + 1, version |-> 0]
  <2>1. Snap(cursor, [k \in Keys |-> Deleted])
    BY <1>4 DEF Reset
  <2>2. cursor \notin DOMAIN snaps
    BY DEF HistoryInv, Recorded, StoreOK
  <2> QED BY <2>1, <2>2, SnapGrows
<1>5. \/ snaps' = snaps
      \/ \E w \in Patches : (\E ok \in BOOLEAN : ApplyMutation(w, ok)) \/ Deploy(w)
      \/ \E data \in Rows : Import(data) \/ ImportExtension(data)
      \/ Reset
  <2>1. Succeed \/ Fail => \E w \in Patches, ok \in BOOLEAN : ApplyMutation(w, ok)
    BY EmptyPatch DEF Succeed, Fail, WriteSets
  <2>2. CASE Sockets \/ Answers \/ SkipDuplicate \/ RejectGap \/ AbortPush \/ FinishPush
    BY <2>2 DEF Sockets, Upgrade, CloseSocket, PeerGone, Read, Answers, SkipDuplicate, RejectGap,
       AbortPush, FinishPush, store
  <2>3. CASE \E c \in Clients : \/ RefuseHello(c)
                                \/ \E cursor \in Cursors \cup {NoCursor} : HandleHello(c, cursor)
                                \/ \E batch : StartPush(c, batch)
    BY <2>3 DEF RefuseHello, HandleHello, StartPush, store
  <2>4. CASE Admin \/ Instance
    BY <2>4 DEF Admin, Instance, WriteSets, Compact, Hibernate, store
  <2> QED BY <2>1, <2>2, <2>3, <2>4 DEF AnyStep
<1> QED BY <1>1, <1>2, <1>3, <1>4, <1>5

-----------------------------------------------------------------------------
(* The theorems *)

\* The history invariant is an invariant of the Workspace.
THEOREM HistoryCorrect == Spec => []HistoryInv
<1>1. HistoryInv /\ UNCHANGED serverVars => HistoryInv'
  BY DEF HistoryInv, serverVars, Recorded, Stamped, Kept, CacheSound, PushAnchored, PokesSound,
         CursorAt, Patched, SoundIn
<1>2. TypeOK /\ HistoryInv /\ [Next]_serverVars => HistoryInv'
  BY <1>1, NextIsAnyStep, StepHistory DEF TypeOK
<1> QED BY InitHistory, TypeCorrect, <1>2, PTL DEF Spec

\* Every poke the server sends leads from the rows at its base cursor to the rows at its end
\* cursor, whatever was compacted, imported, reset, migrated or cached before it.
THEOREM PokesAreSound == Spec => []PokesSound
<1>1. HistoryInv => PokesSound
  BY DEF HistoryInv
<1> QED BY HistoryCorrect, <1>1, PTL

\* What an accepted cursor is sent leads it to the current rows.
THEOREM CatchUpIsSound == Spec => []CatchUpSound
<1>1. TypeOK /\ HistoryInv => CatchUpSound
  BY CatchUp DEF CatchUpSound, TypeOK
<1> QED BY TypeCorrect, HistoryCorrect, <1>1, PTL

-----------------------------------------------------------------------------
(***************************************************************************)
(* A client's LMID counts its entries of the mutation log, for every value *)
(* of the constants.  The argument is that a push in progress counts on    *)
(* from the client's row: a duplicate, a gap and a throw leave both alone, *)
(* and a mutation moves both and appends the entry in one step.            *)
(***************************************************************************)

-----------------------------------------------------------------------------
(* Appending to the log *)

LEMMA AppendElements ==
  ASSUME NEW S, NEW s \in Seq(S), NEW e
  PROVE  /\ Len(s) \in Nat /\ Len(Append(s, e)) = Len(s) + 1
         /\ \A i \in 1..Len(s) : Append(s, e)[i] = s[i]
         /\ Append(s, e)[Len(s) + 1] = e
<1>1. s \in Seq(S \cup {e}) /\ e \in S \cup {e}
  OBVIOUS
<1> QED BY <1>1

\* An entry of somebody else.
LEMMA CountedOther ==
  ASSUME NEW S, NEW log \in Seq(S), NEW c, NEW n, NEW entry, entry.client # c,
         Counted(log, c, n)
  PROVE  Counted(Append(log, entry), c, n)
<1> DEFINE new == Append(log, entry)
           mine == {i \in 1..Len(log) : log[i].client = c}
           mine2 == {i \in 1..Len(new) : new[i].client = c}
<1>1. /\ Len(log) \in Nat /\ Len(new) = Len(log) + 1
      /\ \A i \in 1..Len(log) : new[i] = log[i]
      /\ new[Len(log) + 1] = entry
  BY AppendElements
<1> HIDE DEF new
<1>2. mine2 = mine
  BY <1>1
<1>3. \A i \in mine : new[i] = log[i]
  BY <1>1
<1>4. \A i, j \in mine : i < j => log[i].id < log[j].id
  BY DEF Counted
<1>5. {log[i].id : i \in mine} = 1..n
  BY DEF Counted
<1>6. \A i, j \in mine2 : i < j => new[i].id < new[j].id
  BY <1>2, <1>3, <1>4
<1>7. {new[i].id : i \in mine2} = 1..n
  BY <1>2, <1>3, <1>5
<1>8. Counted(new, c, n)
  BY <1>6, <1>7 DEF Counted
<1> QED BY <1>8 DEF new

\* The client's next entry.
LEMMA CountedOwn ==
  ASSUME NEW S, NEW log \in Seq(S), NEW c, NEW n \in Nat, NEW entry, entry.client = c,
         entry.id = n + 1, Counted(log, c, n)
  PROVE  Counted(Append(log, entry), c, n + 1)
<1> DEFINE new == Append(log, entry)
           mine == {i \in 1..Len(log) : log[i].client = c}
           mine2 == {i \in 1..Len(new) : new[i].client = c}
           last == Len(log) + 1
<1>1. /\ Len(log) \in Nat /\ Len(new) = last
      /\ \A i \in 1..Len(log) : new[i] = log[i]
      /\ new[last] = entry
  BY AppendElements
<1> HIDE DEF new
<1>2. mine2 = mine \cup {last} /\ \A i \in mine : i < last /\ i # last
  BY <1>1
<1>3. \A i \in mine : new[i] = log[i]
  BY <1>1
<1>4. \A i, j \in mine : i < j => log[i].id < log[j].id
  BY DEF Counted
<1>5. {log[i].id : i \in mine} = 1..n
  BY DEF Counted
<1>6. \A i \in mine : log[i].id \in 1..n
  BY <1>5
<1>7. \A i, j \in mine2 : i < j => new[i].id < new[j].id
  <2> SUFFICES ASSUME NEW i \in mine2, NEW j \in mine2, i < j
               PROVE  new[i].id < new[j].id
    OBVIOUS
  <2> HIDE DEF mine, mine2
  <2>1. mine \subseteq Int /\ last \in Int
    BY <1>1 DEF mine
  <2>2. i \in mine
    BY <1>2, <2>1
  <2>3. CASE j \in mine
    BY <1>3, <1>4, <2>2, <2>3
  <2>4. CASE j = last
    BY <1>1, <1>3, <1>6, <2>2, <2>4
  <2> QED BY <1>2, <2>3, <2>4
<1>8. {new[i].id : i \in mine2} = 1..(n + 1)
  <2>1. {new[i].id : i \in mine2} = {log[i].id : i \in mine} \cup {n + 1}
    <3>1. new[last].id = n + 1 /\ mine2 = mine \cup {last} /\ \A i \in mine : new[i].id = log[i].id
      BY <1>1, <1>2, <1>3
    <3> HIDE DEF mine, mine2, last
    <3>2. {new[i].id : i \in mine \cup {last}} = {new[i].id : i \in mine} \cup {new[last].id}
      OBVIOUS
    <3>3. {new[i].id : i \in mine} = {log[i].id : i \in mine}
      BY <3>1
    <3> QED BY <3>1, <3>2, <3>3
  <2>2. 1..(n + 1) = 1..n \cup {n + 1}
    OBVIOUS
  <2> HIDE DEF mine, mine2
  <2> QED BY <1>5, <2>1, <2>2
<1>9. Counted(new, c, n + 1)
  BY <1>7, <1>8 DEF Counted
<1> QED BY <1>9 DEF new

-----------------------------------------------------------------------------
(* The invariant holds initially and every action preserves it *)

LEMMA InitLmid == Init => LmidInv
<1> SUFFICES ASSUME Init PROVE LmidInv
  OBVIOUS
<1>1. ASSUME NEW c \in Clients PROVE Counted(mutationLog, c, lastMutationId[c])
  BY DEF Init, Counted
<1> QED BY <1>1 DEF Init, LmidInv, LmidMatchesLog, PushCounts

\* A step that leaves the log and the rows of the clients alone has only the push to answer for.
LEMMA LogUntouched ==
  ASSUME LmidInv, UNCHANGED <<mutationLog, lastMutationId, orphans>>, PushCounts'
  PROVE  LmidInv'
BY DEF LmidInv, LmidMatchesLog

LEMMA ApplyLmid ==
  ASSUME TypeOK, LmidInv, NEW w, NEW ok, ApplyMutation(w, ok)
  PROVE  LmidInv'
<1> DEFINE c == push.client
           entry == [client |-> c, id |-> Expected, name |-> NextMutation.name,
                     version |-> IF Written(w) # {} THEN currentVersion' ELSE 0, ok |-> ok]
<1>1. push \in PushesOf({push.todo}) /\ push # Idle
  BY DEF ApplyMutation, Mutating, TypeOK, StoreOK
<1>2. c \in Clients /\ push.lmid \in Nat /\ Expected = push.lmid + 1
  BY <1>1 DEF PushesOf, Expected
<1>3. /\ mutationLog' = Append(mutationLog, entry)
      /\ lastMutationId' = IF c \in clients THEN [lastMutationId EXCEPT ![c] = Expected]
                           ELSE lastMutationId
      /\ orphans' = IF c \in clients THEN orphans ELSE orphans \cup {c}
  BY DEF ApplyMutation
<1>4. push'.client = c /\ push'.lmid = Expected
  <2>1. push' = [push EXCEPT !.todo = Tail(push.todo), !.lmid = Expected,
                             !.results = push.results \cup {[id |-> Expected, ok |-> ok]}]
    BY DEF ApplyMutation
  <2> QED BY <1>1, <2>1 DEF PushesOf
<1>5. ASSUME NEW d \in Clients \ orphans'
      PROVE  Counted(mutationLog', d, lastMutationId'[d])
  <2>1. /\ d \notin orphans /\ mutationLog \in Seq(LogEntries)
        /\ lastMutationId \in [Clients -> Nat]
    BY <1>3 DEF TypeOK, StoreOK
  <2>2. Counted(mutationLog, d, lastMutationId[d])
    BY <2>1 DEF LmidInv, LmidMatchesLog
  <2>3. CASE d = c
    <3>1. c \in clients
      BY <1>3, <2>3
    <3>2. push.lmid = lastMutationId[c]
      BY <1>1, <2>1, <2>3 DEF LmidInv, PushCounts
    <3>3. lastMutationId'[c] = push.lmid + 1
      BY <1>2, <1>3, <2>1, <3>1
    <3>4. entry.client = c /\ entry.id = push.lmid + 1
      BY <1>2
    <3>5. Counted(Append(mutationLog, entry), c, push.lmid + 1)
      <4> HIDE DEF entry
      <4> QED BY <1>2, <2>1, <2>2, <2>3, <3>2, <3>4, CountedOwn
    <3> QED BY <1>3, <2>3, <3>3, <3>5
  <2>4. CASE d # c
    <3>1. lastMutationId'[d] = lastMutationId[d]
      BY <1>2, <1>3, <2>1, <2>4
    <3>2. entry.client # d
      BY <2>4
    <3>3. Counted(Append(mutationLog, entry), d, lastMutationId[d])
      <4> HIDE DEF entry
      <4> QED BY <2>1, <2>2, <3>2, CountedOther
    <3> QED BY <1>3, <3>1, <3>3
  <2> QED BY <2>3, <2>4
<1>6. PushCounts'
  <2>1. c \notin orphans' => lastMutationId'[c] = Expected
    BY <1>2, <1>3 DEF TypeOK, StoreOK
  <2> QED BY <1>4, <2>1 DEF PushCounts
<1> QED BY <1>5, <1>6 DEF LmidInv, LmidMatchesLog

\* The migration's entry is the workspace's own.
LEMMA DeployLmid ==
  ASSUME TypeOK, LmidInv, NEW w, Deploy(w)
  PROVE  LmidInv'
<1> DEFINE entry == [client |-> System, id |-> 0, name |-> System,
                     version |-> IF Written(w) # {} THEN currentVersion' ELSE 0, ok |-> TRUE]
<1>1. /\ mutationLog' = Append(mutationLog, entry)
      /\ lastMutationId' = lastMutationId /\ orphans' = orphans
      /\ push' = push
  BY DEF Deploy
<1>2. ASSUME NEW d \in Clients \ orphans
      PROVE  Counted(mutationLog', d, lastMutationId[d])
  <2>1. mutationLog \in Seq(LogEntries) /\ Counted(mutationLog, d, lastMutationId[d])
    BY DEF TypeOK, LmidInv, LmidMatchesLog
  <2>2. entry.client # d
    BY SystemAssumption
  <2>3. Counted(Append(mutationLog, entry), d, lastMutationId[d])
    <3> HIDE DEF entry
    <3> QED BY <2>1, <2>2, CountedOther
  <2> QED BY <1>1, <2>3
<1> QED BY <1>1, <1>2 DEF LmidInv, LmidMatchesLog, PushCounts

LEMMA ResetLmid ==
  ASSUME TypeOK, Reset
  PROVE  LmidInv'
<1>1. mutationLog' = <<>> /\ lastMutationId' = [c \in Clients |-> 0] /\ push' = Idle
  BY DEF Reset
<1>2. ASSUME NEW c \in Clients PROVE Counted(mutationLog', c, lastMutationId'[c])
  BY <1>1 DEF Counted
<1> QED BY <1>1, <1>2 DEF LmidInv, LmidMatchesLog, PushCounts

LEMMA StepLmid ==
  ASSUME TypeOK, LmidInv, Next
  PROVE  LmidInv'
<1>1. CASE Succeed \/ Fail
  BY <1>1, ApplyLmid DEF Succeed, Fail
<1>2. CASE \E w \in WriteSets : Deploy(w)
  BY <1>2, DeployLmid
<1>3. CASE Reset
  BY <1>3, ResetLmid
<1>4. CASE \/ Sockets \/ Hello \/ Compact \/ Hibernate \/ AbortPush \/ FinishPush
           \/ (\E c \in Clients : RefusePush(c))
           \/ \E data \in Rows : Import(data) \/ ImportExtension(data)
  <2>1. /\ UNCHANGED <<mutationLog, lastMutationId, orphans>>
        /\ push' \in {push, Idle}
    BY <1>4 DEF Sockets, Upgrade, CloseSocket, PeerGone, Read, Hello, RefuseHello, HandleHello,
       Compact, Hibernate, AbortPush, FinishPush, RefusePush, Import, ImportExtension,
       ReplaceRows, store
  <2>2. PushCounts'
    BY <2>1 DEF LmidInv, PushCounts
  <2> QED BY <2>1, <2>2, LogUntouched
<1>5. CASE \E c \in Clients, batch \in Batches : StartPush(c, batch)
  <2>1. UNCHANGED <<mutationLog, lastMutationId, orphans>>
    BY <1>5 DEF StartPush, store
  <2>2. PushCounts'
    BY <1>5, <2>1 DEF StartPush, PushCounts
  <2> QED BY <2>1, <2>2, LogUntouched
<1>6. CASE SkipDuplicate \/ RejectGap
  <2>1. UNCHANGED <<mutationLog, lastMutationId, orphans>>
    BY <1>6 DEF SkipDuplicate, RejectGap, store
  <2>2. push \in PushesOf({push.todo}) /\ push # Idle
    BY <1>6 DEF SkipDuplicate, RejectGap, Mutating, TypeOK, StoreOK
  <2>3. push'.client = push.client /\ push'.lmid = push.lmid
    BY <1>6, <2>2 DEF SkipDuplicate, RejectGap, PushesOf
  <2>4. PushCounts'
    BY <2>1, <2>2, <2>3 DEF LmidInv, PushCounts
  <2> QED BY <2>1, <2>4, LogUntouched
<1> QED BY <1>1, <1>2, <1>3, <1>4, <1>5, <1>6 DEF Next, Push, Admin, Instance

-----------------------------------------------------------------------------
(* The theorem *)

\* Whatever a client repeats, skips or loses, and wherever a batch is cut short, its LMID is
\* the number of its log entries, and these are numbered in order.
THEOREM LmidsMatchTheLog == Spec => []LmidMatchesLog
<1>1. LmidInv /\ UNCHANGED serverVars => LmidInv'
  BY DEF LmidInv, LmidMatchesLog, PushCounts, serverVars
<1>2. TypeOK /\ LmidInv /\ [Next]_serverVars => LmidInv'
  BY <1>1, StepLmid
<1>3. LmidInv => LmidMatchesLog
  BY DEF LmidInv
<1> QED BY InitLmid, TypeCorrect, <1>2, <1>3, PTL DEF Spec
=============================================================================
