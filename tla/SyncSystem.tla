------------------------------ MODULE SyncSystem ------------------------------
(***************************************************************************)
(* The sync core of SyncClient (packages/client/src/client.ts) composed    *)
(* with the Workspace: clients queue mutations, push them, apply pokes to  *)
(* their replica, settle their promises, lose their connection and come    *)
(* back.  The server's handlers are Workspace's; the frames a client sends *)
(* travel in order on its current socket and the server may still receive  *)
(* some after the client gave the socket up, until it opens the next one.  *)
(*                                                                         *)
(* Each client event runs to completion, with the push it schedules as a   *)
(* microtask.  No client event is taken between two steps of a push: the   *)
(* steps read nothing a client writes but its presence on the socket, so   *)
(* an event during a push is an event right before it or right after it.   *)
(***************************************************************************)
EXTENDS Workspace

CONSTANTS
  Durable,     \* the client has a store: a mutation never times out
  Troubles,    \* what goes wrong: TroubleKinds
  MaxTrouble,  \* how often
  MaxUp,       \* frames a client has in flight when it makes a mutation
  MaxFlight    \* frames a client has in flight when it answers a frame

TroubleKinds == {"disconnect", "close", "abort", "hello", "resync",
                 "crash", "write", "load"}  \* the last three need OfflineSystem

ASSUME TroublesAssumption == Troubles \subseteq TroubleKinds
ASSUME SyncBoundsAssumption == Durable \in BOOLEAN /\ {MaxTrouble, MaxUp, MaxFlight} \subseteq Nat

VARIABLES
  clientCursor,          \* #cursor
  replica,               \* the rows the client's collections hold
  confirmedLmid,         \* #confirmedLmid
  outbox,                \* #outbox: [id, name], id 0 while it is null
  syncedThisConnection,  \* #syncedThisConnection
  awaitingCatchUp,       \* #awaitingCatchUp
  needsRebase,           \* #needsRebase
  retryPush,             \* #retryPushTimer is set
  up,                    \* frames sent on the client's last socket, not yet handled
  outcome,               \* the promise of each mutation
  issued,                \* history variable: each client's mutations, in order
  trouble                \* how often something went wrong

replicaVars == <<clientCursor, replica>>
queueVars == <<confirmedLmid, outbox, outcome, issued>>
linkVars == <<syncedThisConnection, awaitingCatchUp, needsRebase, retryPush>>
clientVars == <<replicaVars, queueVars, linkVars>>
vars == <<serverVars, clientVars, up, trouble>>

Entry == [id : Nat, name : Mutations]
Hellos == [type : {"hello"}, cursor : Cursors \cup {NoCursor}]
PushFrames == [type : {"push"}, mutations : Seq(Mutation)]
Outcomes == {"new", "pending", "confirmed", "rejected", "timeout"}

SyncTypeOK ==
  /\ TypeOK
  /\ clientCursor \in [Clients -> Cursors \cup {NoCursor}]
  /\ replica \in [Clients -> Rows]
  /\ confirmedLmid \in [Clients -> Nat]
  /\ outbox \in [Clients -> Seq(Entry)]
  /\ syncedThisConnection \in [Clients -> BOOLEAN]
  /\ awaitingCatchUp \in [Clients -> BOOLEAN]
  /\ needsRebase \in [Clients -> BOOLEAN]
  /\ retryPush \in [Clients -> BOOLEAN]
  /\ up \in [Clients -> Seq(Hellos \cup PushFrames)]
  /\ outcome \in [Mutations -> Outcomes]
  /\ issued \in [Clients -> Seq(Mutations)]
  /\ trouble \in Nat

SyncInit ==
  /\ Init
  /\ clientCursor = [c \in Clients |-> NoCursor]
  /\ replica = [c \in Clients |-> [k \in Keys |-> Deleted]]
  /\ confirmedLmid = [c \in Clients |-> 0]
  /\ outbox = [c \in Clients |-> <<>>]
  /\ syncedThisConnection = [c \in Clients |-> FALSE]
  /\ awaitingCatchUp = [c \in Clients |-> FALSE]
  /\ needsRebase = [c \in Clients |-> FALSE]
  /\ retryPush = [c \in Clients |-> FALSE]
  /\ up = [c \in Clients |-> <<>>]
  /\ outcome = [m \in Mutations |-> "new"]
  /\ issued = [c \in Clients |-> <<>>]
  /\ trouble = 0

-----------------------------------------------------------------------------
(* The outbox *)

\* How many of the kept positions there are up to p, and the one with i of them up to it.
Rank(kept, p) == Cardinality(kept \cap 1..p)
Position(kept, i) == CHOOSE p \in kept : Rank(kept, p) = i

\* filter: the elements of s at the kept positions, in order.
Filtered(s, kept) == [i \in 1..Cardinality(kept) |-> s[Position(kept, i)]]

\* Mutant: the ids already given out are not looked at.
LastIdConfirmed(box, confirmed) == confirmed

\* The largest of the confirmed LMID and the ids already given out.
LastId(box, confirmed) ==
  CHOOSE n \in {confirmed} \cup {box[i].id : i \in DOMAIN box} :
    n >= confirmed /\ \A i \in DOMAIN box : box[i].id <= n

\* Mutant: an entry queued offline never gets an id.
AssignedNever(box, confirmed) == box

\* Every entry without an id gets the next one, in queue order.
Assigned(box, confirmed) ==
  LET last == LastId(box, confirmed)
      unnumbered == {i \in DOMAIN box : box[i].id = 0}
  IN  [i \in DOMAIN box |-> IF i \in unnumbered
                            THEN [box[i] EXCEPT !.id = last + Rank(unnumbered, i)] ELSE box[i]]

\* The whole queue is renumbered from the confirmed LMID.
Rebased(box, confirmed) == [i \in DOMAIN box |-> [box[i] EXCEPT !.id = confirmed + i]]

\* Mutant: null compares as 0.
SettledIfNull(entry, confirmed) == entry.id <= confirmed

Settled(entry, confirmed) == entry.id # 0 /\ entry.id <= confirmed
Unsettled(box, confirmed) == Filtered(box, {i \in DOMAIN box : ~Settled(box[i], confirmed)})

\* Mutant: a push carries the newest entry only.
PendingNewest(box, confirmed) ==
  IF box = <<>> \/ box[Len(box)].id <= confirmed THEN <<>> ELSE <<box[Len(box)]>>

\* What a push carries: every numbered entry past the confirmed LMID.  The queue is in id
\* order already (OutboxOrdered), so the sort of #flushPush changes nothing.
Pending(box, confirmed) == Filtered(box, {i \in DOMAIN box : box[i].id > confirmed})

-----------------------------------------------------------------------------
(* Sending *)

\* A new mutation or resync waits while the client has MaxUp frames in flight.
Calm(c) == push = Idle /\ Len(up[c]) < MaxUp
Answering(c) == push = Idle /\ Len(up[c]) < MaxFlight

Sent(c, frame) ==
  IF c \in listening /\ sess[c] # "none" THEN [up EXCEPT ![c] = Append(@, frame)] ELSE up

HelloFrame(cursor) == [type |-> "hello", cursor |-> cursor]

\* #flushPush: nothing goes out without a synced socket or with nothing pending.
Flushed(c, box, confirmed, synced) ==
  LET pending == Pending(box, confirmed)
  IN  IF synced /\ pending # <<>> THEN Sent(c, [type |-> "push", mutations |-> pending]) ELSE up

\* #requestResync: a hello, unless one is out or there is no socket.
RequestResync(c) ==
  IF awaitingCatchUp[c]
  THEN UNCHANGED <<awaitingCatchUp, up>>
  ELSE /\ awaitingCatchUp' = [awaitingCatchUp EXCEPT ![c] = TRUE]
       /\ up' = Sent(c, HelloFrame(clientCursor[c]))

Trouble(kind) == kind \in Troubles /\ trouble < MaxTrouble /\ trouble' = trouble + 1

-----------------------------------------------------------------------------
(* Client: mutations and the connection *)

\* #enqueue: the entry gets its id at once if this connection has synced, else at the next sync.
Mutate(c, m) ==
  /\ Calm(c)
  /\ outcome[m] = "new"
  /\ LET synced == syncedThisConnection[c]
         entry == [id |-> IF synced THEN LastId(outbox[c], confirmedLmid[c]) + 1 ELSE 0, name |-> m]
         box == Append(outbox[c], entry)
     IN  /\ outbox' = [outbox EXCEPT ![c] = box]
         /\ up' = Flushed(c, box, confirmedLmid[c], synced)
  /\ outcome' = [outcome EXCEPT ![m] = "pending"]
  /\ issued' = [issued EXCEPT ![c] = Append(@, m)]
  /\ UNCHANGED <<serverVars, replicaVars, confirmedLmid, linkVars, trouble>>

\* Without a store a mutation unconfirmed for confirmTimeoutMs is rejected and discarded.
Timeout(c, i) ==
  /\ ~Durable
  /\ push = Idle
  /\ i \in DOMAIN outbox[c]
  /\ outcome' = [outcome EXCEPT ![outbox[c][i].name] = "timeout"]
  /\ outbox' = [outbox EXCEPT ![c] = SubSeq(@, 1, i - 1) \o SubSeq(@, i + 1, Len(@))]
  /\ UNCHANGED <<serverVars, replicaVars, confirmedLmid, issued, linkVars, up, trouble>>

\* #openSocket, the upgrade that supersedes the old socket, and the hello the open event sends.
Connect(c) ==
  /\ c \notin listening
  /\ Upgrade(c)
  /\ syncedThisConnection' = [syncedThisConnection EXCEPT ![c] = FALSE]
  /\ awaitingCatchUp' = [awaitingCatchUp EXCEPT ![c] = TRUE]
  /\ up' = [up EXCEPT ![c] = <<HelloFrame(clientCursor[c])>>]
  /\ UNCHANGED <<replicaVars, queueVars, needsRebase, retryPush, trouble>>

\* #onDisconnect and the missed heartbeat: the socket is given up, what is queued on it is not.
LoseSocket(c) ==
  /\ push = Idle
  /\ PeerGone(c)
  /\ awaitingCatchUp' = [awaitingCatchUp EXCEPT ![c] = FALSE]
  /\ UNCHANGED <<replicaVars, queueVars, syncedThisConnection, needsRebase, retryPush, up>>

\* The connection breaks, or is only thought to.
Disconnect(c) == Trouble("disconnect") /\ LoseSocket(c)

\* The client reads to the end of a socket the server closed.
SeeClose(c) == sess[c] = "none" /\ down[c] = <<>> /\ LoseSocket(c) /\ UNCHANGED trouble

\* #requestFullResync, after a table is registered late; without a socket the next one asks.
Resync(c) ==
  /\ Calm(c)
  /\ syncedThisConnection[c]
  /\ Trouble("resync")
  /\ clientCursor' = [clientCursor EXCEPT ![c] = NoCursor]
  /\ awaitingCatchUp' = [awaitingCatchUp EXCEPT ![c] = c \in listening]
  /\ up' = Sent(c, HelloFrame(NoCursor))
  /\ UNCHANGED <<serverVars, replica, queueVars, syncedThisConnection, needsRebase, retryPush>>

-----------------------------------------------------------------------------
(* Client: pokes and errors *)

\* Mutant: the base of a poke is not checked.
MismatchedNever(c, poke) == FALSE

\* A poke based on a cursor the client does not hold is dropped, unless it clears.
Mismatched(c, poke) == poke.base # clientCursor[c] /\ ~poke.clear

DropPoke(c) ==
  /\ Mismatched(c, Head(down[c]))
  /\ RequestResync(c)
  /\ UNCHANGED <<replicaVars, queueVars, syncedThisConnection, needsRebase, retryPush>>

BackendChanged(c, poke) ==
  clientCursor[c] # NoCursor /\ clientCursor[c].backendId # poke.cursor.backendId

\* The confirmed LMID follows a newer one, or whatever the poke of another history says.
ConfirmedBy(c, poke) ==
  LET mine == {change.lmid : change \in {change \in poke.lmids : change.client = c}}
      newer == {lmid \in mine : lmid > confirmedLmid[c] \/ BackendChanged(c, poke)}
  IN  IF newer # {} THEN CHOOSE lmid \in newer : TRUE
      ELSE IF BackendChanged(c, poke) THEN 0 ELSE confirmedLmid[c]

\* The queue the poke settles: renumbered if the history is a new one.
QueueAt(c, poke) ==
  IF BackendChanged(c, poke) THEN Rebased(outbox[c], ConfirmedBy(c, poke)) ELSE outbox[c]

\* What is left of it, after a pending rebase and the first ids of the connection.
QueueAfter(c, poke) ==
  LET confirmed == ConfirmedBy(c, poke)
      rest == Unsettled(QueueAt(c, poke), confirmed)
      renumbered == IF needsRebase[c] THEN Rebased(rest, confirmed) ELSE rest
  IN  IF syncedThisConnection[c] THEN renumbered ELSE Assigned(renumbered, confirmed)

\* A settled entry's promise: rejected if the poke brings its error.
OutcomeAfter(c, poke, m) ==
  LET old == QueueAt(c, poke)
      mine == {i \in DOMAIN old : old[i].name = m}
  IN  IF \E i \in mine : Settled(old[i], ConfirmedBy(c, poke))
      THEN IF \E i \in mine : [id |-> old[i].id, ok |-> FALSE] \in poke.results
           THEN "rejected" ELSE "confirmed"
      ELSE outcome[m]

\* #applyPoke: rows and cursor, the confirmed LMID, the promises it settles, the queue, and a
\* push of what is left of it.
ApplyPoke(c) ==
  LET poke == Head(down[c])
  IN  /\ ~Mismatched(c, poke)
      /\ replica' = [replica EXCEPT ![c] = Patched(@, poke.clear, poke.patch)]
      /\ clientCursor' = [clientCursor EXCEPT ![c] = poke.cursor]
      /\ confirmedLmid' = [confirmedLmid EXCEPT ![c] = ConfirmedBy(c, poke)]
      /\ outcome' = [m \in Mutations |-> OutcomeAfter(c, poke, m)]
      /\ outbox' = [outbox EXCEPT ![c] = QueueAfter(c, poke)]
      /\ syncedThisConnection' = [syncedThisConnection EXCEPT ![c] = TRUE]
      /\ awaitingCatchUp' = [awaitingCatchUp EXCEPT ![c] = FALSE]
      /\ needsRebase' = [needsRebase EXCEPT ![c] = FALSE]
      /\ up' = Flushed(c, QueueAfter(c, poke), ConfirmedBy(c, poke), TRUE)
      /\ UNCHANGED <<issued, retryPush>>

ReceivePoke(c) ==
  /\ Answering(c)
  /\ Read(c)
  /\ Head(down[c]).type = "poke"
  /\ DropPoke(c) \/ ApplyPoke(c)
  /\ UNCHANGED trouble

\* #onServerError: an id out of step is repaired by a resync and a renumbering, an internal
\* error by pushing again a second later.
ReceiveError(c) ==
  /\ Answering(c)
  /\ Read(c)
  /\ Head(down[c]).type = "error"
  /\ \/ /\ Head(down[c]).code = "PushInvalid"
        /\ needsRebase' = [needsRebase EXCEPT ![c] = TRUE]
        /\ RequestResync(c)
        /\ UNCHANGED retryPush
     \/ /\ Head(down[c]).code = "Internal"
        /\ retryPush' = [retryPush EXCEPT ![c] = TRUE]
        /\ UNCHANGED <<needsRebase, awaitingCatchUp, up>>
  /\ UNCHANGED <<replicaVars, queueVars, syncedThisConnection, trouble>>

RetryPush(c) ==
  /\ Answering(c)
  /\ retryPush[c]
  /\ retryPush' = [retryPush EXCEPT ![c] = FALSE]
  /\ up' = IF c \in listening
           THEN Flushed(c, outbox[c], confirmedLmid[c], syncedThisConnection[c]) ELSE up
  /\ UNCHANGED <<serverVars, replicaVars, queueVars, syncedThisConnection, awaitingCatchUp,
                 needsRebase, trouble>>

-----------------------------------------------------------------------------
(* Server *)

Handled(c, type) == /\ Room
                    /\ up[c] # <<>>
                    /\ Head(up[c]).type = type
                    /\ up' = [up EXCEPT ![c] = Tail(@)]

ServeHello(c) ==
  /\ Handled(c, "hello")
  /\ HandleHello(c, Head(up[c]).cursor)
  /\ UNCHANGED <<clientVars, trouble>>

\* The handler of a hello throws: nothing is stored and the client is told 'Internal'.
FailHello(c) ==
  /\ Handled(c, "hello")
  /\ Trouble("hello")
  /\ push = Idle
  /\ sess[c] # "none"
  /\ Deliver({c}, Error("Internal"))
  /\ UNCHANGED <<meta, store, snapshot, sockets, push, clientVars>>

ServePush(c) ==
  /\ Handled(c, "push")
  /\ StartPush(c, Head(up[c]).mutations) \/ RefusePush(c)
  /\ UNCHANGED <<clientVars, trouble>>

PushStep ==
  /\ Room
  /\ \/ SkipDuplicate \/ RejectGap \/ Succeed \/ Fail \/ FinishPush
  /\ UNCHANGED <<clientVars, up, trouble>>

Throw == Room /\ AbortPush /\ Trouble("abort") /\ UNCHANGED <<clientVars, up>>

\* The server closes a client's socket; what was in flight to it is dropped.
ServerClose(c) ==
  /\ Trouble("close")
  /\ CloseSocket(c)
  /\ up' = [up EXCEPT ![c] = <<>>]
  /\ UNCHANGED clientVars

Maintain ==
  /\ Room
  /\ \/ (Compact \/ Hibernate \/ Reset \/ \E data \in Rows : Import(data)) /\ UNCHANGED up
     \/ (\E data \in Rows : ImportExtension(data)) /\ up' = [c \in Clients |-> <<>>]
  /\ UNCHANGED <<clientVars, trouble>>

-----------------------------------------------------------------------------
ClientNext(c) ==
  \/ \E m \in Mutations : Mutate(c, m)
  \/ \E i \in DOMAIN outbox[c] : Timeout(c, i)
  \/ (Connect(c) \/ Disconnect(c) \/ SeeClose(c) \/ Resync(c))
  \/ (ReceivePoke(c) \/ ReceiveError(c) \/ RetryPush(c))

ServerNext == \/ \E c \in Clients : ServeHello(c) \/ FailHello(c) \/ ServePush(c) \/ ServerClose(c)
              \/ PushStep \/ Throw \/ Maintain

SyncNext == ServerNext \/ \E c \in Clients : ClientNext(c)

SyncSpec == SyncInit /\ [][SyncNext]_vars

\* The event loops, the sockets and the reconnect timer keep going: a frame that can be handled
\* is handled, a push in progress goes on, a lost or closed socket is replaced.
Fairness ==
  /\ WF_vars(PushStep)
  /\ \A c \in Clients : /\ WF_vars(Connect(c)) /\ WF_vars(SeeClose(c))
                        /\ WF_vars(ReceivePoke(c)) /\ WF_vars(ReceiveError(c))
                        /\ WF_vars(RetryPush(c))
                        /\ WF_vars(ServeHello(c)) /\ WF_vars(ServePush(c))

FairSpec == SyncSpec /\ Fairness

-----------------------------------------------------------------------------
(* Properties *)

\* A client that holds a cursor holds exactly the rows the server had at it, whatever was lost,
\* dropped, compacted, imported or reset on the way (#applyPoke, pokeStart's base check).
ReplicaSound ==
  \A c \in Clients : clientCursor[c] # NoCursor =>
    /\ clientCursor[c] \in DOMAIN snaps
    /\ replica[c] = snaps[clientCursor[c]]

\* ARCHITECTURE.md, "cursors and per-client LMIDs never move backward": within a history a
\* poke takes a client forward or leaves it where it is.
NeverBackward ==
  [][\A c \in Clients :
       /\ clientCursor[c] # NoCursor /\ clientCursor'[c] # NoCursor
       /\ clientCursor'[c].backendId = clientCursor[c].backendId
       => /\ clientCursor'[c].version >= clientCursor[c].version
          /\ confirmedLmid'[c] >= confirmedLmid[c]]_vars

\* The queue is in id order, every id past the confirmed LMID, and the entries that wait for
\* an id wait at its end, so a push is always a run of increasing new ids.
Ordered(box, confirmed) ==
  \A i \in DOMAIN box : box[i].id # 0 =>
    /\ box[i].id > confirmed
    /\ \A j \in 1..(i - 1) : box[j].id \in 1..(box[i].id - 1)

OutboxOrdered == \A c \in Clients : Ordered(outbox[c], confirmedLmid[c])

\* A client that loses no entry of its queue never sends the server a gap: every push it has in
\* flight starts no later than the id the server expects and skips none.
NoGap ==
  \A c \in Clients :
    /\ \A i \in DOMAIN up[c] : up[c][i].type = "push" =>
         LET batch == up[c][i].mutations
         IN  \A j \in DOMAIN batch : batch[j].id = batch[1].id + j - 1
    /\ \A i \in DOMAIN down[c] : down[c][i].type = "error" => down[c][i].code # "PushInvalid"

\* The mutations of a client in the log, and what the contract sees of them.
Logged(c) == Filtered(mutationLog, {p \in DOMAIN mutationLog : mutationLog[p].client = c})
Applied(c) == [i \in DOMAIN Logged(c) |-> [name |-> Logged(c)[i].name, ok |-> Logged(c)[i].ok]]

Contract == INSTANCE MutationContract WITH applied <- [c \in Clients |-> Applied(c)]

\* Exactly once, in order, settled only when applied: what docs/guide/mutations.md promises of
\* mutate, over disconnections, repeated pushes, lost confirmations and thrown handlers.
KeepsContract == Contract!Spec

\* Every promise settles (#settleOutbox; no entry is forgotten by a reconnect or a rebase).
Settles == \A m \in Mutations : outcome[m] = "pending" ~> outcome[m] # "pending"

\* Once nothing more goes wrong every replica comes to hold the server's rows and stays so.
Converges == <>[](\A c \in Clients : replica[c] = Live)

-----------------------------------------------------------------------------
(* The inductive invariant behind ReplicaSound *)

\* A queue of frames in which every hello carries a cursor; what the pushes carry is left open.
FramesOK(frames) ==
  /\ frames \in Seq({frames[i] : i \in 1..Len(frames)})
  /\ \A i \in 1..Len(frames) :
       frames[i].type = "hello" => frames[i].cursor \in Cursors \cup {NoCursor}

\* What the client side needs of its own types.
ReplicaOK ==
  /\ clientCursor \in [Clients -> Cursors \cup {NoCursor}]
  /\ replica \in [Clients -> Rows]
  /\ DOMAIN up = Clients
  /\ \A c \in Clients : FramesOK(up[c])

\* A replica is sound because every poke on its way is, and the pokes are because of the
\* Workspace's own invariant.
ReplicaInv == StoreOK /\ HistoryInv /\ ReplicaOK /\ ReplicaSound

-----------------------------------------------------------------------------
(* The inductive invariants behind OutboxOrdered and NeverBackward *)

Numbered(box) == \A i \in DOMAIN box : box[i].id # 0

\* Every id there is is that of the entry's place.
InPlace(box, confirmed) == \A i \in 1..Len(box) : box[i].id \in {0, confirmed + i}

\* Whoever has synced on this connection has numbered the queue.
OutboxInv ==
  OutboxOrdered /\ \A c \in Clients : syncedThisConnection[c] => Numbered(outbox[c])

\* Within a history, y is not older than x.
NotBehind(y, x) == y.backendId = x.backendId => y.version >= x.version

\* The pokes on their way to a client lead forward: from its cursor and from each other's.
PokesAdvance ==
  \A c \in Clients : \A i \in 1..Len(down[c]) : down[c][i].type = "poke" =>
    /\ clientCursor[c] # NoCursor => NotBehind(down[c][i].cursor, clientCursor[c])
    /\ \A j \in 1..(i - 1) : down[c][j].type = "poke" =>
         NotBehind(down[c][i].cursor, down[c][j].cursor)

-----------------------------------------------------------------------------
(* The inductive invariant behind NoGap and KeepsContract, of a durable client in a history *)
(* that is never reset                                                                      *)

\* No mutation was made twice, and what is past the confirmed LMID has not settled.
IssuedOnce ==
  /\ \A c, d \in Clients : \A i \in DOMAIN issued[c], j \in DOMAIN issued[d] :
       issued[c][i] = issued[d][j] => c = d /\ i = j
  /\ \A c \in Clients : \A i \in DOMAIN issued[c] :
       /\ outcome[issued[c][i]] # "new"
       /\ i > confirmedLmid[c] => outcome[issued[c][i]] = "pending"

\* The queue is what was made past the confirmed LMID, and the id of an entry is the place of
\* its mutation; what the server has applied is numbered.
QueueIsRest ==
  \A c \in Clients :
    /\ confirmedLmid[c] <= lastMutationId[c]
    /\ lastMutationId[c] <= Len(issued[c])
    /\ Len(outbox[c]) = Len(issued[c]) - confirmedLmid[c]
    /\ \A i \in DOMAIN outbox[c] :
         LET place == confirmedLmid[c] + i
         IN  /\ outbox[c][i].name = issued[c][place]
             /\ outbox[c][i].id \in {0, place}
             /\ place <= lastMutationId[c] => outbox[c][i].id # 0

\* The log of a client is what it made, up to its LMID.
LogIsIssued ==
  \A c \in Clients :
    /\ Len(Logged(c)) = lastMutationId[c]
    /\ \A i \in 1..lastMutationId[c] : Logged(c)[i].id = i /\ Logged(c)[i].name = issued[c][i]

\* Every entry of a client's queue that stands for this id has got it.
HasId(c, id) == \A i \in DOMAIN outbox[c] : confirmedLmid[c] + i = id => outbox[c][i].id # 0

\* A run of a client's mutations as it made them and numbered them.
RunOf(c, batch) ==
  \A j \in DOMAIN batch : /\ batch[j].id = batch[1].id + j - 1
                          /\ batch[j].id \in DOMAIN issued[c]
                          /\ batch[j].name = issued[c][batch[j].id]
                          /\ HasId(c, batch[j].id)

\* ... that begins no later than the id the server expects.
IsRun(c, batch, expected) == RunOf(c, batch) /\ (batch # <<>> => batch[1].id <= expected)

\* Results tell what the log holds.
ResultsTrue(c, results) ==
  \A result \in results : result.id \in DOMAIN Logged(c) /\ Logged(c)[result.id].ok = result.ok

PushesInStep ==
  /\ \A c \in Clients : \A i \in DOMAIN up[c] : up[c][i].type = "push" =>
       IsRun(c, up[c][i].mutations, lastMutationId[c] + 1)
  /\ push # Idle => /\ sess[push.client] = "ready"
                    /\ push.lmid = lastMutationId[push.client]
                    /\ IsRun(push.client, push.todo, push.lmid + 1)
                    /\ ResultsTrue(push.client, push.results)

PokesTrue ==
  \A c \in Clients : \A i \in DOMAIN down[c] : down[c][i].type = "poke" =>
    \A change \in down[c][i].lmids :
      /\ change.lmid <= lastMutationId[change.client]
      /\ ResultsTrue(change.client, down[c][i].results)

\* Before its hello is handled a socket carries nothing but hellos up and errors down, after it
\* the client has its row; nobody is ever told that an id is out of step.
SocketsInStep ==
  \A c \in Clients :
    /\ sess[c] = "ready" => c \in clients
    /\ sess[c] = "open" => /\ ~syncedThisConnection[c]
                           /\ \A i \in DOMAIN up[c] : up[c][i].type = "hello"
                           /\ \A i \in DOMAIN down[c] : down[c][i].type = "error"
    /\ \A i \in DOMAIN down[c] : down[c][i].type = "error" => down[c][i].code # "PushInvalid"
    /\ ~needsRebase[c]

ContractInv ==
  IssuedOnce /\ QueueIsRest /\ LogIsIssued /\ PushesInStep /\ PokesTrue /\ SocketsInStep

-----------------------------------------------------------------------------
(* What the documents say and the code does not keep; the README tells how each one fails. *)

\* docs/guide/offline-persistence.md:12: "the server skips what it has already processed, no
\* matter how many times a reconnect retries it": no mutation is in a history's log twice.
ProcessedOnce ==
  \A i, j \in DOMAIN mutationLog : mutationLog[i].name = mutationLog[j].name => i = j

\* docs/guide/mutations.md:31: "If the promise from mutate rejects, that mutation is finished".
RejectedNeverApplies ==
  \A m \in Mutations : outcome[m] \in {"timeout", "rejected"} =>
    ~\E i \in DOMAIN mutationLog : mutationLog[i].name = m /\ mutationLog[i].ok

\* docs/guide/mutations.md:40: a mutation the server rejects rejects with the server's code.
ConfirmedMeansApplied ==
  \A m \in Mutations : outcome[m] = "confirmed" =>
    \E i \in DOMAIN mutationLog : mutationLog[i].name = m /\ mutationLog[i].ok
===============================================================================
