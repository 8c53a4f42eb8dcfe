-------------------------------- MODULE SyncProofs --------------------------------
(***************************************************************************)
(* Theorems about SyncSystem, for every value of the constants: replicas   *)
(* hold the server's rows, queues are in id order, cursors and LMIDs never *)
(* go back, and a durable client keeps the contract of mutate.             *)
(***************************************************************************)
EXTENDS SyncSystem, WorkspaceProofs, FiniteSetTheorems, WellFoundedInduction

-----------------------------------------------------------------------------
(***************************************************************************)
(* A client that holds a cursor holds the rows the server had at it, for   *)
(* every value of the constants: any number of clients and mutations, any  *)
(* of the troubles, any retention and any bounds.  Every poke in flight is *)
(* sound by the Workspace's invariant, whose steps are those of SyncSystem *)
(* whatever frames the clients send; the base check of the client does the *)
(* rest.                                                                   *)
(***************************************************************************)

-----------------------------------------------------------------------------
(* Frames *)

LEMMA EmptyFrames == FramesOK(<<>>)
BY DEF FramesOK

LEMMA AppendFrames ==
  ASSUME NEW frames, FramesOK(frames), NEW frame,
         frame.type = "hello" => frame.cursor \in Cursors \cup {NoCursor}
  PROVE  FramesOK(Append(frames, frame))
<1> DEFINE S == {frames[i] : i \in 1..Len(frames)}
           new == Append(frames, frame)
<1>1. frames \in Seq(S) /\ frames \in Seq(S \cup {frame}) /\ Len(frames) \in Nat
  BY DEF FramesOK
<1>2. /\ new \in Seq(S \cup {frame})
      /\ Len(new) = Len(frames) + 1
      /\ \A i \in 1..Len(new) : new[i] = IF i = Len(new) THEN frame ELSE frames[i]
  BY <1>1
<1>3. \A i \in 1..Len(new) : i # Len(new) => i \in 1..Len(frames)
  BY <1>1, <1>2
<1>4. \A i \in 1..Len(new) : new[i].type = "hello" => new[i].cursor \in Cursors \cup {NoCursor}
  BY <1>2, <1>3 DEF FramesOK
<1>5. new \in Seq({new[i] : i \in 1..Len(new)})
  BY <1>2
<1> QED BY <1>4, <1>5 DEF FramesOK

LEMMA OwnElements ==
  ASSUME NEW S, NEW s \in Seq(S)
  PROVE  s \in Seq({s[i] : i \in 1..Len(s)})
OBVIOUS

LEMMA TailElements ==
  ASSUME NEW S, NEW s \in Seq(S), s # <<>>
  PROVE  /\ Head(s) = s[1] /\ 1 \in 1..Len(s)
         /\ Tail(s) \in Seq(S) /\ Len(Tail(s)) = Len(s) - 1
         /\ \A i \in 1..Len(Tail(s)) : Tail(s)[i] = s[i + 1] /\ i + 1 \in 1..Len(s)
OBVIOUS

LEMMA TailFrames ==
  ASSUME NEW frames, FramesOK(frames), frames # <<>>
  PROVE  /\ FramesOK(Tail(frames))
         /\ Head(frames).type = "hello" => Head(frames).cursor \in Cursors \cup {NoCursor}
<1> DEFINE S == {frames[i] : i \in 1..Len(frames)}
           rest == Tail(frames)
<1>1. frames \in Seq(S) /\ Len(frames) \in Nat \ {0}
  BY DEF FramesOK
<1>2. /\ Head(frames) = frames[1] /\ 1 \in 1..Len(frames)
      /\ rest \in Seq(S) /\ Len(rest) = Len(frames) - 1
      /\ \A i \in 1..Len(rest) : rest[i] = frames[i + 1] /\ i + 1 \in 1..Len(frames)
  <2> HIDE DEF S
  <2> QED BY <1>1, TailElements
<1>3. rest \in Seq({rest[i] : i \in 1..Len(rest)})
  <2> HIDE DEF S, rest
  <2> QED BY <1>2, OwnElements
<1>4. \A i \in 1..Len(rest) : rest[i].type = "hello" => rest[i].cursor \in Cursors \cup {NoCursor}
  BY <1>2 DEF FramesOK
<1>5. FramesOK(rest)
  BY <1>3, <1>4 DEF FramesOK
<1> QED BY <1>2, <1>5 DEF FramesOK

\* What a client sends is a push, or a hello with its cursor or none.
LEMMA SentFrames ==
  ASSUME ReplicaOK, NEW c \in Clients, NEW frame,
         frame.type = "hello" => frame.cursor \in Cursors \cup {NoCursor},
         up' \in {up, Sent(c, frame)}
  PROVE  DOMAIN up' = Clients /\ \A d \in Clients : FramesOK(up'[d])
<1>1. up' \in {up, [up EXCEPT ![c] = Append(@, frame)]}
  BY DEF Sent
<1>2. FramesOK(Append(up[c], frame))
  BY AppendFrames DEF ReplicaOK
<1> QED BY <1>1, <1>2 DEF ReplicaOK

LEMMA FlushedFrames ==
  ASSUME ReplicaOK, NEW c \in Clients, NEW box, NEW confirmed,
         up' \in {up, Sent(c, [type |-> "push", mutations |-> Pending(box, confirmed)])}
  PROVE  DOMAIN up' = Clients /\ \A d \in Clients : FramesOK(up'[d])
<1> DEFINE frame == [type |-> "push", mutations |-> Pending(box, confirmed)]
<1>1. frame.type # "hello"
  OBVIOUS
<1> QED BY <1>1, SentFrames

LEMMA ResyncFrames ==
  ASSUME ReplicaOK, NEW c \in Clients, RequestResync(c)
  PROVE  DOMAIN up' = Clients /\ \A d \in Clients : FramesOK(up'[d])
<1>1. up' \in {up, Sent(c, HelloFrame(clientCursor[c]))}
  BY DEF RequestResync
<1>2. HelloFrame(clientCursor[c]).cursor \in Cursors \cup {NoCursor}
  BY DEF HelloFrame, ReplicaOK
<1> QED BY <1>1, <1>2, SentFrames

-----------------------------------------------------------------------------
(* The server's part of a step is a step of the Workspace *)

LEMMA ServerPart ==
  ASSUME ReplicaOK, SyncNext
  PROVE  AnyStep \/ UNCHANGED serverVars
<1>1. ASSUME NEW c \in Clients, ServeHello(c) PROVE AnyStep
  <2>1. Head(up[c]).cursor \in Cursors \cup {NoCursor}
    BY <1>1, TailFrames DEF ServeHello, Handled, ReplicaOK
  <2> QED BY <1>1, <2>1 DEF ServeHello, AnyStep
<1>2. ASSUME NEW c \in Clients, FailHello(c) PROVE AnyStep
  BY <1>2 DEF FailHello, AnyStep, Answers, Codes
<1>3. ASSUME NEW c \in Clients, ServePush(c) PROVE AnyStep
  BY <1>3 DEF ServePush, RefusePush, AnyStep, Answers, Codes
<1>4. ASSUME NEW c \in Clients, ServerClose(c) PROVE AnyStep
  BY <1>4 DEF ServerClose, AnyStep, Sockets
<1>5. ASSUME PushStep \/ Throw \/ Maintain PROVE AnyStep
  BY <1>5 DEF PushStep, Throw, Maintain, AnyStep, Admin, Instance
<1>6. ASSUME NEW c \in Clients, ClientNext(c) PROVE AnyStep \/ UNCHANGED serverVars
  <2>1. CASE Connect(c) \/ Disconnect(c) \/ SeeClose(c)
    BY <2>1 DEF Connect, Disconnect, SeeClose, LoseSocket, AnyStep, Sockets
  <2>2. CASE ReceivePoke(c) \/ ReceiveError(c)
    BY <2>2 DEF ReceivePoke, ReceiveError, AnyStep, Sockets
  <2>3. CASE \/ \E m \in Mutations : Mutate(c, m)
             \/ \E i \in DOMAIN outbox[c] : Timeout(c, i)
             \/ Resync(c) \/ RetryPush(c)
    BY <2>3 DEF Mutate, Timeout, Resync, RetryPush
  <2> QED BY <1>6, <2>1, <2>2, <2>3 DEF ClientNext
<1> QED BY <1>1, <1>2, <1>3, <1>4, <1>5, <1>6 DEF SyncNext, ServerNext

LEMMA ServerInv ==
  ASSUME StoreOK, HistoryInv, AnyStep \/ UNCHANGED serverVars
  PROVE  StoreOK' /\ HistoryInv' /\ Grows
<1>1. CASE AnyStep
  BY <1>1, StepStore, StepHistory, StepGrows
<1>2. CASE UNCHANGED serverVars
  <2>1. StoreOK'
    BY <1>2 DEF StoreOK, serverVars
  <2>2. HistoryInv'
    BY <1>2 DEF HistoryInv, serverVars, Recorded, Stamped, Kept, CacheSound, PushAnchored,
       PokesSound, CursorAt, Patched, SoundIn
  <2>3. Grows
    BY <1>2 DEF Grows, serverVars
  <2> QED BY <2>1, <2>2, <2>3
<1> QED BY <1>1, <1>2

-----------------------------------------------------------------------------
(* The client's part *)

\* A step that leaves a client's cursor and rows alone, or takes its cursor away.
LEMMA Unmoved ==
  ASSUME ReplicaInv, Grows, replica' = replica,
         \A c \in Clients : clientCursor'[c] \in {clientCursor[c], NoCursor}
  PROVE  ReplicaSound'
BY DEF ReplicaInv, ReplicaSound, Grows

\* The base check and the soundness of the poke: the rows are those of the new cursor.
LEMMA ApplySound ==
  ASSUME ReplicaInv, Grows, NEW c \in Clients, down[c] # <<>>,
         Head(down[c]).type = "poke", ApplyPoke(c)
  PROVE  /\ ReplicaSound'
         /\ clientCursor' \in [Clients -> Cursors \cup {NoCursor}]
         /\ replica' \in [Clients -> Rows]
<1> DEFINE poke == Head(down[c])
<1>1. down[c] \in Seq(Pokes \cup Errors)
  BY DEF ReplicaInv, StoreOK
<1>2. 1 \in 1..Len(down[c]) /\ poke = down[c][1] /\ poke \in Pokes \cup Errors
  BY <1>1
<1>3. poke \in Pokes
  BY <1>2 DEF Errors
<1>4. SoundIn(snaps, poke)
  BY <1>2 DEF ReplicaInv, HistoryInv, PokesSound
<1>5. /\ replica' = [replica EXCEPT ![c] = Patched(@, poke.clear, poke.patch)]
      /\ clientCursor' = [clientCursor EXCEPT ![c] = poke.cursor]
      /\ poke.base = clientCursor[c] \/ poke.clear
  BY DEF ApplyPoke, Mismatched
<1>6. poke.cursor \in DOMAIN snaps /\ snaps[poke.cursor] \in Rows
  BY <1>4 DEF SoundIn, ReplicaInv, StoreOK
<1>7. Patched(replica[c], poke.clear, poke.patch) = snaps[poke.cursor]
  <2>1. CASE poke.clear = TRUE
    BY <1>4, <2>1 DEF SoundIn, ReplicaInv, ReplicaOK
  <2>2. CASE poke.clear = FALSE
    <3>1. poke.base \in DOMAIN snaps /\ poke.base = clientCursor[c]
      BY <1>4, <1>5, <2>2 DEF SoundIn
    <3>2. clientCursor[c] # NoCursor
      BY <3>1, NoCursorAssumption DEF ReplicaInv, StoreOK, Cursors
    <3>3. replica[c] = snaps[poke.base]
      BY <3>1, <3>2 DEF ReplicaInv, ReplicaSound
    <3> QED BY <1>4, <2>2, <3>3 DEF SoundIn
  <2> QED BY <1>3, <2>1, <2>2 DEF Pokes
<1>8. /\ replica'[c] = snaps[poke.cursor] /\ clientCursor'[c] = poke.cursor
      /\ \A d \in Clients \ {c} : replica'[d] = replica[d] /\ clientCursor'[d] = clientCursor[d]
  BY <1>5, <1>7 DEF ReplicaInv, ReplicaOK
<1>9. ReplicaSound'
  BY <1>6, <1>8 DEF ReplicaSound, ReplicaInv, Grows
<1> QED BY <1>3, <1>5, <1>6, <1>7, <1>9 DEF ReplicaInv, ReplicaOK, Pokes

\* Replicas, cursors and frames after each event of a client.
LEMMA ClientPart ==
  ASSUME ReplicaInv, Grows, NEW c \in Clients, ClientNext(c)
  PROVE  ReplicaOK' /\ ReplicaSound'
<1> DEFINE UpOK == DOMAIN up' = Clients /\ \A d \in Clients : FramesOK(up'[d])
<1>1. CASE \E m \in Mutations : Mutate(c, m)
  <2>1. UpOK
    BY <1>1, FlushedFrames DEF Mutate, Flushed, ReplicaInv
  <2>2. UNCHANGED replicaVars
    BY <1>1 DEF Mutate
  <2> QED BY <2>1, <2>2, Unmoved DEF replicaVars, ReplicaInv, ReplicaOK
<1>2. CASE \E i \in DOMAIN outbox[c] : Timeout(c, i)
  BY <1>2, Unmoved DEF Timeout, replicaVars, ReplicaInv, ReplicaOK
<1>3. CASE Connect(c)
  <2> DEFINE hello == HelloFrame(clientCursor[c])
  <2>1. FramesOK(Append(<<>>, hello))
    <3>1. hello.cursor \in Cursors \cup {NoCursor}
      BY DEF HelloFrame, ReplicaInv, ReplicaOK
    <3> QED BY <3>1, EmptyFrames, AppendFrames
  <2>2. Append(<<>>, hello) = <<hello>>
    OBVIOUS
  <2>3. UpOK
    BY <1>3, <2>1, <2>2 DEF Connect, ReplicaInv, ReplicaOK
  <2>4. UNCHANGED replicaVars
    BY <1>3 DEF Connect
  <2> QED BY <2>3, <2>4, Unmoved DEF replicaVars, ReplicaInv, ReplicaOK
<1>4. CASE Disconnect(c) \/ SeeClose(c)
  BY <1>4, Unmoved DEF Disconnect, SeeClose, LoseSocket, replicaVars, ReplicaInv, ReplicaOK
<1>5. CASE Resync(c)
  <2>1. HelloFrame(NoCursor).cursor \in Cursors \cup {NoCursor}
    BY DEF HelloFrame
  <2>2. UpOK
    BY <1>5, <2>1, SentFrames DEF Resync, ReplicaInv
  <2>3. clientCursor' = [clientCursor EXCEPT ![c] = NoCursor] /\ replica' = replica
    BY <1>5 DEF Resync
  <2>4. /\ clientCursor' \in [Clients -> Cursors \cup {NoCursor}]
        /\ \A d \in Clients : clientCursor'[d] \in {clientCursor[d], NoCursor}
    BY <2>3 DEF ReplicaInv, ReplicaOK
  <2> QED BY <2>2, <2>3, <2>4, Unmoved DEF ReplicaInv, ReplicaOK
<1>6. CASE ReceivePoke(c)
  <2>1. CASE DropPoke(c)
    <3>1. UpOK
      BY <2>1, ResyncFrames DEF DropPoke, ReplicaInv
    <3>2. UNCHANGED replicaVars
      BY <2>1 DEF DropPoke
    <3> QED BY <3>1, <3>2, Unmoved DEF replicaVars, ReplicaInv, ReplicaOK
  <2>2. CASE ApplyPoke(c)
    <3>1. UpOK
      <4>1. PICK box, confirmed : up' = Flushed(c, box, confirmed, TRUE)
        BY <2>2, Zenon DEF ApplyPoke
      <4>2. up' \in {up, Sent(c, [type |-> "push", mutations |-> Pending(box, confirmed)])}
        BY <4>1 DEF Flushed
      <4> QED BY <4>2, FlushedFrames DEF ReplicaInv
    <3>2. down[c] # <<>> /\ Head(down[c]).type = "poke"
      BY <1>6 DEF ReceivePoke, Read
    <3> QED BY <2>2, <3>1, <3>2, ApplySound DEF ReplicaOK
  <2> QED BY <1>6, <2>1, <2>2 DEF ReceivePoke
<1>7. CASE ReceiveError(c)
  <2>1. UpOK
    BY <1>7, ResyncFrames DEF ReceiveError, ReplicaInv, ReplicaOK
  <2>2. UNCHANGED replicaVars
    BY <1>7 DEF ReceiveError
  <2> QED BY <2>1, <2>2, Unmoved DEF replicaVars, ReplicaInv, ReplicaOK
<1>8. CASE RetryPush(c)
  <2>1. UpOK
    BY <1>8, FlushedFrames DEF RetryPush, Flushed, ReplicaInv
  <2>2. UNCHANGED replicaVars
    BY <1>8 DEF RetryPush
  <2> QED BY <2>1, <2>2, Unmoved DEF replicaVars, ReplicaInv, ReplicaOK
<1> QED BY <1>1, <1>2, <1>3, <1>4, <1>5, <1>6, <1>7, <1>8 DEF ClientNext

\* The server's steps move no replica; they take frames off a queue or drop the queue.
LEMMA ServerKeeps ==
  ASSUME ReplicaInv, Grows, ServerNext
  PROVE  ReplicaOK' /\ ReplicaSound'
<1>1. UNCHANGED replicaVars
  BY DEF ServerNext, ServeHello, FailHello, ServePush, ServerClose, PushStep, Throw, Maintain,
     clientVars
<1>2. ReplicaSound'
  BY <1>1, Unmoved DEF replicaVars
<1>3. \/ up' = up
      \/ \E c \in Clients : up[c] # <<>> /\ up' = [up EXCEPT ![c] = Tail(@)]
      \/ \E c \in Clients : up' = [up EXCEPT ![c] = <<>>]
      \/ up' = [c \in Clients |-> <<>>]
  BY DEF ServerNext, ServeHello, FailHello, ServePush, ServerClose, PushStep, Throw, Maintain,
     Handled
<1>4. DOMAIN up' = Clients /\ \A c \in Clients : FramesOK(up'[c])
  <2>1. CASE up' = up
    BY <2>1 DEF ReplicaInv, ReplicaOK
  <2>2. CASE \E c \in Clients : up[c] # <<>> /\ up' = [up EXCEPT ![c] = Tail(@)]
    BY <2>2, TailFrames DEF ReplicaInv, ReplicaOK
  <2>3. CASE \/ \E c \in Clients : up' = [up EXCEPT ![c] = <<>>]
             \/ up' = [c \in Clients |-> <<>>]
    BY <2>3, EmptyFrames DEF ReplicaInv, ReplicaOK
  <2> QED BY <1>3, <2>1, <2>2, <2>3
<1> QED BY <1>1, <1>2, <1>4 DEF ReplicaInv, ReplicaOK, replicaVars

-----------------------------------------------------------------------------
(* The theorems *)

LEMMA StepReplica ==
  ASSUME ReplicaInv, SyncNext
  PROVE  ReplicaInv'
<1>1. StoreOK' /\ HistoryInv' /\ Grows
  BY ServerPart, ServerInv DEF ReplicaInv
<1>2. ReplicaOK' /\ ReplicaSound'
  BY <1>1, ClientPart, ServerKeeps DEF SyncNext
<1> QED BY <1>1, <1>2 DEF ReplicaInv

LEMMA InitReplica == SyncInit => ReplicaInv
<1> SUFFICES ASSUME SyncInit PROVE ReplicaInv
  OBVIOUS
<1>1. StoreOK /\ HistoryInv
  BY InitType, InitHistory DEF SyncInit
<1>2. ReplicaOK
  BY EmptyFrames DEF SyncInit, ReplicaOK, Rows, Content
<1>3. ReplicaSound
  BY DEF SyncInit, ReplicaSound
<1> QED BY <1>1, <1>2, <1>3 DEF ReplicaInv

\* The inductive invariant of the composition of the Workspace and its clients.
THEOREM ReplicaCorrect == SyncSpec => []ReplicaInv
<1>1. ReplicaInv /\ UNCHANGED vars => ReplicaInv'
  <2> SUFFICES ASSUME ReplicaInv, UNCHANGED vars PROVE ReplicaInv'
    OBVIOUS
  <2>1. StoreOK' /\ HistoryInv'
    BY ServerInv DEF vars, ReplicaInv
  <2>2. ReplicaOK' /\ ReplicaSound'
    BY DEF vars, clientVars, replicaVars, serverVars, ReplicaInv, ReplicaOK, ReplicaSound
  <2> QED BY <2>1, <2>2 DEF ReplicaInv
<1>2. ReplicaInv /\ [SyncNext]_vars => ReplicaInv'
  BY <1>1, StepReplica
<1> QED BY InitReplica, <1>2, PTL DEF SyncSpec

\* Whatever is lost, dropped, repeated, compacted, imported or reset, a client that holds a
\* cursor holds exactly the rows the server had at that cursor.
THEOREM ReplicasAreSound == SyncSpec => []ReplicaSound
<1>1. ReplicaInv => ReplicaSound
  BY DEF ReplicaInv
<1> QED BY ReplicaCorrect, <1>1, PTL

-----------------------------------------------------------------------------
(***************************************************************************)
(* The types of SyncSystem, the order of a client's queue and the          *)
(* direction of its pokes, for every value of the constants.               *)
(***************************************************************************)

-----------------------------------------------------------------------------
(* The kept positions of a sequence *)

LEMMA PositionIs ==
  ASSUME NEW kept, NEW i, NEW p \in kept, Rank(kept, p) = i,
         \A q \in kept : Rank(kept, q) = i => q = p
  PROVE  Position(kept, i) = p
BY DEF Position

\* The rank of a position among the kept ones.
LEMMA RankOf ==
  ASSUME NEW n \in Nat, NEW kept \in SUBSET (1..n)
  PROVE  /\ IsFiniteSet(kept) /\ Cardinality(kept) \in Nat
         /\ \A p \in kept : Rank(kept, p) \in 1..Cardinality(kept)
         /\ \A p, q \in kept : p < q => Rank(kept, p) < Rank(kept, q)
<1>1. IsFiniteSet(1..n)
  BY FS_Interval
<1>2. IsFiniteSet(kept)
  BY <1>1, FS_Subset
<1>3. Cardinality(kept) \in Nat
  BY <1>2, FS_CardinalityType
<1>4. ASSUME NEW p \in kept
      PROVE  /\ IsFiniteSet(kept \cap 1..p) /\ Rank(kept, p) \in Nat
             /\ Rank(kept, p) <= Cardinality(kept)
  <2>1. (kept \cap 1..p) \in SUBSET kept
    OBVIOUS
  <2>2. IsFiniteSet(kept \cap 1..p) /\ Rank(kept, p) <= Cardinality(kept)
    BY <1>2, <2>1, FS_Subset DEF Rank
  <2> QED BY <2>2, FS_CardinalityType DEF Rank
<1>5. ASSUME NEW p \in kept PROVE Rank(kept, p) \in 1..Cardinality(kept)
  <2>1. p \in kept \cap 1..p
    OBVIOUS
  <2>2. Rank(kept, p) # 0
    BY <1>4, <2>1, FS_EmptySet DEF Rank
  <2>3. \A r, m \in Nat : r # 0 /\ r <= m => r \in 1..m
    OBVIOUS
  <2> QED BY <1>3, <1>4, <2>2, <2>3
<1>6. ASSUME NEW p \in kept, NEW q \in kept, p < q
      PROVE  Rank(kept, p) < Rank(kept, q)
  <2>1. (kept \cap 1..p) \in SUBSET (kept \cap 1..q) /\ (kept \cap 1..p) # (kept \cap 1..q)
    BY <1>6
  <2>2. Rank(kept, p) <= Rank(kept, q) /\ Rank(kept, p) # Rank(kept, q)
    BY <1>4, <2>1, FS_Subset DEF Rank
  <2>3. \A r, m \in Nat : r # m /\ r <= m => r < m
    OBVIOUS
  <2> QED BY <1>4, <2>2, <2>3
<1> QED BY <1>2, <1>3, <1>5, <1>6

\* The kept positions in order: every rank is taken by exactly one.
LEMMA Positions ==
  ASSUME NEW n \in Nat, NEW kept \in SUBSET (1..n)
  PROVE  /\ IsFiniteSet(kept) /\ Cardinality(kept) \in Nat
         /\ \A i \in 1..Cardinality(kept) :
              Position(kept, i) \in kept /\ Rank(kept, Position(kept, i)) = i
         /\ \A p \in kept : Rank(kept, p) \in 1..Cardinality(kept) /\ Position(kept, Rank(kept, p)) = p
         /\ \A i, j \in 1..Cardinality(kept) : i < j => Position(kept, i) < Position(kept, j)
<1> DEFINE m == Cardinality(kept)
<1>1. /\ IsFiniteSet(kept) /\ m \in Nat
      /\ \A p \in kept : Rank(kept, p) \in 1..m
      /\ \A p, q \in kept : p < q => Rank(kept, p) < Rank(kept, q)
  BY RankOf
<1>2. \A p, q \in kept : Rank(kept, p) = Rank(kept, q) => p = q
  <2>1. \A p, q \in kept : p < q \/ q < p \/ p = q
    OBVIOUS
  <2> QED BY <1>1, <2>1
<1>3. \A i \in 1..m : \E p \in kept : Rank(kept, p) = i
  <2> DEFINE r == [p \in kept |-> Rank(kept, p)]
  <2>1. r \in Injection(kept, 1..m)
    BY <1>1, <1>2 DEF Injection, IsInjective
  <2>2. IsFiniteSet(1..m) /\ Cardinality(1..m) = m
    BY <1>1, FS_Interval
  <2>3. r \in Surjection(kept, 1..m)
    <3> HIDE DEF r
    <3> QED BY <2>1, <2>2, FS_Injection
  <2> QED BY <2>3 DEF Surjection
<1> HIDE DEF m
<1>4. ASSUME NEW p \in kept, NEW i, Rank(kept, p) = i PROVE Position(kept, i) = p
  <2>1. \A q \in kept : Rank(kept, q) = i => q = p
    BY <1>2, <1>4
  <2> QED BY <1>4, <2>1, PositionIs
<1>5. ASSUME NEW i \in 1..m PROVE Position(kept, i) \in kept /\ Rank(kept, Position(kept, i)) = i
  <2>1. PICK p \in kept : Rank(kept, p) = i
    BY <1>3
  <2> QED BY <1>4, <2>1
<1>6. \A p \in kept : Rank(kept, p) \in 1..m /\ Position(kept, Rank(kept, p)) = p
  BY <1>1, <1>4
<1>7. ASSUME NEW i \in 1..m, NEW j \in 1..m, i < j
      PROVE  Position(kept, i) < Position(kept, j)
  <2>1. \A p, q \in kept : p < q \/ q < p \/ p = q
    OBVIOUS
  <2>2. PICK p \in kept, q \in kept : p = Position(kept, i) /\ q = Position(kept, j)
    BY <1>5
  <2>3. Rank(kept, p) = i /\ Rank(kept, q) = j
    BY <1>5, <2>2
  <2>4. ~(q < p) /\ p # q
    BY <1>1, <1>7, <2>3
  <2>5. p < q
    BY <2>1, <2>4
  <2> QED BY <2>2, <2>5
<1> QED BY <1>1, <1>5, <1>6, <1>7 DEF m

\* Keeping a run of positions is taking that run.
LEMMA FilteredRun ==
  ASSUME NEW s, NEW a \in Nat, NEW m \in Nat
  PROVE  Filtered(s, (a + 1)..(a + m)) = [i \in 1..m |-> s[a + i]]
<1> DEFINE kept == (a + 1)..(a + m)
<1>1. Cardinality(kept) = m
  <2>1. a + 1 \in Int /\ a + m \in Int /\ (IF a + 1 > a + m THEN 0 ELSE (a + m) - (a + 1) + 1) = m
    OBVIOUS
  <2> QED BY <2>1, FS_Interval
<1>2. \A p \in kept : Rank(kept, p) = p - a
  <2> TAKE p \in kept
  <2>1. /\ kept \cap 1..p = (a + 1)..p
        /\ a + 1 \in Int /\ p \in Int
        /\ (IF a + 1 > p THEN 0 ELSE p - (a + 1) + 1) = p - a
    OBVIOUS
  <2>2. Cardinality((a + 1)..p) = p - a
    <3> HIDE DEF kept
    <3> QED BY <2>1, FS_Interval
  <2> HIDE DEF kept
  <2> QED BY <2>1, <2>2 DEF Rank
<1>3. \A i \in 1..m : Position(kept, i) = a + i
  <2> TAKE i \in 1..m
  <2>1. a + i \in kept /\ a + i - a = i /\ \A p \in kept : p - a = i => p = a + i
    OBVIOUS
  <2> HIDE DEF kept
  <2>2. Rank(kept, a + i) = i
    BY <1>2, <2>1
  <2>3. \A p \in kept : Rank(kept, p) = i => p = a + i
    BY <1>2, <2>1
  <2> QED BY <2>1, <2>2, <2>3, PositionIs
<1>4. Filtered(s, kept) =
        [i \in 1..Cardinality(kept) |-> s[Position(kept, i)]]
  BY DEF Filtered
<1> HIDE DEF kept
<1>5. [i \in 1..Cardinality(kept) |-> s[Position(kept, i)]] =
        [i \in 1..m |-> s[a + i]]
  BY <1>1, <1>3
<1> QED BY <1>4, <1>5 DEF kept

\* What an appended element does to the filtered sequence.
LEMMA FilteredAppend ==
  ASSUME NEW S, NEW s \in Seq(S), NEW e, NEW kept \in SUBSET (1..Len(s))
  PROVE  /\ Filtered(Append(s, e), kept) = Filtered(s, kept)
         /\ Filtered(Append(s, e), kept \cup {Len(s) + 1}) = Append(Filtered(s, kept), e)
<1> DEFINE n == Cardinality(kept)
           more == kept \cup {Len(s) + 1}
           t == Append(s, e)
<1>1. /\ Len(s) \in Nat /\ Len(s) + 1 \notin kept
      /\ \A p \in kept : p \in 1..Len(s) /\ p \in Int
      /\ \A p \in 1..Len(s) : t[p] = s[p]
      /\ t[Len(s) + 1] = e
  <2>1. kept \subseteq 1..Len(s) /\ Len(s) \in Nat
    OBVIOUS
  <2>2. \A p \in 1..Len(s) : t[p] = s[p]
    OBVIOUS
  <2> QED BY <2>1, <2>2
<1>2. /\ IsFiniteSet(kept) /\ n \in Nat
      /\ \A i \in 1..n : Position(kept, i) \in kept /\ Rank(kept, Position(kept, i)) = i
      /\ \A p \in kept : Rank(kept, p) \in 1..n /\ Position(kept, Rank(kept, p)) = p
  <2>1. kept \in SUBSET (1..Len(s))
    OBVIOUS
  <2> QED BY <1>1, <2>1, Positions
<1> HIDE DEF t, n, more
<1>3. Filtered(t, kept) = Filtered(s, kept)
  BY <1>1, <1>2 DEF Filtered, n
<1>4. Cardinality(more) = n + 1
  BY <1>1, <1>2, FS_AddElement DEF more, n
<1>5. \A p \in kept : Rank(more, p) = Rank(kept, p)
  <2> TAKE p \in kept
  <2>1. more \cap 1..p = kept \cap 1..p
    BY <1>1 DEF more
  <2> QED BY <2>1 DEF Rank
<1>6. Rank(more, Len(s) + 1) = n + 1
  <2>1. \A p \in more : p \in 1..(Len(s) + 1)
    BY <1>1 DEF more
  <2>2. more \cap 1..(Len(s) + 1) = more
    BY <2>1
  <2> QED BY <1>4, <2>2 DEF Rank
<1>7. n + 1 \notin 1..n
  BY <1>2
<1>8. ASSUME NEW i \in 1..n PROVE Position(more, i) = Position(kept, i)
  <2>1. Position(kept, i) \in more /\ Rank(more, Position(kept, i)) = i
    BY <1>2, <1>5 DEF more
  <2>2. \A p \in more : Rank(more, p) = i => p = Position(kept, i)
    BY <1>2, <1>5, <1>6, <1>7 DEF more
  <2> QED BY <2>1, <2>2, PositionIs
<1>9. Position(more, n + 1) = Len(s) + 1
  <2>1. \A p \in more : Rank(more, p) = n + 1 => p = Len(s) + 1
    BY <1>2, <1>5, <1>7 DEF more
  <2>2. Len(s) + 1 \in more
    BY DEF more
  <2> QED BY <1>6, <2>1, <2>2, PositionIs
<1>10. Filtered(t, more) = [i \in 1..(n + 1) |-> t[Position(more, i)]]
  BY <1>4 DEF Filtered
<1>11. \A i \in 1..n : t[Position(more, i)] = s[Position(kept, i)]
  BY <1>1, <1>2, <1>8
<1>12. t[Position(more, n + 1)] = e
  BY <1>1, <1>9
<1>13. Filtered(s, kept) = [i \in 1..n |-> s[Position(kept, i)]]
  BY DEF Filtered, n
<1>14. Append(Filtered(s, kept), e) =
         [i \in 1..(n + 1) |-> IF i = n + 1 THEN e ELSE s[Position(kept, i)]]
  BY <1>2, <1>13
<1>15. Filtered(t, more) = Append(Filtered(s, kept), e)
  <2>1. \A i \in 1..(n + 1) : i = n + 1 \/ i \in 1..n
    BY <1>2
  <2> QED BY <1>10, <1>11, <1>12, <1>14, <2>1
<1> QED BY <1>3, <1>15 DEF t, more

-----------------------------------------------------------------------------
(* Ids and the queue *)

\* Every set of numbers has a least one.
LEMMA LeastOf ==
  ASSUME NEW T \in SUBSET Nat, T # {}
  PROVE  \E x \in T : \A y \in T : ~(y < x)
<1> DEFINE R == OpToRel(<, Nat)
<1>1. IsWellFoundedOn(R, Nat)
  BY NatLessThanWellFounded, Zenon
<1>2. R = {pair \in Nat \X Nat : pair[1] < pair[2]}
  BY Zenon DEF OpToRel
<1> HIDE DEF R
<1>3. \E x \in T : \A y \in T : ~(<<y, x>> \in R)
  BY <1>1, WFMin
<1>4. \A x, y \in T : y < x => <<y, x>> \in R
  BY <1>2
<1> QED BY <1>3, <1>4

LEMMA EntriesOf ==
  ASSUME NEW box \in Seq(Entry)
  PROVE  /\ Len(box) \in Nat /\ DOMAIN box = 1..Len(box)
         /\ box \in [1..Len(box) -> Entry]
         /\ \A i \in 1..Len(box) : box[i] \in Entry /\ box[i].id \in Nat /\ box[i].name \in Mutations
<1>1. /\ Len(box) \in Nat /\ DOMAIN box = 1..Len(box)
      /\ box \in [1..Len(box) -> Entry]
      /\ \A i \in 1..Len(box) : box[i] \in Entry
  OBVIOUS
<1>2. \A entry \in Entry : entry.id \in Nat /\ entry.name \in Mutations
  BY DEF Entry
<1> QED BY <1>1, <1>2

Top(box, confirmed, n, u) == /\ u \in {confirmed} \cup {box[i].id : i \in 1..n}
                             /\ u >= confirmed
                             /\ \A i \in 1..n : box[i].id <= u

LEMMA TopExists ==
  ASSUME NEW box \in Seq(Entry), NEW confirmed \in Nat, NEW n \in 0..Len(box)
  PROVE  \E u : Top(box, confirmed, n, u)
<1> DEFINE Bad == {k \in 0..Len(box) : ~\E u : Top(box, confirmed, k, u)}
<1> SUFFICES ASSUME Bad # {} PROVE FALSE
  OBVIOUS
<1>1. Len(box) \in Nat /\ \A i \in 1..Len(box) : box[i].id \in Nat
  BY EntriesOf
<1>2. PICK k \in Bad : \A y \in Bad : ~(y < k)
  <2>1. Bad \in SUBSET Nat
    BY <1>1
  <2> HIDE DEF Bad
  <2> QED BY <2>1, LeastOf
<1>3. k \in 0..Len(box) /\ ~\E u : Top(box, confirmed, k, u)
  BY <1>2
<1>4. CASE k = 0
  <2>1. Top(box, confirmed, 0, confirmed)
    BY DEF Top
  <2> QED BY <1>3, <1>4, <2>1
<1>5. CASE k # 0
  <2>1. k - 1 \in 0..Len(box) /\ k - 1 < k /\ k \in 1..Len(box)
    BY <1>1, <1>3, <1>5
  <2>2. PICK u : Top(box, confirmed, k - 1, u)
    BY <1>2, <2>1
  <2>3. u \in Nat /\ u >= confirmed
    BY <1>1, <2>1, <2>2 DEF Top
  <2>4. \A i \in 1..k : i = k \/ i \in 1..(k - 1)
    BY <2>1
  <2>5. CASE box[k].id <= u
    <3>1. Top(box, confirmed, k, u)
      BY <2>1, <2>2, <2>4, <2>5 DEF Top
    <3> QED BY <1>3, <3>1
  <2>6. CASE ~(box[k].id <= u)
    <3>1. box[k].id \in Nat /\ \A i \in 1..k : box[i].id \in Nat
      BY <1>1, <2>1
    <3>2. \A i \in 1..k : box[i].id <= box[k].id
      BY <2>2, <2>3, <2>4, <2>6, <3>1 DEF Top
    <3>3. box[k].id >= confirmed
      BY <2>3, <2>6, <3>1
    <3>4. box[k].id \in {box[i].id : i \in 1..k}
      BY <2>1
    <3>5. Top(box, confirmed, k, box[k].id)
      BY <3>2, <3>3, <3>4 DEF Top
    <3> QED BY <1>3, <3>5
  <2> QED BY <2>5, <2>6
<1> QED BY <1>4, <1>5

\* The last id given out is one of them, and none is larger.
LEMMA LastIdIs ==
  ASSUME NEW box \in Seq(Entry), NEW confirmed \in Nat
  PROVE  /\ LastId(box, confirmed) \in Nat
         /\ LastId(box, confirmed) >= confirmed
         /\ LastId(box, confirmed) \in {confirmed} \cup {box[i].id : i \in DOMAIN box}
         /\ \A i \in DOMAIN box : box[i].id <= LastId(box, confirmed)
<1>1. /\ Len(box) \in Nat /\ DOMAIN box = 1..Len(box)
      /\ \A i \in DOMAIN box : box[i].id \in Nat
  BY EntriesOf
<1>2. Len(box) \in 0..Len(box)
  BY <1>1
<1>3. PICK u : Top(box, confirmed, Len(box), u)
  BY <1>2, TopExists
<1>4. \E n \in {confirmed} \cup {box[i].id : i \in DOMAIN box} :
        n >= confirmed /\ \A i \in DOMAIN box : box[i].id <= n
  BY <1>1, <1>3 DEF Top
<1>5. /\ LastId(box, confirmed) \in {confirmed} \cup {box[i].id : i \in DOMAIN box}
      /\ LastId(box, confirmed) >= confirmed
      /\ \A i \in DOMAIN box : box[i].id <= LastId(box, confirmed)
  BY <1>4 DEF LastId
<1> QED BY <1>1, <1>5

\* A renumbered queue.
LEMMA RebasedIs ==
  ASSUME NEW box \in Seq(Entry), NEW confirmed \in Nat
  PROVE  /\ Rebased(box, confirmed) \in Seq(Entry)
         /\ Len(Rebased(box, confirmed)) = Len(box)
         /\ \A i \in 1..Len(box) : /\ Rebased(box, confirmed)[i].id = confirmed + i
                                   /\ Rebased(box, confirmed)[i].name = box[i].name
         /\ Ordered(Rebased(box, confirmed), confirmed)
         /\ Numbered(Rebased(box, confirmed))
<1> DEFINE new == Rebased(box, confirmed)
<1>1. Len(box) \in Nat /\ DOMAIN box = 1..Len(box) /\ \A i \in 1..Len(box) : box[i] \in Entry
  BY EntriesOf
<1>2. new = [i \in 1..Len(box) |-> [box[i] EXCEPT !.id = confirmed + i]]
  BY <1>1 DEF Rebased
<1>3. ASSUME NEW i \in 1..Len(box)
      PROVE  /\ [box[i] EXCEPT !.id = confirmed + i] \in Entry
             /\ [box[i] EXCEPT !.id = confirmed + i].id = confirmed + i
             /\ [box[i] EXCEPT !.id = confirmed + i].name = box[i].name
  BY <1>1, <1>3 DEF Entry
<1> HIDE DEF new
<1>4. new \in [1..Len(box) -> Entry]
  BY <1>2, <1>3
<1>5. new \in Seq(Entry) /\ Len(new) = Len(box) /\ DOMAIN new = 1..Len(box)
  BY <1>1, <1>4
<1>6. \A i \in 1..Len(box) : new[i].id = confirmed + i /\ new[i].name = box[i].name
  BY <1>2, <1>3
<1>7. Ordered(new, confirmed)
  <2> SUFFICES ASSUME NEW i \in 1..Len(box)
               PROVE  /\ new[i].id > confirmed
                      /\ \A j \in 1..(i - 1) : new[j].id \in 1..(new[i].id - 1)
    BY <1>5 DEF Ordered
  <2>1. ASSUME NEW j \in 1..(i - 1) PROVE new[j].id \in 1..(new[i].id - 1)
    <3>1. j \in 1..Len(box)
      BY <1>1
    <3> QED BY <1>6, <3>1
  <2>2. new[i].id > confirmed
    BY <1>6
  <2> QED BY <2>1, <2>2
<1>8. Numbered(new)
  BY <1>5, <1>6 DEF Numbered
<1> QED BY <1>5, <1>6, <1>7, <1>8 DEF new

\* A queue in which the entries without an id got the next ones.
LEMMA AssignedIs ==
  ASSUME NEW box \in Seq(Entry), NEW confirmed \in Nat
  PROVE  /\ Assigned(box, confirmed) \in Seq(Entry)
         /\ Len(Assigned(box, confirmed)) = Len(box)
         /\ \A i \in 1..Len(box) :
              /\ Assigned(box, confirmed)[i].name = box[i].name
              /\ box[i].id # 0 => Assigned(box, confirmed)[i].id = box[i].id
              /\ box[i].id = 0 => Assigned(box, confirmed)[i].id = LastId(box, confirmed)
                                    + Rank({j \in DOMAIN box : box[j].id = 0}, i)
         /\ Numbered(Assigned(box, confirmed))
         /\ Ordered(box, confirmed) => Ordered(Assigned(box, confirmed), confirmed)
<1> DEFINE new == Assigned(box, confirmed)
           last == LastId(box, confirmed)
           zeros == {i \in DOMAIN box : box[i].id = 0}
<1>1. /\ Len(box) \in Nat /\ DOMAIN box = 1..Len(box)
      /\ \A i \in 1..Len(box) : box[i] \in Entry /\ box[i].id \in Nat
  BY EntriesOf
<1>2. /\ last \in Nat /\ last >= confirmed
      /\ \A i \in 1..Len(box) : box[i].id <= last
  BY <1>1, LastIdIs
<1>3. /\ \A i \in zeros : Rank(zeros, i) \in Nat \ {0}
      /\ \A i, j \in zeros : i < j => Rank(zeros, i) < Rank(zeros, j)
  <2>1. zeros \in SUBSET (1..Len(box))
    BY <1>1
  <2> HIDE DEF zeros
  <2>2. /\ Cardinality(zeros) \in Nat
        /\ \A i \in zeros : Rank(zeros, i) \in 1..Cardinality(zeros)
        /\ \A i, j \in zeros : i < j => Rank(zeros, i) < Rank(zeros, j)
    BY <1>1, <2>1, RankOf
  <2> QED BY <2>2
<1>4. new = [i \in 1..Len(box) |->
               IF i \in zeros THEN [box[i] EXCEPT !.id = last + Rank(zeros, i)] ELSE box[i]]
  BY <1>1 DEF Assigned
<1>5. \A i \in 1..Len(box) : i \in zeros <=> box[i].id = 0
  BY <1>1
<1> HIDE DEF new, last, zeros
<1>6. ASSUME NEW i \in 1..Len(box), i \in zeros
      PROVE  /\ new[i] \in Entry
             /\ new[i].id = last + Rank(zeros, i)
             /\ new[i].name = box[i].name
  BY <1>1, <1>2, <1>3, <1>4, <1>6 DEF Entry
<1>7. \A i \in 1..Len(box) : i \notin zeros => new[i] = box[i]
  BY <1>4
<1>8. \A i \in 1..Len(box) : new[i] \in Entry /\ new[i].name = box[i].name
  BY <1>1, <1>6, <1>7
<1>9. new \in [1..Len(box) -> Entry]
  BY <1>4, <1>8
<1>10. new \in Seq(Entry) /\ Len(new) = Len(box) /\ DOMAIN new = 1..Len(box)
  BY <1>1, <1>9
<1>11. \A i \in 1..Len(box) : i \in zeros => new[i].id \in Nat /\ new[i].id > last
  BY <1>2, <1>3, <1>6
<1>12. Numbered(new)
  <2> SUFFICES ASSUME NEW i \in 1..Len(box) PROVE new[i].id # 0
    BY <1>10 DEF Numbered
  <2> QED BY <1>2, <1>5, <1>7, <1>11
<1>13. ASSUME Ordered(box, confirmed) PROVE Ordered(new, confirmed)
  <2> SUFFICES ASSUME NEW i \in 1..Len(box)
               PROVE  /\ new[i].id > confirmed
                      /\ \A j \in 1..(i - 1) : new[j].id \in 1..(new[i].id - 1)
    BY <1>10 DEF Ordered
  <2>1. \A j \in 1..(i - 1) : j \in 1..Len(box) /\ j < i
    BY <1>1
  <2>2. CASE i \notin zeros
    <3>1. /\ box[i].id > confirmed /\ new[i] = box[i]
          /\ \A j \in 1..(i - 1) : box[j].id \in 1..(box[i].id - 1)
      BY <1>1, <1>5, <1>7, <1>13, <2>2 DEF Ordered
    <3>2. ASSUME NEW j \in 1..(i - 1) PROVE new[j] = box[j]
      <4>1. box[j].id # 0
        BY <3>1
      <4> QED BY <1>5, <1>7, <2>1, <4>1
    <3> QED BY <3>1, <3>2
  <2>3. CASE i \in zeros
    <3>1. new[i].id \in Nat /\ new[i].id > last /\ new[i].id = last + Rank(zeros, i)
      BY <1>6, <1>11, <2>3
    <3>2. ASSUME NEW j \in 1..(i - 1) PROVE new[j].id \in 1..(new[i].id - 1)
      <4>1. CASE j \in zeros
        <5>1. Rank(zeros, j) < Rank(zeros, i) /\ Rank(zeros, j) \in Nat \ {0}
              /\ Rank(zeros, i) \in Nat
          BY <1>3, <2>1, <2>3, <4>1
        <5>2. new[j].id = last + Rank(zeros, j)
          BY <1>6, <2>1, <4>1
        <5> QED BY <1>2, <3>1, <5>1, <5>2
      <4>2. CASE j \notin zeros
        <5>1. new[j].id = box[j].id /\ box[j].id # 0 /\ box[j].id \in Nat /\ box[j].id <= last
          BY <1>1, <1>2, <1>5, <1>7, <2>1, <4>2
        <5> QED BY <1>2, <3>1, <5>1
      <4> QED BY <4>1, <4>2
    <3>3. new[i].id > confirmed
      BY <1>2, <3>1
    <3> QED BY <3>2, <3>3
  <2> QED BY <2>2, <2>3
<1> QED BY <1>5, <1>6, <1>7, <1>8, <1>10, <1>12, <1>13 DEF new, last, zeros

\* A filtered sequence holds the kept elements in order.
LEMMA FilteredIs ==
  ASSUME NEW S, NEW s \in Seq(S), NEW kept \in SUBSET (1..Len(s))
  PROVE  /\ Filtered(s, kept) \in Seq(S)
         /\ Len(Filtered(s, kept)) = Cardinality(kept) /\ Cardinality(kept) \in Nat
         /\ \A i \in 1..Cardinality(kept) : /\ Position(kept, i) \in kept
                                            /\ Filtered(s, kept)[i] = s[Position(kept, i)]
         /\ \A i, j \in 1..Cardinality(kept) : i < j => Position(kept, i) < Position(kept, j)
<1> DEFINE n == Cardinality(kept)
<1>1. Len(s) \in Nat /\ \A p \in kept : s[p] \in S
  OBVIOUS
<1>2. /\ n \in Nat /\ \A i \in 1..n : Position(kept, i) \in kept
      /\ \A i, j \in 1..n : i < j => Position(kept, i) < Position(kept, j)
  BY <1>1, Positions
<1>3. Filtered(s, kept) = [i \in 1..n |-> s[Position(kept, i)]]
  BY DEF Filtered
<1> HIDE DEF n
<1>4. Filtered(s, kept) \in [1..n -> S]
  BY <1>1, <1>2, <1>3
<1>5. Filtered(s, kept) \in Seq(S) /\ Len(Filtered(s, kept)) = n
  BY <1>2, <1>4
<1> QED BY <1>2, <1>3, <1>5 DEF n

\* Dropping entries keeps the order.
LEMMA FilteredOrdered ==
  ASSUME NEW box \in Seq(Entry), NEW low \in Nat, NEW high \in Nat, Ordered(box, low),
         NEW kept \in SUBSET (1..Len(box)),
         \A p \in kept : box[p].id # 0 => box[p].id > high
  PROVE  /\ Ordered(Filtered(box, kept), high)
         /\ Numbered(box) => Numbered(Filtered(box, kept))
<1> DEFINE new == Filtered(box, kept)
           n == Cardinality(kept)
<1>1. /\ new \in Seq(Entry) /\ Len(new) = n /\ n \in Nat
      /\ \A i \in 1..n : Position(kept, i) \in kept /\ new[i] = box[Position(kept, i)]
      /\ \A i, j \in 1..n : i < j => Position(kept, i) < Position(kept, j)
  BY FilteredIs
<1>2. DOMAIN new = 1..n
  BY <1>1
<1>3. Len(box) \in Nat /\ DOMAIN box = 1..Len(box)
  BY EntriesOf
<1>4. \A p, q \in kept : p < q => p \in 1..(q - 1)
  BY <1>3
<1> HIDE DEF new, n
<1>5. Ordered(new, high)
  <2> SUFFICES ASSUME NEW i \in 1..n, new[i].id # 0
               PROVE  /\ new[i].id > high
                      /\ \A j \in 1..(i - 1) : new[j].id \in 1..(new[i].id - 1)
    BY <1>2 DEF Ordered
  <2>1. PICK p \in kept : p = Position(kept, i) /\ new[i] = box[p]
    BY <1>1
  <2>2. ASSUME NEW j \in 1..(i - 1) PROVE new[j].id \in 1..(new[i].id - 1)
    <3>1. j \in 1..n /\ j < i
      BY <1>1
    <3>2. PICK q \in kept : q = Position(kept, j) /\ new[j] = box[q]
      BY <1>1, <3>1
    <3>3. q < p
      BY <1>1, <2>1, <3>1, <3>2
    <3>4. q \in 1..(p - 1) /\ p \in DOMAIN box
      BY <1>3, <1>4, <3>3
    <3> QED BY <2>1, <3>2, <3>4 DEF Ordered
  <2> QED BY <2>1, <2>2
<1>6. Numbered(box) => Numbered(new)
  BY <1>1, <1>2, <1>3 DEF Numbered
<1> QED BY <1>5, <1>6 DEF new

LEMMA UnsettledIs ==
  ASSUME NEW box \in Seq(Entry), NEW low \in Nat, NEW confirmed \in Nat
  PROVE  /\ Unsettled(box, confirmed) \in Seq(Entry)
         /\ Ordered(box, low) => Ordered(Unsettled(box, confirmed), confirmed)
         /\ Numbered(box) /\ Ordered(box, low) => Numbered(Unsettled(box, confirmed))
<1> DEFINE kept == {i \in DOMAIN box : ~Settled(box[i], confirmed)}
<1>1. kept \in SUBSET (1..Len(box)) /\ Unsettled(box, confirmed) = Filtered(box, kept)
  BY EntriesOf DEF Unsettled
<1>2. \A p \in kept : box[p].id # 0 => box[p].id > confirmed
  BY EntriesOf DEF Settled
<1> HIDE DEF kept
<1> QED BY <1>1, <1>2, FilteredIs, FilteredOrdered

LEMMA PendingIs ==
  ASSUME NEW box \in Seq(Entry), NEW confirmed \in Nat
  PROVE  Pending(box, confirmed) \in Seq(Mutation)
<1> DEFINE kept == {i \in DOMAIN box : box[i].id > confirmed}
<1>1. kept \in SUBSET (1..Len(box)) /\ Pending(box, confirmed) = Filtered(box, kept)
  BY EntriesOf DEF Pending
<1>2. Entry = Mutation
  BY DEF Entry, Mutation
<1> HIDE DEF kept
<1> QED BY <1>1, <1>2, FilteredIs

\* A new entry: numbered last, or not yet.
LEMMA AppendedIs ==
  ASSUME NEW box \in Seq(Entry), NEW confirmed \in Nat, NEW entry \in Entry, Ordered(box, confirmed),
         \/ entry.id = 0
         \/ entry.id = LastId(box, confirmed) + 1 /\ Numbered(box)
  PROVE  /\ Append(box, entry) \in Seq(Entry)
         /\ Ordered(Append(box, entry), confirmed)
         /\ Numbered(box) /\ entry.id # 0 => Numbered(Append(box, entry))
<1> DEFINE new == Append(box, entry)
<1>1. /\ Len(box) \in Nat /\ DOMAIN box = 1..Len(box)
      /\ \A i \in 1..Len(box) : box[i] \in Entry /\ box[i].id \in Nat
  BY EntriesOf
<1>2. /\ LastId(box, confirmed) \in Nat /\ LastId(box, confirmed) >= confirmed
      /\ \A i \in 1..Len(box) : box[i].id <= LastId(box, confirmed)
  BY <1>1, LastIdIs
<1>3. /\ new \in Seq(Entry) /\ DOMAIN new = 1..(Len(box) + 1)
      /\ \A i \in 1..Len(box) : new[i] = box[i]
      /\ new[Len(box) + 1] = entry
  OBVIOUS
<1>4. \A i \in 1..(Len(box) + 1) : i \in 1..Len(box) \/ i = Len(box) + 1
  BY <1>1
<1> HIDE DEF new
<1>5. Ordered(new, confirmed)
  <2> SUFFICES ASSUME NEW i \in 1..(Len(box) + 1), new[i].id # 0
               PROVE  /\ new[i].id > confirmed
                      /\ \A j \in 1..(i - 1) : new[j].id \in 1..(new[i].id - 1)
    BY <1>3 DEF Ordered
  <2>1. CASE i \in 1..Len(box)
    <3>1. \A j \in 1..(i - 1) : j \in 1..Len(box)
      BY <1>1, <2>1
    <3>2. /\ new[i] = box[i]
          /\ \A j \in 1..(i - 1) : new[j] = box[j]
      BY <1>3, <2>1, <3>1
    <3> QED BY <1>1, <2>1, <3>2 DEF Ordered
  <2>2. CASE i = Len(box) + 1
    <3>1. new[i].id = LastId(box, confirmed) + 1 /\ Numbered(box)
      BY <1>3, <2>2
    <3>2. ASSUME NEW j \in 1..(i - 1) PROVE new[j].id \in 1..(new[i].id - 1)
      <4>1. j \in 1..Len(box)
        BY <1>1, <2>2
      <4>2. new[j] = box[j] /\ box[j].id # 0 /\ box[j].id \in Nat
            /\ box[j].id <= LastId(box, confirmed)
        BY <1>1, <1>2, <1>3, <3>1, <4>1 DEF Numbered
      <4> QED BY <1>2, <3>1, <4>2
    <3> QED BY <1>2, <3>1, <3>2
  <2> QED BY <1>4, <2>1, <2>2
<1>6. Numbered(box) /\ entry.id # 0 => Numbered(new)
  BY <1>1, <1>3, <1>4 DEF Numbered
<1> QED BY <1>3, <1>5, <1>6 DEF new

\* A queue without one of its entries.
LEMMA RemovedIs ==
  ASSUME NEW box \in Seq(Entry), NEW confirmed \in Nat, NEW i \in DOMAIN box
  PROVE  LET new == SubSeq(box, 1, i - 1) \o SubSeq(box, i + 1, Len(box))
         IN  /\ new \in Seq(Entry)
             /\ Ordered(box, confirmed) => Ordered(new, confirmed)
             /\ Numbered(box) => Numbered(new)
<1> DEFINE left == SubSeq(box, 1, i - 1)
           right == SubSeq(box, i + 1, Len(box))
           new == left \o right
           at(j) == IF j < i THEN j ELSE j + 1
<1>1. /\ Len(box) \in Nat /\ DOMAIN box = 1..Len(box) /\ i \in 1..Len(box)
      /\ \A j \in 1..Len(box) : box[j] \in Entry /\ box[j].id \in Nat
  BY EntriesOf
<1>2. /\ left \in Seq(Entry) /\ Len(left) = i - 1
      /\ right \in Seq(Entry) /\ Len(right) = Len(box) - i
      /\ \A j \in 1..(i - 1) : left[j] = box[j]
      /\ \A j \in 1..(Len(box) - i) : right[j] = box[i + j]
  <2>1. left \in Seq(Entry) /\ Len(left) = i - 1 /\ \A j \in 1..(i - 1) : left[j] = box[j]
    BY <1>1
  <2>2. /\ right \in Seq(Entry) /\ Len(right) = Len(box) - i
        /\ \A j \in 1..(Len(box) - i) : right[j] = box[i + j]
    BY <1>1
  <2> QED BY <2>1, <2>2
<1> HIDE DEF left, right
<1>3. /\ new \in Seq(Entry) /\ Len(new) = Len(box) - 1
      /\ \A j \in 1..(Len(box) - 1) : new[j] = box[at(j)]
  <2>1. new \in Seq(Entry) /\ Len(new) = Len(box) - 1
    <3>1. left \in Seq(Entry) /\ right \in Seq(Entry)
      BY <1>2
    <3>2. new \in Seq(Entry) /\ Len(new) = Len(left) + Len(right)
      BY <3>1
    <3>3. Len(left) = i - 1 /\ Len(right) = Len(box) - i /\ i \in Int /\ Len(box) \in Int
      BY <1>1, <1>2
    <3> QED BY <3>2, <3>3
  <2>2. \A j \in 1..(Len(box) - 1) : new[j] = IF j <= i - 1 THEN left[j] ELSE right[j - (i - 1)]
    BY <1>1, <1>2
  <2>3. ASSUME NEW j \in 1..(Len(box) - 1) PROVE new[j] = box[at(j)]
    <3>1. CASE j < i
      BY <1>1, <1>2, <2>2, <3>1
    <3>2. CASE ~(j < i)
      <4>1. j - (i - 1) \in 1..(Len(box) - i) /\ i + (j - (i - 1)) = j + 1 /\ ~(j <= i - 1)
        BY <1>1, <3>2
      <4>2. new[j] = right[j - (i - 1)]
        BY <2>2, <4>1
      <4> QED BY <1>2, <3>2, <4>1, <4>2
    <3> QED BY <3>1, <3>2
  <2> QED BY <2>1, <2>3
<1>4. DOMAIN new = 1..(Len(box) - 1)
  <2>1. DOMAIN new = 1..Len(new)
    BY <1>3
  <2> QED BY <1>3, <2>1
<1>5. \A j \in 1..(Len(box) - 1) : at(j) \in 1..Len(box) /\ \A k \in 1..(j - 1) : at(k) \in 1..(at(j) - 1)
  BY <1>1
<1>6. \A j \in 1..(Len(box) - 1) : \A k \in 1..(j - 1) : k \in 1..(Len(box) - 1)
  BY <1>1
<1> HIDE DEF new, at
<1>7. Ordered(box, confirmed) => Ordered(new, confirmed)
  BY <1>1, <1>3, <1>4, <1>5, <1>6 DEF Ordered
<1>8. Numbered(box) => Numbered(new)
  BY <1>1, <1>3, <1>4, <1>5 DEF Numbered
<1> QED BY <1>3, <1>7, <1>8 DEF new, left, right

-----------------------------------------------------------------------------
(* Types *)

Frames == Hellos \cup PushFrames

\* The server's log and push: what a client sends is a sequence of mutations.
LEMMA SyncLog ==
  ASSUME SyncTypeOK, SyncNext
  PROVE  /\ mutationLog' \in Seq(LogEntries)
         /\ push' # Idle => push'.todo \in Seq(Mutation)
<1>1. /\ TypeOK /\ mutationLog \in Seq(LogEntries)
      /\ push # Idle => push.todo \in Seq(Mutation)
  BY DEF SyncTypeOK, TypeOK, Pushes, PushesOf
<1>2. CASE Succeed \/ Fail
  BY <1>1, <1>2, ApplyLog DEF Succeed, Fail
<1>3. CASE Reset
  BY <1>1, <1>3 DEF Reset
<1>4. CASE \E c \in Clients : Handled(c, "push") /\ StartPush(c, Head(up[c]).mutations)
  <2>1. PICK c \in Clients : Handled(c, "push") /\ StartPush(c, Head(up[c]).mutations)
    BY <1>4
  <2>2. up[c] \in Seq(Frames) /\ up[c] # <<>> /\ Head(up[c]).type = "push"
    BY <2>1 DEF Handled, SyncTypeOK, Frames
  <2>3. Head(up[c]) \in Frames
    BY <2>2
  <2>4. Head(up[c]).mutations \in Seq(Mutation)
    BY <2>2, <2>3 DEF Frames, Hellos, PushFrames
  <2> QED BY <1>1, <2>1, <2>4 DEF StartPush, store
<1>5. CASE SkipDuplicate \/ RejectGap
  <2>1. push \in Pushes /\ push.todo # <<>> /\ mutationLog' = mutationLog
    BY <1>1, <1>5 DEF SkipDuplicate, RejectGap, Mutating, TypeOK, store
  <2>2. push'.todo = Tail(push.todo) \/ push'.todo = <<>>
    BY <1>5, <2>1 DEF SkipDuplicate, RejectGap, Pushes, PushesOf
  <2>3. Tail(push.todo) \in Seq(Mutation) /\ <<>> \in Seq(Mutation)
    BY <2>1 DEF Pushes, PushesOf
  <2> QED BY <1>1, <2>1, <2>2, <2>3
<1>6. CASE mutationLog' = mutationLog /\ push' \in {push, Idle}
  BY <1>1, <1>6
<1>7. ASSUME NEW c \in Clients, ServeHello(c) \/ FailHello(c) \/ ServerClose(c)
      PROVE  mutationLog' = mutationLog /\ push' = push
  BY <1>7 DEF ServeHello, FailHello, ServerClose, HandleHello, CloseSocket, store
<1>8. ASSUME NEW c \in Clients, ServePush(c)
      PROVE  \/ mutationLog' = mutationLog /\ push' = push
             \/ Handled(c, "push") /\ StartPush(c, Head(up[c]).mutations)
  BY <1>8 DEF ServePush, RefusePush, store
<1>9. ASSUME PushStep \/ Throw
      PROVE  \/ Succeed \/ Fail \/ SkipDuplicate \/ RejectGap
             \/ mutationLog' = mutationLog /\ push' \in {push, Idle}
  BY <1>9 DEF PushStep, Throw, FinishPush, AbortPush, store
<1>10. ASSUME Maintain PROVE Reset \/ (mutationLog' = mutationLog /\ push' = push)
  BY <1>10 DEF Maintain, Compact, Hibernate, Import, ImportExtension, ReplaceRows, store
<1>11. ASSUME NEW c \in Clients, ClientNext(c) PROVE mutationLog' = mutationLog /\ push' = push
  BY <1>11 DEF ClientNext, Mutate, Timeout, Connect, Disconnect, SeeClose, LoseSocket, Resync,
     ReceivePoke, ReceiveError, RetryPush, Upgrade, PeerGone, Read, serverVars, store
<1> QED BY <1>2, <1>3, <1>4, <1>5, <1>6, <1>7, <1>8, <1>9, <1>10, <1>11 DEF SyncNext, ServerNext

\* The frames under way carry what ReplicaOK asks of them.
LEMMA SyncReplicaOK ==
  ASSUME SyncTypeOK
  PROVE  ReplicaOK
<1>1. ASSUME NEW c \in Clients PROVE FramesOK(up[c])
  <2>1. up[c] \in Seq(Frames)
    BY DEF SyncTypeOK, Frames
  <2>2. \A i \in 1..Len(up[c]) : up[c][i] \in Frames
    BY <2>1
  <2> QED BY <2>1, <2>2, OwnElements DEF FramesOK, Frames, Hellos, PushFrames
<1> QED BY <1>1 DEF SyncTypeOK, ReplicaOK

LEMMA ServerTypes ==
  ASSUME SyncTypeOK, HistoryInv, SyncNext
  PROVE  TypeOK'
<1>1. StoreOK'
  BY ServerPart, ServerInv, SyncReplicaOK DEF SyncTypeOK, TypeOK
<1>2. push' \in Pushes \cup {Idle}
  BY <1>1, SyncLog DEF StoreOK, Pushes, PushesOf
<1> QED BY <1>1, <1>2, SyncLog DEF TypeOK

LEMMA SentType ==
  ASSUME up \in [Clients -> Seq(Frames)], NEW c \in Clients, NEW frame \in Frames,
         up' \in {up, Sent(c, frame)}
  PROVE  up' \in [Clients -> Seq(Frames)]
<1>1. Append(up[c], frame) \in Seq(Frames)
  OBVIOUS
<1> QED BY <1>1 DEF Sent

LEMMA FlushedType ==
  ASSUME up \in [Clients -> Seq(Frames)], NEW c \in Clients, NEW box \in Seq(Entry),
         NEW confirmed \in Nat, NEW synced, up' \in {up, Flushed(c, box, confirmed, synced)}
  PROVE  up' \in [Clients -> Seq(Frames)]
<1> DEFINE frame == [type |-> "push", mutations |-> Pending(box, confirmed)]
<1>1. frame \in Frames
  <2>1. Pending(box, confirmed) \in Seq(Mutation)
    BY PendingIs
  <2> QED BY <2>1 DEF Frames, PushFrames
<1>2. up' \in {up, Sent(c, frame)}
  BY DEF Flushed
<1> HIDE DEF frame
<1> QED BY <1>1, <1>2, SentType

LEMMA HelloIsFrame ==
  ASSUME NEW cursor \in Cursors \cup {NoCursor}
  PROVE  HelloFrame(cursor) \in Frames
BY DEF HelloFrame, Frames, Hellos

\* The head of a queue of frames to a client that is a poke is one.
LEMMA HeadPoke ==
  ASSUME StoreOK, NEW c \in Clients, down[c] # <<>>, Head(down[c]).type = "poke"
  PROVE  Head(down[c]) \in Pokes
<1>1. down[c] \in Seq(Pokes \cup Errors)
  BY DEF StoreOK
<1>2. Head(down[c]) \in Pokes \cup Errors
  BY <1>1
<1> QED BY <1>2 DEF Errors

LEMMA ConfirmedIs ==
  ASSUME NEW c \in Clients, NEW poke \in Pokes, confirmedLmid \in [Clients -> Nat]
  PROVE  /\ ConfirmedBy(c, poke) \in Nat
         /\ ~BackendChanged(c, poke) => ConfirmedBy(c, poke) >= confirmedLmid[c]
         /\ ~BackendChanged(c, poke) => \/ ConfirmedBy(c, poke) = confirmedLmid[c]
                                        \/ \E change \in poke.lmids :
                                             change.client = c /\ change.lmid = ConfirmedBy(c, poke)
<1> DEFINE mine == {change.lmid : change \in {change \in poke.lmids : change.client = c}}
           newer == {lmid \in mine : lmid > confirmedLmid[c] \/ BackendChanged(c, poke)}
<1>1. \A change \in poke.lmids : change.lmid \in Nat
  BY DEF Pokes, LmidChanges
<1>2. newer \subseteq Nat /\ \A lmid \in newer : lmid \in mine
  BY <1>1
<1>3. ConfirmedBy(c, poke) = IF newer # {} THEN CHOOSE lmid \in newer : TRUE
                             ELSE IF BackendChanged(c, poke) THEN 0 ELSE confirmedLmid[c]
  BY DEF ConfirmedBy
<1>4. CASE newer # {}
  <2>1. ConfirmedBy(c, poke) \in newer
    <3> HIDE DEF newer
    <3> QED BY <1>3, <1>4
  <2>2. ~BackendChanged(c, poke) => ConfirmedBy(c, poke) > confirmedLmid[c]
    BY <2>1
  <2>3. \E change \in poke.lmids : change.client = c /\ change.lmid = ConfirmedBy(c, poke)
    BY <2>1
  <2> QED BY <1>2, <2>1, <2>2, <2>3
<1>5. CASE newer = {}
  <2> HIDE DEF newer
  <2> QED BY <1>3, <1>5
<1> QED BY <1>4, <1>5

\* The queue a poke leaves.
LEMMA QueueAtIs ==
  ASSUME SyncTypeOK, NEW c \in Clients, NEW poke \in Pokes
  PROVE  /\ QueueAt(c, poke) \in Seq(Entry)
         /\ OutboxInv => /\ \E low \in Nat : Ordered(QueueAt(c, poke), low)
                         /\ syncedThisConnection[c] => Numbered(QueueAt(c, poke))
<1>1. outbox[c] \in Seq(Entry) /\ confirmedLmid[c] \in Nat /\ confirmedLmid \in [Clients -> Nat]
  BY DEF SyncTypeOK
<1>2. ConfirmedBy(c, poke) \in Nat
  BY <1>1, ConfirmedIs
<1>3. CASE BackendChanged(c, poke)
  <2>1. QueueAt(c, poke) = Rebased(outbox[c], ConfirmedBy(c, poke))
    BY <1>3 DEF QueueAt
  <2> QED BY <1>1, <1>2, <2>1, RebasedIs
<1>4. CASE ~BackendChanged(c, poke)
  <2>1. QueueAt(c, poke) = outbox[c]
    BY <1>4 DEF QueueAt
  <2> QED BY <1>1, <2>1 DEF OutboxInv, OutboxOrdered
<1> QED BY <1>3, <1>4

LEMMA QueueAfterIs ==
  ASSUME SyncTypeOK, NEW c \in Clients, NEW poke \in Pokes
  PROVE  /\ QueueAfter(c, poke) \in Seq(Entry)
         /\ OutboxInv => /\ Ordered(QueueAfter(c, poke), ConfirmedBy(c, poke))
                         /\ Numbered(QueueAfter(c, poke))
<1> DEFINE confirmed == ConfirmedBy(c, poke)
           rest == Unsettled(QueueAt(c, poke), confirmed)
           renumbered == IF needsRebase[c] THEN Rebased(rest, confirmed) ELSE rest
<1>1. confirmed \in Nat
  BY ConfirmedIs DEF SyncTypeOK
<1>2. /\ rest \in Seq(Entry)
      /\ OutboxInv => /\ Ordered(rest, confirmed)
                      /\ syncedThisConnection[c] => Numbered(rest)
  BY <1>1, QueueAtIs, UnsettledIs
<1>3. /\ renumbered \in Seq(Entry)
      /\ OutboxInv => /\ Ordered(renumbered, confirmed)
                      /\ syncedThisConnection[c] => Numbered(renumbered)
  <2> HIDE DEF rest, confirmed
  <2> QED BY <1>1, <1>2, RebasedIs
<1>4. QueueAfter(c, poke) =
        IF syncedThisConnection[c] THEN renumbered ELSE Assigned(renumbered, confirmed)
  BY DEF QueueAfter
<1> HIDE DEF renumbered, confirmed
<1> QED BY <1>1, <1>3, <1>4, AssignedIs DEF confirmed

\* What the client side adds to TypeOK.
ClientTypeOK ==
  /\ clientCursor \in [Clients -> Cursors \cup {NoCursor}]
  /\ replica \in [Clients -> Rows]
  /\ confirmedLmid \in [Clients -> Nat]
  /\ outbox \in [Clients -> Seq(Entry)]
  /\ syncedThisConnection \in [Clients -> BOOLEAN]
  /\ awaitingCatchUp \in [Clients -> BOOLEAN]
  /\ needsRebase \in [Clients -> BOOLEAN]
  /\ retryPush \in [Clients -> BOOLEAN]
  /\ up \in [Clients -> Seq(Frames)]
  /\ outcome \in [Mutations -> Outcomes]
  /\ issued \in [Clients -> Seq(Mutations)]
  /\ trouble \in Nat

LEMMA SyncTypeIs == SyncTypeOK <=> TypeOK /\ ClientTypeOK
BY DEF SyncTypeOK, ClientTypeOK, Frames

LEMMA TroubleType ==
  ASSUME trouble \in Nat, NEW kind, Trouble(kind)
  PROVE  trouble' \in Nat
BY DEF Trouble

LEMMA MutateTypes ==
  ASSUME SyncTypeOK, NEW c \in Clients, NEW m \in Mutations, Mutate(c, m)
  PROVE  ClientTypeOK'
<1> DEFINE synced == syncedThisConnection[c]
           entry == [id |-> IF synced THEN LastId(outbox[c], confirmedLmid[c]) + 1 ELSE 0, name |-> m]
           box == Append(outbox[c], entry)
<1>1. /\ ClientTypeOK /\ outbox[c] \in Seq(Entry) /\ confirmedLmid[c] \in Nat
      /\ LastId(outbox[c], confirmedLmid[c]) \in Nat
  <2>1. ClientTypeOK
    BY SyncTypeIs
  <2> QED BY <2>1, LastIdIs DEF ClientTypeOK
<1>2. entry \in Entry
  BY <1>1 DEF Entry
<1>3. box \in Seq(Entry)
  <2> HIDE DEF entry
  <2> QED BY <1>1, <1>2
<1>4. /\ outbox' = [outbox EXCEPT ![c] = box]
      /\ up' = Flushed(c, box, confirmedLmid[c], synced)
      /\ outcome' = [outcome EXCEPT ![m] = "pending"]
      /\ issued' = [issued EXCEPT ![c] = Append(@, m)]
      /\ UNCHANGED <<replicaVars, confirmedLmid, linkVars, trouble>>
  BY DEF Mutate
<1> HIDE DEF box, entry
<1>5. up' \in [Clients -> Seq(Frames)]
  BY <1>1, <1>3, <1>4, FlushedType DEF ClientTypeOK
<1>6. outbox' \in [Clients -> Seq(Entry)] /\ outcome' \in [Mutations -> Outcomes]
      /\ issued' \in [Clients -> Seq(Mutations)]
  BY <1>1, <1>3, <1>4 DEF ClientTypeOK, Outcomes
<1> QED BY <1>1, <1>4, <1>5, <1>6 DEF ClientTypeOK, replicaVars, linkVars

LEMMA ApplyTypes ==
  ASSUME SyncTypeOK, NEW c \in Clients, Head(down[c]) \in Pokes, ApplyPoke(c)
  PROVE  /\ confirmedLmid' \in [Clients -> Nat]
         /\ outbox' \in [Clients -> Seq(Entry)]
         /\ syncedThisConnection' \in [Clients -> BOOLEAN]
         /\ awaitingCatchUp' \in [Clients -> BOOLEAN]
         /\ needsRebase' \in [Clients -> BOOLEAN]
         /\ up' \in [Clients -> Seq(Frames)]
         /\ outcome' \in [Mutations -> Outcomes]
         /\ UNCHANGED <<issued, retryPush>>
<1> DEFINE poke == Head(down[c])
<1>1. ClientTypeOK
  BY SyncTypeIs
<1>2. ConfirmedBy(c, poke) \in Nat /\ QueueAfter(c, poke) \in Seq(Entry)
  BY <1>1, ConfirmedIs, QueueAfterIs DEF ClientTypeOK
<1>3. /\ confirmedLmid' = [confirmedLmid EXCEPT ![c] = ConfirmedBy(c, poke)]
      /\ outcome' = [m \in Mutations |-> OutcomeAfter(c, poke, m)]
      /\ outbox' = [outbox EXCEPT ![c] = QueueAfter(c, poke)]
      /\ syncedThisConnection' = [syncedThisConnection EXCEPT ![c] = TRUE]
      /\ awaitingCatchUp' = [awaitingCatchUp EXCEPT ![c] = FALSE]
      /\ needsRebase' = [needsRebase EXCEPT ![c] = FALSE]
      /\ up' = Flushed(c, QueueAfter(c, poke), ConfirmedBy(c, poke), TRUE)
      /\ UNCHANGED <<issued, retryPush>>
  BY DEF ApplyPoke
<1>4. \A m \in Mutations : OutcomeAfter(c, poke, m) \in Outcomes
  BY <1>1 DEF OutcomeAfter, Outcomes, ClientTypeOK
<1> HIDE DEF poke
<1>5. up' \in [Clients -> Seq(Frames)]
  <2>1. PICK synced : up' = Flushed(c, QueueAfter(c, poke), ConfirmedBy(c, poke), synced)
    BY <1>3, Zenon
  <2> QED BY <1>1, <1>2, <2>1, FlushedType DEF ClientTypeOK
<1>6. outcome' \in [Mutations -> Outcomes]
  BY <1>3, <1>4
<1> QED BY <1>1, <1>2, <1>3, <1>5, <1>6 DEF ClientTypeOK

\* The cursor and the rows a client comes to hold.
LEMMA ReplicaTypes ==
  ASSUME SyncTypeOK, NEW c \in Clients, ClientNext(c)
  PROVE  /\ clientCursor' \in [Clients -> Cursors \cup {NoCursor}]
         /\ replica' \in [Clients -> Rows]
<1>1. /\ clientCursor \in [Clients -> Cursors \cup {NoCursor}] /\ replica \in [Clients -> Rows]
      /\ StoreOK
  BY DEF SyncTypeOK, TypeOK
<1>2. ASSUME ReceivePoke(c), ApplyPoke(c)
      PROVE  /\ clientCursor' \in [Clients -> Cursors \cup {NoCursor}]
             /\ replica' \in [Clients -> Rows]
  <2> DEFINE poke == Head(down[c])
  <2>1. poke \in Pokes
    BY <1>1, <1>2, HeadPoke DEF ReceivePoke, Read
  <2>2. /\ replica' = [replica EXCEPT ![c] = Patched(@, poke.clear, poke.patch)]
        /\ clientCursor' = [clientCursor EXCEPT ![c] = poke.cursor]
    BY <1>2 DEF ApplyPoke
  <2> HIDE DEF poke
  <2>3. Patched(replica[c], poke.clear, poke.patch) \in Rows
    BY <1>1, <2>1 DEF Patched, Pokes, Patches, Rows, Content
  <2> QED BY <1>1, <2>1, <2>2, <2>3 DEF Pokes
<1>3. ASSUME Resync(c)
      PROVE  clientCursor' \in [Clients -> Cursors \cup {NoCursor}] /\ replica' = replica
  BY <1>1, <1>3 DEF Resync
<1>4. ASSUME \/ \E m \in Mutations : Mutate(c, m)
             \/ \E i \in DOMAIN outbox[c] : Timeout(c, i)
             \/ Connect(c) \/ Disconnect(c) \/ SeeClose(c) \/ ReceiveError(c) \/ RetryPush(c)
             \/ ReceivePoke(c) /\ DropPoke(c)
      PROVE  UNCHANGED <<clientCursor, replica>>
  BY <1>4 DEF Mutate, Timeout, Connect, Disconnect, SeeClose, LoseSocket, ReceiveError, RetryPush,
     DropPoke, replicaVars
<1>5. ReceivePoke(c) => DropPoke(c) \/ ApplyPoke(c)
  BY DEF ReceivePoke
<1> QED BY <1>1, <1>2, <1>3, <1>4, <1>5 DEF ClientNext

LEMMA ClientTypes ==
  ASSUME SyncTypeOK, NEW c \in Clients, ClientNext(c)
  PROVE  ClientTypeOK'
<1>1. ClientTypeOK /\ StoreOK
  BY SyncTypeIs DEF TypeOK
<1>2. /\ clientCursor' \in [Clients -> Cursors \cup {NoCursor}]
      /\ replica' \in [Clients -> Rows]
  BY ReplicaTypes
<1>3. ASSUME NEW m \in Mutations, Mutate(c, m) PROVE ClientTypeOK'
  BY <1>3, MutateTypes
<1>4. ASSUME NEW i \in DOMAIN outbox[c], Timeout(c, i) PROVE ClientTypeOK'
  <2> DEFINE box == SubSeq(outbox[c], 1, i - 1) \o SubSeq(outbox[c], i + 1, Len(outbox[c]))
  <2>1. outbox[c] \in Seq(Entry) /\ confirmedLmid[c] \in Nat
    BY <1>1 DEF ClientTypeOK
  <2>2. box \in Seq(Entry)
    BY <2>1, RemovedIs
  <2>3. outbox' = [outbox EXCEPT ![c] = box]
    BY <1>4 DEF Timeout
  <2> HIDE DEF box
  <2>4. outcome' \in [Mutations -> Outcomes]
    BY <1>1, <1>4 DEF Timeout, ClientTypeOK, Outcomes
  <2>5. outbox' \in [Clients -> Seq(Entry)]
    BY <1>1, <2>2, <2>3 DEF ClientTypeOK
  <2>6. UNCHANGED <<clientCursor, replica, confirmedLmid, issued, syncedThisConnection,
                    awaitingCatchUp, needsRebase, retryPush, up, trouble>>
    BY <1>4 DEF Timeout, replicaVars, linkVars
  <2> QED BY <1>1, <2>4, <2>5, <2>6 DEF ClientTypeOK
<1>5. ASSUME Connect(c) PROVE ClientTypeOK'
  <2>1. <<HelloFrame(clientCursor[c])>> \in Seq(Frames)
    <3>1. HelloFrame(clientCursor[c]) \in Frames
      BY <1>1, HelloIsFrame DEF ClientTypeOK
    <3> QED BY <3>1
  <2> QED BY <1>1, <1>5, <2>1 DEF Connect, ClientTypeOK, replicaVars, queueVars
<1>6. ASSUME Disconnect(c) \/ SeeClose(c) PROVE ClientTypeOK'
  <2>1. trouble' \in Nat
    BY <1>1, <1>6, TroubleType DEF Disconnect, SeeClose, ClientTypeOK
  <2> QED BY <1>1, <1>6, <2>1 DEF Disconnect, SeeClose, LoseSocket, ClientTypeOK, replicaVars,
             queueVars
<1>7. ASSUME Resync(c) PROVE ClientTypeOK'
  <2>1. trouble' \in Nat
    BY <1>1, <1>7, TroubleType DEF Resync, ClientTypeOK
  <2>2. up' \in [Clients -> Seq(Frames)]
    <3>1. HelloFrame(NoCursor) \in Frames
      BY HelloIsFrame
    <3> QED BY <1>1, <1>7, <3>1, SentType DEF Resync, ClientTypeOK
  <2>3. awaitingCatchUp' \in [Clients -> BOOLEAN]
    BY <1>1, <1>7 DEF Resync, ClientTypeOK
  <2> QED BY <1>1, <1>2, <1>7, <2>1, <2>2, <2>3 DEF Resync, ClientTypeOK, queueVars
<1>8. ASSUME RequestResync(c)
      PROVE  awaitingCatchUp' \in [Clients -> BOOLEAN] /\ up' \in [Clients -> Seq(Frames)]
  <2>1. HelloFrame(clientCursor[c]) \in Frames
    BY <1>1, HelloIsFrame DEF ClientTypeOK
  <2> QED BY <1>1, <1>8, <2>1, SentType DEF RequestResync, ClientTypeOK
<1>9. ASSUME ReceivePoke(c) PROVE ClientTypeOK'
  <2>1. CASE DropPoke(c)
    BY <1>1, <1>8, <1>9, <2>1 DEF ReceivePoke, DropPoke, ClientTypeOK, replicaVars, queueVars
  <2>2. CASE ApplyPoke(c)
    <3>1. Head(down[c]) \in Pokes
      BY <1>1, <1>9, HeadPoke DEF ReceivePoke, Read
    <3>2. trouble' = trouble
      BY <1>9 DEF ReceivePoke
    <3> QED BY <1>1, <1>2, <2>2, <3>1, <3>2, ApplyTypes DEF ClientTypeOK
  <2> QED BY <1>9, <2>1, <2>2 DEF ReceivePoke
<1>10. ASSUME ReceiveError(c) PROVE ClientTypeOK'
  BY <1>1, <1>8, <1>10 DEF ReceiveError, ClientTypeOK, replicaVars, queueVars
<1>11. ASSUME RetryPush(c) PROVE ClientTypeOK'
  <2>1. outbox[c] \in Seq(Entry) /\ confirmedLmid[c] \in Nat
    BY <1>1 DEF ClientTypeOK
  <2>2. up' \in [Clients -> Seq(Frames)]
    BY <1>1, <1>11, <2>1, FlushedType DEF RetryPush, ClientTypeOK
  <2> QED BY <1>1, <1>11, <2>2 DEF RetryPush, ClientTypeOK, replicaVars, queueVars
<1> QED BY <1>3, <1>4, <1>5, <1>6, <1>7, <1>9, <1>10, <1>11 DEF ClientNext

LEMMA ServerClientTypes ==
  ASSUME SyncTypeOK, ServerNext
  PROVE  ClientTypeOK'
<1>1. ClientTypeOK
  BY SyncTypeIs
<1>2. UNCHANGED clientVars
  BY DEF ServerNext, ServeHello, FailHello, ServePush, ServerClose, PushStep, Throw, Maintain
<1>3. trouble' = trouble \/ \E kind : Trouble(kind)
  BY DEF ServerNext, ServeHello, FailHello, ServePush, ServerClose, PushStep, Throw, Maintain
<1>4. trouble' \in Nat
  BY <1>1, <1>3, TroubleType DEF ClientTypeOK
<1>5. \/ up' = up
      \/ \E c \in Clients : up[c] # <<>> /\ up' = [up EXCEPT ![c] = Tail(@)]
      \/ \E c \in Clients : up' = [up EXCEPT ![c] = <<>>]
      \/ up' = [c \in Clients |-> <<>>]
  BY DEF ServerNext, ServeHello, FailHello, ServePush, ServerClose, PushStep, Throw, Maintain,
     Handled
<1>6. up' \in [Clients -> Seq(Frames)]
  <2>1. up \in [Clients -> Seq(Frames)]
    BY <1>1 DEF ClientTypeOK
  <2>2. \A c \in Clients : up[c] # <<>> => Tail(up[c]) \in Seq(Frames)
    BY <2>1
  <2>3. <<>> \in Seq(Frames)
    OBVIOUS
  <2> QED BY <1>5, <2>1, <2>2, <2>3
<1> QED BY <1>1, <1>2, <1>4, <1>6 DEF ClientTypeOK, clientVars, replicaVars, queueVars, linkVars

LEMMA StepSyncType ==
  ASSUME SyncTypeOK, HistoryInv, SyncNext
  PROVE  SyncTypeOK'
<1>1. TypeOK'
  BY ServerTypes
<1>2. ClientTypeOK'
  BY ClientTypes, ServerClientTypes DEF SyncNext
<1> QED BY <1>1, <1>2 DEF SyncTypeOK, ClientTypeOK, Frames

LEMMA InitSyncType == SyncInit => SyncTypeOK
<1> SUFFICES ASSUME SyncInit PROVE SyncTypeOK
  OBVIOUS
<1>1. TypeOK
  BY InitType DEF SyncInit, Init, TypeOK
<1>2. ClientTypeOK
  BY DEF SyncInit, ClientTypeOK, Rows, Content, Outcomes
<1> QED BY <1>1, <1>2, SyncTypeIs

\* Every variable of the composition keeps its type.
THEOREM SyncTypeCorrect == SyncSpec => []SyncTypeOK
<1>2. SyncTypeOK /\ UNCHANGED vars => SyncTypeOK'
  BY DEF vars, clientVars, replicaVars, queueVars, linkVars, serverVars, SyncTypeOK, TypeOK, StoreOK
<1>3. SyncTypeOK /\ ReplicaInv /\ [SyncNext]_vars => SyncTypeOK'
  BY <1>2, StepSyncType DEF ReplicaInv
<1> QED BY <1>3, InitSyncType, ReplicaCorrect, PTL DEF SyncSpec

-----------------------------------------------------------------------------
(* The order of the queue *)

\* A step that changes one client's queue, or its connection, has only that to answer for.
LEMMA OneQueue ==
  ASSUME SyncTypeOK, OutboxInv, NEW c \in Clients, NEW box, NEW confirmed, NEW synced,
         outbox' = [outbox EXCEPT ![c] = box],
         confirmedLmid' = [confirmedLmid EXCEPT ![c] = confirmed],
         syncedThisConnection' = [syncedThisConnection EXCEPT ![c] = synced],
         Ordered(box, confirmed), synced => Numbered(box)
  PROVE  OutboxInv'
<1>1. /\ outbox'[c] = box /\ confirmedLmid'[c] = confirmed /\ syncedThisConnection'[c] = synced
      /\ \A d \in Clients \ {c} : /\ outbox'[d] = outbox[d] /\ confirmedLmid'[d] = confirmedLmid[d]
                                  /\ syncedThisConnection'[d] = syncedThisConnection[d]
  BY DEF SyncTypeOK
<1>2. ASSUME NEW d \in Clients
      PROVE  /\ Ordered(outbox'[d], confirmedLmid'[d])
             /\ syncedThisConnection'[d] => Numbered(outbox'[d])
  <2>1. CASE d = c
    BY <1>1, <2>1
  <2>2. CASE d # c
    BY <1>1, <2>2 DEF OutboxInv, OutboxOrdered
  <2> QED BY <2>1, <2>2
<1> QED BY <1>2 DEF OutboxInv, OutboxOrdered

LEMMA StepOutbox ==
  ASSUME SyncTypeOK, OutboxInv, SyncNext
  PROVE  OutboxInv'
<1>1. CASE UNCHANGED <<outbox, confirmedLmid, syncedThisConnection>>
  BY <1>1 DEF OutboxInv, OutboxOrdered, Ordered, Numbered
<1>2. CASE ServerNext
  <2>1. UNCHANGED clientVars
    BY <1>2 DEF ServerNext, ServeHello, FailHello, ServePush, ServerClose, PushStep, Throw, Maintain
  <2> QED BY <1>1, <2>1 DEF clientVars, queueVars, linkVars
<1>3. ASSUME NEW c \in Clients, ClientNext(c) PROVE OutboxInv'
  <2>1. /\ outbox[c] \in Seq(Entry) /\ confirmedLmid[c] \in Nat
        /\ outbox \in [Clients -> Seq(Entry)] /\ confirmedLmid \in [Clients -> Nat]
        /\ syncedThisConnection \in [Clients -> BOOLEAN]
    BY DEF SyncTypeOK
  <2>2. Ordered(outbox[c], confirmedLmid[c]) /\ (syncedThisConnection[c] => Numbered(outbox[c]))
    BY DEF OutboxInv, OutboxOrdered
  <2>3. ASSUME NEW m \in Mutations, Mutate(c, m) PROVE OutboxInv'
    <3> DEFINE synced == syncedThisConnection[c]
               entry == [id |-> IF synced THEN LastId(outbox[c], confirmedLmid[c]) + 1 ELSE 0,
                         name |-> m]
               box == Append(outbox[c], entry)
    <3>1. LastId(outbox[c], confirmedLmid[c]) \in Nat
      BY <2>1, LastIdIs
    <3>2. /\ entry \in Entry
          /\ synced => entry.id = LastId(outbox[c], confirmedLmid[c]) + 1 /\ entry.id # 0
          /\ ~synced => entry.id = 0
      BY <3>1 DEF Entry
    <3>3. /\ outbox' = [outbox EXCEPT ![c] = box]
          /\ UNCHANGED <<confirmedLmid, syncedThisConnection>>
      BY <2>3 DEF Mutate, linkVars
    <3> HIDE DEF entry
    <3>4. Ordered(box, confirmedLmid[c]) /\ (synced => Numbered(box))
      BY <2>1, <2>2, <3>2, AppendedIs
    <3>5. /\ confirmedLmid' = [confirmedLmid EXCEPT ![c] = confirmedLmid[c]]
          /\ syncedThisConnection' = [syncedThisConnection EXCEPT ![c] = syncedThisConnection[c]]
      BY <2>1, <3>3
    <3> HIDE DEF box
    <3> QED BY <3>3, <3>4, <3>5, OneQueue
  <2>4. ASSUME NEW i \in DOMAIN outbox[c], Timeout(c, i) PROVE OutboxInv'
    <3> DEFINE box == SubSeq(outbox[c], 1, i - 1) \o SubSeq(outbox[c], i + 1, Len(outbox[c]))
    <3>1. Ordered(box, confirmedLmid[c]) /\ (syncedThisConnection[c] => Numbered(box))
      BY <2>1, <2>2, RemovedIs
    <3>2. /\ outbox' = [outbox EXCEPT ![c] = box]
          /\ UNCHANGED <<confirmedLmid, syncedThisConnection>>
      BY <2>4 DEF Timeout, linkVars
    <3>3. /\ confirmedLmid' = [confirmedLmid EXCEPT ![c] = confirmedLmid[c]]
          /\ syncedThisConnection' = [syncedThisConnection EXCEPT ![c] = syncedThisConnection[c]]
      BY <2>1, <3>2
    <3> HIDE DEF box
    <3> QED BY <3>1, <3>2, <3>3, OneQueue
  <2>5. ASSUME Connect(c) PROVE OutboxInv'
    BY <2>5 DEF Connect, queueVars, OutboxInv, OutboxOrdered, Ordered, Numbered, SyncTypeOK
  <2>6. ASSUME ReceivePoke(c), ApplyPoke(c) PROVE OutboxInv'
    <3> DEFINE poke == Head(down[c])
    <3>1. poke \in Pokes
      BY <2>6, HeadPoke DEF ReceivePoke, Read, SyncTypeOK, TypeOK
    <3>2. Ordered(QueueAfter(c, poke), ConfirmedBy(c, poke)) /\ Numbered(QueueAfter(c, poke))
      BY <3>1, QueueAfterIs
    <3>3. /\ outbox' = [outbox EXCEPT ![c] = QueueAfter(c, poke)]
          /\ confirmedLmid' = [confirmedLmid EXCEPT ![c] = ConfirmedBy(c, poke)]
      BY <2>6 DEF ApplyPoke
    <3>4. PICK synced : syncedThisConnection' = [syncedThisConnection EXCEPT ![c] = synced]
      BY <2>6, Zenon DEF ApplyPoke
    <3> HIDE DEF poke
    <3> QED BY <3>2, <3>3, <3>4, OneQueue
  <2>7. ASSUME \/ Disconnect(c) \/ SeeClose(c) \/ Resync(c) \/ ReceiveError(c) \/ RetryPush(c)
               \/ ReceivePoke(c) /\ DropPoke(c)
        PROVE  UNCHANGED <<outbox, confirmedLmid, syncedThisConnection>>
    BY <2>7 DEF Disconnect, SeeClose, LoseSocket, Resync, ReceiveError, RetryPush, DropPoke,
       queueVars, linkVars
  <2>8. ReceivePoke(c) => DropPoke(c) \/ ApplyPoke(c)
    BY DEF ReceivePoke
  <2> QED BY <1>1, <1>3, <2>3, <2>4, <2>5, <2>6, <2>7, <2>8 DEF ClientNext
<1> QED BY <1>2, <1>3 DEF SyncNext

LEMMA QueuesStayOrdered == SyncSpec => []OutboxInv
<1>1. SyncInit => OutboxInv
  BY DEF SyncInit, OutboxInv, OutboxOrdered, Ordered, Numbered
<1>2. OutboxInv /\ UNCHANGED vars => OutboxInv'
  BY DEF vars, clientVars, queueVars, linkVars, OutboxInv, OutboxOrdered, Ordered, Numbered
<1>3. SyncTypeOK /\ OutboxInv /\ [SyncNext]_vars => OutboxInv'
  BY <1>2, StepOutbox
<1> QED BY <1>1, <1>3, SyncTypeCorrect, PTL DEF SyncSpec

\* Timeouts, losses, resets and renumberings keep every queue in the order of its ids, all past
\* the confirmed LMID, so the sort of #flushPush never has anything to do.
THEOREM QueuesAreOrdered == SyncSpec => []OutboxOrdered
<1>1. OutboxInv => OutboxOrdered
  BY DEF OutboxInv
<1> QED BY <1>1, QueuesStayOrdered, PTL

-----------------------------------------------------------------------------
(* The direction of the pokes *)

\* What a step does to the frames under way: those it adds end at the current cursor.
DownStep ==
  \/ \E targets, frame : /\ Deliver(targets, frame)
                         /\ frame.type = "poke" => frame.cursor = Cursor'
  \/ \E c \in Clients : down' = [down EXCEPT ![c] = <<>>]
  \/ \E c \in Clients : down[c] # <<>> /\ down' = [down EXCEPT ![c] = Tail(@)]
  \/ down' = down

LEMMA PokeDownStep ==
  ASSUME \E targets, base, clear, patch, lmids, results :
           Deliver(targets, Poke(base, clear, patch, Cursor', lmids, results))
  PROVE  DownStep
<1>1. PICK targets, base, clear, patch, lmids, results :
        Deliver(targets, Poke(base, clear, patch, Cursor', lmids, results))
  OBVIOUS
<1> DEFINE frame == Poke(base, clear, patch, Cursor', lmids, results)
<1>2. frame.cursor = Cursor'
  BY Zenon DEF Poke
<1>3. Deliver(targets, frame)
  BY <1>1
<1> HIDE DEF frame
<1> QED BY <1>2, <1>3, Zenon DEF DownStep

LEMMA AnyDownStep ==
  ASSUME StoreOK, AnyStep
  PROVE  DownStep
<1>1. \A code : Error(code).type # "poke"
  BY DEF Error
<1>2. \A base, clear, patch, cursor, lmids, results :
        Poke(base, clear, patch, cursor, lmids, results).cursor = cursor
  BY DEF Poke
<1>3. CASE Sockets
  BY <1>3 DEF Sockets, Upgrade, CloseSocket, PeerGone, Read, DownStep
<1>4. CASE \E c \in Clients : RefuseHello(c)
  BY <1>1, <1>4 DEF RefuseHello, DownStep
<1>5. ASSUME NEW c \in Clients, NEW cursor, HandleHello(c, cursor) PROVE DownStep
  <2>1. Cursor' = Cursor
    BY <1>5 DEF HandleHello, meta, Cursor
  <2> DEFINE lmids == {[client |-> c, lmid |-> lastMutationId[c]]}
  <2>2. PICK base, clear, patch : Deliver({c}, Poke(base, clear, patch, Cursor, lmids, {}))
    BY <1>5, Zenon DEF HandleHello
  <2> QED BY <1>2, <2>1, <2>2 DEF DownStep
<1>6. CASE Answers
  BY <1>1, <1>6 DEF Answers, DownStep
<1>7. CASE (\E c \in Clients : \E batch : StartPush(c, batch)) \/ SkipDuplicate \/ Succeed \/ Fail
  BY <1>7 DEF StartPush, SkipDuplicate, Succeed, Fail, ApplyMutation, DownStep
<1>8. CASE RejectGap \/ AbortPush
  BY <1>1, <1>8 DEF RejectGap, AbortPush, DownStep
<1>9. CASE FinishPush
  <2>1. Cursor' = Cursor
    BY <1>9 DEF FinishPush, meta, Cursor
  <2>2. \E targets, base, clear, patch, lmids, results :
          Deliver(targets, Poke(base, clear, patch, Cursor, lmids, results))
    BY <1>9, Zenon DEF FinishPush
  <2> QED BY <2>1, <2>2, PokeDownStep
<1>10. ASSUME NEW data \in Rows, Import(data) PROVE DownStep
  <2>1. Cursor' = CursorAt(currentVersion + 1)
    BY <1>10 DEF Import, ReplaceRows, Cursor, CursorAt
  <2>2. \E targets, base, clear, patch, lmids, results :
          Deliver(targets, Poke(base, clear, patch, CursorAt(currentVersion + 1), lmids, results))
    BY <1>10, Zenon DEF Import
  <2> QED BY <2>1, <2>2, PokeDownStep
<1>11. CASE Reset
  <2>1. Cursor' = [backendId |-> backendId + 1, version |-> 0]
    BY <1>11 DEF Reset, Cursor
  <2>2. \E targets, base, clear, patch, lmids, results :
          Deliver(targets, Poke(base, clear, patch, [backendId |-> backendId + 1, version |-> 0],
                                lmids, results))
    BY <1>11, Zenon DEF Reset
  <2> QED BY <2>1, <2>2, PokeDownStep
<1>12. CASE Instance \/ \E data \in Rows : ImportExtension(data)
  BY <1>12 DEF Instance, Compact, Hibernate, Deploy, ImportExtension, DownStep
<1> QED BY <1>3, <1>4, <1>5, <1>6, <1>7, <1>8, <1>9, <1>10, <1>11, <1>12 DEF AnyStep, Admin

\* Nothing any client holds or is being sent is ahead of the server.
LEMMA CursorLeads ==
  ASSUME StoreOK', HistoryInv', NEW x \in DOMAIN snaps'
  PROVE  NotBehind(Cursor', x)
<1>1. x.backendId = backendId' => x.version <= currentVersion'
  BY DEF HistoryInv, Recorded
<1>2. x.version \in Nat /\ currentVersion' \in Nat
  BY DEF StoreOK, Cursors
<1> QED BY <1>1, <1>2 DEF NotBehind, Cursor

LEMMA PokeRecorded ==
  ASSUME PokesSound, NEW c \in Clients, NEW i \in 1..Len(down[c]), down[c][i].type = "poke"
  PROVE  down[c][i].cursor \in DOMAIN snaps
BY DEF PokesSound, SoundIn

LEMMA AdvanceAt ==
  ASSUME PokesAdvance, NEW c \in Clients, NEW i \in 1..Len(down[c]), down[c][i].type = "poke"
  PROVE  /\ clientCursor[c] # NoCursor => NotBehind(down[c][i].cursor, clientCursor[c])
         /\ \A j \in 1..(i - 1) : down[c][j].type = "poke" =>
              NotBehind(down[c][i].cursor, down[c][j].cursor)
BY DEF PokesAdvance

\* What a client is sent on top of what is under way leads on from it.
LEMMA DownAdvance ==
  ASSUME ReplicaInv, StoreOK', HistoryInv', Grows, PokesAdvance, DownStep,
         \A c \in Clients : clientCursor'[c] \in {clientCursor[c], NoCursor}
  PROVE  PokesAdvance'
<1>1. StoreOK /\ PokesSound /\ ReplicaSound
  BY DEF ReplicaInv, HistoryInv
<1>2. SUFFICES ASSUME NEW c \in Clients, NEW i \in 1..Len(down'[c]), down'[c][i].type = "poke"
               PROVE  /\ clientCursor'[c] # NoCursor => NotBehind(down'[c][i].cursor, clientCursor'[c])
                      /\ \A j \in 1..(i - 1) : down'[c][j].type = "poke" =>
                           NotBehind(down'[c][i].cursor, down'[c][j].cursor)
  BY DEF PokesAdvance
<1>3. clientCursor'[c] # NoCursor => clientCursor'[c] = clientCursor[c] /\ clientCursor[c] # NoCursor
  OBVIOUS
<1>4. down[c] \in Seq(Pokes \cup Errors) /\ Len(down[c]) \in Nat
  BY <1>1 DEF StoreOK
<1>5. CASE \E targets, frame : /\ Deliver(targets, frame)
                               /\ frame.type = "poke" => frame.cursor = Cursor'
  <2>1. PICK targets, frame : Deliver(targets, frame) /\ (frame.type = "poke" => frame.cursor = Cursor')
    BY <1>5
  <2>2. down'[c] = Append(down[c], frame) \/ down'[c] = down[c]
    BY <2>1 DEF Deliver
  <2>3. \/ i \in 1..Len(down[c]) /\ \A j \in 1..i : j \in 1..Len(down[c]) /\ down'[c][j] = down[c][j]
        \/ /\ i = Len(down[c]) + 1 /\ down'[c][i] = frame
           /\ \A j \in 1..(i - 1) : j \in 1..Len(down[c]) /\ down'[c][j] = down[c][j]
    BY <1>4, <2>2
  <2>4. CASE i \in 1..Len(down[c]) /\ \A j \in 1..i : j \in 1..Len(down[c]) /\ down'[c][j] = down[c][j]
    <3>1. /\ down'[c][i] = down[c][i] /\ down[c][i].type = "poke"
          /\ \A j \in 1..(i - 1) : down'[c][j] = down[c][j]
      BY <1>2, <1>4, <2>4
    <3>2. /\ clientCursor[c] # NoCursor => NotBehind(down[c][i].cursor, clientCursor[c])
          /\ \A j \in 1..(i - 1) : down[c][j].type = "poke" =>
               NotBehind(down[c][i].cursor, down[c][j].cursor)
      BY <2>4, <3>1 DEF PokesAdvance
    <3> QED BY <1>3, <3>1, <3>2
  <2>5. CASE /\ i = Len(down[c]) + 1 /\ down'[c][i] = frame
             /\ \A j \in 1..(i - 1) : j \in 1..Len(down[c]) /\ down'[c][j] = down[c][j]
    <3>1. down'[c][i].cursor = Cursor'
      BY <1>2, <2>1, <2>5
    <3>2. clientCursor[c] # NoCursor => NotBehind(Cursor', clientCursor[c])
      BY <1>1, CursorLeads DEF ReplicaSound, Grows
    <3>3. ASSUME NEW j \in 1..(i - 1), down'[c][j].type = "poke"
          PROVE  NotBehind(Cursor', down'[c][j].cursor)
      <4>1. j \in 1..Len(down[c]) /\ down'[c][j] = down[c][j]
        BY <2>5
      <4>2. down[c][j].cursor \in DOMAIN snaps
        BY <1>1, <3>3, <4>1, PokeRecorded
      <4> QED BY <4>1, <4>2, CursorLeads DEF Grows
    <3> QED BY <1>3, <3>1, <3>2, <3>3
  <2> QED BY <2>3, <2>4, <2>5
<1>6. CASE \E d \in Clients : down' = [down EXCEPT ![d] = <<>>]
  <2>1. down'[c] = <<>> \/ down'[c] = down[c]
    BY <1>1, <1>6 DEF StoreOK
  <2> QED BY <1>2, <1>3, <2>1 DEF PokesAdvance
<1>7. CASE \E d \in Clients : down[d] # <<>> /\ down' = [down EXCEPT ![d] = Tail(@)]
  <2>1. (down[c] # <<>> /\ down'[c] = Tail(down[c])) \/ down'[c] = down[c]
    BY <1>1, <1>7 DEF StoreOK
  <2>2. CASE down'[c] = down[c]
    BY <1>2, <1>3, <2>2 DEF PokesAdvance
  <2>3. CASE down[c] # <<>> /\ down'[c] = Tail(down[c])
    <3>1. /\ i + 1 \in 1..Len(down[c]) /\ down'[c][i] = down[c][i + 1]
          /\ \A j \in 1..(i - 1) : j + 1 \in 1..(i + 1 - 1) /\ down'[c][j] = down[c][j + 1]
      BY <1>4, <2>3
    <3>2. /\ clientCursor[c] # NoCursor => NotBehind(down[c][i + 1].cursor, clientCursor[c])
          /\ \A j \in 1..(i + 1 - 1) : down[c][j].type = "poke" =>
               NotBehind(down[c][i + 1].cursor, down[c][j].cursor)
      <4>1. i + 1 \in 1..Len(down[c]) /\ down[c][i + 1].type = "poke"
        BY ONLY <3>1, down'[c][i].type = "poke"
      <4> QED BY <4>1, AdvanceAt
    <3> QED BY <1>2, <3>1, <3>2
  <2> QED BY <2>1, <2>2, <2>3
<1>8. CASE down' = down
  BY <1>2, <1>3, <1>8 DEF PokesAdvance
<1> QED BY <1>5, <1>6, <1>7, <1>8 DEF DownStep

\* Reading a poke moves the cursor to where the rest of the queue leads on from.
LEMMA ApplyAdvance ==
  ASSUME ReplicaInv, PokesAdvance, NEW c \in Clients, Read(c),
         Head(down[c]).type = "poke", ApplyPoke(c)
  PROVE  PokesAdvance'
<1> DEFINE poke == Head(down[c])
<1>1. /\ down \in [Clients -> Seq(Pokes \cup Errors)]
      /\ down[c] # <<>> /\ down' = [down EXCEPT ![c] = Tail(@)]
      /\ clientCursor' = [clientCursor EXCEPT ![c] = poke.cursor]
      /\ clientCursor \in [Clients -> Cursors \cup {NoCursor}]
  BY DEF ReplicaInv, StoreOK, ReplicaOK, Read, ApplyPoke
<1>2. /\ poke = down[c][1] /\ 1 \in 1..Len(down[c])
      /\ down'[c] = Tail(down[c]) /\ Len(Tail(down[c])) = Len(down[c]) - 1
      /\ \A i \in 1..(Len(down[c]) - 1) : Tail(down[c])[i] = down[c][i + 1]
      /\ Len(down[c]) \in Nat
  BY <1>1
<1>3. /\ clientCursor'[c] = poke.cursor
      /\ \A d \in Clients \ {c} : clientCursor'[d] = clientCursor[d] /\ down'[d] = down[d]
  BY <1>1
<1>4. SUFFICES ASSUME NEW d \in Clients, NEW i \in 1..Len(down'[d]), down'[d][i].type = "poke"
               PROVE  /\ clientCursor'[d] # NoCursor => NotBehind(down'[d][i].cursor, clientCursor'[d])
                      /\ \A j \in 1..(i - 1) : down'[d][j].type = "poke" =>
                           NotBehind(down'[d][i].cursor, down'[d][j].cursor)
  BY DEF PokesAdvance
<1>5. CASE d # c
  BY <1>3, <1>4, <1>5 DEF PokesAdvance
<1>6. CASE d = c
  <2>0. i \in 1..(Len(down[c]) - 1)
    BY <1>2, <1>4, <1>6
  <2>1. /\ i + 1 \in 1..Len(down[c]) /\ down'[c][i] = down[c][i + 1]
        /\ 1 \in 1..(i + 1 - 1)
        /\ \A j \in 1..(i - 1) : j + 1 \in 1..(i + 1 - 1) /\ down'[c][j] = down[c][j + 1]
    <3>1. i + 1 \in 1..Len(down[c]) /\ 1 \in 1..(i + 1 - 1)
      BY <1>2, <2>0
    <3>2. \A j \in 1..(i - 1) : j + 1 \in 1..(i + 1 - 1) /\ j \in 1..(Len(down[c]) - 1)
      BY <1>2, <2>0
    <3> QED BY <1>2, <1>6, <2>0, <3>1, <3>2
  <2>2. \A j \in 1..(i + 1 - 1) : down[c][j].type = "poke" =>
          NotBehind(down[c][i + 1].cursor, down[c][j].cursor)
    BY <1>4, <1>6, <2>1 DEF PokesAdvance
  <2>3. NotBehind(down'[c][i].cursor, poke.cursor)
    BY <1>2, <2>1, <2>2
  <2> QED BY <1>3, <1>6, <2>1, <2>2, <2>3
<1> QED BY <1>5, <1>6

LEMMA StepAdvance ==
  ASSUME ReplicaInv, PokesAdvance, SyncNext
  PROVE  PokesAdvance'
<1>1. StoreOK' /\ HistoryInv' /\ Grows /\ (AnyStep \/ UNCHANGED serverVars)
  BY ServerPart, ServerInv DEF ReplicaInv
<1>2. DownStep
  BY <1>1, AnyDownStep DEF ReplicaInv, serverVars, DownStep
<1>3. ASSUME \A c \in Clients : clientCursor'[c] \in {clientCursor[c], NoCursor}
      PROVE  PokesAdvance'
  BY <1>1, <1>2, <1>3, DownAdvance
<1>4. CASE UNCHANGED replicaVars
  BY <1>3, <1>4 DEF replicaVars
<1>5. CASE ServerNext
  <2>1. UNCHANGED replicaVars
    BY <1>5 DEF ServerNext, ServeHello, FailHello, ServePush, ServerClose, PushStep, Throw,
       Maintain, clientVars
  <2> QED BY <1>4, <2>1
<1>6. ASSUME NEW c \in Clients, ClientNext(c) PROVE PokesAdvance'
  <2>1. CASE ReceivePoke(c) /\ ApplyPoke(c)
    BY <2>1, ApplyAdvance DEF ReceivePoke
  <2>2. CASE Resync(c)
    <3>1. clientCursor' = [clientCursor EXCEPT ![c] = NoCursor]
      BY <2>2 DEF Resync
    <3> QED BY <1>3, <3>1 DEF ReplicaInv, ReplicaOK
  <2>3. ASSUME \/ \E m \in Mutations : Mutate(c, m)
               \/ \E i \in DOMAIN outbox[c] : Timeout(c, i)
               \/ Connect(c) \/ Disconnect(c) \/ SeeClose(c)
               \/ ReceivePoke(c) /\ DropPoke(c)
               \/ ReceiveError(c) \/ RetryPush(c)
        PROVE  UNCHANGED replicaVars
    BY <2>3 DEF Mutate, Timeout, Connect, Disconnect, SeeClose, LoseSocket, DropPoke,
       ReceiveError, RetryPush
  <2>4. ReceivePoke(c) => DropPoke(c) \/ ApplyPoke(c)
    BY DEF ReceivePoke
  <2> QED BY <1>4, <1>6, <2>1, <2>2, <2>3, <2>4 DEF ClientNext
<1> QED BY <1>5, <1>6 DEF SyncNext

\* The cursor of a client only moves to that of a poke it reads.
LEMMA StepForward ==
  ASSUME SyncTypeOK, ReplicaInv, PokesAdvance, SyncNext, NEW c \in Clients,
         clientCursor[c] # NoCursor, clientCursor'[c] # NoCursor,
         clientCursor'[c].backendId = clientCursor[c].backendId
  PROVE  /\ clientCursor'[c].version >= clientCursor[c].version
         /\ confirmedLmid'[c] >= confirmedLmid[c]
<1>1. /\ clientCursor \in [Clients -> Cursors \cup {NoCursor}] /\ confirmedLmid \in [Clients -> Nat]
      /\ clientCursor[c] \in Cursors /\ clientCursor[c].version \in Nat /\ confirmedLmid[c] \in Nat
  BY DEF SyncTypeOK, Cursors
<1>2. CASE clientCursor'[c] = clientCursor[c] /\ confirmedLmid'[c] = confirmedLmid[c]
  BY <1>1, <1>2
<1>3. CASE ServerNext
  <2>1. UNCHANGED clientVars
    BY <1>3 DEF ServerNext, ServeHello, FailHello, ServePush, ServerClose, PushStep, Throw, Maintain
  <2> QED BY <1>2, <2>1 DEF clientVars, replicaVars, queueVars
<1>4. ASSUME NEW d \in Clients, ReceivePoke(d), ApplyPoke(d)
      PROVE  /\ clientCursor'[c].version >= clientCursor[c].version
             /\ confirmedLmid'[c] >= confirmedLmid[c]
  <2> DEFINE poke == Head(down[d])
  <2>1. /\ clientCursor' = [clientCursor EXCEPT ![d] = poke.cursor]
        /\ confirmedLmid' = [confirmedLmid EXCEPT ![d] = ConfirmedBy(d, poke)]
    BY <1>4 DEF ApplyPoke
  <2>2. CASE d # c
    BY <1>1, <1>2, <2>1, <2>2
  <2>3. CASE d = c
    <3>1. /\ poke \in Pokes /\ poke.type = "poke" /\ down[c] # <<>>
          /\ down[c] \in Seq(Pokes \cup Errors)
      BY <1>4, <2>3, HeadPoke DEF ReceivePoke, Read, ReplicaInv, StoreOK
    <3>2. 1 \in 1..Len(down[c]) /\ poke = down[c][1]
      BY <2>3, <3>1
    <3>3. NotBehind(poke.cursor, clientCursor[c])
      BY <3>1, <3>2 DEF PokesAdvance
    <3>4. clientCursor'[c] = poke.cursor /\ confirmedLmid'[c] = ConfirmedBy(c, poke)
      BY <1>1, <2>1, <2>3
    <3>5. ~BackendChanged(c, poke)
      BY <3>4 DEF BackendChanged
    <3>6. ConfirmedBy(c, poke) >= confirmedLmid[c]
      BY <1>1, <3>1, <3>5, ConfirmedIs
    <3> QED BY <3>3, <3>4, <3>6 DEF NotBehind
  <2> QED BY <2>2, <2>3
<1>5. ASSUME NEW d \in Clients, ClientNext(d)
      PROVE  /\ clientCursor'[c].version >= clientCursor[c].version
             /\ confirmedLmid'[c] >= confirmedLmid[c]
  <2>1. CASE Resync(d)
    <3>1. clientCursor' = [clientCursor EXCEPT ![d] = NoCursor] /\ confirmedLmid' = confirmedLmid
      BY <2>1 DEF Resync, queueVars
    <3> QED BY <1>1, <1>2, <3>1
  <2>2. ASSUME \/ \E m \in Mutations : Mutate(d, m)
               \/ \E i \in DOMAIN outbox[d] : Timeout(d, i)
               \/ Connect(d) \/ Disconnect(d) \/ SeeClose(d)
               \/ ReceivePoke(d) /\ DropPoke(d)
               \/ ReceiveError(d) \/ RetryPush(d)
        PROVE  UNCHANGED <<replicaVars, confirmedLmid>>
    BY <2>2 DEF Mutate, Timeout, Connect, Disconnect, SeeClose, LoseSocket, DropPoke,
       ReceiveError, RetryPush, queueVars
  <2>3. ReceivePoke(d) => DropPoke(d) \/ ApplyPoke(d)
    BY DEF ReceivePoke
  <2> QED BY <1>2, <1>4, <1>5, <2>1, <2>2, <2>3 DEF ClientNext, replicaVars
<1> QED BY <1>3, <1>5 DEF SyncNext

\* Within a history no poke, broadcast, catch-up or bootstrap, takes a client back, and neither
\* does any confirm less than the last: ARCHITECTURE.md, invariant 4.
THEOREM ClientsMoveForward == SyncSpec => NeverBackward
<1>1. SyncInit => PokesAdvance
  BY DEF SyncInit, Init, PokesAdvance
<1>2. PokesAdvance /\ UNCHANGED vars => PokesAdvance'
  BY DEF vars, serverVars, clientVars, replicaVars, PokesAdvance
<1>3. ReplicaInv /\ PokesAdvance /\ [SyncNext]_vars => PokesAdvance'
  BY <1>2, StepAdvance
<1> DEFINE Forward ==
      \A c \in Clients :
        /\ clientCursor[c] # NoCursor /\ clientCursor'[c] # NoCursor
        /\ clientCursor'[c].backendId = clientCursor[c].backendId
        => /\ clientCursor'[c].version >= clientCursor[c].version
           /\ confirmedLmid'[c] >= confirmedLmid[c]
<1>4. SyncTypeOK /\ ReplicaInv /\ PokesAdvance /\ [SyncNext]_vars => [Forward]_vars
  BY StepForward
<1> QED BY <1>1, <1>3, <1>4, SyncTypeCorrect, ReplicaCorrect, PTL DEF SyncSpec, NeverBackward

-----------------------------------------------------------------------------
(***************************************************************************)
(* A durable client keeps the contract of mutate while the history of its  *)
(* Workspace goes on: for every value of the constants, whatever is lost,  *)
(* repeated, aborted or imported on the way.  The queue is always what the *)
(* client made past the confirmed LMID, so a push is a run of it that      *)
(* begins no later than the id the server expects; the log is always what  *)
(* the client made up to the server's LMID; and a poke confirms nothing    *)
(* the log does not hold.                                                  *)
(***************************************************************************)

-----------------------------------------------------------------------------
(* A queue whose entries carry the ids of their places, or none yet *)

Placed(box, confirmed) == \A i \in 1..Len(box) : box[i].id = confirmed + i

\* Those with an id come first, and the last id is theirs.
LEMMA LastIdRun ==
  ASSUME NEW box \in Seq(Entry), NEW confirmed \in Nat,
         Ordered(box, confirmed), InPlace(box, confirmed)
  PROVE  \E k \in 0..Len(box) :
           /\ LastId(box, confirmed) = confirmed + k
           /\ \A i \in 1..Len(box) : /\ i <= k => box[i].id = confirmed + i
                                     /\ i > k => box[i].id = 0
<1> DEFINE last == LastId(box, confirmed)
<1>1. /\ Len(box) \in Nat /\ DOMAIN box = 1..Len(box)
      /\ \A i \in 1..Len(box) : box[i].id \in Nat
  BY EntriesOf
<1>2. /\ last \in Nat /\ last >= confirmed
      /\ last \in {confirmed} \cup {box[i].id : i \in DOMAIN box}
      /\ \A i \in DOMAIN box : box[i].id <= last
  BY LastIdIs
<1> HIDE DEF last
<1>3. \A i \in 1..Len(box) : box[i].id # 0 => box[i].id = confirmed + i
  BY DEF InPlace
<1>4. CASE last = confirmed
  <2>1. \A i \in 1..Len(box) : box[i].id = 0
    BY <1>1, <1>2, <1>3, <1>4
  <2> QED BY <1>1, <1>4, <2>1 DEF last
<1>5. ASSUME NEW p \in 1..Len(box), last = box[p].id, last # confirmed
      PROVE  \E k \in 0..Len(box) :
               /\ last = confirmed + k
               /\ \A i \in 1..Len(box) : /\ i <= k => box[i].id = confirmed + i
                                         /\ i > k => box[i].id = 0
  <2>1. box[p].id # 0 /\ last = confirmed + p
    BY <1>1, <1>2, <1>3, <1>5
  <2>2. \A j \in 1..(p - 1) : box[j].id \in 1..(box[p].id - 1)
    BY <1>1, <2>1 DEF Ordered
  <2>3. \A i \in 1..Len(box) : i <= p => box[i].id # 0
    <3>1. \A i \in 1..Len(box) : i <= p => i = p \/ i \in 1..(p - 1)
      BY <1>1
    <3> QED BY <1>1, <2>1, <2>2, <3>1
  <2>4. \A i \in 1..Len(box) : i > p => box[i].id = 0
    BY <1>1, <1>2, <1>3, <2>1
  <2> QED BY <1>1, <1>3, <2>1, <2>3, <2>4
<1> QED BY <1>1, <1>2, <1>4, <1>5 DEF last

\* How many places of a run there are up to one of its own.
LEMMA RankRun ==
  ASSUME NEW a \in Nat, NEW m \in Nat, NEW i \in 1..m
  PROVE  Rank((a + 1)..(a + m), a + i) = i
<1>1. ((a + 1)..(a + m)) \cap (1..(a + i)) = (a + 1)..(a + i)
  OBVIOUS
<1>2. Cardinality((a + 1)..(a + i)) = i
  BY FS_Interval
<1> QED BY <1>1, <1>2 DEF Rank

LEMMA AssignedRun ==
  ASSUME NEW box \in Seq(Entry), NEW confirmed \in Nat,
         Ordered(box, confirmed), InPlace(box, confirmed)
  PROVE  Placed(Assigned(box, confirmed), confirmed)
<1>1. PICK k \in 0..Len(box) :
        /\ LastId(box, confirmed) = confirmed + k
        /\ \A i \in 1..Len(box) : /\ i <= k => box[i].id = confirmed + i
                                  /\ i > k => box[i].id = 0
  BY LastIdRun
<1>2. /\ Len(box) \in Nat /\ DOMAIN box = 1..Len(box)
      /\ \A i \in 1..Len(box) : box[i].id \in Nat
  BY EntriesOf
<1>3. {j \in DOMAIN box : box[j].id = 0} = (k + 1)..(k + (Len(box) - k))
  BY <1>1, <1>2
<1>4. \A i \in 1..Len(box) : i > k => Rank({j \in DOMAIN box : box[j].id = 0}, i) = i - k
  <2> SUFFICES ASSUME NEW i \in 1..Len(box), i > k
               PROVE  Rank((k + 1)..(k + (Len(box) - k)), i) = i - k
    BY <1>3
  <2>1. i - k \in 1..(Len(box) - k) /\ k + (i - k) = i /\ Len(box) - k \in Nat /\ k \in Nat
    BY <1>2
  <2> QED BY <2>1, RankRun
<1>5. ASSUME NEW i \in 1..Len(box) PROVE Assigned(box, confirmed)[i].id = confirmed + i
  <2>1. CASE i <= k
    <3>1. box[i].id # 0 /\ box[i].id = confirmed + i
      BY <1>1, <1>2, <2>1
    <3> QED BY <3>1, AssignedIs
  <2>2. CASE i > k
    <3>1. /\ box[i].id = 0
          /\ Assigned(box, confirmed)[i].id
               = LastId(box, confirmed) + Rank({j \in DOMAIN box : box[j].id = 0}, i)
      BY <1>1, <2>2, AssignedIs
    <3>2. Rank({j \in DOMAIN box : box[j].id = 0}, i) = i - k
      BY <1>4, <2>2
    <3> QED BY <1>1, <1>2, <3>1, <3>2
  <2> QED BY <1>2, <2>1, <2>2
<1> QED BY <1>5, AssignedIs DEF Placed

\* A push carries the whole of a numbered queue.
LEMMA PendingRun ==
  ASSUME NEW box \in Seq(Entry), NEW confirmed \in Nat, Placed(box, confirmed)
  PROVE  Pending(box, confirmed) = box
<1>1. Len(box) \in Nat /\ DOMAIN box = 1..Len(box)
  BY EntriesOf
<1>2. {i \in DOMAIN box : box[i].id > confirmed} = (0 + 1)..(0 + Len(box))
  BY <1>1 DEF Placed
<1>3. Filtered(box, (0 + 1)..(0 + Len(box))) = [i \in 1..Len(box) |-> box[0 + i]]
  <2>1. \A a, m \in Nat : Filtered(box, (a + 1)..(a + m)) = [i \in 1..m |-> box[a + i]]
    BY FilteredRun, Zenon
  <2>2. 0 \in Nat
    OBVIOUS
  <2> QED BY ONLY <1>1, <2>1, <2>2, Zenon
<1>4. [i \in 1..Len(box) |-> box[0 + i]] = [i \in 1..Len(box) |-> box[i]]
  BY <1>1
<1>5. [i \in 1..Len(box) |-> box[i]] = box
  BY <1>1
<1> QED BY <1>2, <1>3, <1>4, <1>5 DEF Pending

\* What a confirmation leaves is the end of the queue.
LEMMA UnsettledRun ==
  ASSUME NEW box \in Seq(Entry), NEW confirmed \in Nat, InPlace(box, confirmed),
         NEW done \in 0..Len(box), \A i \in 1..done : box[i].id # 0
  PROVE  Unsettled(box, confirmed + done) = [i \in 1..(Len(box) - done) |-> box[done + i]]
<1>1. /\ Len(box) \in Nat /\ DOMAIN box = 1..Len(box) /\ done \in Nat
      /\ \A i \in 1..Len(box) : box[i].id \in Nat
  BY EntriesOf
<1>2. \A i \in 1..Len(box) : Settled(box[i], confirmed + done) <=> i <= done
  BY <1>1 DEF Settled, InPlace
<1>3. {i \in DOMAIN box : ~Settled(box[i], confirmed + done)} = (done + 1)..(done + (Len(box) - done))
  BY <1>1, <1>2
<1>4. Len(box) - done \in Nat
  BY <1>1
<1>5. \A a, m \in Nat : Filtered(box, (a + 1)..(a + m)) = [i \in 1..m |-> box[a + i]]
  BY FilteredRun, Zenon
<1>6. Filtered(box, (done + 1)..(done + (Len(box) - done)))
        = [i \in 1..(Len(box) - done) |-> box[done + i]]
  BY ONLY <1>1, <1>4, <1>5, Zenon
<1> QED BY <1>3, <1>6 DEF Unsettled

-----------------------------------------------------------------------------
(* The invariant, by what travels and what stands *)

\* The frames that may be under way to the server and to a client.
Upward(c) ==
  {frame \in Frames :
     /\ frame.type = "push" => IsRun(c, frame.mutations, lastMutationId[c] + 1)
     /\ sess[c] = "open" => frame.type = "hello"}

Downward(c) ==
  {frame \in Pokes \cup Errors :
     /\ frame.type = "poke" => \A change \in frame.lmids :
          /\ change.lmid <= lastMutationId[change.client]
          /\ ResultsTrue(change.client, frame.results)
     /\ frame.type = "error" => frame.code # "PushInvalid"
     /\ sess[c] = "open" => frame.type = "error"}

FlightInv == \A c \in Clients : up[c] \in Seq(Upward(c)) /\ down[c] \in Seq(Downward(c))

PushInStep ==
  push # Idle => /\ sess[push.client] = "ready"
                 /\ push.lmid = lastMutationId[push.client]
                 /\ IsRun(push.client, push.todo, push.lmid + 1)
                 /\ ResultsTrue(push.client, push.results)

LinksInStep ==
  \A c \in Clients : /\ sess[c] = "ready" => c \in clients
                     /\ sess[c] = "open" => ~syncedThisConnection[c]
                     /\ ~needsRebase[c]

QueueInv == IssuedOnce /\ QueueIsRest /\ LogIsIssued

LEMMA ElementsIn ==
  ASSUME NEW S, NEW T, NEW s \in Seq(S), \A i \in 1..Len(s) : s[i] \in T
  PROVE  s \in Seq(T)
OBVIOUS

LEMMA SequenceOf ==
  ASSUME NEW S, NEW s \in Seq(S)
  PROVE  DOMAIN s = 1..Len(s) /\ Len(s) \in Nat /\ \A i \in 1..Len(s) : s[i] \in S
OBVIOUS

LEMMA FirstOf ==
  ASSUME NEW S, NEW s \in Seq(S), s # <<>>
  PROVE  s[1] \in S /\ 1 \in DOMAIN s
OBVIOUS

LEMMA FirstId ==
  ASSUME NEW batch \in Seq(Mutation), batch # <<>>
  PROVE  batch[1].id \in Nat
<1>1. batch[1] \in Mutation
  BY FirstOf
<1> QED BY <1>1 DEF Mutation

LEMMA MovedSequence ==
  ASSUME NEW S, NEW s \in Seq(S), NEW t,
         \/ t \in {s, <<>>}
         \/ s # <<>> /\ t = Tail(s)
         \/ \E e \in S : t = Append(s, e)
  PROVE  t \in Seq(S)
<1>1. <<>> \in Seq(S)
  OBVIOUS
<1>2. s # <<>> => Tail(s) \in Seq(S)
  OBVIOUS
<1>3. \A e \in S : Append(s, e) \in Seq(S)
  OBVIOUS
<1> QED BY <1>1, <1>2, <1>3, Zenon

LEMMA ContractIs ==
  ASSUME SyncTypeOK
  PROVE  ContractInv <=> QueueInv /\ FlightInv /\ PushInStep /\ LinksInStep
<1>1. ASSUME NEW c \in Clients
      PROVE  /\ DOMAIN up[c] = 1..Len(up[c]) /\ DOMAIN down[c] = 1..Len(down[c])
             /\ up[c] \in Seq(Frames) /\ down[c] \in Seq(Pokes \cup Errors)
             /\ \A i \in 1..Len(up[c]) : up[c][i] \in Frames
             /\ \A i \in 1..Len(down[c]) : down[c][i] \in Pokes \cup Errors
  <2>1. up[c] \in Seq(Frames) /\ down[c] \in Seq(Pokes \cup Errors)
    BY DEF SyncTypeOK, TypeOK, StoreOK, Frames
  <2> QED BY <2>1, SequenceOf
<1>2. ASSUME ContractInv, NEW c \in Clients
      PROVE  up[c] \in Seq(Upward(c)) /\ down[c] \in Seq(Downward(c))
  <2>1. \A i \in 1..Len(up[c]) : up[c][i] \in Upward(c)
    BY <1>1, <1>2 DEF ContractInv, PushesInStep, SocketsInStep, Upward
  <2>2. \A i \in 1..Len(down[c]) : down[c][i] \in Downward(c)
    BY <1>1, <1>2 DEF ContractInv, PokesTrue, SocketsInStep, Downward
  <2> QED BY <1>1, <2>1, <2>2, ElementsIn
<1>3. ASSUME FlightInv, NEW c \in Clients
      PROVE  /\ \A i \in DOMAIN up[c] : up[c][i] \in Upward(c)
             /\ \A i \in DOMAIN down[c] : down[c][i] \in Downward(c)
  BY <1>1, <1>3, SequenceOf DEF FlightInv
<1>4. ContractInv => QueueInv /\ FlightInv /\ PushInStep /\ LinksInStep
  BY <1>2 DEF ContractInv, QueueInv, FlightInv, PushesInStep, PushInStep, SocketsInStep, LinksInStep
<1>5. ASSUME QueueInv /\ FlightInv /\ PushInStep /\ LinksInStep PROVE ContractInv
  <2>1. \A c \in Clients : \A i \in DOMAIN up[c] :
          /\ up[c][i].type = "push" => IsRun(c, up[c][i].mutations, lastMutationId[c] + 1)
          /\ sess[c] = "open" => up[c][i].type = "hello"
    BY <1>3, <1>5 DEF Upward
  <2>2. \A c \in Clients : \A i \in DOMAIN down[c] :
          /\ down[c][i].type = "poke" => \A change \in down[c][i].lmids :
               /\ change.lmid <= lastMutationId[change.client]
               /\ ResultsTrue(change.client, down[c][i].results)
          /\ down[c][i].type = "error" => down[c][i].code # "PushInvalid"
          /\ sess[c] = "open" => down[c][i].type = "error"
    BY <1>3, <1>5 DEF Downward
  <2>3. PushesInStep
    BY <1>5, <2>1 DEF PushesInStep, PushInStep
  <2>4. PokesTrue
    BY <2>2 DEF PokesTrue
  <2>5. SocketsInStep
    BY <1>5, <2>1, <2>2 DEF SocketsInStep, LinksInStep
  <2> QED BY <1>5, <2>3, <2>4, <2>5 DEF ContractInv, QueueInv
<1> QED BY <1>4, <1>5

-----------------------------------------------------------------------------
(* What may happen to the queue and the log without upsetting what is under way *)

CoreGrows ==
  \A c \in Clients :
    /\ DOMAIN issued[c] \subseteq DOMAIN issued'[c]
    /\ \A i \in DOMAIN issued[c] : issued'[c][i] = issued[c][i]
    /\ lastMutationId[c] <= lastMutationId'[c]
    /\ DOMAIN Logged(c) \subseteq DOMAIN Logged(c)'
    /\ \A i \in DOMAIN Logged(c) : Logged(c)'[i] = Logged(c)[i]
    /\ \A id \in DOMAIN issued[c] : HasId(c, id) => HasId(c, id)'

LEMMA RunGrows ==
  ASSUME CoreGrows
  PROVE  \A c \in Clients : \A batch : RunOf(c, batch) => RunOf(c, batch)'
<1> SUFFICES ASSUME NEW c \in Clients, NEW batch, RunOf(c, batch), NEW j \in DOMAIN batch
             PROVE  /\ batch[j].id = batch[1].id + j - 1
                    /\ batch[j].id \in DOMAIN issued'[c]
                    /\ batch[j].name = issued'[c][batch[j].id]
                    /\ HasId(c, batch[j].id)'
  BY DEF RunOf
<1>1. /\ batch[j].id = batch[1].id + j - 1
      /\ batch[j].id \in DOMAIN issued[c]
      /\ batch[j].name = issued[c][batch[j].id]
      /\ HasId(c, batch[j].id)
  BY DEF RunOf
<1>2. HasId(c, batch[j].id)'
  BY <1>1 DEF CoreGrows
<1> QED BY <1>1, <1>2 DEF CoreGrows

LEMMA ResultsGrow ==
  ASSUME CoreGrows
  PROVE  \A c \in Clients : \A results : ResultsTrue(c, results) => ResultsTrue(c, results)'
BY DEF CoreGrows, ResultsTrue

LEMMA FramesGrow ==
  ASSUME SyncTypeOK, SyncTypeOK', CoreGrows, NEW c \in Clients, sess'[c] = "open" => sess[c] = "open"
  PROVE  Upward(c) \subseteq Upward(c)' /\ Downward(c) \subseteq Downward(c)'
<1>1. lastMutationId[c] <= lastMutationId'[c] /\ lastMutationId[c] \in Nat /\ lastMutationId'[c] \in Nat
  BY DEF CoreGrows, SyncTypeOK, TypeOK, StoreOK
<1>2. ASSUME NEW frame \in Upward(c) PROVE frame \in Upward(c)'
  <2>1. CASE frame.type = "push"
    <3>1. IsRun(c, frame.mutations, lastMutationId[c] + 1)
      BY <1>2, <2>1 DEF Upward
    <3>2. frame.mutations \in Seq(Mutation)
      BY <1>2, <2>1 DEF Upward, Frames, Hellos, PushFrames
    <3>3. frame.mutations # <<>> => frame.mutations[1].id \in Nat
      BY <3>2, FirstId
    <3>4. RunOf(c, frame.mutations)'
      BY <3>1, RunGrows DEF IsRun
    <3>5. frame.mutations # <<>> => frame.mutations[1].id <= lastMutationId'[c] + 1
      BY <1>1, <3>1, <3>3 DEF IsRun
    <3> QED BY <1>2, <2>1, <3>4, <3>5 DEF Upward, IsRun
  <2>2. CASE frame.type # "push"
    BY <1>2, <2>2 DEF Upward
  <2> QED BY <2>1, <2>2
<1>3. ASSUME NEW frame \in Downward(c) PROVE frame \in Downward(c)'
  <2>1. CASE frame.type = "poke"
    <3>1. ASSUME NEW change \in frame.lmids
          PROVE  /\ change.lmid <= lastMutationId'[change.client]
                 /\ ResultsTrue(change.client, frame.results)'
      <4>1. change.client \in Clients /\ change.lmid \in Nat
        BY <1>3, <2>1 DEF Downward, Pokes, Errors, LmidChanges
      <4>2. change.lmid <= lastMutationId[change.client] /\ ResultsTrue(change.client, frame.results)
        BY <1>3, <2>1 DEF Downward
      <4>3. /\ lastMutationId[change.client] <= lastMutationId'[change.client]
            /\ lastMutationId[change.client] \in Nat /\ lastMutationId'[change.client] \in Nat
        BY <4>1 DEF CoreGrows, SyncTypeOK, TypeOK, StoreOK
      <4>4. change.lmid <= lastMutationId'[change.client]
        BY <4>1, <4>2, <4>3
      <4> QED BY <4>1, <4>2, <4>4, ResultsGrow
    <3> QED BY <1>3, <2>1, <3>1 DEF Downward
  <2>2. CASE frame.type # "poke"
    BY <1>3, <2>2 DEF Downward
  <2> QED BY <2>1, <2>2
<1> QED BY <1>2, <1>3

\* The frames of a client's socket after a step that keeps, reads, drops or adds one.
LEMMA FlightKeeps ==
  ASSUME SyncTypeOK, SyncTypeOK', FlightInv, CoreGrows, NEW c \in Clients,
         sess'[c] = "open" => sess[c] = "open",
         \/ up'[c] \in {up[c], <<>>}
         \/ up[c] # <<>> /\ up'[c] = Tail(up[c])
         \/ \E frame \in Upward(c)' : up'[c] = Append(up[c], frame),
         \/ down'[c] \in {down[c], <<>>}
         \/ down[c] # <<>> /\ down'[c] = Tail(down[c])
         \/ \E frame \in Downward(c)' : down'[c] = Append(down[c], frame)
  PROVE  up'[c] \in Seq(Upward(c)') /\ down'[c] \in Seq(Downward(c)')
<1>1. /\ up[c] \in Seq(Upward(c)) /\ Upward(c) \subseteq Upward(c)'
      /\ down[c] \in Seq(Downward(c)) /\ Downward(c) \subseteq Downward(c)'
  BY FramesGrow DEF FlightInv
<1> DEFINE U == Upward(c)' D == Downward(c)'
<1>2. up[c] \in Seq(U) /\ down[c] \in Seq(D)
  BY <1>1, SequenceOf, ElementsIn
<1>3. \/ up'[c] \in {up[c], <<>>}
      \/ up[c] # <<>> /\ up'[c] = Tail(up[c])
      \/ \E frame \in U : up'[c] = Append(up[c], frame)
  OBVIOUS
<1>4. \/ down'[c] \in {down[c], <<>>}
      \/ down[c] # <<>> /\ down'[c] = Tail(down[c])
      \/ \E frame \in D : down'[c] = Append(down[c], frame)
  OBVIOUS
<1> HIDE DEF U, D
<1>5. up'[c] \in Seq(U)
  BY <1>2, <1>3, MovedSequence
<1>6. down'[c] \in Seq(D)
  BY <1>2, <1>4, MovedSequence
<1> QED BY <1>5, <1>6 DEF U, D

LEMMA CoreSame ==
  ASSUME SyncTypeOK, UNCHANGED <<issued, outcome, confirmedLmid, outbox, lastMutationId, mutationLog>>
  PROVE  /\ CoreGrows
         /\ QueueInv => QueueInv'
         /\ \A c \in Clients : Logged(c)' = Logged(c)
<1>1. \A c \in Clients : Logged(c)' = Logged(c)
  BY DEF Logged
<1>2. \A c \in Clients : lastMutationId[c] \in Nat
  BY DEF SyncTypeOK, TypeOK, StoreOK
<1>3. CoreGrows
  BY <1>1, <1>2 DEF CoreGrows, HasId
<1>4. QueueInv => QueueInv'
  BY <1>1 DEF QueueInv, IssuedOnce, QueueIsRest, LogIsIssued
<1> QED BY <1>1, <1>3, <1>4

LEMMA QuietPush ==
  ASSUME SyncTypeOK, CoreGrows, PushInStep, push' \in {push, Idle}, lastMutationId' = lastMutationId,
         push = Idle \/ sess' = sess
  PROVE  PushInStep'
<1>1. CASE push' = Idle
  BY <1>1 DEF PushInStep
<1>2. CASE push' = push /\ push # Idle
  <2>1. PICK c, batch, results : c = push.client /\ batch = push.todo /\ results = push.results
    OBVIOUS
  <2>2. c \in Clients
    BY <1>2, <2>1 DEF SyncTypeOK, TypeOK, StoreOK, PushesOf
  <2>3. RunOf(c, batch)' /\ ResultsTrue(c, results)'
    BY <1>2, <2>1, <2>2, RunGrows, ResultsGrow DEF PushInStep, IsRun
  <2>4. c = push'.client /\ batch = push'.todo /\ results = push'.results /\ push'.lmid = push.lmid
    BY <1>2, <2>1
  <2>5. batch # <<>> => batch[1].id <= push.lmid + 1
    BY <1>2, <2>1 DEF PushInStep, IsRun
  <2>6. RunOf(push.client, push.todo)' /\ ResultsTrue(push.client, push.results)'
    BY <2>3, <2>4
  <2> QED BY <1>2, <2>1, <2>4, <2>5, <2>6 DEF PushInStep, IsRun
<1> QED BY <1>1, <1>2

-----------------------------------------------------------------------------
(* Frames that may be sent *)

LEMMA HelloUp ==
  ASSUME NEW c \in Clients, NEW cursor \in Cursors \cup {NoCursor}
  PROVE  HelloFrame(cursor) \in Upward(c)'
BY DEF HelloFrame, Upward, Frames, Hellos

LEMMA SentUp ==
  ASSUME up \in [Clients -> Seq(Frames)], NEW c \in Clients, NEW frame, up' \in {up, Sent(c, frame)},
         NEW d \in Clients
  PROVE  up'[d] = up[d] \/ (d = c /\ up'[d] = Append(up[d], frame))
BY DEF Sent

LEMMA PushUp ==
  ASSUME SyncTypeOK, SyncTypeOK', OutboxInv', QueueInv', NEW c \in Clients, NEW synced \in BOOLEAN,
         up' = Flushed(c, outbox'[c], confirmedLmid'[c], synced),
         synced => syncedThisConnection'[c] /\ sess'[c] # "open", NEW d \in Clients
  PROVE  up'[d] = up[d] \/ \E frame \in Upward(d)' : up'[d] = Append(up[d], frame)
<1>1. up \in [Clients -> Seq(Frames)]
  BY DEF SyncTypeOK, Frames
<1>2. CASE synced
  <2>1. PICK box, confirmed : box = outbox'[c] /\ confirmed = confirmedLmid'[c]
    OBVIOUS
  <2>2. /\ box \in Seq(Entry) /\ confirmed \in Nat /\ issued'[c] \in Seq(Mutations)
        /\ lastMutationId'[c] \in Nat
    BY <2>1 DEF SyncTypeOK, TypeOK, StoreOK
  <2>3. /\ Len(box) \in Nat /\ DOMAIN box = 1..Len(box) /\ Len(issued'[c]) \in Nat
        /\ DOMAIN issued'[c] = 1..Len(issued'[c])
        /\ \A i \in 1..Len(box) : box[i] \in Entry /\ box[i].id \in Nat
    BY <2>2, EntriesOf, SequenceOf
  <2>4. \A i \in 1..Len(box) : box[i].id = confirmed + i /\ box[i].name = issued'[c][confirmed + i]
    BY <1>2, <2>1, <2>3 DEF QueueInv, QueueIsRest, OutboxInv, Numbered
  <2>5. /\ confirmed <= lastMutationId'[c] /\ lastMutationId'[c] <= Len(issued'[c])
        /\ Len(box) = Len(issued'[c]) - confirmed
    BY <2>1 DEF QueueInv, QueueIsRest
  <2>6. Pending(box, confirmed) = box
    BY <2>2, <2>4, PendingRun DEF Placed
  <2>7. \A i \in 1..Len(box) : confirmed + i \in DOMAIN issued'[c]
    BY <2>2, <2>3, <2>5
  <2>8. RunOf(c, box)'
    <3>1. \A i \in 1..Len(box) : box[i].id = box[1].id + i - 1
      BY <2>2, <2>3, <2>4
    <3>2. \A id \in Nat : HasId(c, id)'
      BY <2>1, <2>2, <2>3, <2>4 DEF HasId
    <3> QED BY <2>3, <2>4, <2>7, <3>1, <3>2 DEF RunOf
  <2>9. box # <<>> => box[1].id <= lastMutationId'[c] + 1
    BY <2>2, <2>3, <2>4, <2>5
  <2>10. IsRun(c, box, lastMutationId[c] + 1)'
    BY <2>8, <2>9 DEF IsRun
  <2> DEFINE frame == [type |-> "push", mutations |-> box]
  <2>11. box \in Seq(Mutation)
    BY <2>2, <2>6, PendingIs
  <2>12. frame \in Upward(c)'
    BY <1>2, <2>10, <2>11 DEF Upward, Frames, PushFrames
  <2>13. up' \in {up, Sent(c, frame)}
    BY <2>1, <2>6 DEF Flushed
  <2> HIDE DEF frame
  <2> QED BY <1>1, <2>12, <2>13, SentUp
<1>3. CASE ~synced
  BY <1>3 DEF Flushed
<1> QED BY <1>2, <1>3

LEMMA ErrorDown ==
  ASSUME NEW c \in Clients, NEW code \in {"Internal", "VersionNotSupported"}
  PROVE  Error(code) \in Downward(c)'
BY DEF Error, Downward, Errors, Codes

LEMMA LastOf ==
  ASSUME NEW S, NEW T, NEW s \in Seq(S), NEW e, Append(s, e) \in Seq(T)
  PROVE  e \in T
<1>1. Append(s, e)[Len(s) + 1] = e /\ Len(s) + 1 \in 1..Len(Append(s, e))
  OBVIOUS
<1> QED BY <1>1, SequenceOf

LEMMA PokeDown ==
  ASSUME SyncTypeOK, SyncTypeOK', NEW targets, NEW frame, Deliver(targets, frame), NEW c \in Clients,
         frame.type = "poke", c \in targets => sess'[c] # "open",
         \A change \in frame.lmids : /\ change.lmid <= lastMutationId'[change.client]
                                     /\ ResultsTrue(change.client, frame.results)'
  PROVE  down'[c] = down[c] \/ \E f \in Downward(c)' : down'[c] = Append(down[c], f)
<1>1. down[c] \in Seq(Pokes \cup Errors) /\ down'[c] \in Seq(Pokes \cup Errors)
  BY DEF SyncTypeOK, TypeOK, StoreOK
<1>2. down'[c] = down[c] \/ (c \in targets /\ down'[c] = Append(down[c], frame))
  BY DEF Deliver
<1>3. down'[c] = Append(down[c], frame) => frame \in Pokes \cup Errors
  BY <1>1, LastOf
<1> QED BY <1>2, <1>3 DEF Downward

-----------------------------------------------------------------------------
(* The steps that leave the queues and the log alone *)

Sound == QueueInv /\ FlightInv /\ PushInStep /\ LinksInStep

\* What every step may rely on, and the types of the state it leads to.
StepFrom == SyncTypeOK /\ ReplicaInv /\ OutboxInv /\ Sound
StepTo == SyncTypeOK' /\ OutboxInv'

LEMMA SocketSteps ==
  ASSUME StepFrom, StepTo, NEW c \in Clients,
         Connect(c) \/ Disconnect(c) \/ SeeClose(c) \/ ServerClose(c)
  PROVE  Sound'
<1>1. SyncTypeOK /\ SyncTypeOK' /\ FlightInv /\ PushInStep /\ LinksInStep /\ QueueInv
  BY DEF StepFrom, StepTo, Sound
<1>2. UNCHANGED <<issued, outcome, confirmedLmid, outbox, lastMutationId, mutationLog, push, needsRebase>>
      /\ push = Idle /\ clients' = clients
  BY DEF Connect, Disconnect, SeeClose, LoseSocket, ServerClose, CloseSocket, Upgrade, PeerGone,
     queueVars, clientVars, linkVars, store
<1>3. CoreGrows /\ QueueInv'
  BY <1>1, <1>2, CoreSame
<1>4. PushInStep'
  BY <1>1, <1>2, <1>3, QuietPush
<1>5. /\ up \in [Clients -> Seq(Frames)] /\ down \in [Clients -> Seq(Pokes \cup Errors)]
      /\ sess \in [Clients -> {"none", "open", "ready"}]
      /\ clientCursor[c] \in Cursors \cup {NoCursor}
      /\ syncedThisConnection \in [Clients -> BOOLEAN]
  BY <1>1 DEF SyncTypeOK, TypeOK, StoreOK, Frames
<1>6. CASE Connect(c)
  <2>1. /\ sess' = [sess EXCEPT ![c] = "open"] /\ down' = [down EXCEPT ![c] = <<>>]
        /\ up' = [up EXCEPT ![c] = <<HelloFrame(clientCursor[c])>>]
        /\ syncedThisConnection' = [syncedThisConnection EXCEPT ![c] = FALSE]
    BY <1>6 DEF Connect, Upgrade
  <2>2. ASSUME NEW d \in Clients PROVE up'[d] \in Seq(Upward(d)') /\ down'[d] \in Seq(Downward(d)')
    <3>1. CASE d = c
      <4>1. HelloFrame(clientCursor[c]) \in Upward(c)'
        BY <1>5, HelloUp
      <4>2. up'[c] = <<HelloFrame(clientCursor[c])>> /\ down'[c] = <<>>
        BY <1>5, <2>1
      <4>3. <<HelloFrame(clientCursor[c])>> \in Seq(Upward(c)')
        BY <4>1
      <4>4. <<>> \in Seq(Downward(c)')
        OBVIOUS
      <4> QED BY <3>1, <4>2, <4>3, <4>4
    <3>2. CASE d # c
      BY <1>1, <1>3, <1>5, <2>1, <3>2, FlightKeeps
    <3> QED BY <3>1, <3>2
  <2>3. LinksInStep'
    BY <1>1, <1>2, <1>5, <2>1 DEF LinksInStep
  <2> QED BY <1>3, <1>4, <2>2, <2>3 DEF Sound, FlightInv
<1>7. CASE Disconnect(c) \/ SeeClose(c)
  <2>1. /\ sess' = sess /\ down' = [down EXCEPT ![c] = <<>>] /\ up' = up
        /\ syncedThisConnection' = syncedThisConnection
    BY <1>7 DEF Disconnect, SeeClose, LoseSocket, PeerGone
  <2>2. ASSUME NEW d \in Clients PROVE up'[d] \in Seq(Upward(d)') /\ down'[d] \in Seq(Downward(d)')
    <3>1. down'[d] \in {down[d], <<>>}
      BY <1>5, <2>1
    <3> QED BY <1>1, <1>3, <2>1, <3>1, FlightKeeps
  <2>3. LinksInStep'
    BY <1>1, <1>2, <2>1 DEF LinksInStep
  <2> QED BY <1>3, <1>4, <2>2, <2>3 DEF Sound, FlightInv
<1>8. CASE ServerClose(c)
  <2>1. /\ sess' = [sess EXCEPT ![c] = "none"] /\ down' = down /\ up' = [up EXCEPT ![c] = <<>>]
        /\ syncedThisConnection' = syncedThisConnection
    BY <1>8 DEF ServerClose, CloseSocket, clientVars, linkVars
  <2>2. ASSUME NEW d \in Clients PROVE up'[d] \in Seq(Upward(d)') /\ down'[d] \in Seq(Downward(d)')
    <3>1. up'[d] \in {up[d], <<>>} /\ (sess'[d] = "open" => sess[d] = "open")
      BY <1>5, <2>1
    <3> QED BY <1>1, <1>3, <2>1, <3>1, FlightKeeps
  <2>3. LinksInStep'
    BY <1>1, <1>2, <1>5, <2>1 DEF LinksInStep
  <2> QED BY <1>3, <1>4, <2>2, <2>3 DEF Sound, FlightInv
<1> QED BY <1>6, <1>7, <1>8

\* What the head of a queue of frames from the server is.
LEMMA HeadDown ==
  ASSUME FlightInv, NEW c \in Clients, down[c] # <<>>
  PROVE  Head(down[c]) \in Downward(c)
<1>1. down[c] \in Seq(Downward(c))
  BY DEF FlightInv
<1> QED BY <1>1, TailElements, FirstOf

LEMMA HeadUp ==
  ASSUME FlightInv, NEW c \in Clients, up[c] # <<>>
  PROVE  Head(up[c]) \in Upward(c)
<1>1. up[c] \in Seq(Upward(c))
  BY DEF FlightInv
<1> QED BY <1>1, TailElements, FirstOf

LEMMA ClientSteps ==
  ASSUME StepFrom, StepTo, NEW c \in Clients,
         Resync(c) \/ RetryPush(c) \/ ReceiveError(c) \/ (ReceivePoke(c) /\ DropPoke(c))
  PROVE  Sound'
<1>1. SyncTypeOK /\ SyncTypeOK' /\ FlightInv /\ PushInStep /\ LinksInStep /\ QueueInv /\ OutboxInv'
  BY DEF StepFrom, StepTo, Sound
<1>2. UNCHANGED <<issued, outcome, confirmedLmid, outbox, lastMutationId, mutationLog, push, sess,
                  clients, syncedThisConnection>>
  BY DEF Resync, RetryPush, ReceiveError, ReceivePoke, DropPoke, Read, queueVars, store, sockets,
     serverVars
<1>3. CoreGrows /\ QueueInv'
  BY <1>1, <1>2, CoreSame
<1>4. PushInStep'
  BY <1>1, <1>2, <1>3, QuietPush
<1>5. /\ up \in [Clients -> Seq(Frames)] /\ down \in [Clients -> Seq(Pokes \cup Errors)]
      /\ clientCursor[c] \in Cursors \cup {NoCursor} /\ NoCursor \in Cursors \cup {NoCursor}
      /\ syncedThisConnection \in [Clients -> BOOLEAN]
  BY <1>1 DEF SyncTypeOK, TypeOK, StoreOK, Frames
<1>6. \A d \in Clients : /\ down'[d] = down[d] \/ (down[d] # <<>> /\ down'[d] = Tail(down[d]))
  BY <1>5 DEF Resync, RetryPush, ReceiveError, ReceivePoke, Read, serverVars
<1>7. needsRebase' = needsRebase
  <2>1. ASSUME ReceiveError(c) PROVE Head(down[c]).code # "PushInvalid"
    <3>1. Head(down[c]) \in Downward(c) /\ Head(down[c]).type = "error"
      BY <1>1, <2>1, HeadDown DEF ReceiveError, Read
    <3> QED BY <3>1 DEF Downward
  <2> QED BY <2>1 DEF Resync, RetryPush, ReceiveError, ReceivePoke, DropPoke, linkVars
<1>8. LinksInStep'
  BY <1>1, <1>2, <1>7 DEF LinksInStep
<1>9. ASSUME NEW d \in Clients
      PROVE  up'[d] = up[d] \/ \E frame \in Upward(d)' : up'[d] = Append(up[d], frame)
  <2>1. CASE RetryPush(c)
    <3>1. up' = up \/ up' = Flushed(c, outbox[c], confirmedLmid[c], syncedThisConnection[c])
      BY <2>1 DEF RetryPush
    <3>2. syncedThisConnection[c] => syncedThisConnection'[c] /\ sess'[c] # "open"
      BY <1>1, <1>2 DEF LinksInStep
    <3>3. syncedThisConnection[c] \in BOOLEAN
      BY <1>5
    <3>4. PICK synced \in BOOLEAN : synced = syncedThisConnection[c]
      BY <3>3, Zenon
    <3>5. up' = up \/ up' = Flushed(c, outbox'[c], confirmedLmid'[c], synced)
      BY <1>2, <3>1, <3>4, Zenon
    <3>6. synced => syncedThisConnection'[c] /\ sess'[c] # "open"
      BY <3>2, <3>4, Zenon
    <3> QED BY <1>1, <1>3, <3>5, <3>6, PushUp
  <2>2. CASE Resync(c) \/ ReceiveError(c) \/ (ReceivePoke(c) /\ DropPoke(c))
    <3>1. \E cursor \in {clientCursor[c], NoCursor} : up' \in {up, Sent(c, HelloFrame(cursor))}
      BY <2>2 DEF Resync, ReceiveError, DropPoke, RequestResync
    <3>2. PICK cursor \in {clientCursor[c], NoCursor} : up' \in {up, Sent(c, HelloFrame(cursor))}
      BY <3>1
    <3>3. HelloFrame(cursor) \in Upward(c)'
      BY <1>5, HelloUp
    <3> QED BY <1>5, <3>2, <3>3, SentUp
  <2> QED BY <2>1, <2>2
<1>10. ASSUME NEW d \in Clients PROVE up'[d] \in Seq(Upward(d)') /\ down'[d] \in Seq(Downward(d)')
  BY <1>1, <1>2, <1>3, <1>6, <1>9, FlightKeeps
<1> QED BY <1>3, <1>4, <1>8, <1>10 DEF Sound, FlightInv

\* What the server sends in answer to a hello, and after it.
LEMMA HelloSteps ==
  ASSUME StepFrom, StepTo, NEW c \in Clients, ServeHello(c) \/ FailHello(c)
  PROVE  Sound'
<1>1. SyncTypeOK /\ SyncTypeOK' /\ FlightInv /\ PushInStep /\ LinksInStep /\ QueueInv
  BY DEF StepFrom, StepTo, Sound
<1>2. /\ UNCHANGED <<issued, outcome, confirmedLmid, outbox, lastMutationId, mutationLog, push,
                     needsRebase, syncedThisConnection>>
      /\ push = Idle /\ clients \subseteq clients'
  BY DEF ServeHello, FailHello, HandleHello, clientVars, queueVars, linkVars, store
<1>3. CoreGrows /\ QueueInv'
  BY <1>1, <1>2, CoreSame
<1>4. PushInStep'
  BY <1>1, <1>2, <1>3, QuietPush
<1>5. /\ up \in [Clients -> Seq(Frames)] /\ down \in [Clients -> Seq(Pokes \cup Errors)]
      /\ sess \in [Clients -> {"none", "open", "ready"}]
      /\ lastMutationId \in [Clients -> Nat]
  BY <1>1 DEF SyncTypeOK, TypeOK, StoreOK, Frames
<1>6. \A d \in Clients : up'[d] = up[d] \/ (up[d] # <<>> /\ up'[d] = Tail(up[d]))
  BY <1>5 DEF ServeHello, FailHello, Handled
<1>7. \A d \in Clients : sess'[d] = sess[d] \/ (d = c /\ ServeHello(c) /\ sess'[d] = "ready" /\ c \in clients')
  BY <1>5 DEF ServeHello, FailHello, HandleHello, sockets
<1>8. LinksInStep'
  BY <1>1, <1>2, <1>7 DEF LinksInStep
<1>9. ASSUME NEW d \in Clients
      PROVE  down'[d] = down[d] \/ \E frame \in Downward(d)' : down'[d] = Append(down[d], frame)
  <2>1. CASE ServeHello(c)
    <3> DEFINE lmids == {[client |-> c, lmid |-> lastMutationId[c]]}
    <3>1. sess'[c] = "ready"
      BY <1>5, <2>1 DEF ServeHello, HandleHello
    <3>2. \E base, clear, patch : Deliver({c}, Poke(base, clear, patch, Cursor, lmids, {}))
      BY <2>1, Zenon DEF ServeHello, HandleHello
    <3>3. PICK base, clear, patch : Deliver({c}, Poke(base, clear, patch, Cursor, lmids, {}))
      BY <3>2
    <3>4. PICK frame : frame = Poke(base, clear, patch, Cursor, lmids, {})
      OBVIOUS
    <3>5. frame.type = "poke" /\ frame.lmids = lmids /\ frame.results = {}
      BY <3>4 DEF Poke
    <3>6. \A change \in frame.lmids : /\ change.lmid <= lastMutationId'[change.client]
                                      /\ ResultsTrue(change.client, frame.results)'
      BY <1>2, <1>5, <3>5 DEF ResultsTrue
    <3>7. Deliver({c}, frame)
      BY <3>3, <3>4
    <3>8. d \in {c} => sess'[d] # "open"
      BY <3>1
    <3> HIDE DEF lmids
    <3> QED BY <1>1, <3>5, <3>6, <3>7, <3>8, PokeDown
  <2>2. CASE FailHello(c)
    <3>1. down'[d] = down[d] \/ down'[d] = Append(down[d], Error("Internal"))
      BY <2>2 DEF FailHello, Deliver
    <3> QED BY <3>1, ErrorDown
  <2> QED BY <2>1, <2>2
<1>10. ASSUME NEW d \in Clients PROVE up'[d] \in Seq(Upward(d)') /\ down'[d] \in Seq(Downward(d)')
  <2>1. sess'[d] = "open" => sess[d] = "open"
    BY <1>7
  <2> QED BY <1>1, <1>3, <1>6, <1>9, <2>1, FlightKeeps
<1> QED BY <1>3, <1>4, <1>8, <1>10 DEF Sound, FlightInv

\* A push that is taken up is in step; before its hello no socket brings one.
LEMMA ServePushStep ==
  ASSUME StepFrom, StepTo, NEW c \in Clients, ServePush(c)
  PROVE  Sound'
<1>1. SyncTypeOK /\ SyncTypeOK' /\ FlightInv /\ PushInStep /\ LinksInStep /\ QueueInv
  BY DEF StepFrom, StepTo, Sound
<1>2. /\ up \in [Clients -> Seq(Frames)] /\ lastMutationId \in [Clients -> Nat]
      /\ up[c] # <<>> /\ Head(up[c]).type = "push" /\ up' = [up EXCEPT ![c] = Tail(@)]
  BY <1>1 DEF SyncTypeOK, TypeOK, StoreOK, Frames, ServePush, Handled
<1>3. Head(up[c]) \in Upward(c)
  BY <1>1, <1>2, HeadUp
<1>4. StartPush(c, Head(up[c]).mutations)
  BY <1>2, <1>3 DEF ServePush, RefusePush, Upward
<1>5. /\ UNCHANGED <<issued, outcome, confirmedLmid, outbox, lastMutationId, mutationLog, sess, down,
                     clients, needsRebase, syncedThisConnection>>
      /\ sess[c] = "ready"
      /\ push' = [client |-> c, todo |-> Head(up[c]).mutations, startVersion |-> currentVersion,
                  startLmid |-> lastMutationId[c], lmid |-> lastMutationId[c], results |-> {}]
  BY <1>4 DEF ServePush, StartPush, clientVars, queueVars, linkVars, store, sockets
<1>6. CoreGrows /\ QueueInv'
  BY <1>1, <1>5, CoreSame
<1>7. PushInStep'
  <2>1. PICK batch : batch = Head(up[c]).mutations
    OBVIOUS
  <2>2. RunOf(c, batch) /\ (batch # <<>> => batch[1].id <= lastMutationId[c] + 1)
    BY <1>2, <1>3, <2>1 DEF Upward, IsRun
  <2>3. RunOf(c, batch)'
    BY <1>6, <2>2, RunGrows
  <2>4. push'.client = c /\ push'.todo = batch /\ push'.lmid = lastMutationId[c] /\ push'.results = {}
    BY <1>5, <2>1
  <2>5. RunOf(push.client, push.todo)'
    BY <2>3, <2>4
  <2>6. ResultsTrue(push.client, push.results)'
    BY <2>4 DEF ResultsTrue
  <2> QED BY <1>5, <2>2, <2>4, <2>5, <2>6 DEF PushInStep, IsRun
<1>8. LinksInStep'
  BY <1>1, <1>5 DEF LinksInStep
<1>9. ASSUME NEW d \in Clients PROVE up'[d] \in Seq(Upward(d)') /\ down'[d] \in Seq(Downward(d)')
  <2>1. up'[d] = up[d] \/ (up[d] # <<>> /\ up'[d] = Tail(up[d]))
    BY <1>2
  <2> QED BY <1>1, <1>5, <1>6, <2>1, FlightKeeps
<1> QED BY <1>6, <1>7, <1>8, <1>9 DEF Sound, FlightInv

\* The first mutation of what is left of a push.
LEMMA NextInStep ==
  ASSUME SyncTypeOK, PushInStep, Mutating
  PROVE  /\ push \in Pushes /\ push.client \in Clients /\ push.lmid \in Nat
         /\ push.todo \in Seq(Mutation) /\ Len(push.todo) \in Nat \ {0}
         /\ NextMutation = push.todo[1] /\ 1 \in DOMAIN push.todo
         /\ DOMAIN push.todo = 1..Len(push.todo)
         /\ NextMutation \in Mutation /\ NextMutation.id \in Nat
         /\ NextMutation.id <= Expected
         /\ Len(Tail(push.todo)) = Len(push.todo) - 1 /\ Tail(push.todo) \in Seq(Mutation)
         /\ DOMAIN Tail(push.todo) = 1..(Len(push.todo) - 1)
         /\ \A i \in 1..(Len(push.todo) - 1) : /\ Tail(push.todo)[i] = push.todo[i + 1]
                                               /\ i + 1 \in 1..Len(push.todo)
<1>1. push \in Pushes /\ push # Idle /\ push.todo # <<>>
  BY DEF SyncTypeOK, TypeOK, Mutating
<1>2. push.client \in Clients /\ push.lmid \in Nat /\ push.todo \in Seq(Mutation)
  BY <1>1 DEF Pushes, PushesOf
<1>3. PICK s : s = push.todo
  OBVIOUS
<1>4. s \in Seq(Mutation) /\ s # <<>>
  BY <1>1, <1>2, <1>3
<1>5. /\ Head(s) = s[1] /\ 1 \in DOMAIN s /\ Tail(s) \in Seq(Mutation) /\ Len(Tail(s)) = Len(s) - 1
      /\ Len(s) \in Nat \ {0} /\ DOMAIN s = 1..Len(s) /\ DOMAIN Tail(s) = 1..(Len(s) - 1)
      /\ \A i \in 1..(Len(s) - 1) : Tail(s)[i] = s[i + 1] /\ i + 1 \in 1..Len(s)
  BY <1>4
<1>6. s[1] \in Mutation /\ s[1].id \in Nat
  BY <1>4, FirstOf, FirstId
<1>7. s[1].id <= push.lmid + 1
  BY <1>1, <1>3 DEF PushInStep, IsRun
<1> QED BY <1>1, <1>2, <1>3, <1>5, <1>6, <1>7 DEF NextMutation, Expected

LEMMA RunTail ==
  ASSUME NEW c \in Clients, NEW s \in Seq(Mutation), s # <<>>, RunOf(c, s)
  PROVE  /\ RunOf(c, Tail(s))
         /\ Tail(s) # <<>> => Tail(s)[1].id = s[1].id + 1
<1>1. /\ 1 \in DOMAIN s /\ Len(s) \in Nat \ {0} /\ DOMAIN s = 1..Len(s)
      /\ DOMAIN Tail(s) = 1..(Len(s) - 1) /\ Len(Tail(s)) = Len(s) - 1 /\ Tail(s) \in Seq(Mutation)
      /\ \A i \in 1..(Len(s) - 1) : Tail(s)[i] = s[i + 1] /\ i + 1 \in 1..Len(s)
  OBVIOUS
<1>2. s[1].id \in Nat
  BY FirstId
<1>3. Tail(s) # <<>> => 1 \in 1..(Len(s) - 1)
  BY <1>1
<1>4. Tail(s) # <<>> => Tail(s)[1] = s[2] /\ s[2].id = s[1].id + 1
  <2>1. Tail(s) # <<>> => 2 \in DOMAIN s /\ Tail(s)[1] = s[2]
    BY <1>1, <1>3
  <2>2. 2 \in DOMAIN s => s[2].id = s[1].id + 2 - 1
    BY DEF RunOf
  <2> QED BY <1>2, <2>1, <2>2
<1>5. ASSUME NEW j \in DOMAIN Tail(s)
      PROVE  /\ Tail(s)[j].id = Tail(s)[1].id + j - 1
             /\ Tail(s)[j].id \in DOMAIN issued[c]
             /\ Tail(s)[j].name = issued[c][Tail(s)[j].id]
             /\ HasId(c, Tail(s)[j].id)
  <2>1. j \in 1..(Len(s) - 1) /\ Tail(s)[j] = s[j + 1] /\ j + 1 \in DOMAIN s /\ Tail(s) # <<>>
    BY <1>1
  <2>2. /\ s[j + 1].id = s[1].id + (j + 1) - 1 /\ s[j + 1].id \in DOMAIN issued[c]
        /\ s[j + 1].name = issued[c][s[j + 1].id] /\ HasId(c, s[j + 1].id)
    BY <2>1 DEF RunOf
  <2>3. s[1].id + (j + 1) - 1 = (s[1].id + 1) + j - 1
    BY <1>2, <2>1
  <2> QED BY <1>4, <2>1, <2>2, <2>3
<1> QED BY <1>4, <1>5 DEF RunOf

LEMMA PushSteps ==
  ASSUME StepFrom, StepTo,
         \/ PushStep /\ (SkipDuplicate \/ RejectGap \/ FinishPush)
         \/ Throw
  PROVE  Sound' /\ ~RejectGap
<1>1. SyncTypeOK /\ SyncTypeOK' /\ FlightInv /\ PushInStep /\ LinksInStep /\ QueueInv
  BY DEF StepFrom, StepTo, Sound
<1>2. ~RejectGap
  <2>1. ASSUME Mutating PROVE NextMutation.id <= Expected /\ NextMutation.id \in Nat /\ Expected \in Nat
    BY <1>1, <2>1, NextInStep DEF Expected
  <2> QED BY <2>1 DEF RejectGap
<1>3. /\ UNCHANGED <<issued, outcome, confirmedLmid, outbox, lastMutationId, mutationLog, sess,
                     clients, needsRebase, syncedThisConnection, up>>
      /\ push # Idle
  BY <1>2 DEF PushStep, Throw, SkipDuplicate, FinishPush, AbortPush, Mutating, clientVars, queueVars,
     linkVars, store, sockets
<1>4. CoreGrows /\ QueueInv'
  BY <1>1, <1>3, CoreSame
<1>5. LinksInStep'
  BY <1>1, <1>3 DEF LinksInStep
<1>6. push \in Pushes /\ push.client \in Clients /\ push.lmid \in Nat /\ sess[push.client] = "ready"
  BY <1>1, <1>3 DEF SyncTypeOK, TypeOK, Pushes, PushesOf, PushInStep
<1>7. PushInStep'
  <2>1. CASE SkipDuplicate
    <3>1. /\ push' = [push EXCEPT !.todo = Tail(@)] /\ Mutating /\ NextMutation.id < Expected
          /\ push.todo \in Seq(Mutation) /\ push.todo # <<>>
      BY <1>1, <2>1, NextInStep DEF SkipDuplicate, Mutating
    <3>2. PICK c, batch, results : c = push.client /\ batch = push.todo /\ results = push.results
      OBVIOUS
    <3>3. /\ push'.client = c /\ push'.todo = Tail(batch) /\ push'.lmid = push.lmid
          /\ push'.results = results /\ sess'[c] = "ready" /\ push.lmid = lastMutationId[c]
      BY <1>1, <1>3, <1>6, <3>1, <3>2 DEF Pushes, PushesOf, PushInStep
    <3>4. /\ RunOf(c, Tail(batch))
          /\ Tail(batch) # <<>> => Tail(batch)[1].id = batch[1].id + 1
      BY <1>1, <1>3, <1>6, <3>1, <3>2, RunTail DEF PushInStep, IsRun
    <3>5. RunOf(c, Tail(batch))' /\ ResultsTrue(c, results)'
      BY <1>1, <1>3, <1>4, <1>6, <3>2, <3>4, RunGrows, ResultsGrow DEF PushInStep
    <3>6. Tail(batch) # <<>> => Tail(batch)[1].id <= push.lmid + 1
      <4>1. batch[1].id < push.lmid + 1 /\ batch[1].id \in Nat
        BY <1>1, <3>1, <3>2, NextInStep DEF Expected
      <4> QED BY <1>6, <3>4, <4>1
    <3>7. RunOf(push.client, push.todo)' /\ ResultsTrue(push.client, push.results)'
      BY <3>3, <3>5
    <3> QED BY <1>3, <3>3, <3>6, <3>7 DEF PushInStep, IsRun
  <2>2. CASE FinishPush \/ Throw
    <3>1. push' = Idle
      BY <2>2 DEF FinishPush, Throw, AbortPush
    <3> QED BY <3>1 DEF PushInStep
  <2> QED BY <1>2, <2>1, <2>2
<1>8. ASSUME NEW d \in Clients
      PROVE  down'[d] = down[d] \/ \E frame \in Downward(d)' : down'[d] = Append(down[d], frame)
  <2>1. CASE SkipDuplicate
    BY <2>1 DEF SkipDuplicate
  <2>2. CASE Throw
    <3>1. down'[d] = down[d] \/ down'[d] = Append(down[d], Error("Internal"))
      BY <2>2 DEF Throw, AbortPush, Deliver
    <3> QED BY <3>1, ErrorDown
  <2>3. CASE FinishPush
    <3> DEFINE lmids == {[client |-> push.client, lmid |-> push.lmid]}
    <3>1. \E targets, base, clear, patch : \E results \in {{}, push.results} :
            /\ targets \in {Ready, {push.client}}
            /\ Deliver(targets, Poke(base, clear, patch, Cursor, lmids, results))
      BY <2>3, Zenon DEF FinishPush
    <3>2. PICK targets, base, clear, patch, results :
            /\ results \in {{}, push.results} /\ targets \in {Ready, {push.client}}
            /\ Deliver(targets, Poke(base, clear, patch, Cursor, lmids, results))
      BY <3>1
    <3>3. PICK frame : frame = Poke(base, clear, patch, Cursor, lmids, results)
      OBVIOUS
    <3>4. frame.type = "poke" /\ frame.lmids = lmids /\ frame.results = results
      BY <3>3 DEF Poke
    <3>5. \A change \in frame.lmids : /\ change.lmid <= lastMutationId'[change.client]
                                      /\ ResultsTrue(change.client, frame.results)'
      <4>1. PICK c \in Clients : c = push.client
        BY <1>6
      <4>2. ResultsTrue(c, results)
        BY <1>1, <1>3, <3>2, <4>1 DEF PushInStep, ResultsTrue
      <4>3. ResultsTrue(c, results)'
        BY <1>4, <4>2, ResultsGrow
      <4>4. push.lmid <= lastMutationId'[c]
        BY <1>1, <1>3, <1>6, <4>1 DEF PushInStep
      <4>5. \A change \in frame.lmids : change.client = c /\ change.lmid = push.lmid
        BY <3>4, <4>1
      <4> QED BY <3>4, <4>3, <4>4, <4>5
    <3>6. Deliver(targets, frame)
      BY <3>2, <3>3
    <3>7. d \in targets => sess'[d] # "open"
      BY <1>3, <1>6, <3>2 DEF Ready
    <3> HIDE DEF lmids
    <3> QED BY <1>1, <3>4, <3>5, <3>6, <3>7, PokeDown
  <2> QED BY <1>2, <2>1, <2>2, <2>3
<1>9. ASSUME NEW d \in Clients PROVE up'[d] \in Seq(Upward(d)') /\ down'[d] \in Seq(Downward(d)')
  BY <1>1, <1>3, <1>4, <1>8, FlightKeeps
<1> QED BY <1>2, <1>4, <1>5, <1>7, <1>9 DEF Sound, FlightInv

LEMMA MaintainSteps ==
  ASSUME StepFrom, StepTo, MaxBackend = 0, Maintain
  PROVE  Sound' /\ backendId' = backendId
<1>1. SyncTypeOK /\ SyncTypeOK' /\ FlightInv /\ PushInStep /\ LinksInStep /\ QueueInv
  BY DEF StepFrom, StepTo, Sound
<1>2. ~Reset
  <2>1. backendId \in Nat
    BY <1>1 DEF SyncTypeOK, TypeOK, StoreOK
  <2>2. Reset => backendId < MaxBackend
    BY DEF Reset
  <2> QED BY <2>1, <2>2
<1>3. /\ UNCHANGED <<issued, outcome, confirmedLmid, outbox, lastMutationId, mutationLog, push,
                     clients, needsRebase, syncedThisConnection, backendId>>
      /\ push = Idle
  BY <1>2 DEF Maintain, Compact, Hibernate, Import, ImportExtension, ReplaceRows, clientVars, queueVars,
     linkVars, store, meta
<1>4. CoreGrows /\ QueueInv'
  BY <1>1, <1>3, CoreSame
<1>5. PushInStep'
  BY <1>1, <1>3, <1>4, QuietPush
<1>6. \A d \in Clients : up'[d] \in {up[d], <<>>} /\ sess'[d] \in {sess[d], "none"}
  BY <1>2 DEF Maintain, Compact, Hibernate, Import, ImportExtension, sockets
<1>7. LinksInStep'
  BY <1>1, <1>3, <1>6 DEF LinksInStep
<1>8. ASSUME NEW d \in Clients
      PROVE  down'[d] = down[d] \/ \E frame \in Downward(d)' : down'[d] = Append(down[d], frame)
  <2>1. ASSUME NEW data \in Rows, Import(data)
        PROVE  down'[d] = down[d] \/ \E frame \in Downward(d)' : down'[d] = Append(down[d], frame)
    <3>1. \E base, clear, patch, cursor : Deliver(Ready, Poke(base, clear, patch, cursor, {}, {}))
      BY <2>1, Zenon DEF Import
    <3>2. PICK base, clear, patch, cursor : Deliver(Ready, Poke(base, clear, patch, cursor, {}, {}))
      BY <3>1
    <3>3. PICK frame : frame = Poke(base, clear, patch, cursor, {}, {})
      OBVIOUS
    <3>4. frame.type = "poke" /\ frame.lmids = {}
      BY <3>3 DEF Poke
    <3>5. PICK targets : targets = Ready
      OBVIOUS
    <3>6. Deliver(targets, frame)
      BY <3>2, <3>3, <3>5
    <3>7. d \in targets => sess'[d] # "open"
      BY <2>1, <3>5 DEF Ready, Import, sockets
    <3> QED BY <1>1, <3>4, <3>6, <3>7, PokeDown
  <2>2. ASSUME Compact \/ Hibernate \/ \E data \in Rows : ImportExtension(data) PROVE down' = down
    BY <2>2 DEF Compact, Hibernate, ImportExtension
  <2> QED BY <1>2, <2>1, <2>2 DEF Maintain
<1>9. ASSUME NEW d \in Clients PROVE up'[d] \in Seq(Upward(d)') /\ down'[d] \in Seq(Downward(d)')
  <2>1. sess'[d] = "open" => sess[d] = "open"
    BY <1>6
  <2> QED BY <1>1, <1>4, <1>6, <1>8, <2>1, FlightKeeps
<1> QED BY <1>3, <1>4, <1>5, <1>7, <1>9 DEF Sound, FlightInv

-----------------------------------------------------------------------------
(* A mutation takes effect *)

\* The mutations of a client in the log are entries of the log.
LEMMA LoggedIs ==
  ASSUME SyncTypeOK, NEW c \in Clients
  PROVE  Logged(c) \in Seq(LogEntries)
<1>1. mutationLog \in Seq(LogEntries) /\ DOMAIN mutationLog = 1..Len(mutationLog)
  BY DEF SyncTypeOK, TypeOK
<1>2. {p \in DOMAIN mutationLog : mutationLog[p].client = c} \in SUBSET (1..Len(mutationLog))
  BY <1>1
<1> DEFINE kept == {p \in DOMAIN mutationLog : mutationLog[p].client = c}
<1>3. kept \in SUBSET (1..Len(mutationLog))
  BY <1>2
<1> HIDE DEF kept
<1>4. Filtered(mutationLog, kept) \in Seq(LogEntries)
  BY <1>1, <1>3, FilteredIs
<1> QED BY <1>4 DEF Logged, kept

\* What a new entry of the log adds to the mutations of its client, and of no other.
LEMMA LoggedAppend ==
  ASSUME SyncTypeOK, NEW entry, mutationLog' = Append(mutationLog, entry), NEW c \in Clients
  PROVE  Logged(c)' = IF entry.client = c THEN Append(Logged(c), entry) ELSE Logged(c)
<1>1. /\ mutationLog \in Seq(LogEntries) /\ DOMAIN mutationLog = 1..Len(mutationLog)
      /\ Len(mutationLog) \in Nat /\ DOMAIN mutationLog' = 1..(Len(mutationLog) + 1)
      /\ mutationLog'[Len(mutationLog) + 1] = entry
      /\ \A p \in 1..Len(mutationLog) : mutationLog'[p] = mutationLog[p]
  BY DEF SyncTypeOK, TypeOK
<1> DEFINE kept == {p \in DOMAIN mutationLog : mutationLog[p].client = c}
           keptNow == {p \in DOMAIN mutationLog' : mutationLog'[p].client = c}
<1>2. kept \in SUBSET (1..Len(mutationLog))
  BY <1>1
<1>3. keptNow = IF entry.client = c THEN kept \cup {Len(mutationLog) + 1} ELSE kept
  BY <1>1
<1>4. Logged(c) = Filtered(mutationLog, kept) /\ Logged(c)' = Filtered(mutationLog', keptNow)
  BY DEF Logged
<1> HIDE DEF kept, keptNow
<1>5. /\ Filtered(Append(mutationLog, entry), kept) = Filtered(mutationLog, kept)
      /\ Filtered(Append(mutationLog, entry), kept \cup {Len(mutationLog) + 1})
           = Append(Filtered(mutationLog, kept), entry)
  BY <1>1, <1>2, FilteredAppend
<1> QED BY <1>3, <1>4, <1>5

LEMMA ApplyStep ==
  ASSUME StepFrom, StepTo, NEW w, NEW ok, ApplyMutation(w, ok), UNCHANGED <<clientVars, up>>
  PROVE  /\ Sound' /\ UNCHANGED <<issued, outcome>>
         /\ \E c \in Clients : \E entry :
              /\ entry.ok = ok /\ Len(Logged(c)) < Len(issued[c])
              /\ entry.name = issued[c][Len(Logged(c)) + 1]
              /\ Logged(c)' = Append(Logged(c), entry)
              /\ \A d \in Clients \ {c} : Logged(d)' = Logged(d)
<1>1. SyncTypeOK /\ SyncTypeOK' /\ FlightInv /\ PushInStep /\ LinksInStep /\ QueueInv
  BY DEF StepFrom, StepTo, Sound
<1>2. /\ Mutating /\ push # Idle /\ NextMutation.id = Expected
      /\ push.todo \in Seq(Mutation) /\ push.todo # <<>>
  BY <1>1, NextInStep DEF ApplyMutation, Mutating
<1>3. PICK c, batch, results, expected, name, entry :
        /\ c = push.client /\ batch = push.todo /\ results = push.results /\ expected = Expected
        /\ name = NextMutation.name
        /\ entry \in {[client |-> c, id |-> expected, name |-> name, version |-> v, ok |-> ok] :
                        v \in {0, currentVersion + 1}}
        /\ mutationLog' = Append(mutationLog, entry)
  <2>1. \E v \in {0, currentVersion + 1} :
          mutationLog' = Append(mutationLog, [client |-> push.client, id |-> Expected,
                                              name |-> NextMutation.name, version |-> v, ok |-> ok])
    BY DEF ApplyMutation
  <2> QED BY <2>1
<1>4. entry.client = c /\ entry.id = expected /\ entry.name = name /\ entry.ok = ok
  BY <1>3
<1>5. /\ c \in Clients /\ push.lmid \in Nat /\ expected = push.lmid + 1
      /\ sess[c] = "ready" /\ push.lmid = lastMutationId[c]
      /\ RunOf(c, batch) /\ batch # <<>> /\ batch \in Seq(Mutation) /\ 1 \in DOMAIN batch
      /\ batch[1].id = expected /\ batch[1].name = name /\ ResultsTrue(c, results)
  BY <1>1, <1>2, <1>3, NextInStep DEF PushInStep, Expected, IsRun
<1>6. c \in clients
  BY <1>1, <1>5 DEF LinksInStep
<1>7. /\ lastMutationId' = [lastMutationId EXCEPT ![c] = expected]
      /\ push' = [push EXCEPT !.todo = Tail(@), !.lmid = expected,
                              !.results = @ \cup {[id |-> expected, ok |-> ok]}]
      /\ UNCHANGED <<issued, outcome, confirmedLmid, outbox, sess, down, up, clients, needsRebase,
                     syncedThisConnection>>
  BY <1>3, <1>6 DEF ApplyMutation, clientVars, queueVars, linkVars, sockets
<1>8. /\ Logged(c)' = Append(Logged(c), entry)
      /\ \A d \in Clients \ {c} : Logged(d)' = Logged(d)
  <2>1. \A d \in Clients : Logged(d)' = IF entry.client = d THEN Append(Logged(d), entry) ELSE Logged(d)
    BY <1>1, <1>3, LoggedAppend
  <2> QED BY <1>4, <1>5, <2>1
<1>9. /\ Logged(c) \in Seq(LogEntries) /\ Len(Logged(c)) = push.lmid
      /\ lastMutationId \in [Clients -> Nat]
      /\ issued[c] \in Seq(Mutations) /\ DOMAIN issued[c] = 1..Len(issued[c]) /\ Len(issued[c]) \in Nat
  <2>1. Logged(c) \in Seq(LogEntries)
    BY <1>1, <1>5, LoggedIs
  <2>2. Len(Logged(c)) = push.lmid
    BY <1>1, <1>5 DEF QueueInv, LogIsIssued
  <2>3. lastMutationId \in [Clients -> Nat] /\ issued[c] \in Seq(Mutations)
    BY <1>1, <1>5 DEF SyncTypeOK, TypeOK, StoreOK
  <2> QED BY <2>1, <2>2, <2>3, SequenceOf
<1>10. /\ Len(Logged(c)') = expected /\ DOMAIN Logged(c)' = 1..expected
       /\ DOMAIN Logged(c) = 1..push.lmid
       /\ \A i \in 1..push.lmid : Logged(c)'[i] = Logged(c)[i]
       /\ Logged(c)'[expected] = entry
  <2>1. PICK old : old = Logged(c)
    OBVIOUS
  <2>2. /\ old \in Seq(LogEntries) /\ Len(old) = push.lmid /\ push.lmid \in Nat /\ expected = push.lmid + 1
        /\ Logged(c)' = Append(old, entry)
    BY <1>5, <1>8, <1>9, <2>1
  <2> QED BY <2>1, <2>2
<1>11. expected \in DOMAIN issued[c] /\ name = issued[c][expected] /\ HasId(c, expected)
  BY <1>5 DEF RunOf
<1>12. CoreGrows
  <2> SUFFICES ASSUME NEW d \in Clients
               PROVE  /\ lastMutationId[d] <= lastMutationId'[d]
                      /\ DOMAIN Logged(d) \subseteq DOMAIN Logged(d)'
                      /\ \A i \in DOMAIN Logged(d) : Logged(d)'[i] = Logged(d)[i]
    BY <1>7 DEF CoreGrows, HasId
  <2>1. CASE d = c
    BY <1>5, <1>7, <1>9, <1>10, <2>1
  <2>2. CASE d # c
    BY <1>7, <1>8, <1>9, <2>2
  <2> QED BY <2>1, <2>2
<1>13. QueueInv'
  <2>1. IssuedOnce'
    BY <1>1, <1>7 DEF QueueInv, IssuedOnce
  <2>2. QueueIsRest'
    <3> SUFFICES ASSUME NEW d \in Clients
                 PROVE  /\ confirmedLmid[d] <= lastMutationId'[d]
                        /\ lastMutationId'[d] <= Len(issued[d])
                        /\ Len(outbox[d]) = Len(issued[d]) - confirmedLmid[d]
                        /\ \A i \in DOMAIN outbox[d] :
                             LET place == confirmedLmid[d] + i
                             IN  /\ outbox[d][i].name = issued[d][place]
                                 /\ outbox[d][i].id \in {0, place}
                                 /\ place <= lastMutationId'[d] => outbox[d][i].id # 0
      BY <1>7 DEF QueueIsRest
    <3>1. CASE d # c
      BY <1>1, <1>7, <1>9, <3>1 DEF QueueInv, QueueIsRest
    <3>2. CASE d = c
      <4>1. lastMutationId'[c] = expected /\ lastMutationId[c] = push.lmid
        BY <1>5, <1>7, <1>9
      <4>2. confirmedLmid[c] \in Nat /\ DOMAIN outbox[c] = 1..Len(outbox[c]) /\ Len(outbox[c]) \in Nat
        <5>1. outbox[c] \in Seq(Entry) /\ confirmedLmid[c] \in Nat
          BY <1>1, <1>5 DEF SyncTypeOK
        <5> QED BY <5>1, EntriesOf
      <4>3. ASSUME NEW i \in DOMAIN outbox[c], confirmedLmid[c] + i <= expected
            PROVE  outbox[c][i].id # 0
        <5>1. confirmedLmid[c] + i <= lastMutationId[c] \/ confirmedLmid[c] + i = expected
          BY <1>5, <4>1, <4>2, <4>3
        <5> QED BY <1>1, <1>5, <1>11, <5>1 DEF QueueInv, QueueIsRest, HasId
      <4>4. confirmedLmid[c] <= expected /\ expected <= Len(issued[c])
        BY <1>1, <1>5, <1>9, <1>11, <4>1, <4>2 DEF QueueInv, QueueIsRest
      <4> QED BY <1>1, <1>5, <3>2, <4>1, <4>3, <4>4 DEF QueueInv, QueueIsRest
    <3> QED BY <3>1, <3>2
  <2>3. LogIsIssued'
    <3> SUFFICES ASSUME NEW d \in Clients
                 PROVE  /\ Len(Logged(d)') = lastMutationId'[d]
                        /\ \A i \in 1..lastMutationId'[d] : /\ Logged(d)'[i].id = i
                                                            /\ Logged(d)'[i].name = issued[d][i]
      BY <1>7 DEF LogIsIssued
    <3>1. CASE d # c
      BY <1>1, <1>7, <1>8, <1>9, <3>1 DEF QueueInv, LogIsIssued
    <3>2. CASE d = c
      <4>1. lastMutationId'[c] = expected /\ lastMutationId[c] = push.lmid
        BY <1>5, <1>7, <1>9
      <4>2. \A i \in 1..expected : i \in 1..push.lmid \/ i = expected
        BY <1>5
      <4>3. \A i \in 1..push.lmid : Logged(c)[i].id = i /\ Logged(c)[i].name = issued[c][i]
        BY <1>1, <1>5, <4>1 DEF QueueInv, LogIsIssued
      <4> QED BY <1>4, <1>10, <1>11, <3>2, <4>1, <4>2, <4>3
    <3> QED BY <3>1, <3>2
  <2> QED BY <2>1, <2>2, <2>3 DEF QueueInv
<1>14. PushInStep'
  <2>1. push \in Pushes
    BY <1>1, <1>2, NextInStep
  <2>2. /\ push'.client = c /\ push'.todo = Tail(batch) /\ push'.lmid = expected
        /\ push'.results = results \cup {[id |-> expected, ok |-> ok]}
        /\ sess'[c] = "ready" /\ lastMutationId'[c] = expected
    BY <1>3, <1>5, <1>7, <1>9, <2>1 DEF Pushes, PushesOf
  <2>3. RunOf(c, Tail(batch)) /\ (Tail(batch) # <<>> => Tail(batch)[1].id = expected + 1)
    BY <1>5, RunTail
  <2>4. RunOf(c, Tail(batch))' /\ ResultsTrue(c, results)'
    BY <1>5, <1>12, <2>3, RunGrows, ResultsGrow
  <2>5. PICK rest, told : rest = Tail(batch) /\ told = results \cup {[id |-> expected, ok |-> ok]}
    OBVIOUS
  <2>6. ResultsTrue(c, told)'
    BY <1>4, <1>5, <1>10, <2>4, <2>5 DEF ResultsTrue
  <2>7. RunOf(push.client, push.todo)' /\ ResultsTrue(push.client, push.results)'
    BY <2>2, <2>4, <2>5, <2>6
  <2>8. push'.todo # <<>> => push'.todo[1].id <= push'.lmid + 1
    BY <1>5, <2>2, <2>3
  <2> QED BY <2>2, <2>7, <2>8 DEF PushInStep, IsRun
<1>15. LinksInStep'
  BY <1>1, <1>7 DEF LinksInStep
<1>16. ASSUME NEW d \in Clients PROVE up'[d] \in Seq(Upward(d)') /\ down'[d] \in Seq(Downward(d)')
  BY <1>1, <1>7, <1>12, FlightKeeps
<1>17. Sound'
  BY <1>13, <1>14, <1>15, <1>16 DEF Sound, FlightInv
<1>18. /\ Len(Logged(c)) < Len(issued[c])
       /\ entry.name = issued[c][Len(Logged(c)) + 1]
  BY <1>4, <1>5, <1>9, <1>11
<1> QED BY <1>4, <1>5, <1>7, <1>8, <1>17, <1>18

-----------------------------------------------------------------------------
(* A client makes a mutation *)

LEMMA Appended ==
  ASSUME NEW S, NEW s \in Seq(S), NEW e
  PROVE  /\ Len(Append(s, e)) = Len(s) + 1 /\ Len(s) \in Nat
         /\ DOMAIN s = 1..Len(s) /\ DOMAIN Append(s, e) = 1..(Len(s) + 1)
         /\ Append(s, e)[Len(s) + 1] = e
         /\ \A i \in 1..Len(s) : Append(s, e)[i] = s[i]
         /\ \A i \in 1..(Len(s) + 1) : i \in 1..Len(s) \/ i = Len(s) + 1
OBVIOUS

LEMMA MutateStep ==
  ASSUME StepFrom, StepTo, NEW c \in Clients, NEW m \in Mutations, Mutate(c, m)
  PROVE  /\ Sound' /\ mutationLog' = mutationLog /\ outcome[m] = "new"
         /\ issued' = [issued EXCEPT ![c] = Append(@, m)]
         /\ outcome' = [outcome EXCEPT ![m] = "pending"]
<1>1. SyncTypeOK /\ SyncTypeOK' /\ FlightInv /\ PushInStep /\ LinksInStep /\ QueueInv /\ OutboxInv
      /\ OutboxInv'
  BY DEF StepFrom, StepTo, Sound
<1>2. PICK synced, id : /\ synced \in BOOLEAN /\ synced = syncedThisConnection[c]
                        /\ id = IF synced THEN LastId(outbox[c], confirmedLmid[c]) + 1 ELSE 0
  BY <1>1 DEF SyncTypeOK
<1> DEFINE entry == [id |-> id, name |-> m]
<1>3. /\ UNCHANGED <<confirmedLmid, lastMutationId, mutationLog, push, sess, down, clients, needsRebase,
                     syncedThisConnection>>
      /\ outcome[m] = "new"
      /\ issued' = [issued EXCEPT ![c] = Append(@, m)]
      /\ outcome' = [outcome EXCEPT ![m] = "pending"]
      /\ outbox' = [outbox EXCEPT ![c] = Append(outbox[c], entry)]
      /\ up' = Flushed(c, Append(outbox[c], entry), confirmedLmid[c], synced)
  BY <1>2, Zenon DEF Mutate, serverVars, linkVars, store, sockets
<1>4. entry.id = id /\ entry.name = m
  OBVIOUS
<1> HIDE DEF entry
<1>5. PICK made, box, f : made = issued[c] /\ box = outbox[c] /\ f = confirmedLmid[c]
  OBVIOUS
<1>6. /\ made \in Seq(Mutations) /\ box \in Seq(Entry) /\ f \in Nat /\ lastMutationId[c] \in Nat
      /\ issued \in [Clients -> Seq(Mutations)] /\ outbox \in [Clients -> Seq(Entry)]
      /\ outcome \in [Mutations -> Outcomes]
  BY <1>1, <1>5 DEF SyncTypeOK, TypeOK, StoreOK
<1>7. /\ issued'[c] = Append(made, m) /\ outbox'[c] = Append(box, entry)
      /\ \A d \in Clients \ {c} : issued'[d] = issued[d] /\ outbox'[d] = outbox[d]
  BY <1>3, <1>5, <1>6
<1>8. /\ Len(issued'[c]) = Len(made) + 1 /\ Len(made) \in Nat
      /\ DOMAIN made = 1..Len(made) /\ DOMAIN issued'[c] = 1..(Len(made) + 1)
      /\ issued'[c][Len(made) + 1] = m
      /\ \A i \in 1..Len(made) : issued'[c][i] = made[i]
      /\ \A i \in 1..(Len(made) + 1) : i \in 1..Len(made) \/ i = Len(made) + 1
  BY <1>6, <1>7, Appended
<1>9. /\ Len(outbox'[c]) = Len(box) + 1 /\ Len(box) \in Nat
      /\ DOMAIN box = 1..Len(box) /\ DOMAIN outbox'[c] = 1..(Len(box) + 1)
      /\ outbox'[c][Len(box) + 1] = entry
      /\ \A i \in 1..Len(box) : outbox'[c][i] = box[i]
      /\ \A i \in 1..(Len(box) + 1) : i \in 1..Len(box) \/ i = Len(box) + 1
  BY <1>6, <1>7, Appended
<1>10. /\ f <= lastMutationId[c] /\ lastMutationId[c] <= Len(made) /\ Len(box) = Len(made) - f
       /\ \A i \in 1..Len(box) : /\ box[i].name = made[f + i] /\ box[i].id \in {0, f + i}
                                 /\ f + i <= lastMutationId[c] => box[i].id # 0
  BY <1>1, <1>5, <1>9 DEF QueueInv, QueueIsRest
<1>11. id \in {0, f + Len(box) + 1}
  <2>1. CASE synced
    <3>1. Ordered(box, f) /\ Numbered(box) /\ InPlace(box, f)
      BY <1>1, <1>2, <1>5, <1>10, <2>1 DEF OutboxInv, OutboxOrdered, InPlace
    <3>2. PICK k \in 0..Len(box) : /\ LastId(box, f) = f + k
                                   /\ \A i \in 1..Len(box) : i > k => box[i].id = 0
      BY <1>6, <3>1, LastIdRun
    <3>3. k = Len(box)
      <4>1. k # Len(box) => Len(box) \in 1..Len(box) /\ Len(box) > k
        BY <1>9
      <4> QED BY <1>9, <3>1, <3>2, <4>1 DEF Numbered
    <3> QED BY <1>2, <1>5, <2>1, <3>2, <3>3
  <2>2. CASE ~synced
    BY <1>2, <2>2
  <2> QED BY <2>1, <2>2
<1>12. \A d \in Clients : Logged(d)' = Logged(d)
  BY <1>3 DEF Logged
<1>13. CoreGrows
  <2>1. ASSUME NEW d \in Clients
        PROVE  /\ DOMAIN issued[d] \subseteq DOMAIN issued'[d]
               /\ \A i \in DOMAIN issued[d] : issued'[d][i] = issued[d][i]
               /\ \A x \in DOMAIN issued[d] : HasId(d, x) => HasId(d, x)'
    <3>1. CASE d # c
      BY <1>3, <1>7, <3>1 DEF HasId
    <3>2. CASE d = c
      <4>1. DOMAIN made \subseteq DOMAIN issued'[c] /\ \A i \in DOMAIN made : issued'[c][i] = made[i]
        BY <1>8
      <4>2. ASSUME NEW x \in DOMAIN made, HasId(c, x), NEW i \in DOMAIN outbox'[c], f + i = x
            PROVE  outbox'[c][i].id # 0
        <5>1. i \in 1..Len(box)
          BY <1>6, <1>8, <1>9, <1>10, <4>2
        <5> QED BY <1>5, <1>9, <4>2, <5>1 DEF HasId
      <4>3. \A x \in DOMAIN made : HasId(c, x) => HasId(c, x)'
        BY <1>3, <1>5, <4>2 DEF HasId
      <4> QED BY <1>5, <3>2, <4>1, <4>3
    <3> QED BY <3>1, <3>2
  <2>2. \A d \in Clients : lastMutationId[d] <= lastMutationId'[d]
    BY <1>1, <1>3 DEF SyncTypeOK, TypeOK, StoreOK
  <2> QED BY <1>12, <2>1, <2>2 DEF CoreGrows
<1>14. IssuedOnce'
  <2>1. \A d \in Clients : \A i \in DOMAIN issued[d] : issued[d][i] # m /\ issued[d][i] \in Mutations
    <3>1. \A d \in Clients : issued[d] \in Seq(Mutations)
      BY <1>6
    <3>2. \A d \in Clients : \A i \in DOMAIN issued[d] : issued[d][i] \in Mutations
      BY <3>1, SequenceOf
    <3> QED BY <1>1, <1>3, <3>2 DEF QueueInv, IssuedOnce
  <2>2. \A d \in Clients : \A i \in DOMAIN issued'[d] :
          \/ i \in DOMAIN issued[d] /\ issued'[d][i] = issued[d][i]
          \/ d = c /\ i = Len(made) + 1 /\ issued'[d][i] = m
    BY <1>5, <1>7, <1>8
  <2>3. ASSUME NEW d \in Clients, NEW e \in Clients, NEW i \in DOMAIN issued'[d], NEW j \in DOMAIN issued'[e],
               issued'[d][i] = issued'[e][j]
        PROVE  d = e /\ i = j
    BY <1>1, <2>1, <2>2, <2>3 DEF QueueInv, IssuedOnce
  <2>4. ASSUME NEW d \in Clients, NEW i \in DOMAIN issued'[d]
        PROVE  /\ outcome'[issued'[d][i]] # "new"
               /\ i > confirmedLmid[d] => outcome'[issued'[d][i]] = "pending"
    <3>1. CASE i \in DOMAIN issued[d] /\ issued'[d][i] = issued[d][i]
      BY <1>1, <1>3, <1>6, <2>1, <3>1 DEF QueueInv, IssuedOnce
    <3>2. CASE issued'[d][i] = m
      BY <1>3, <1>6, <3>2
    <3> QED BY <2>2, <3>1, <3>2
  <2> QED BY <1>3, <2>3, <2>4 DEF IssuedOnce
<1>15. QueueIsRest'
  <2>a. confirmedLmid' = confirmedLmid /\ lastMutationId' = lastMutationId
    BY <1>3
  <2> SUFFICES ASSUME NEW d \in Clients
               PROVE  /\ confirmedLmid'[d] <= lastMutationId'[d]
                      /\ lastMutationId'[d] <= Len(issued'[d])
                      /\ Len(outbox'[d]) = Len(issued'[d]) - confirmedLmid'[d]
                      /\ \A i \in DOMAIN outbox'[d] :
                           LET place == confirmedLmid'[d] + i
                           IN  /\ outbox'[d][i].name = issued'[d][place]
                               /\ outbox'[d][i].id \in {0, place}
                               /\ place <= lastMutationId'[d] => outbox'[d][i].id # 0
    BY DEF QueueIsRest
  <2>1. CASE d # c
    BY <1>1, <1>7, <2>a, <2>1 DEF QueueInv, QueueIsRest
  <2>2. CASE d = c
    <3>1. /\ lastMutationId[c] <= Len(issued'[c]) /\ Len(outbox'[c]) = Len(issued'[c]) - f
      BY <1>6, <1>8, <1>9, <1>10
    <3>2. ASSUME NEW i \in 1..Len(box)
          PROVE  /\ outbox'[c][i].name = issued'[c][f + i]
                 /\ outbox'[c][i].id \in {0, f + i}
                 /\ f + i <= lastMutationId[c] => outbox'[c][i].id # 0
      <4>1. f + i \in 1..Len(made)
        BY <1>6, <1>8, <1>9, <1>10
      <4> QED BY <1>8, <1>9, <1>10, <4>1
    <3>3. ASSUME NEW i, i = Len(box) + 1
          PROVE  /\ outbox'[c][i].name = issued'[c][f + i]
                 /\ outbox'[c][i].id \in {0, f + i}
                 /\ f + i <= lastMutationId[c] => outbox'[c][i].id # 0
      <4>1. f + i = Len(made) + 1 /\ f + i = f + Len(box) + 1 /\ ~(f + i <= lastMutationId[c])
        BY <1>6, <1>8, <1>9, <1>10, <3>3
      <4> QED BY <1>4, <1>8, <1>9, <1>11, <3>3, <4>1
    <3> QED BY <1>5, <1>9, <1>10, <2>a, <2>2, <3>1, <3>2, <3>3
  <2> QED BY <2>1, <2>2
<1>16. LogIsIssued'
  <2> SUFFICES ASSUME NEW d \in Clients
               PROVE  /\ Len(Logged(d)') = lastMutationId[d]
                      /\ \A i \in 1..lastMutationId[d] : /\ Logged(d)'[i].id = i
                                                         /\ Logged(d)'[i].name = issued'[d][i]
    BY <1>3 DEF LogIsIssued
  <2>1. \A i \in 1..lastMutationId[d] : issued'[d][i] = issued[d][i]
    <3>1. CASE d # c
      BY <1>7, <3>1
    <3>2. CASE d = c
      <4>1. \A i \in 1..lastMutationId[c] : i \in 1..Len(made)
        BY <1>6, <1>8, <1>10
      <4> QED BY <1>5, <1>8, <3>2, <4>1
    <3> QED BY <3>1, <3>2
  <2> QED BY <1>1, <1>12, <2>1 DEF QueueInv, LogIsIssued
<1>17. QueueInv'
  BY <1>14, <1>15, <1>16 DEF QueueInv
<1>18. PushInStep'
  BY <1>1, <1>3, <1>13, QuietPush
<1>19. LinksInStep'
  BY <1>1, <1>3 DEF LinksInStep
<1>20. ASSUME NEW d \in Clients
       PROVE  up'[d] = up[d] \/ \E frame \in Upward(d)' : up'[d] = Append(up[d], frame)
  <2>1. up' = Flushed(c, outbox'[c], confirmedLmid'[c], synced)
    BY <1>3, <1>5, <1>7
  <2>2. synced => syncedThisConnection'[c] /\ sess'[c] # "open"
    BY <1>1, <1>2, <1>3 DEF LinksInStep
  <2> QED BY <1>1, <1>2, <1>17, <2>1, <2>2, PushUp
<1>21. ASSUME NEW d \in Clients PROVE up'[d] \in Seq(Upward(d)') /\ down'[d] \in Seq(Downward(d)')
  BY <1>1, <1>3, <1>13, <1>20, FlightKeeps
<1> QED BY <1>3, <1>17, <1>18, <1>19, <1>21 DEF Sound, FlightInv

-----------------------------------------------------------------------------
(* A client takes a poke *)

\* In a history that is never reset no poke is of another one.
LEMMA SameHistory ==
  ASSUME ReplicaInv, backendId = 0, NEW c \in Clients, down[c] # <<>>, Head(down[c]).type = "poke"
  PROVE  ~BackendChanged(c, Head(down[c]))
<1>1. \A x \in DOMAIN snaps : x.backendId = 0
  <2>1. \A x \in DOMAIN snaps : x.backendId <= backendId /\ x.backendId \in Nat
    BY DEF ReplicaInv, HistoryInv, Recorded, StoreOK, Cursors
  <2> QED BY <2>1
<1>2. /\ Head(down[c]) = down[c][1] /\ 1 \in 1..Len(down[c])
  <2>1. down[c] \in Seq(Pokes \cup Errors)
    BY DEF ReplicaInv, StoreOK
  <2> QED BY <2>1, TailElements
<1>3. Head(down[c]).cursor \in DOMAIN snaps
  BY <1>2, PokeRecorded DEF ReplicaInv, HistoryInv
<1> QED BY <1>1, <1>3 DEF BackendChanged, ReplicaInv, ReplicaSound

\* What the poke confirms is in the log, and what it leaves is the rest of the queue, numbered.
LEMMA PokeLeaves ==
  ASSUME StepFrom, NEW c \in Clients, NEW poke \in Pokes, ~BackendChanged(c, poke),
         \A change \in poke.lmids : change.lmid <= lastMutationId[change.client]
  PROVE  LET n == ConfirmedBy(c, poke)
             f == confirmedLmid[c]
             box == outbox[c]
             after == QueueAfter(c, poke)
         IN  /\ n \in Nat /\ f \in Nat /\ f <= n /\ n <= lastMutationId[c]
             /\ QueueAt(c, poke) = box
             /\ Len(after) = Len(issued[c]) - n /\ after \in Seq(Entry)
             /\ \A i \in 1..Len(after) : after[i].id = n + i /\ after[i].name = issued[c][n + i]
<1>1. PICK n, f, box, made, lmid :
        /\ n = ConfirmedBy(c, poke) /\ f = confirmedLmid[c] /\ box = outbox[c] /\ made = issued[c]
        /\ lmid = lastMutationId[c]
  OBVIOUS
<1>2. /\ SyncTypeOK /\ QueueInv /\ OutboxInv /\ LinksInStep
      /\ confirmedLmid \in [Clients -> Nat]
      /\ f \in Nat /\ box \in Seq(Entry) /\ lmid \in Nat /\ made \in Seq(Mutations)
  BY <1>1 DEF StepFrom, Sound, SyncTypeOK, TypeOK, StoreOK
<1>3. /\ Len(box) \in Nat /\ DOMAIN box = 1..Len(box) /\ Len(made) \in Nat
      /\ \A i \in 1..Len(box) : box[i] \in Entry /\ box[i].id \in Nat
  BY <1>2, EntriesOf, SequenceOf
<1>4. /\ f <= lmid /\ lmid <= Len(made) /\ Len(box) = Len(made) - f
      /\ \A i \in 1..Len(box) : /\ box[i].name = made[f + i] /\ box[i].id \in {0, f + i}
                                /\ f + i <= lmid => box[i].id # 0
  BY <1>1, <1>2, <1>3 DEF QueueInv, QueueIsRest
<1>5. n \in Nat /\ f <= n /\ n <= lmid
  <2>1. n \in Nat /\ n >= f
    BY <1>1, <1>2, ConfirmedIs
  <2>2. n = f \/ \E change \in poke.lmids : change.client = c /\ change.lmid = n
    BY <1>1, <1>2, ConfirmedIs
  <2>3. n = f \/ n <= lmid
    BY <1>1, <2>2
  <2> QED BY <1>2, <1>4, <2>1, <2>3
<1>6. PICK done \in 0..Len(box) : n = f + done
  <2>1. n - f \in 0..Len(box) /\ n = f + (n - f)
    BY <1>2, <1>3, <1>4, <1>5
  <2> QED BY <2>1
<1>7. done \in Nat /\ Len(box) - done \in Nat
  BY <1>3
<1>8. QueueAt(c, poke) = box
  BY <1>1 DEF QueueAt
<1>9. PICK rest : rest = Unsettled(box, n)
  OBVIOUS
<1>10. rest = [i \in 1..(Len(box) - done) |-> box[done + i]]
  <2>1. InPlace(box, f) /\ \A i \in 1..done : box[i].id # 0
    BY <1>2, <1>3, <1>4, <1>5, <1>6 DEF InPlace
  <2>2. Unsettled(box, f + done) = [i \in 1..(Len(box) - done) |-> box[done + i]]
    BY <1>2, <2>1, UnsettledRun
  <2> QED BY <1>6, <1>9, <2>2
<1>11. rest \in Seq(Entry) /\ Ordered(rest, n)
  <2>1. Ordered(box, f)
    BY <1>1, <1>2 DEF OutboxInv, OutboxOrdered
  <2> QED BY <1>2, <1>5, <1>9, <2>1, UnsettledIs
<1>12. Len(rest) = Len(box) - done
  BY <1>7, <1>10
<1>13. \A i \in 1..Len(rest) : rest[i].name = made[n + i] /\ rest[i].id \in {0, n + i}
  <2> SUFFICES ASSUME NEW i \in 1..Len(rest)
               PROVE  rest[i].name = made[n + i] /\ rest[i].id \in {0, n + i}
    OBVIOUS
  <2>1. done + i \in 1..Len(box) /\ f + (done + i) = n + i
    BY <1>2, <1>3, <1>6, <1>7, <1>12
  <2>2. rest[i] = box[done + i]
    BY <1>10, <1>12
  <2> QED BY <1>4, <2>1, <2>2
<1>14. PICK after : after = QueueAfter(c, poke)
  OBVIOUS
<1>15. after = IF syncedThisConnection[c] THEN rest ELSE Assigned(rest, n)
  BY <1>1, <1>2, <1>8, <1>9, <1>14 DEF QueueAfter, LinksInStep
<1>16. after \in Seq(Entry) /\ Len(after) = Len(rest)
       /\ \A i \in 1..Len(after) : after[i].id = n + i /\ after[i].name = made[n + i]
  <2>1. CASE syncedThisConnection[c]
    <3>1. Numbered(box)
      BY <1>1, <1>2, <2>1 DEF OutboxInv
    <3>2. \A i \in 1..Len(rest) : rest[i].id # 0
      <4> SUFFICES ASSUME NEW i \in 1..Len(rest) PROVE rest[i].id # 0
        OBVIOUS
      <4>1. done + i \in 1..Len(box) /\ rest[i] = box[done + i]
        BY <1>3, <1>7, <1>10, <1>12
      <4> QED BY <1>3, <3>1, <4>1 DEF Numbered
    <3> QED BY <1>11, <1>13, <1>15, <2>1, <3>2
  <2>2. CASE ~syncedThisConnection[c]
    <3>1. InPlace(rest, n)
      BY <1>13 DEF InPlace
    <3>2. Placed(Assigned(rest, n), n)
      BY <1>5, <1>11, <3>1, AssignedRun
    <3>3. /\ Assigned(rest, n) \in Seq(Entry) /\ Len(Assigned(rest, n)) = Len(rest)
          /\ \A i \in 1..Len(rest) : Assigned(rest, n)[i].name = rest[i].name
      BY <1>5, <1>11, AssignedIs
    <3> QED BY <1>13, <1>15, <2>2, <3>2, <3>3 DEF Placed
  <2> QED BY <2>1, <2>2
<1>17. Len(after) = Len(made) - n
  BY <1>2, <1>3, <1>4, <1>5, <1>6, <1>12, <1>16
<1> QED BY <1>1, <1>2, <1>5, <1>8, <1>14, <1>16, <1>17

\* What the poke settles was pending, is in the log, and is rejected only if the log says so.
LEMMA PokeSettles ==
  ASSUME StepFrom, NEW c \in Clients, NEW poke \in Pokes, ~BackendChanged(c, poke),
         \A change \in poke.lmids : /\ change.lmid <= lastMutationId[change.client]
                                    /\ ResultsTrue(change.client, poke.results),
         NEW m \in Mutations, OutcomeAfter(c, poke, m) # outcome[m]
  PROVE  /\ outcome[m] = "pending"
         /\ \E i \in 1..Len(Logged(c)) :
              /\ i \in DOMAIN issued[c] /\ i <= ConfirmedBy(c, poke)
              /\ issued[c][i] = m /\ Logged(c)[i].name = m
              /\ \/ OutcomeAfter(c, poke, m) = "confirmed"
                 \/ OutcomeAfter(c, poke, m) = "rejected" /\ ~Logged(c)[i].ok
<1>1. PICK n, f, box, made, lmid :
        /\ n = ConfirmedBy(c, poke) /\ f = confirmedLmid[c] /\ box = outbox[c] /\ made = issued[c]
        /\ lmid = lastMutationId[c]
  OBVIOUS
<1>2. /\ SyncTypeOK /\ QueueInv /\ confirmedLmid \in [Clients -> Nat]
      /\ f \in Nat /\ box \in Seq(Entry) /\ lmid \in Nat /\ made \in Seq(Mutations)
  BY <1>1 DEF StepFrom, Sound, SyncTypeOK, TypeOK, StoreOK
<1>3. /\ Len(box) \in Nat /\ DOMAIN box = 1..Len(box)
      /\ Len(made) \in Nat /\ DOMAIN made = 1..Len(made)
      /\ \A i \in 1..Len(box) : box[i] \in Entry /\ box[i].id \in Nat
  BY <1>2, EntriesOf, SequenceOf
<1>4. /\ f <= lmid /\ lmid <= Len(made) /\ Len(box) = Len(made) - f
      /\ \A i \in 1..Len(box) : /\ box[i].name = made[f + i] /\ box[i].id \in {0, f + i}
                                /\ f + i <= lmid => box[i].id # 0
  BY <1>1, <1>2, <1>3 DEF QueueInv, QueueIsRest
<1>5. QueueAt(c, poke) = box /\ n \in Nat /\ n <= lmid
  BY <1>1, PokeLeaves
<1> DEFINE mine == {i \in DOMAIN box : box[i].name = m}
<1>6. OutcomeAfter(c, poke, m) =
        IF \E i \in mine : Settled(box[i], n)
        THEN IF \E i \in mine : [id |-> box[i].id, ok |-> FALSE] \in poke.results
             THEN "rejected" ELSE "confirmed"
        ELSE outcome[m]
  BY <1>1, <1>5 DEF OutcomeAfter
<1>7. PICK i \in mine : Settled(box[i], n)
  BY <1>6, Zenon
<1>8. /\ i \in 1..Len(box) /\ box[i].name = m /\ box[i].id = f + i /\ f + i <= n
      /\ f + i \in DOMAIN made /\ made[f + i] = m /\ f + i \in 1..lmid /\ f + i > f
  BY <1>2, <1>3, <1>4, <1>5, <1>7 DEF Settled
<1>9. \A j \in mine : j = i
  <2> SUFFICES ASSUME NEW j \in mine PROVE j = i
    OBVIOUS
  <2>1. made[f + j] = m /\ f + j \in DOMAIN made
    BY <1>2, <1>3, <1>4
  <2>2. f + j = f + i
    BY <1>1, <1>2, <1>8, <2>1 DEF QueueInv, IssuedOnce
  <2> QED BY <1>2, <1>3, <1>8, <2>2
<1>10. outcome[m] = "pending"
  BY <1>1, <1>2, <1>8 DEF QueueInv, IssuedOnce
<1>11. /\ Len(Logged(c)) = lmid /\ Logged(c)[f + i].name = made[f + i]
       /\ Logged(c) \in Seq(LogEntries)
  BY <1>1, <1>2, <1>8, LoggedIs DEF QueueInv, LogIsIssued
<1>12. CASE \E j \in mine : [id |-> box[j].id, ok |-> FALSE] \in poke.results
  <2>1. PICK result \in poke.results : result.id = f + i /\ ~result.ok
    BY <1>8, <1>9, <1>12
  <2>2. \E change \in poke.lmids : change.client = c
    <3>1. n # f
      BY <1>2, <1>5, <1>8
    <3> QED BY <1>1, <1>2, <3>1, ConfirmedIs
  <2>3. ResultsTrue(c, poke.results)
    BY <2>2
  <2>4. ~Logged(c)[f + i].ok
    BY <2>1, <2>3 DEF ResultsTrue
  <2>5. OutcomeAfter(c, poke, m) = "rejected"
    BY <1>6, <1>7, <1>12, Zenon
  <2> QED BY <1>1, <1>8, <1>10, <1>11, <2>4, <2>5
<1>13. CASE ~\E j \in mine : [id |-> box[j].id, ok |-> FALSE] \in poke.results
  <2>1. OutcomeAfter(c, poke, m) = "confirmed"
    BY <1>6, <1>7, <1>13, Zenon
  <2> QED BY <1>1, <1>8, <1>10, <1>11, <2>1
<1> QED BY <1>12, <1>13

LEMMA ApplyPokeStep ==
  ASSUME StepFrom, StepTo, backendId = 0, NEW c \in Clients, Read(c),
         Head(down[c]).type = "poke", ApplyPoke(c)
  PROVE  /\ Sound' /\ UNCHANGED <<issued, mutationLog>>
         /\ \A m \in Mutations : outcome'[m] # outcome[m] =>
              /\ outcome[m] = "pending"
              /\ \E i \in 1..Len(Logged(c)) :
                   /\ Logged(c)[i].name = m
                   /\ outcome'[m] = "confirmed" \/ (outcome'[m] = "rejected" /\ ~Logged(c)[i].ok)
<1>1. SyncTypeOK /\ SyncTypeOK' /\ FlightInv /\ PushInStep /\ LinksInStep /\ QueueInv /\ OutboxInv
      /\ OutboxInv' /\ ReplicaInv
  BY DEF StepFrom, StepTo, Sound
<1>2. PICK poke \in Pokes : poke = Head(down[c])
  BY <1>1, HeadPoke DEF ReplicaInv, Read
<1>3. ~BackendChanged(c, poke)
  BY <1>1, <1>2, SameHistory DEF Read
<1>4. poke \in Downward(c) /\ poke.type = "poke"
  BY <1>1, <1>2, HeadDown DEF Read
<1>5. \A change \in poke.lmids : /\ change.lmid <= lastMutationId[change.client]
                                 /\ ResultsTrue(change.client, poke.results)
  BY <1>4 DEF Downward
<1>6. PICK n, after : n = ConfirmedBy(c, poke) /\ after = QueueAfter(c, poke)
  OBVIOUS
<1>7. /\ n \in Nat /\ confirmedLmid[c] \in Nat /\ confirmedLmid[c] <= n /\ n <= lastMutationId[c]
      /\ after \in Seq(Entry) /\ Len(after) = Len(issued[c]) - n
      /\ \A i \in 1..Len(after) : after[i].id = n + i /\ after[i].name = issued[c][n + i]
  BY <1>3, <1>5, <1>6, PokeLeaves
<1>8. /\ UNCHANGED <<issued, lastMutationId, mutationLog, push, sess, clients>>
      /\ confirmedLmid' = [confirmedLmid EXCEPT ![c] = n]
      /\ outbox' = [outbox EXCEPT ![c] = after]
      /\ syncedThisConnection' = [syncedThisConnection EXCEPT ![c] = TRUE]
      /\ needsRebase' = [needsRebase EXCEPT ![c] = FALSE]
      /\ down' = [down EXCEPT ![c] = Tail(@)] /\ down[c] # <<>>
  BY <1>2, <1>6 DEF ApplyPoke, Read, store, sockets
<1>9. \A m \in Mutations : outcome'[m] = OutcomeAfter(c, poke, m)
  BY <1>2 DEF ApplyPoke
<1>10. /\ confirmedLmid \in [Clients -> Nat] /\ outbox \in [Clients -> Seq(Entry)]
       /\ syncedThisConnection \in [Clients -> BOOLEAN] /\ needsRebase \in [Clients -> BOOLEAN]
       /\ issued[c] \in Seq(Mutations) /\ down \in [Clients -> Seq(Pokes \cup Errors)]
       /\ lastMutationId \in [Clients -> Nat]
  BY <1>1 DEF SyncTypeOK, TypeOK, StoreOK
<1>11. /\ confirmedLmid'[c] = n /\ outbox'[c] = after
       /\ \A d \in Clients \ {c} : confirmedLmid'[d] = confirmedLmid[d] /\ outbox'[d] = outbox[d]
  BY <1>8, <1>10
<1>12. DOMAIN after = 1..Len(after) /\ Len(issued[c]) \in Nat /\ DOMAIN issued[c] = 1..Len(issued[c])
  BY <1>7, <1>10, SequenceOf
<1>13. \A d \in Clients : Logged(d)' = Logged(d)
  BY <1>8 DEF Logged
<1>14. CoreGrows
  <2>1. ASSUME NEW d \in Clients, NEW id \in DOMAIN issued[d], HasId(d, id)
        PROVE  HasId(d, id)'
    <3>1. CASE d = c
      BY <1>7, <1>11, <1>12, <3>1 DEF HasId
    <3>2. CASE d # c
      BY <1>11, <2>1, <3>2 DEF HasId
    <3> QED BY <3>1, <3>2
  <2> QED BY <1>8, <1>10, <1>13, <2>1 DEF CoreGrows
<1>15. IssuedOnce'
  <2>1. ASSUME NEW d \in Clients, NEW i \in DOMAIN issued[d]
        PROVE  /\ outcome'[issued[d][i]] # "new"
               /\ i > confirmedLmid'[d] => outcome'[issued[d][i]] = "pending"
    <3>1. issued[d][i] \in Mutations
      <4>1. issued[d] \in Seq(Mutations)
        BY <1>1 DEF SyncTypeOK
      <4> QED BY <4>1, SequenceOf
    <3>2. PICK m \in Mutations : m = issued[d][i]
      BY <3>1
    <3>3. CASE outcome'[m] = outcome[m]
      <4>1. i > confirmedLmid'[d] => i > confirmedLmid[d]
        <5>1. CASE d = c
          BY <1>7, <1>11, <1>12, <2>1, <5>1
        <5>2. CASE d # c
          BY <1>11, <5>2
        <5> QED BY <5>1, <5>2
      <4> QED BY <1>1, <3>2, <3>3, <4>1 DEF QueueInv, IssuedOnce
    <3>4. CASE outcome'[m] # outcome[m]
      <4>1. OutcomeAfter(c, poke, m) # outcome[m]
        BY <1>9, <3>4
      <4>2. PICK j \in DOMAIN issued[c] : j <= n /\ issued[c][j] = m
        BY <1>3, <1>5, <1>6, <4>1, PokeSettles
      <4>3. OutcomeAfter(c, poke, m) \in {"confirmed", "rejected"}
        BY <1>3, <1>5, <4>1, PokeSettles
      <4>4. d = c /\ i = j
        BY <1>1, <3>2, <4>2 DEF QueueInv, IssuedOnce
      <4>5. ~(i > confirmedLmid'[d])
        BY <1>7, <1>11, <1>12, <4>2, <4>4
      <4> QED BY <1>9, <3>2, <4>3, <4>5
    <3> QED BY <3>3, <3>4
  <2> QED BY <1>1, <1>8, <2>1 DEF QueueInv, IssuedOnce
<1>16. QueueIsRest'
  <2> SUFFICES ASSUME NEW d \in Clients
               PROVE  /\ confirmedLmid'[d] <= lastMutationId[d]
                      /\ lastMutationId[d] <= Len(issued[d])
                      /\ Len(outbox'[d]) = Len(issued[d]) - confirmedLmid'[d]
                      /\ \A i \in DOMAIN outbox'[d] :
                           LET place == confirmedLmid'[d] + i
                           IN  /\ outbox'[d][i].name = issued[d][place]
                               /\ outbox'[d][i].id \in {0, place}
                               /\ place <= lastMutationId[d] => outbox'[d][i].id # 0
    BY <1>8 DEF QueueIsRest
  <2>1. CASE d # c
    BY <1>1, <1>11, <2>1 DEF QueueInv, QueueIsRest
  <2>2. CASE d = c
    <3>1. lastMutationId[c] <= Len(issued[c])
      BY <1>1 DEF QueueInv, QueueIsRest
    <3>2. \A i \in 1..Len(after) : after[i].id # 0
      BY <1>7
    <3> QED BY <1>7, <1>11, <1>12, <2>2, <3>1, <3>2
  <2> QED BY <2>1, <2>2
<1>17. LogIsIssued'
  <2>1. \A d \in Clients : /\ Len(Logged(d)') = lastMutationId[d]
                           /\ \A i \in 1..lastMutationId[d] : /\ Logged(d)'[i].id = i
                                                              /\ Logged(d)'[i].name = issued[d][i]
    BY <1>1, <1>13 DEF QueueInv, LogIsIssued
  <2> QED BY <1>8, <2>1 DEF LogIsIssued
<1>18. QueueInv'
  BY <1>15, <1>16, <1>17 DEF QueueInv
<1>19. PushInStep'
  BY <1>1, <1>8, <1>14, QuietPush
<1>20. sess[c] # "open"
  BY <1>4 DEF Downward
<1>21. LinksInStep'
  BY <1>1, <1>8, <1>10, <1>20 DEF LinksInStep
<1>22. ASSUME NEW d \in Clients
       PROVE  up'[d] = up[d] \/ \E frame \in Upward(d)' : up'[d] = Append(up[d], frame)
  <2>1. PICK synced \in BOOLEAN : synced /\ up' = Flushed(c, after, n, synced)
    <3>1. up' = Flushed(c, QueueAfter(c, Head(down[c])), ConfirmedBy(c, Head(down[c])), TRUE)
      BY Zenon DEF ApplyPoke
    <3>2. up' = Flushed(c, after, n, TRUE)
      BY <1>2, <1>6, <3>1, Zenon
    <3> QED BY <3>2, Zenon
  <2>2. up' = Flushed(c, outbox'[c], confirmedLmid'[c], synced)
    BY <1>11, <2>1, Zenon
  <2>3. synced => syncedThisConnection'[c] /\ sess'[c] # "open"
    BY <1>8, <1>10, <1>20
  <2> QED BY <1>1, <1>18, <2>2, <2>3, PushUp
<1>23. ASSUME NEW d \in Clients PROVE up'[d] \in Seq(Upward(d)') /\ down'[d] \in Seq(Downward(d)')
  <2>1. down'[d] = down[d] \/ (down[d] # <<>> /\ down'[d] = Tail(down[d]))
    BY <1>8, <1>10
  <2> QED BY <1>1, <1>8, <1>14, <1>22, <2>1, FlightKeeps
<1>24. Sound'
  BY <1>18, <1>19, <1>21, <1>23 DEF Sound, FlightInv
<1>25. ASSUME NEW m \in Mutations, outcome'[m] # outcome[m]
       PROVE  /\ outcome[m] = "pending"
              /\ \E i \in 1..Len(Logged(c)) :
                   /\ Logged(c)[i].name = m
                   /\ outcome'[m] = "confirmed" \/ (outcome'[m] = "rejected" /\ ~Logged(c)[i].ok)
  BY <1>3, <1>5, <1>9, <1>25, PokeSettles
<1> QED BY <1>8, <1>24, <1>25

-----------------------------------------------------------------------------
(* Every step, and what the contract sees of it *)

LEMMA AppliedSame ==
  ASSUME \A c \in Clients : Logged(c)' = Logged(c)
  PROVE  [c \in Clients |-> Applied(c)]' = [c \in Clients |-> Applied(c)]
BY DEF Applied

LEMMA AppliedIs ==
  ASSUME SyncTypeOK, NEW c \in Clients
  PROVE  /\ Len(Applied(c)) = Len(Logged(c)) /\ DOMAIN Applied(c) = DOMAIN Logged(c)
         /\ DOMAIN Logged(c) = 1..Len(Logged(c)) /\ Len(Logged(c)) \in Nat
         /\ \A i \in 1..Len(Logged(c)) : /\ Applied(c)[i].name = Logged(c)[i].name
                                         /\ Applied(c)[i].ok = Logged(c)[i].ok
<1>1. DOMAIN Logged(c) = 1..Len(Logged(c)) /\ Len(Logged(c)) \in Nat
  BY LoggedIs, SequenceOf
<1>2. Applied(c) = [i \in 1..Len(Logged(c)) |-> [name |-> Logged(c)[i].name, ok |-> Logged(c)[i].ok]]
  BY <1>1 DEF Applied
<1>3. PICK n \in Nat : n = Len(Logged(c))
  BY <1>1
<1>4. Len(Applied(c)) = n
  BY <1>2, <1>3
<1> QED BY <1>1, <1>2, <1>3, <1>4

LEMMA AppliedAppend ==
  ASSUME SyncTypeOK, SyncTypeOK', NEW c \in Clients, NEW entry, Logged(c)' = Append(Logged(c), entry)
  PROVE  Applied(c)' = Append(Applied(c), [name |-> entry.name, ok |-> entry.ok])
<1>1. PICK s, n : s = Logged(c) /\ n = Len(s)
  OBVIOUS
<1>2. s \in Seq(LogEntries) /\ n \in Nat /\ DOMAIN s = 1..n
  BY <1>1, LoggedIs, SequenceOf
<1>3. /\ Logged(c)' = Append(s, entry) /\ DOMAIN Append(s, entry) = 1..(n + 1)
      /\ Append(s, entry)[n + 1] = entry
      /\ \A i \in 1..n : Append(s, entry)[i] = s[i]
  BY <1>1, <1>2
<1> DEFINE told(e) == [name |-> e.name, ok |-> e.ok]
<1>4. Applied(c)' = [i \in 1..(n + 1) |-> told(Append(s, entry)[i])]
  BY <1>3 DEF Applied
<1>5. Applied(c) = [i \in 1..n |-> told(s[i])]
  BY <1>1, <1>2 DEF Applied
<1> DEFINE old == [i \in 1..n |-> told(s[i])]
<1> HIDE DEF told
<1>6. [i \in 1..(n + 1) |-> told(Append(s, entry)[i])] = Append(old, told(entry))
  <2>1. Append(old, told(entry)) = [i \in 1..(n + 1) |-> IF i \in 1..n THEN old[i] ELSE told(entry)]
    <3>1. old \in Seq({told(s[i]) : i \in 1..n}) /\ Len(old) = n
      BY <1>2
    <3> QED BY <1>2, <3>1
  <2>2. \A i \in 1..(n + 1) : told(Append(s, entry)[i]) = IF i \in 1..n THEN old[i] ELSE told(entry)
    <3>1. \A i \in 1..(n + 1) : i \in 1..n \/ i = n + 1
      BY <1>2
    <3> QED BY <1>3, <3>1
  <2> QED BY <2>1, <2>2
<1> QED BY <1>4, <1>5, <1>6 DEF told

\* One step of the client or the server is one of the contract or none of its business.
LEMMA StepContract ==
  ASSUME StepFrom, StepTo, backendId = 0, Durable, MaxBackend = 0, SyncNext
  PROVE  Sound' /\ backendId' = 0 /\ [Contract!Next]_(Contract!vars)
<1>1. SyncTypeOK /\ SyncTypeOK'
  BY DEF StepFrom, StepTo
<1>2. ASSUME Sound', UNCHANGED <<issued, outcome, mutationLog, backendId>>
      PROVE  Sound' /\ backendId' = 0 /\ [Contract!Next]_(Contract!vars)
  <2>1. \A c \in Clients : Logged(c)' = Logged(c)
    BY <1>2 DEF Logged
  <2>2. [c \in Clients |-> Applied(c)]' = [c \in Clients |-> Applied(c)]
    BY <2>1, AppliedSame
  <2> QED BY <1>2, <2>2 DEF Contract!vars
<1>3. ASSUME NEW c \in Clients,
             Connect(c) \/ Disconnect(c) \/ SeeClose(c) \/ ServerClose(c)
      PROVE  Sound' /\ backendId' = 0 /\ [Contract!Next]_(Contract!vars)
  <2>1. Sound'
    BY <1>3, SocketSteps
  <2>2. UNCHANGED <<issued, outcome, mutationLog, backendId>>
    BY <1>3 DEF Connect, Disconnect, SeeClose, LoseSocket, ServerClose, CloseSocket, Upgrade, PeerGone,
       queueVars, clientVars, store, meta
  <2> QED BY <1>2, <2>1, <2>2
<1>4. ASSUME NEW c \in Clients,
             Resync(c) \/ RetryPush(c) \/ ReceiveError(c) \/ (ReceivePoke(c) /\ DropPoke(c))
      PROVE  Sound' /\ backendId' = 0 /\ [Contract!Next]_(Contract!vars)
  <2>1. Sound'
    BY <1>4, ClientSteps
  <2>2. UNCHANGED <<issued, outcome, mutationLog, backendId>>
    BY <1>4 DEF Resync, RetryPush, ReceiveError, ReceivePoke, DropPoke, Read, queueVars, store, meta,
       serverVars
  <2> QED BY <1>2, <2>1, <2>2
<1>5. ASSUME NEW c \in Clients, ServeHello(c) \/ FailHello(c) \/ ServePush(c)
      PROVE  Sound' /\ backendId' = 0 /\ [Contract!Next]_(Contract!vars)
  <2>1. Sound'
    BY <1>5, HelloSteps, ServePushStep
  <2>2. UNCHANGED <<issued, outcome, mutationLog, backendId>>
    BY <1>5 DEF ServeHello, FailHello, ServePush, HandleHello, StartPush, RefusePush, queueVars, clientVars,
       store, meta
  <2> QED BY <1>2, <2>1, <2>2
<1>6. ASSUME (PushStep /\ (SkipDuplicate \/ RejectGap \/ FinishPush)) \/ Throw
      PROVE  Sound' /\ backendId' = 0 /\ [Contract!Next]_(Contract!vars)
  <2>1. Sound'
    BY <1>6, PushSteps
  <2>2. UNCHANGED <<issued, outcome, mutationLog, backendId>>
    BY <1>6 DEF PushStep, Throw, SkipDuplicate, RejectGap, FinishPush, AbortPush, queueVars, clientVars,
       store, meta
  <2> QED BY <1>2, <2>1, <2>2
<1>7. CASE Maintain
  <2>1. Sound' /\ backendId' = backendId
    BY <1>7, MaintainSteps
  <2>2. ~Reset
    <3>1. backendId \in Nat
      BY <1>1 DEF SyncTypeOK, TypeOK, StoreOK
    <3>2. Reset => backendId < MaxBackend
      BY DEF Reset
    <3> QED BY <3>1, <3>2
  <2>3. UNCHANGED <<issued, outcome, mutationLog>>
    BY <1>7, <2>2 DEF Maintain, Compact, Hibernate, Import, ImportExtension, ReplaceRows, clientVars,
       queueVars, store
  <2> QED BY <1>2, <2>1, <2>3
<1>8. ASSUME PushStep /\ (Succeed \/ Fail)
      PROVE  Sound' /\ backendId' = 0 /\ [Contract!Next]_(Contract!vars)
  <2>1. PICK w, ok : ok \in BOOLEAN /\ ApplyMutation(w, ok)
    BY <1>8, Zenon DEF Succeed, Fail
  <2>2. UNCHANGED <<clientVars, up, backendId>>
    BY <1>8, <2>1 DEF PushStep, ApplyMutation
  <2>3. Sound' /\ UNCHANGED <<issued, outcome>>
    BY <2>1, <2>2, ApplyStep
  <2>a. PICK c \in Clients : \E entry :
          /\ entry.ok = ok /\ Len(Logged(c)) < Len(issued[c])
          /\ entry.name = issued[c][Len(Logged(c)) + 1]
          /\ Logged(c)' = Append(Logged(c), entry)
          /\ \A d \in Clients \ {c} : Logged(d)' = Logged(d)
    BY <2>1, <2>2, ApplyStep
  <2>4. PICK entry :
          /\ entry.ok = ok /\ Len(Logged(c)) < Len(issued[c])
          /\ entry.name = issued[c][Len(Logged(c)) + 1]
          /\ Logged(c)' = Append(Logged(c), entry)
          /\ \A d \in Clients \ {c} : Logged(d)' = Logged(d)
    BY <2>a
  <2>5. PICK told : told = [name |-> entry.name, ok |-> entry.ok]
    OBVIOUS
  <2>6. /\ Applied(c)' = Append(Applied(c), told)
        /\ \A d \in Clients \ {c} : Applied(d)' = Applied(d)
    BY <1>1, <2>4, <2>5, AppliedAppend DEF Applied
  <2>7. Len(Applied(c)) = Len(Logged(c))
    BY <1>1, AppliedIs
  <2> DEFINE applied == [d \in Clients |-> Applied(d)]
  <2>8. applied' = [applied EXCEPT ![c] = Append(@, told)]
    BY <2>6
  <2>9. applied[c] = Applied(c)
    OBVIOUS
  <2>10. told = [name |-> issued[c][Len(applied[c]) + 1], ok |-> ok]
    BY <2>4, <2>5, <2>7, <2>9
  <2>11. Len(applied[c]) < Len(issued[c])
    BY <2>4, <2>7, <2>9
  <2>12. Contract!Apply(c)
    BY <2>1, <2>3, <2>8, <2>10, <2>11 DEF Contract!Apply
  <2> QED BY <2>2, <2>3, <2>12 DEF Contract!Next
<1>9. ASSUME NEW c \in Clients, NEW m \in Mutations, Mutate(c, m)
      PROVE  Sound' /\ backendId' = 0 /\ [Contract!Next]_(Contract!vars)
  <2>1. /\ Sound' /\ mutationLog' = mutationLog /\ outcome[m] = "new"
        /\ issued' = [issued EXCEPT ![c] = Append(@, m)]
        /\ outcome' = [outcome EXCEPT ![m] = "pending"]
    BY <1>9, MutateStep
  <2>2. \A d \in Clients : Logged(d)' = Logged(d)
    BY <2>1 DEF Logged
  <2>3. [d \in Clients |-> Applied(d)]' = [d \in Clients |-> Applied(d)]
    BY <2>2, AppliedSame
  <2>4. Contract!Mutate(c, m)
    BY <2>1, <2>3 DEF Contract!Mutate
  <2>5. backendId' = backendId
    BY <1>9 DEF Mutate, serverVars
  <2> QED BY <2>1, <2>4, <2>5 DEF Contract!Next
<1>10. ASSUME NEW c \in Clients, ReceivePoke(c) /\ ApplyPoke(c)
       PROVE  Sound' /\ backendId' = 0 /\ [Contract!Next]_(Contract!vars)
  <2>1. Read(c) /\ Head(down[c]).type = "poke"
    BY <1>10 DEF ReceivePoke
  <2>2. /\ Sound' /\ UNCHANGED <<issued, mutationLog>>
        /\ \A m \in Mutations : outcome'[m] # outcome[m] =>
             /\ outcome[m] = "pending"
             /\ \E i \in 1..Len(Logged(c)) :
                  /\ Logged(c)[i].name = m
                  /\ outcome'[m] = "confirmed" \/ (outcome'[m] = "rejected" /\ ~Logged(c)[i].ok)
    BY <1>10, <2>1, ApplyPokeStep
  <2>3. backendId' = backendId
    BY <2>1 DEF Read, meta
  <2>4. \A d \in Clients : Logged(d)' = Logged(d)
    BY <2>2 DEF Logged
  <2>5. [d \in Clients |-> Applied(d)]' = [d \in Clients |-> Applied(d)]
    BY <2>4, AppliedSame
  <2>6. CASE outcome' = outcome
    BY <2>2, <2>3, <2>5, <2>6 DEF Contract!vars
  <2>7. CASE outcome' # outcome
    <3>1. /\ Len(Applied(c)) = Len(Logged(c))
          /\ \A i \in 1..Len(Logged(c)) : /\ Applied(c)[i].name = Logged(c)[i].name
                                          /\ Applied(c)[i].ok = Logged(c)[i].ok
      BY <1>1, AppliedIs
    <3>2. \A m \in Mutations : outcome'[m] # outcome[m] =>
            /\ outcome[m] = "pending"
            /\ \E i \in 1..Len(Applied(c)) :
                 /\ Applied(c)[i].name = m
                 /\ outcome'[m] = "confirmed" \/ (outcome'[m] = "rejected" /\ ~Applied(c)[i].ok)
      BY <2>2, <3>1
    <3>3. [d \in Clients |-> Applied(d)][c] = Applied(c)
      OBVIOUS
    <3>4. Contract!Settle(c)
      BY <2>2, <2>5, <2>7, <3>2, <3>3 DEF Contract!Settle
    <3> QED BY <2>2, <2>3, <3>4 DEF Contract!Next
  <2> QED BY <2>6, <2>7
<1>11. ASSUME NEW c \in Clients, \E i \in DOMAIN outbox[c] : Timeout(c, i) PROVE FALSE
  BY <1>11 DEF Timeout
<1>12. ASSUME NEW c \in Clients, ReceivePoke(c)
       PROVE  (ReceivePoke(c) /\ DropPoke(c)) \/ (ReceivePoke(c) /\ ApplyPoke(c))
  BY <1>12 DEF ReceivePoke
<1>13. ASSUME PushStep
       PROVE  \/ PushStep /\ (SkipDuplicate \/ RejectGap \/ FinishPush)
              \/ PushStep /\ (Succeed \/ Fail)
  BY <1>13 DEF PushStep
<1>14. ASSUME NEW c \in Clients, ClientNext(c)
       PROVE  Sound' /\ backendId' = 0 /\ [Contract!Next]_(Contract!vars)
  BY <1>3, <1>4, <1>9, <1>10, <1>11, <1>12, <1>14 DEF ClientNext
<1> QED BY <1>3, <1>5, <1>6, <1>7, <1>8, <1>13, <1>14 DEF SyncNext, ServerNext

-----------------------------------------------------------------------------
(* The theorems *)

HistoryKept == StepFrom /\ backendId = 0

LEMMA InitContract ==
  ASSUME SyncInit
  PROVE  Sound /\ backendId = 0 /\ Contract!Init
<1>1. /\ backendId = 0 /\ mutationLog = <<>> /\ push = Idle /\ sess = [c \in Clients |-> "none"]
      /\ lastMutationId = [c \in Clients |-> 0] /\ down = [c \in Clients |-> <<>>]
      /\ up = [c \in Clients |-> <<>>] /\ issued = [c \in Clients |-> <<>>]
      /\ outbox = [c \in Clients |-> <<>>] /\ confirmedLmid = [c \in Clients |-> 0]
      /\ needsRebase = [c \in Clients |-> FALSE] /\ outcome = [m \in Mutations |-> "new"]
  BY DEF SyncInit, Init
<1>2. \A c \in Clients : Logged(c) = <<>> /\ Applied(c) = <<>>
  <2> TAKE c \in Clients
  <2>1. {p \in DOMAIN mutationLog : mutationLog[p].client = c} = {}
    BY <1>1
  <2>2. Logged(c) = [i \in 1..0 |-> mutationLog[Position({}, i)]]
    BY <2>1, FS_EmptySet DEF Logged, Filtered
  <2>3. Logged(c) = <<>>
    BY <2>2
  <2> QED BY <2>3 DEF Applied
<1>3. QueueInv
  <2>1. IssuedOnce
    BY <1>1 DEF IssuedOnce
  <2>2. QueueIsRest
    BY <1>1 DEF QueueIsRest
  <2>3. LogIsIssued
    BY <1>1, <1>2 DEF LogIsIssued
  <2> QED BY <2>1, <2>2, <2>3 DEF QueueInv
<1>4. FlightInv /\ PushInStep /\ LinksInStep
  BY <1>1 DEF FlightInv, PushInStep, LinksInStep
<1>5. Contract!Init
  BY <1>1, <1>2 DEF Contract!Init
<1> QED BY <1>1, <1>3, <1>4, <1>5 DEF Sound

LEMMA StepHistoryKept ==
  ASSUME Durable, MaxBackend = 0, HistoryKept, StepTo, ReplicaInv', [SyncNext]_vars
  PROVE  HistoryKept' /\ [Contract!Next]_(Contract!vars)
<1>1. CASE SyncNext
  BY <1>1, StepContract DEF HistoryKept, StepFrom, StepTo
<1>2. CASE UNCHANGED vars
  <2>1. SyncTypeOK /\ SyncTypeOK' /\ Sound
    BY DEF HistoryKept, StepFrom, StepTo
  <2>2. UNCHANGED <<issued, outcome, confirmedLmid, outbox, lastMutationId, mutationLog, push, sess, down,
                    up, clients, needsRebase, syncedThisConnection, backendId>>
    BY <1>2 DEF vars, serverVars, clientVars, queueVars, linkVars
  <2>3. CoreGrows /\ QueueInv' /\ \A c \in Clients : Logged(c)' = Logged(c)
    BY <2>1, <2>2, CoreSame DEF Sound
  <2>4. PushInStep'
    BY <2>1, <2>2, <2>3, QuietPush DEF Sound
  <2>5. LinksInStep'
    BY <2>1, <2>2 DEF Sound, LinksInStep
  <2>6. ASSUME NEW d \in Clients PROVE up'[d] \in Seq(Upward(d)') /\ down'[d] \in Seq(Downward(d)')
    BY <2>1, <2>2, <2>3, FlightKeeps DEF Sound
  <2>7. Sound'
    BY <2>3, <2>4, <2>5, <2>6 DEF Sound, FlightInv
  <2>8. UNCHANGED Contract!vars
    BY <2>2, <2>3, AppliedSame DEF Contract!vars
  <2> QED BY <2>2, <2>7, <2>8 DEF HistoryKept, StepFrom, StepTo
<1> QED BY <1>1, <1>2

LEMMA HistoryGoesOn ==
  ASSUME Durable, MaxBackend = 0
  PROVE  SyncSpec => []HistoryKept /\ [][Contract!Next]_(Contract!vars)
<1>1. SyncInit => Sound /\ backendId = 0
  BY InitContract
<1>2. SyncTypeOK /\ ReplicaInv /\ OutboxInv /\ Sound /\ backendId = 0 => HistoryKept
  BY DEF HistoryKept, StepFrom
<1>3. HistoryKept /\ SyncTypeOK' /\ OutboxInv' /\ ReplicaInv' /\ [SyncNext]_vars
        => HistoryKept' /\ [Contract!Next]_(Contract!vars)
  BY StepHistoryKept DEF StepTo
<1>4. SyncSpec => []OutboxInv
  BY QueuesStayOrdered
<1> QED BY <1>1, <1>2, <1>3, <1>4, SyncTypeCorrect, ReplicaCorrect, PTL DEF SyncSpec

\* A client that loses no entry never sends the server a gap, and is never told it did.
THEOREM PushesLeaveNoGap ==
  ASSUME Durable, MaxBackend = 0
  PROVE  SyncSpec => []NoGap
<1>1. HistoryKept => NoGap
  <2> SUFFICES ASSUME HistoryKept PROVE NoGap
    OBVIOUS
  <2>1. ContractInv
    BY ContractIs DEF HistoryKept, StepFrom, Sound
  <2> QED BY <2>1 DEF ContractInv, PushesInStep, SocketsInStep, IsRun, RunOf, NoGap
<1>2. SyncSpec => []HistoryKept
  BY HistoryGoesOn
<1> QED BY <1>1, <1>2, PTL

\* What mutate promises is kept: exactly once, in order, settled only when applied, rejected
\* only if it was refused, whatever happens to the connection.
THEOREM ContractIsKept ==
  ASSUME Durable, MaxBackend = 0
  PROVE  SyncSpec => KeepsContract
<1>1. SyncInit => Contract!Init
  BY InitContract
<1>2. SyncSpec => [][Contract!Next]_(Contract!vars)
  BY HistoryGoesOn
<1> QED BY <1>1, <1>2, PTL DEF SyncSpec, KeepsContract, Contract!Spec
=============================================================================
