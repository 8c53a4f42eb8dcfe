----------------------------- MODULE SessionProofs -----------------------------
(***************************************************************************)
(* Proofs about Sessions, for any clients, sockets and bounds: the types,  *)
(* that the workspace leaves a client one socket, and that a presence      *)
(* entry belongs to it.  The argument about entries is about hellos: the   *)
(* only step that takes a socket out of service without dropping its entry *)
(* is a hello that finds the link down, and a socket says hello once,      *)
(* before it can have an entry.                                            *)
(***************************************************************************)
EXTENDS Sessions, FiniteSetTheorems, TLAPS

Entry == [socket : Sockets, state : States] \cup {None}

-----------------------------------------------------------------------------
(* Helpers *)

LEMMA SetToSeqElements ==
  ASSUME NEW C, IsFiniteSet(C)
  PROVE  Cardinality(C) \in Nat /\ SetToSeq(C) \in [1..Cardinality(C) -> C]
<1>1. Cardinality(C) \in Nat /\ ExistsBijection(1..Cardinality(C), C)
  BY FS_CardinalityType
<1>2. \E f \in [1..Cardinality(C) -> C] : IsInjective(f)
  BY <1>1 DEF ExistsBijection, Bijection, Injection
<1> QED BY <1>1, <1>2 DEF SetToSeq

LEMMA GoneTyped ==
  ASSUME NEW C \in SUBSET Clients
  PROVE  Gone(C) \in Seq(DownFrames)
<1>1. IsFiniteSet(C)
  BY FS_Subset, SessionAssumption
<1>2. Cardinality(C) \in Nat /\ SetToSeq(C) \in [1..Cardinality(C) -> C]
  BY <1>1, SetToSeqElements
<1>3. \A i \in 1..Cardinality(C) :
        [kind |-> "presence", who |-> SetToSeq(C)[i], state |-> None] \in DownFrames
  BY <1>2 DEF DownFrames
<1> QED BY <1>2, <1>3 DEF Gone

LEMMA ConcatTyped ==
  ASSUME NEW S, NEW s \in Seq(S), NEW t \in Seq(S)
  PROVE  s \o t \in Seq(S)
  OBVIOUS

LEMMA ExceptTyped ==
  ASSUME NEW D, NEW T, NEW f \in [D -> T], NEW d, NEW e \in T
  PROVE  [f EXCEPT ![d] = e] \in [D -> T]
  OBVIOUS

LEMMA AppendTyped ==
  ASSUME NEW S, NEW s \in Seq(S), NEW e \in S
  PROVE  Append(s, e) \in Seq(S)
  OBVIOUS

-----------------------------------------------------------------------------
(* Closing sockets *)

\* What FanOut leaves: the sockets out are defunct, and their entries gone.
FannedOut(k, e, X) ==
  \E out \in SUBSET Sockets :
    /\ X \subseteq out
    /\ sock' = [s \in Sockets |-> [k[s] EXCEPT !.defunct = @ \/ s \in out]]
    /\ entry' = [c \in Clients |-> IF e[c] # None /\ e[c].socket \in out THEN None ELSE e[c]]

LEMMA FanOutLeaves ==
  ASSUME NEW k, NEW e, NEW X \in SUBSET Sockets, NEW code, NEW frames, NEW reached,
         FanOut(k, e, X, code, frames, reached)
  PROVE  FannedOut(k, e, X)
<1>1. PICK Y \in SUBSET (Ready \ X) :
        LET out == X \cup Y
            dropped == Entries(e, out)
        IN /\ sock' = [s \in Sockets |-> [k[s] EXCEPT !.defunct = @ \/ s \in out]]
           /\ entry' = [c \in Clients |-> IF c \in dropped THEN None ELSE e[c]]
  BY DEF FanOut
<1>2. X \cup Y \in SUBSET Sockets
  BY DEF Ready, Attached
<1>3. entry' = [c \in Clients |-> IF e[c] # None /\ e[c].socket \in X \cup Y THEN None ELSE e[c]]
  BY <1>1 DEF Entries
<1> QED BY <1>1, <1>2, <1>3 DEF FannedOut

LEMMA FanOutFrames ==
  ASSUME SessionTypeOK,
         NEW k, NEW e, NEW X \in SUBSET Sockets, NEW code, X = {} \/ code \in Codes,
         NEW frames \in Seq(DownFrames), NEW reached,
         FanOut(k, e, X, code, frames, reached)
  PROVE  down' \in [Sockets -> Seq(DownFrames)]
<1>1. PICK Y \in SUBSET (Ready \ X) :
        LET out == X \cup Y
            dropped == Entries(e, out)
            told == (IF dropped = {} THEN reached ELSE Ready) \ X
        IN down' = [s \in Sockets |->
             IF s \in out
             THEN IF sock[s].defunct \/ sock[s].broken THEN down[s]
                  ELSE Append(down[s], Close(IF s \in X THEN code ELSE "refresh"))
             ELSE IF Listening(s)
             THEN down[s] \o (IF s \in reached THEN frames ELSE <<>>)
                          \o (IF s \in told THEN Gone(dropped) ELSE <<>>)
             ELSE down[s]]
  BY DEF FanOut
<1> DEFINE dropped == Entries(e, X \cup Y)
           told == (IF dropped = {} THEN reached ELSE Ready) \ X
<1>2. Gone(dropped) \in Seq(DownFrames)
  BY GoneTyped DEF Entries
<1>3. <<>> \in Seq(DownFrames)
  OBVIOUS
<1> HIDE DEF dropped, told
<1>4. ASSUME NEW s \in Sockets
      PROVE  /\ down[s] \in Seq(DownFrames)
             /\ s \in X \cup Y =>
                  Append(down[s], Close(IF s \in X THEN code ELSE "refresh")) \in Seq(DownFrames)
             /\ down[s] \o (IF s \in reached THEN frames ELSE <<>>)
                        \o (IF s \in told THEN Gone(dropped) ELSE <<>>) \in Seq(DownFrames)
  <2>1. down[s] \in Seq(DownFrames)
    BY DEF SessionTypeOK
  <2>2. s \in X \cup Y => Close(IF s \in X THEN code ELSE "refresh") \in DownFrames
    BY DEF Close, Closes, Codes, DownFrames
  <2>3. down[s] \o (IF s \in reached THEN frames ELSE <<>>) \in Seq(DownFrames)
    BY <1>3, <2>1, ConcatTyped
  <2> QED BY <1>2, <1>3, <2>1, <2>2, <2>3, ConcatTyped, AppendTyped
<1> QED BY <1>1, <1>4 DEF dropped, told

\* The types of the sockets and the entries.
LEMMA FannedOutTypes ==
  ASSUME NEW k \in [Sockets -> SocketRecords], NEW e \in [Clients -> Entry], NEW X,
         FannedOut(k, e, X)
  PROVE  sock' \in [Sockets -> SocketRecords] /\ entry' \in [Clients -> Entry]
<1>1. PICK out \in SUBSET Sockets :
        /\ sock' = [s \in Sockets |-> [k[s] EXCEPT !.defunct = @ \/ s \in out]]
        /\ entry' = [c \in Clients |-> IF e[c] # None /\ e[c].socket \in out THEN None ELSE e[c]]
  BY DEF FannedOut
<1>2. ASSUME NEW s \in Sockets
      PROVE  [k[s] EXCEPT !.defunct = k[s].defunct \/ s \in out] \in SocketRecords
  <2>1. (k[s].defunct \/ s \in out) \in BOOLEAN
    OBVIOUS
  <2> QED BY <2>1 DEF SocketRecords
<1>3. sock' \in [Sockets -> SocketRecords]
  BY <1>1, <1>2
<1>4. entry' \in [Clients -> Entry]
  BY <1>1 DEF Entry
<1> QED BY <1>3, <1>4

\* Field by field.
FieldsLeft(out, k, e) ==
  /\ \A s \in Sockets : /\ sock'[s].owner = k[s].owner /\ sock'[s].conn = k[s].conn
                        /\ sock'[s].ready = k[s].ready
                        /\ sock'[s].defunct = (k[s].defunct \/ s \in out)
  /\ \A c \in Clients : entry'[c] # None =>
       entry'[c] = e[c] /\ e[c] # None /\ e[c].socket \notin out

LEMMA FannedOutFields ==
  ASSUME NEW k \in [Sockets -> SocketRecords], NEW e, NEW X,
         FannedOut(k, e, X)
  PROVE  \E out \in SUBSET Sockets : X \subseteq out /\ FieldsLeft(out, k, e)
<1>1. PICK out \in SUBSET Sockets :
        /\ X \subseteq out
        /\ sock' = [s \in Sockets |-> [k[s] EXCEPT !.defunct = @ \/ s \in out]]
        /\ entry' = [c \in Clients |-> IF e[c] # None /\ e[c].socket \in out THEN None ELSE e[c]]
  BY DEF FannedOut
<1>2. ASSUME NEW s \in Sockets
      PROVE  /\ sock'[s].owner = k[s].owner /\ sock'[s].conn = k[s].conn
             /\ sock'[s].ready = k[s].ready
             /\ sock'[s].defunct = (k[s].defunct \/ s \in out)
  <2>1. sock'[s] = [k[s] EXCEPT !.defunct = k[s].defunct \/ s \in out]
    BY <1>1
  <2> QED BY <2>1 DEF SocketRecords
<1>3. ASSUME NEW c \in Clients, entry'[c] # None
      PROVE  entry'[c] = e[c] /\ e[c] # None /\ e[c].socket \notin out
  BY <1>1, <1>3
<1> QED BY <1>1, <1>2, <1>3 DEF FieldsLeft

\* Sockets of k that are attached, as the handler has them.
AttachedIn(k) == {s \in Sockets : k[s].conn \in {"accepted", "open"}}

\* Closing keeps both invariants, if they hold of what the handler has so far
\* but for the sockets it closes.
LEMMA FannedOutKeeps ==
  ASSUME NEW k \in [Sockets -> SocketRecords], NEW e, NEW X, FannedOut(k, e, X),
         \A s, t \in AttachedIn(k) \ X :
           s # t /\ k[s].owner = k[t].owner => k[s].defunct \/ k[t].defunct,
         \A c \in Clients : e[c] # None =>
           \/ e[c].socket \in X
           \/ /\ e[c].socket \in AttachedIn(k) /\ k[e[c].socket].ready
              /\ ~k[e[c].socket].defunct /\ k[e[c].socket].owner = c
  PROVE  NewerWins' /\ EntryOwned'
<1>1. PICK out \in SUBSET Sockets : X \subseteq out /\ FieldsLeft(out, k, e)
  BY FannedOutFields
<1>2. Attached' = AttachedIn(k) /\ AttachedIn(k) \subseteq Sockets
  BY <1>1 DEF Attached, AttachedIn, FieldsLeft
<1>3. NewerWins'
  <2> SUFFICES ASSUME NEW s \in AttachedIn(k), NEW t \in AttachedIn(k), s # t,
                      Owner(s)' = Owner(t)'
               PROVE  sock'[s].defunct \/ sock'[t].defunct
    BY <1>2 DEF NewerWins
  <2>1. k[s].owner = k[t].owner
    BY <1>1, <1>2 DEF Owner, FieldsLeft
  <2>2. /\ sock'[s].defunct = (k[s].defunct \/ s \in out)
        /\ sock'[t].defunct = (k[t].defunct \/ t \in out)
    BY <1>1, <1>2 DEF FieldsLeft
  <2>3. CASE s \in X \/ t \in X
    BY <1>1, <2>2, <2>3
  <2>4. CASE s \notin X /\ t \notin X
    <3>1. k[s].defunct \/ k[t].defunct
      BY <2>1, <2>4
    <3> QED BY <2>2, <3>1
  <2> QED BY <2>3, <2>4
<1>4. ASSUME NEW c \in Clients, entry'[c] # None
      PROVE  entry'[c].socket \in Ready' /\ sock'[entry'[c].socket].owner = c
  <2> DEFINE x == e[c].socket
  <2>1. entry'[c] = e[c] /\ e[c] # None /\ x \notin out
    BY <1>1, <1>4 DEF FieldsLeft
  <2>2. x \in AttachedIn(k) /\ k[x].ready /\ ~k[x].defunct /\ k[x].owner = c
    BY <1>1, <2>1
  <2> HIDE DEF x
  <2>3. /\ sock'[x].owner = c /\ sock'[x].ready = k[x].ready
        /\ sock'[x].defunct = (k[x].defunct \/ x \in out)
    BY <1>1, <1>2, <2>2 DEF FieldsLeft
  <2>4. x \in Ready' /\ sock'[x].owner = c
    BY <1>2, <2>1, <2>2, <2>3 DEF Ready
  <2> QED BY <2>1, <2>4 DEF x
<1> QED BY <1>3, <1>4 DEF EntryOwned, Owner

\* The handlers that leave the sockets as they are but for what they close.
LEMMA SameFannedOut ==
  ASSUME SessionInv, NEW X, FannedOut(sock, entry, X)
  PROVE  NewerWins' /\ EntryOwned'
<1>1. sock \in [Sockets -> SocketRecords] /\ AttachedIn(sock) = Attached
  BY DEF SessionInv, SessionTypeOK, AttachedIn, Attached
<1> QED BY <1>1, FannedOutKeeps DEF SessionInv, NewerWins, EntryOwned, Ready, Owner

\* Steps that close nothing.
LEMMA SocketsStay ==
  ASSUME NewerWins, EntryOwned, UNCHANGED entry, Attached' = Attached,
         \A s \in Attached : /\ sock'[s].owner = sock[s].owner
                             /\ sock'[s].ready = sock[s].ready
                             /\ sock'[s].defunct = sock[s].defunct
  PROVE  NewerWins' /\ EntryOwned'
<1>1. NewerWins'
  BY DEF NewerWins, Owner
<1>2. Ready' = Ready
  BY DEF Ready
<1>3. EntryOwned'
  BY <1>2 DEF EntryOwned, Owner, Ready
<1> QED BY <1>1, <1>3

-----------------------------------------------------------------------------
(* Frames towards the workspace *)

Early == {"free", "dialing", "accepted"}

\* Nothing but hellos matters of what is sent.
Grown(s) == \/ up'[s] = up[s]
            \/ \E m \in UpFrames : m.kind # "hello" /\ up'[s] = Append(up[s], m)

LEMMA QuietLink ==
  ASSUME SessionTypeOK, NEW s \in Sockets, Grown(s)
  PROVE  /\ up'[s] \in Seq(UpFrames)
         /\ \A i \in DOMAIN up'[s] : IsHello(s, i)' => i \in DOMAIN up[s] /\ IsHello(s, i)
<1>1. up[s] \in Seq(UpFrames)
  BY DEF SessionTypeOK
<1>2. CASE up'[s] = up[s]
  BY <1>1, <1>2 DEF IsHello
<1>3. CASE \E m \in UpFrames : m.kind # "hello" /\ up'[s] = Append(up[s], m)
  <2>1. PICK m \in UpFrames : m.kind # "hello" /\ up'[s] = Append(up[s], m)
    BY <1>3
  <2>2. up'[s] \in Seq(UpFrames) /\ Len(up'[s]) = Len(up[s]) + 1 /\ Len(up[s]) \in Nat
    BY <1>1, <2>1
  <2>3. \A i \in 1..Len(up[s]) : up'[s][i] = up[s][i]
    BY <1>1, <2>1
  <2>4. up'[s][Len(up[s]) + 1] = m
    BY <1>1, <2>1
  <2>5. DOMAIN up'[s] = 1..(Len(up[s]) + 1) /\ DOMAIN up[s] = 1..Len(up[s])
    BY <1>1, <2>2
  <2> QED BY <2>1, <2>2, <2>3, <2>4, <2>5 DEF IsHello
<1> QED BY <1>2, <1>3 DEF Grown

LEMMA QuietStep ==
  ASSUME SessionTypeOK, HelloOnce, \A s \in Sockets : Grown(s), up' = [s \in Sockets |-> up'[s]],
         \A s \in Sockets : /\ sock'[s].ready = sock[s].ready
                            /\ sock'[s].conn \in Early => sock[s].conn \in Early
  PROVE  HelloOnce' /\ up' \in [Sockets -> Seq(UpFrames)]
<1>1. up' \in [Sockets -> Seq(UpFrames)]
  BY QuietLink
<1>2. ASSUME NEW s \in Sockets
      PROVE  /\ sock'[s].conn \in Early =>
                  ~sock'[s].ready /\ \A i \in DOMAIN up'[s] : ~IsHello(s, i)'
             /\ \A i \in DOMAIN up'[s] : IsHello(s, i)' =>
                  ~sock'[s].ready /\ \A j \in DOMAIN up'[s] : IsHello(s, j)' => j = i
  BY QuietLink DEF HelloOnce, Early
<1> QED BY <1>1, <1>2 DEF HelloOnce, Early

\* A frame taken off a link.
LEMMA TakenLink ==
  ASSUME SessionTypeOK, HelloOnce, NEW s \in Sockets, up[s] # <<>>,
         up' = [up EXCEPT ![s] = Tail(@)]
  PROVE  /\ up' \in [Sockets -> Seq(UpFrames)]
         /\ \A u \in Sockets \ {s} : up'[u] = up[u]
         /\ \A i \in DOMAIN up'[s] : IsHello(s, i)' => i + 1 \in DOMAIN up[s] /\ IsHello(s, i + 1)
         /\ Head(up[s]).kind = "hello" =>
              ~sock[s].ready /\ sock[s].conn \notin Early /\ \A i \in DOMAIN up'[s] : ~IsHello(s, i)'
<1>1. up \in [Sockets -> Seq(UpFrames)] /\ up[s] \in Seq(UpFrames)
  BY DEF SessionTypeOK
<1>2. Len(up[s]) \in Nat \ {0} /\ Head(up[s]) = up[s][1]
  BY <1>1
<1>3. up'[s] = Tail(up[s]) /\ \A u \in Sockets \ {s} : up'[u] = up[u]
  BY <1>1
<1>4. Tail(up[s]) \in Seq(UpFrames) /\ Len(Tail(up[s])) = Len(up[s]) - 1
  BY <1>1
<1>5. \A i \in 1..(Len(up[s]) - 1) : Tail(up[s])[i] = up[s][i + 1]
  BY <1>1
<1>6. DOMAIN up'[s] = 1..(Len(up[s]) - 1) /\ DOMAIN up[s] = 1..Len(up[s])
  BY <1>1, <1>3, <1>4
<1>7. \A i \in DOMAIN up'[s] : i + 1 \in DOMAIN up[s] /\ i + 1 # 1 /\ up'[s][i] = up[s][i + 1]
  BY <1>2, <1>3, <1>5, <1>6
<1>8. \A i \in DOMAIN up'[s] : IsHello(s, i)' => i + 1 \in DOMAIN up[s] /\ IsHello(s, i + 1)
  BY <1>7 DEF IsHello
<1>9. ASSUME Head(up[s]).kind = "hello"
      PROVE  ~sock[s].ready /\ sock[s].conn \notin Early /\ \A i \in DOMAIN up'[s] : ~IsHello(s, i)'
  <2>1. 1 \in DOMAIN up[s] /\ IsHello(s, 1)
    BY <1>2, <1>6, <1>9 DEF IsHello
  <2>2. \A j \in DOMAIN up[s] : IsHello(s, j) => j = 1
    BY <2>1 DEF HelloOnce
  <2> QED BY <1>7, <1>8, <2>1, <2>2 DEF HelloOnce, Early
<1>10. up' \in [Sockets -> Seq(UpFrames)]
  BY <1>1, <1>4
<1> QED BY <1>3, <1>8, <1>9, <1>10

-----------------------------------------------------------------------------
(* The workspace *)

LEMMA InitSession == Init => SessionInv
<1> SUFFICES ASSUME Init PROVE SessionInv
  OBVIOUS
<1>1. sock \in [Sockets -> SocketRecords] /\ entry \in [Clients -> Entry]
  BY DEF Init, SocketRecords, Entry
<1>2. tab \in [Clients -> Tab]
  BY DEF Init, Tab
<1>3. up \in [Sockets -> Seq(UpFrames)] /\ down \in [Sockets -> Seq(DownFrames)]
  BY DEF Init
<1>4. SessionTypeOK
  <2>1. 0 \in 0..MaxSets /\ 0 \in 0..MaxWakes /\ 0 \in 0..MaxTrouble
    BY SessionAssumption
  <2>2. sets = 0 /\ wakes = 0 /\ trouble = 0 /\ lost = {}
    BY DEF Init
  <2> QED BY <1>1, <1>2, <1>3, <2>1, <2>2 DEF SessionTypeOK, Entry
<1>5. HelloOnce
  BY DEF Init, HelloOnce
<1>6. NewerWins /\ EntryOwned
  BY DEF Init, NewerWins, EntryOwned, Attached
<1> QED BY <1>4, <1>5, <1>6 DEF SessionInv

LEMMA UpgradeSafe ==
  ASSUME SessionInv, NEW s \in Sockets, Upgrade(s)
  PROVE  SessionInv'
<1> DEFINE k == [sock EXCEPT ![s].conn = "accepted"]
           X == Superseded(s)
<1>1. /\ sock \in [Sockets -> SocketRecords] /\ entry \in [Clients -> Entry]
      /\ SessionTypeOK /\ HelloOnce
  BY DEF SessionInv, SessionTypeOK, Entry
<1>2. X \in SUBSET Sockets
  BY DEF Superseded, Attached
<1>3. FanOut(k, entry, X, "superseded", <<>>, {}) /\ UNCHANGED <<tab, up, counts, lost>>
  BY DEF Upgrade
<1>4. k \in [Sockets -> SocketRecords]
  <2>1. [sock[s] EXCEPT !.conn = "accepted"] \in SocketRecords
    <3>1. sock[s] \in SocketRecords /\ sock[s].conn # "free"
      BY <1>1 DEF Upgrade
    <3> QED BY <3>1 DEF SocketRecords
  <2> QED BY <1>1, <2>1
<1>5. \A u \in Sockets : /\ k[u].owner = sock[u].owner /\ k[u].ready = sock[u].ready
                         /\ k[u].defunct = sock[u].defunct
                         /\ k[u].conn = IF u = s THEN "accepted" ELSE sock[u].conn
  BY <1>1 DEF SocketRecords
<1>6. sock[s].conn = "dialing" /\ s \notin Attached
  BY DEF Upgrade, Attached
<1>7. X = {t \in Attached : sock[t].owner = sock[s].owner}
  BY DEF Superseded, Owner
<1> HIDE DEF k, X
<1>8. AttachedIn(k) = Attached \cup {s}
  BY <1>5 DEF Attached, AttachedIn
<1>9. ASSUME NEW u \in AttachedIn(k) \ X, NEW v \in AttachedIn(k) \ X, u # v,
             k[u].owner = k[v].owner
      PROVE  k[u].defunct \/ k[v].defunct
  <2>1. u \in Attached /\ v \in Attached
    BY <1>5, <1>7, <1>8, <1>9 DEF Attached
  <2> QED BY <1>5, <1>9, <2>1 DEF SessionInv, NewerWins, Owner, Attached
<1>10. ASSUME NEW c \in Clients, entry[c] # None
       PROVE  /\ entry[c].socket \in AttachedIn(k) /\ k[entry[c].socket].ready
              /\ ~k[entry[c].socket].defunct /\ k[entry[c].socket].owner = c
  BY <1>5, <1>8, <1>10 DEF SessionInv, EntryOwned, Ready, Owner, Attached
<1>11. FannedOut(k, entry, X)
  BY <1>2, <1>3, FanOutLeaves
<1>12. NewerWins' /\ EntryOwned'
  BY <1>4, <1>9, <1>10, <1>11, FannedOutKeeps
<1>13. sock' \in [Sockets -> SocketRecords] /\ entry' \in [Clients -> Entry]
  BY <1>1, <1>4, <1>11, FannedOutTypes
<1>14. down' \in [Sockets -> Seq(DownFrames)]
  <2>1. "superseded" \in Codes /\ <<>> \in Seq(DownFrames)
    BY DEF Codes
  <2> QED BY <1>1, <1>2, <1>3, <2>1, FanOutFrames
<1>15. HelloOnce'
  <2>1. \A u \in Sockets : sock'[u].ready = k[u].ready /\ sock'[u].conn = k[u].conn
    BY <1>4, <1>11, FannedOutFields DEF FieldsLeft
  <2>2. \A u \in Sockets : /\ sock'[u].ready = sock[u].ready
                           /\ sock'[u].conn \in Early => sock[u].conn \in Early
    BY <1>5, <1>6, <2>1 DEF Early
  <2>3. \A u \in Sockets : Grown(u)
    BY <1>3 DEF Grown
  <2>4. up' = [u \in Sockets |-> up'[u]]
    BY <1>1, <1>3 DEF SessionTypeOK
  <2> QED BY <1>1, <2>2, <2>3, <2>4, QuietStep
<1> QED BY <1>1, <1>3, <1>12, <1>13, <1>14, <1>15 DEF SessionInv, SessionTypeOK, Entry, counts

\* The handlers that close sockets and change nothing else about them.
LEMMA FanOutSafe ==
  ASSUME SessionInv, NEW e \in [Clients -> Entry], NEW X \in SUBSET Sockets,
         NEW code, X = {} \/ code \in Codes, NEW frames \in Seq(DownFrames), NEW reached,
         \A c \in Clients : e[c] # None => e[c].socket \in Ready /\ Owner(e[c].socket) = c,
         FanOut(sock, e, X, code, frames, reached)
  PROVE  /\ sock' \in [Sockets -> SocketRecords] /\ entry' \in [Clients -> Entry]
         /\ down' \in [Sockets -> Seq(DownFrames)]
         /\ \A s \in Sockets : sock'[s].ready = sock[s].ready /\ sock'[s].conn = sock[s].conn
         /\ NewerWins' /\ EntryOwned'
<1>1. sock \in [Sockets -> SocketRecords] /\ SessionTypeOK /\ AttachedIn(sock) = Attached
  BY DEF SessionInv, SessionTypeOK, AttachedIn, Attached
<1>2. FannedOut(sock, e, X)
  BY FanOutLeaves
<1>3. NewerWins' /\ EntryOwned'
  BY <1>1, <1>2, FannedOutKeeps DEF SessionInv, NewerWins, Ready, Owner
<1>4. \A s \in Sockets : sock'[s].ready = sock[s].ready /\ sock'[s].conn = sock[s].conn
  BY <1>1, <1>2, FannedOutFields DEF FieldsLeft
<1> QED BY <1>1, <1>2, <1>3, <1>4, FannedOutTypes, FanOutFrames

\* The same for a handler that a frame set off, or none.
LEMMA CloseSafe ==
  ASSUME SessionInv, NEW X \in SUBSET Sockets, NEW code, X = {} \/ code \in Codes,
         NEW e, e = entry \/ e = [c \in Clients |-> None],
         NEW frames \in Seq(DownFrames), NEW reached,
         FanOut(sock, e, X, code, frames, reached), UNCHANGED <<tab, up>>,
         sets' \in 0..MaxSets, wakes' \in 0..MaxWakes, trouble' \in 0..MaxTrouble,
         lost' \subseteq Clients
  PROVE  SessionInv'
<1>1. e \in [Clients -> Entry]
  BY DEF SessionInv, SessionTypeOK, Entry
<1>2. \A c \in Clients : e[c] # None => e[c].socket \in Ready /\ Owner(e[c].socket) = c
  BY DEF SessionInv, EntryOwned
<1>3. /\ sock' \in [Sockets -> SocketRecords] /\ entry' \in [Clients -> Entry]
      /\ down' \in [Sockets -> Seq(DownFrames)]
      /\ \A s \in Sockets : sock'[s].ready = sock[s].ready /\ sock'[s].conn = sock[s].conn
      /\ NewerWins' /\ EntryOwned'
  BY <1>1, <1>2, FanOutSafe
<1>4. up \in [Sockets -> Seq(UpFrames)] /\ tab \in [Clients -> Tab] /\ SessionTypeOK /\ HelloOnce
  BY DEF SessionInv, SessionTypeOK
<1>5. HelloOnce'
  <2>1. \A u \in Sockets : Grown(u)
    BY DEF Grown
  <2>2. up' = [u \in Sockets |-> up'[u]]
    BY <1>4
  <2> QED BY <1>3, <1>4, <2>1, <2>2, QuietStep
<1> QED BY <1>3, <1>4, <1>5 DEF SessionInv, SessionTypeOK, Entry

LEMMA SocketClosedSafe ==
  ASSUME SessionInv, NEW s \in Sockets, SocketClosed(s)
  PROVE  SessionInv'
<1> DEFINE k == [sock EXCEPT ![s].conn = "gone"]
<1>1. /\ sock \in [Sockets -> SocketRecords] /\ entry \in [Clients -> Entry]
      /\ up \in [Sockets -> Seq(UpFrames)] /\ SessionTypeOK /\ HelloOnce
  BY DEF SessionInv, SessionTypeOK, Entry
<1>2. /\ FanOut(k, entry, {s}, "lost", <<>>, {})
      /\ up' = [up EXCEPT ![s] = <<>>] /\ UNCHANGED <<tab, counts, lost>>
  BY DEF SocketClosed
<1>3. k \in [Sockets -> SocketRecords]
  <2>1. [sock[s] EXCEPT !.conn = "gone"] \in SocketRecords
    <3>1. sock[s] \in SocketRecords /\ sock[s].conn # "free"
      BY <1>1 DEF SocketClosed, Attached
    <3> QED BY <3>1 DEF SocketRecords
  <2> QED BY <1>1, <2>1
<1>4. \A u \in Sockets : /\ k[u].owner = sock[u].owner /\ k[u].ready = sock[u].ready
                         /\ k[u].defunct = sock[u].defunct
                         /\ k[u].conn = IF u = s THEN "gone" ELSE sock[u].conn
  BY <1>1 DEF SocketRecords
<1> HIDE DEF k
<1>5. AttachedIn(k) = Attached \ {s}
  BY <1>4 DEF Attached, AttachedIn
<1>6. ASSUME NEW u \in AttachedIn(k) \ {s}, NEW v \in AttachedIn(k) \ {s}, u # v,
             k[u].owner = k[v].owner
      PROVE  k[u].defunct \/ k[v].defunct
  <2>1. u \in Attached /\ v \in Attached
    BY <1>5
  <2> QED BY <1>4, <1>6, <2>1 DEF SessionInv, NewerWins, Owner, Attached
<1>7. ASSUME NEW c \in Clients, entry[c] # None
      PROVE  \/ entry[c].socket \in {s}
             \/ /\ entry[c].socket \in AttachedIn(k) /\ k[entry[c].socket].ready
                /\ ~k[entry[c].socket].defunct /\ k[entry[c].socket].owner = c
  BY <1>4, <1>5, <1>7 DEF SessionInv, EntryOwned, Ready, Owner, Attached
<1>8. FannedOut(k, entry, {s})
  BY <1>2, FanOutLeaves
<1>9. NewerWins' /\ EntryOwned'
  BY <1>3, <1>6, <1>7, <1>8, FannedOutKeeps
<1>10. sock' \in [Sockets -> SocketRecords] /\ entry' \in [Clients -> Entry]
  BY <1>1, <1>3, <1>8, FannedOutTypes
<1>11. down' \in [Sockets -> Seq(DownFrames)]
  <2>1. "lost" \in Codes /\ <<>> \in Seq(DownFrames)
    BY DEF Codes
  <2> QED BY <1>1, <1>2, <2>1, FanOutFrames
<1>12. up' \in [Sockets -> Seq(UpFrames)]
  BY <1>1, <1>2
<1>13. HelloOnce'
  <2>1. \A u \in Sockets : sock'[u].ready = sock[u].ready /\ sock'[u].conn = k[u].conn
    BY <1>3, <1>4, <1>8, FannedOutFields DEF FieldsLeft
  <2>2. up'[s] = <<>> /\ \A u \in Sockets \ {s} : up'[u] = up[u]
    BY <1>1, <1>2
  <2>3. ASSUME NEW u \in Sockets
        PROVE  /\ sock'[u].conn \in Early =>
                    ~sock'[u].ready /\ \A i \in DOMAIN up'[u] : ~IsHello(u, i)'
               /\ \A i \in DOMAIN up'[u] : IsHello(u, i)' =>
                    ~sock'[u].ready /\ \A j \in DOMAIN up'[u] : IsHello(u, j)' => j = i
    <3>1. CASE u = s
      BY <1>4, <2>1, <2>2, <3>1 DEF Early
    <3>2. CASE u # s
      BY <1>1, <1>4, <2>1, <2>2, <3>2 DEF HelloOnce, Early, IsHello
    <3> QED BY <3>1, <3>2
  <2> QED BY <2>3 DEF HelloOnce, Early
<1> QED BY <1>1, <1>2, <1>9, <1>10, <1>11, <1>12, <1>13 DEF SessionInv, SessionTypeOK, Entry, counts

\* What a frame leaves of the hellos.
LEMMA TakenHellos ==
  ASSUME SessionTypeOK, HelloOnce, NEW s \in Sockets, up[s] # <<>>,
         up' = [up EXCEPT ![s] = Tail(@)],
         \A u \in Sockets : sock'[u].conn = sock[u].conn,
         \A u \in Sockets \ {s} : sock'[u].ready = sock[u].ready,
         Head(up[s]).kind # "hello" => sock'[s].ready = sock[s].ready
  PROVE  HelloOnce'
<1>1. /\ \A u \in Sockets \ {s} : up'[u] = up[u]
      /\ \A i \in DOMAIN up'[s] : IsHello(s, i)' => i + 1 \in DOMAIN up[s] /\ IsHello(s, i + 1)
      /\ Head(up[s]).kind = "hello" =>
           ~sock[s].ready /\ sock[s].conn \notin Early /\ \A i \in DOMAIN up'[s] : ~IsHello(s, i)'
  BY TakenLink
<1>2. ASSUME NEW u \in Sockets
      PROVE  /\ sock'[u].conn \in Early =>
                  ~sock'[u].ready /\ \A i \in DOMAIN up'[u] : ~IsHello(u, i)'
             /\ \A i \in DOMAIN up'[u] : IsHello(u, i)' =>
                  ~sock'[u].ready /\ \A j \in DOMAIN up'[u] : IsHello(u, j)' => j = i
  <2>1. CASE u # s
    BY <1>1, <2>1 DEF HelloOnce, Early, IsHello
  <2>2. CASE u = s /\ Head(up[s]).kind = "hello"
    BY <1>1, <2>2
  <2>3. CASE u = s /\ Head(up[s]).kind # "hello"
    <3>1. sock'[s].ready = sock[s].ready /\ sock'[s].conn = sock[s].conn
      BY <2>3
    <3>2. DOMAIN up'[s] \subseteq Int
      <4>1. up'[s] \in Seq(UpFrames)
        BY TakenLink
      <4> QED BY <4>1
    <3> QED BY <1>1, <2>3, <3>1, <3>2 DEF HelloOnce, Early
  <2> QED BY <2>1, <2>2, <2>3
<1> QED BY <1>2 DEF HelloOnce, Early

\* A hello: an entry of the socket would have needed one before.
LEMMA HelloSafe ==
  ASSUME SessionInv, NEW s \in Sockets, s \in Attached, ~sock[s].ready, Hello(s)
  PROVE  /\ sock' \in [Sockets -> SocketRecords] /\ entry' \in [Clients -> Entry]
         /\ down' \in [Sockets -> Seq(DownFrames)]
         /\ \A u \in Sockets : sock'[u].conn = sock[u].conn
         /\ \A u \in Sockets \ {s} : sock'[u].ready = sock[u].ready
         /\ NewerWins' /\ EntryOwned'
<1>1. /\ sock \in [Sockets -> SocketRecords] /\ entry \in [Clients -> Entry]
      /\ down \in [Sockets -> Seq(DownFrames)]
  BY DEF SessionInv, SessionTypeOK, Entry
<1>2. entry' = entry
  BY DEF Hello
<1>3. down' \in [Sockets -> Seq(DownFrames)]
  <2>1. Snapshot(Owner(s)) \in DownFrames
    <3>1. \A d \in Clients : entry[d] = None \/ entry[d].state \in States
      BY <1>1 DEF Entry
    <3>2. [d \in Clients |-> IF d = Owner(s) \/ entry[d] = None THEN None
                             ELSE entry[d].state] \in Shown
      BY <3>1 DEF Shown
    <3> QED BY <3>2 DEF Snapshot, DownFrames
  <2>2. down[s] \in Seq(DownFrames)
    BY <1>1
  <2>3. Append(down[s], Snapshot(Owner(s))) \in Seq(DownFrames)
    BY <2>1, <2>2, AppendTyped
  <2>4. down' \in {down, [down EXCEPT ![s] = Append(down[s], Snapshot(Owner(s)))]}
    BY DEF Hello
  <2> QED BY <1>1, <2>3, <2>4
<1>4. sock' \in {[sock EXCEPT ![s].ready = TRUE], [sock EXCEPT ![s].ready = TRUE, ![s].defunct = TRUE]}
  BY DEF Hello
<1>5. sock' \in [Sockets -> SocketRecords]
  <2>1. /\ [sock[s] EXCEPT !.ready = TRUE] \in SocketRecords
        /\ [sock[s] EXCEPT !.ready = TRUE, !.defunct = TRUE] \in SocketRecords
    BY <1>1 DEF SocketRecords
  <2>2. sock' \in {[sock EXCEPT ![s] = [sock[s] EXCEPT !.ready = TRUE]],
                  [sock EXCEPT ![s] = [sock[s] EXCEPT !.ready = TRUE, !.defunct = TRUE]]}
    BY DEF Hello
  <2> QED BY <1>1, <2>1, <2>2
<1>6. \A u \in Sockets : /\ sock'[u].owner = sock[u].owner /\ sock'[u].conn = sock[u].conn
                         /\ u # s => sock'[u] = sock[u]
                         /\ sock[u].defunct => sock'[u].defunct
  BY <1>1, <1>4 DEF SocketRecords
<1>7. Attached' = Attached
  BY <1>6 DEF Attached
<1>8. NewerWins'
  BY <1>6, <1>7 DEF SessionInv, NewerWins, Owner, Attached
<1>9. ASSUME NEW c \in Clients, entry[c] # None
      PROVE  entry[c].socket \in Ready' /\ sock'[entry[c].socket].owner = c
  <2>1. /\ entry[c].socket \in Attached /\ sock[entry[c].socket].ready
        /\ ~sock[entry[c].socket].defunct /\ sock[entry[c].socket].owner = c
    BY <1>9 DEF SessionInv, EntryOwned, Ready, Owner
  <2>2. entry[c].socket # s /\ entry[c].socket \in Sockets
    BY <2>1 DEF Attached
  <2> QED BY <1>6, <1>7, <2>1, <2>2 DEF Ready
<1>10. EntryOwned'
  BY <1>2, <1>9 DEF EntryOwned, Owner
<1> QED BY <1>1, <1>2, <1>3, <1>5, <1>6, <1>8, <1>10

LEMMA PresenceSafe ==
  ASSUME SessionInv, NEW s \in Ready \cup {t \in Attached : ~sock[t].ready},
         NEW state \in States \cup {None}, Presence(s, state)
  PROVE  /\ sock' \in [Sockets -> SocketRecords] /\ entry' \in [Clients -> Entry]
         /\ down' \in [Sockets -> Seq(DownFrames)]
         /\ \A u \in Sockets : sock'[u].ready = sock[u].ready /\ sock'[u].conn = sock[u].conn
         /\ NewerWins' /\ EntryOwned' /\ lost' \subseteq Clients
<1> DEFINE c == Owner(s)
           set == IF state = None THEN None ELSE [socket |-> s, state |-> state]
           e == [entry EXCEPT ![c] = set]
           frames == <<[kind |-> "presence", who |-> c, state |-> state]>>
<1>1. /\ sock \in [Sockets -> SocketRecords] /\ entry \in [Clients -> Entry]
      /\ down \in [Sockets -> Seq(DownFrames)] /\ lost \subseteq Clients
      /\ NewerWins /\ EntryOwned /\ s \in Sockets
  BY DEF SessionInv, SessionTypeOK, Entry, Ready, Attached
<1>2. lost' \subseteq Clients
  BY <1>1 DEF Presence
<1>3. CASE UNCHANGED <<sock, entry, down>>
  <2>1. Attached' = Attached
    BY <1>3 DEF Attached
  <2> QED BY <1>1, <1>2, <1>3, <2>1, SocketsStay
<1>4. CASE sock[s].ready /\ FanOut(sock, e, {}, "none", frames, Ready \ {s})
  <2>1. s \in Ready
    BY <1>4
  <2>2. e \in [Clients -> Entry]
    BY <1>1 DEF Entry
  <2>3. \A d \in Clients : e[d] # None => e[d].socket \in Ready /\ Owner(e[d].socket) = d
    <3> SUFFICES ASSUME NEW d \in Clients, e[d] # None
                 PROVE  e[d].socket \in Ready /\ Owner(e[d].socket) = d
      OBVIOUS
    <3>1. CASE d = c
      <4>1. e[d] = set
        BY <1>1, <3>1
      <4>2. e[d].socket = s
        BY <4>1
      <4> QED BY <2>1, <3>1, <4>2
    <3>2. CASE d # c
      BY <1>1, <3>2 DEF EntryOwned
    <3> QED BY <3>1, <3>2
  <2>4. frames \in Seq(DownFrames)
    <3>1. sock[s] \in SocketRecords /\ sock[s].conn # "free"
      BY <1>1, <2>1 DEF Ready, Attached
    <3>2. c \in Clients
      BY <3>1 DEF Owner, SocketRecords
    <3> QED BY <3>2 DEF DownFrames
  <2> HIDE DEF e, frames
  <2>5. /\ sock' \in [Sockets -> SocketRecords] /\ entry' \in [Clients -> Entry]
        /\ down' \in [Sockets -> Seq(DownFrames)]
        /\ \A u \in Sockets : sock'[u].ready = sock[u].ready /\ sock'[u].conn = sock[u].conn
        /\ NewerWins' /\ EntryOwned'
    BY <1>4, <2>2, <2>3, <2>4, FanOutSafe
  <2> QED BY <1>2, <2>5
<1> QED BY <1>3, <1>4 DEF Presence

LEMMA ReceiveSafe ==
  ASSUME SessionInv, NEW s \in Sockets, Receive(s)
  PROVE  SessionInv'
<1> DEFINE msg == Head(up[s])
<1>1. /\ SessionTypeOK /\ HelloOnce /\ NewerWins /\ EntryOwned
      /\ up \in [Sockets -> Seq(UpFrames)] /\ lost \subseteq Clients
      /\ sock \in [Sockets -> SocketRecords] /\ entry \in [Clients -> Entry]
  BY DEF SessionInv, SessionTypeOK, Entry
<1>2. /\ s \in Attached /\ up[s] # <<>> /\ msg.kind # "close"
      /\ up' = [up EXCEPT ![s] = Tail(@)] /\ UNCHANGED <<tab, counts>>
  BY DEF Receive
<1>3. /\ up' \in [Sockets -> Seq(UpFrames)]
      /\ msg.kind = "hello" => ~sock[s].ready
  BY <1>1, <1>2, TakenLink
<1>4. msg \in UpFrames
  <2>1. up[s] \in Seq(UpFrames)
    BY <1>1
  <2> QED BY <1>2, <2>1
\* What each branch shows.
<1> DEFINE Kept == /\ sock' \in [Sockets -> SocketRecords] /\ entry' \in [Clients -> Entry]
                   /\ down' \in [Sockets -> Seq(DownFrames)]
                   /\ \A u \in Sockets : sock'[u].conn = sock[u].conn
                   /\ \A u \in Sockets \ {s} : sock'[u].ready = sock[u].ready
                   /\ msg.kind # "hello" => sock'[s].ready = sock[s].ready
                   /\ NewerWins' /\ EntryOwned' /\ lost' \subseteq Clients
<1>5. ASSUME sock[s].defunct
      PROVE  Kept
  <2>1. UNCHANGED <<sock, entry, down, lost>>
    BY <1>5 DEF Receive
  <2>2. Attached' = Attached
    BY <2>1 DEF Attached
  <2>3. NewerWins' /\ EntryOwned'
    BY <1>1, <2>1, <2>2, SocketsStay
  <2>4. down' \in [Sockets -> Seq(DownFrames)]
    BY <1>1, <2>1 DEF SessionTypeOK
  <2> QED BY <1>1, <2>1, <2>3, <2>4
<1>6. ASSUME ~sock[s].defunct /\ sock[s].expired
      PROVE  Kept
  <2>1. FanOut(sock, entry, {s}, "refresh", <<>>, {}) /\ UNCHANGED lost
    BY <1>6 DEF Receive
  <2>2. "refresh" \in Codes /\ <<>> \in Seq(DownFrames)
    BY DEF Codes
  <2>3. {s} \in SUBSET Sockets /\ \A c \in Clients : entry[c] # None =>
                                    entry[c].socket \in Ready /\ Owner(entry[c].socket) = c
    BY <1>1 DEF EntryOwned
  <2>4. /\ sock' \in [Sockets -> SocketRecords] /\ entry' \in [Clients -> Entry]
        /\ down' \in [Sockets -> Seq(DownFrames)]
        /\ \A u \in Sockets : sock'[u].ready = sock[u].ready /\ sock'[u].conn = sock[u].conn
        /\ NewerWins' /\ EntryOwned'
    BY <1>1, <2>1, <2>2, <2>3, FanOutSafe
  <2> QED BY <1>1, <2>1, <2>4
<1>7. ASSUME ~sock[s].defunct /\ ~sock[s].expired /\ msg.kind = "hello"
      PROVE  Kept
  <2>1. Hello(s) /\ lost' = lost
    BY <1>7 DEF Receive, Hello
  <2>2. Kept
    BY <1>1, <1>2, <1>3, <1>7, <2>1, HelloSafe
  <2> QED BY <2>2
<1>8. ASSUME ~sock[s].defunct /\ ~sock[s].expired /\ msg.kind # "hello"
      PROVE  Kept
  <2>1. Presence(s, msg.state)
    BY <1>8 DEF Receive
  <2>2. msg.state \in States \cup {None}
    BY <1>2, <1>4, <1>8 DEF UpFrames, Closes
  <2>3. s \in Ready \cup {t \in Attached : ~sock[t].ready}
    BY <1>2, <1>8 DEF Ready
  <2>4. /\ sock' \in [Sockets -> SocketRecords] /\ entry' \in [Clients -> Entry]
        /\ down' \in [Sockets -> Seq(DownFrames)]
        /\ \A u \in Sockets : sock'[u].ready = sock[u].ready /\ sock'[u].conn = sock[u].conn
        /\ NewerWins' /\ EntryOwned' /\ lost' \subseteq Clients
    BY <2>1, <2>2, <2>3, PresenceSafe
  <2> QED BY <2>4
<1> HIDE DEF Kept
<1>9. Kept
  BY <1>5, <1>6, <1>7, <1>8
<1>10. HelloOnce'
  <2>1. /\ \A u \in Sockets : sock'[u].conn = sock[u].conn
        /\ \A u \in Sockets \ {s} : sock'[u].ready = sock[u].ready
        /\ Head(up[s]).kind # "hello" => sock'[s].ready = sock[s].ready
    BY <1>9 DEF Kept
  <2> QED BY <1>1, <1>2, <2>1, TakenHellos
<1> QED BY <1>1, <1>2, <1>3, <1>9, <1>10 DEF Kept, SessionInv, SessionTypeOK, Entry, counts

LEMMA PokeSafe ==
  ASSUME SessionInv, Poke
  PROVE  SessionInv'
<1>1. FanOut(sock, entry, {}, "none", <<>>, Ready) /\ UNCHANGED <<tab, up, counts, lost>>
  BY DEF Poke
<1>2. <<>> \in Seq(DownFrames)
  OBVIOUS
<1> QED BY <1>1, <1>2, CloseSafe DEF counts, SessionInv, SessionTypeOK

LEMMA DisconnectSafe ==
  ASSUME SessionInv, NEW C \in SUBSET Clients, NEW mode, Disconnect(C, mode)
  PROVE  SessionInv'
<1> DEFINE X == {s \in Attached : Owner(s) \in C}
           code == IF mode = "kick" THEN "policy" ELSE "refresh"
<1>1. FanOut(sock, entry, X, code, <<>>, {}) /\ UNCHANGED <<tab, up, sets, wakes, lost>>
  BY DEF Disconnect
<1>2. X \in SUBSET Sockets /\ code \in Codes /\ <<>> \in Seq(DownFrames)
  BY DEF Attached, Codes
<1>3. trouble' \in 0..MaxTrouble
  BY SessionAssumption DEF Disconnect, Trouble, SessionInv, SessionTypeOK
<1> HIDE DEF X, code
<1> QED BY <1>1, <1>2, <1>3, CloseSafe DEF SessionInv, SessionTypeOK

LEMMA HibernateSafe ==
  ASSUME SessionInv, Hibernate
  PROVE  SessionInv'
<1> DEFINE e == [c \in Clients |-> None]
<1>1. /\ FanOut(sock, e, {}, "none", <<[kind |-> "poll"]>>, Ready)
      /\ UNCHANGED <<tab, up, sets, wakes>>
      /\ lost' = lost \cup {c \in Clients : entry[c] # None}
  BY DEF Hibernate
<1>2. <<[kind |-> "poll"]>> \in Seq(DownFrames)
  BY DEF DownFrames
<1>3. trouble' \in 0..MaxTrouble
  BY SessionAssumption DEF Hibernate, Trouble, SessionInv, SessionTypeOK
<1>4. lost' \subseteq Clients
  BY <1>1 DEF SessionInv, SessionTypeOK
<1> HIDE DEF e
<1> QED BY <1>1, <1>2, <1>3, <1>4, CloseSafe DEF SessionInv, SessionTypeOK, e

-----------------------------------------------------------------------------
(* The client and the network *)

\* A step that changes of the sockets at most the link, the deadline, or one
\* the workspace has not heard of.
LEMMA LinkSafe ==
  ASSUME SessionInv, entry' = entry,
         sock' \in [Sockets -> SocketRecords], tab' \in [Clients -> Tab],
         down' \in [Sockets -> Seq(DownFrames)],
         \A s \in Sockets : /\ sock'[s].owner = sock[s].owner /\ sock'[s].ready = sock[s].ready
                            /\ sock'[s].defunct = sock[s].defunct
                            /\ \/ sock'[s].conn = sock[s].conn
                               \/ sock[s].conn = "dialing" /\ sock'[s].conn = "gone",
         HelloOnce', up' \in [Sockets -> Seq(UpFrames)],
         sets' \in 0..MaxSets, wakes' \in 0..MaxWakes, trouble' \in 0..MaxTrouble,
         lost' = lost
  PROVE  SessionInv'
<1>1. Attached' = Attached
  BY DEF Attached
<1>2. \A s \in Attached : /\ sock'[s].owner = sock[s].owner /\ sock'[s].ready = sock[s].ready
                          /\ sock'[s].defunct = sock[s].defunct
  BY DEF Attached
<1>3. NewerWins' /\ EntryOwned'
  BY <1>1, <1>2, SocketsStay DEF SessionInv
<1>4. SessionTypeOK'
  BY DEF SessionInv, SessionTypeOK
<1> QED BY <1>3, <1>4 DEF SessionInv

\* The frames a client sends, apart from its hello.
LEMMA SentGrows ==
  ASSUME SessionTypeOK, NEW s, NEW m \in UpFrames, m.kind # "hello",
         up' = up \/ up' = [up EXCEPT ![s] = Append(@, m)]
  PROVE  (\A u \in Sockets : Grown(u)) /\ up' = [u \in Sockets |-> up'[u]]
<1>1. up \in [Sockets -> Seq(UpFrames)]
  BY DEF SessionTypeOK
<1>2. CASE up' = up
  BY <1>1, <1>2 DEF Grown
<1>3. CASE up' = [up EXCEPT ![s] = Append(@, m)]
  BY <1>1, <1>3 DEF Grown
<1> QED BY <1>2, <1>3

LEMMA SendSafe ==
  ASSUME SessionInv, entry' = entry,
         sock' \in [Sockets -> SocketRecords], tab' \in [Clients -> Tab],
         down' \in [Sockets -> Seq(DownFrames)],
         \A s \in Sockets : /\ sock'[s].owner = sock[s].owner /\ sock'[s].ready = sock[s].ready
                            /\ sock'[s].defunct = sock[s].defunct
                            /\ \/ sock'[s].conn = sock[s].conn
                               \/ sock[s].conn = "dialing" /\ sock'[s].conn = "gone",
         NEW s, NEW m \in UpFrames, m.kind # "hello",
         up' = up \/ up' = [up EXCEPT ![s] = Append(@, m)],
         sets' \in 0..MaxSets, wakes' \in 0..MaxWakes, trouble' \in 0..MaxTrouble,
         lost' = lost
  PROVE  SessionInv'
<1>1. SessionTypeOK /\ HelloOnce
  BY DEF SessionInv
<1>2. (\A u \in Sockets : Grown(u)) /\ up' = [u \in Sockets |-> up'[u]]
  BY <1>1, SentGrows
<1>3. \A u \in Sockets : /\ sock'[u].ready = sock[u].ready
                         /\ sock'[u].conn \in Early => sock[u].conn \in Early
  BY DEF Early
<1>4. HelloOnce' /\ up' \in [Sockets -> Seq(UpFrames)]
  BY <1>1, <1>2, <1>3, QuietStep
<1> QED BY <1>4, LinkSafe

\* The close a client sends and what it announces.
LEMMA CloseFrame ==
  /\ Close("lost") \in UpFrames /\ Close("lost").kind # "hello"
  /\ \A state \in States \cup {None} :
       /\ [kind |-> "presence", state |-> state] \in UpFrames
       /\ [kind |-> "presence", state |-> state].kind # "hello"
BY DEF Close, Closes, Codes, UpFrames

LEMMA ExpireSafe ==
  ASSUME SessionInv, NEW s \in Sockets, Expire(s)
  PROVE  SessionInv'
<1>1. /\ sock \in [Sockets -> SocketRecords] /\ tab \in [Clients -> Tab]
      /\ down \in [Sockets -> Seq(DownFrames)]
  BY DEF SessionInv, SessionTypeOK
<1>2. [sock[s] EXCEPT !.expired = TRUE] \in SocketRecords
  BY <1>1 DEF SocketRecords
<1>3. sock' = [sock EXCEPT ![s] = [sock[s] EXCEPT !.expired = TRUE]]
  BY DEF Expire
<1>4. sock' \in [Sockets -> SocketRecords]
  BY <1>1, <1>2, <1>3
<1>5. \A u \in Sockets : /\ sock'[u].owner = sock[u].owner /\ sock'[u].ready = sock[u].ready
                         /\ sock'[u].defunct = sock[u].defunct /\ sock'[u].conn = sock[u].conn
  BY <1>1, <1>3 DEF SocketRecords
<1>6. trouble' \in 0..MaxTrouble
  BY SessionAssumption DEF Expire, Trouble, SessionInv, SessionTypeOK
<1> QED BY <1>1, <1>4, <1>5, <1>6, CloseFrame, SendSafe DEF Expire, SessionInv, SessionTypeOK

LEMMA RefusedSafe ==
  ASSUME SessionInv, NEW s \in Sockets, Refused(s)
  PROVE  SessionInv'
<1>1. /\ sock \in [Sockets -> SocketRecords] /\ tab \in [Clients -> Tab]
      /\ down \in [Sockets -> Seq(DownFrames)]
  BY DEF SessionInv, SessionTypeOK
<1>2. sock[s].conn = "dialing" /\ sock' = [sock EXCEPT ![s] = [sock[s] EXCEPT !.conn = "gone"]]
  BY DEF Refused
<1>3. [sock[s] EXCEPT !.conn = "gone"] \in SocketRecords
  BY <1>1, <1>2 DEF SocketRecords
<1>4. sock' \in [Sockets -> SocketRecords]
  BY <1>1, <1>2, <1>3
<1>5. \A u \in Sockets : /\ sock'[u].owner = sock[u].owner /\ sock'[u].ready = sock[u].ready
                         /\ sock'[u].defunct = sock[u].defunct
                         /\ \/ sock'[u].conn = sock[u].conn
                            \/ sock[u].conn = "dialing" /\ sock'[u].conn = "gone"
  BY <1>1, <1>2 DEF SocketRecords
<1>6. PICK code \in {"policy", "lost"} :
        /\ Trouble(IF code = "policy" THEN "reject" ELSE "fail")
        /\ down' = [down EXCEPT ![s] = <<Close(code)>>]
  BY DEF Refused
<1>7. Close(code) \in DownFrames
  BY DEF Close, Closes, Codes, DownFrames
<1>8. down' \in [Sockets -> Seq(DownFrames)]
  BY <1>1, <1>6, <1>7
<1>9. trouble' \in 0..MaxTrouble
  BY <1>6, SessionAssumption DEF Trouble, SessionInv, SessionTypeOK
<1> QED BY <1>1, <1>4, <1>5, <1>8, <1>9, CloseFrame, SendSafe DEF Refused, SessionInv, SessionTypeOK

LEMMA CutSafe ==
  ASSUME SessionInv, NEW s \in Sockets, Cut(s)
  PROVE  SessionInv'
<1>1. /\ sock \in [Sockets -> SocketRecords] /\ tab \in [Clients -> Tab]
      /\ down \in [Sockets -> Seq(DownFrames)] /\ up \in [Sockets -> Seq(UpFrames)]
      /\ up[s] \in Seq(UpFrames) /\ HelloOnce
  BY DEF SessionInv, SessionTypeOK
<1>2. /\ sock' = [sock EXCEPT ![s] = [sock[s] EXCEPT !.broken = TRUE]]
      /\ down' = [down EXCEPT ![s] = <<Close("lost")>>]
      /\ UNCHANGED <<entry, tab, sets, wakes, lost>>
  BY DEF Cut
<1>3. PICK n \in 0..Len(up[s]) :
        up' = [up EXCEPT ![s] = Append(SubSeq(@, 1, n), Close("lost"))]
  BY DEF Cut
<1>4. [sock[s] EXCEPT !.broken = TRUE] \in SocketRecords
  BY <1>1 DEF SocketRecords
<1>5. sock' \in [Sockets -> SocketRecords]
  BY <1>1, <1>2, <1>4
<1>6. \A u \in Sockets : /\ sock'[u].owner = sock[u].owner /\ sock'[u].ready = sock[u].ready
                         /\ sock'[u].defunct = sock[u].defunct /\ sock'[u].conn = sock[u].conn
  BY <1>1, <1>2 DEF SocketRecords
<1>7. Close("lost") \in UpFrames /\ Close("lost") \in DownFrames /\ Close("lost").kind # "hello"
  BY DEF Close, Closes, Codes, UpFrames, DownFrames
<1>8. down' \in [Sockets -> Seq(DownFrames)]
  BY <1>1, <1>2, <1>7
<1> DEFINE kept == SubSeq(up[s], 1, n)
<1>9. /\ kept \in Seq(UpFrames) /\ Len(kept) = n /\ n \in Nat
      /\ \A i \in 1..n : kept[i] = up[s][i] /\ i \in DOMAIN up[s]
  BY <1>1
<1>10. up'[s] = Append(kept, Close("lost")) /\ \A u \in Sockets \ {s} : up'[u] = up[u]
  BY <1>1, <1>3
<1>11. /\ up' \in [Sockets -> Seq(UpFrames)]
  <2> HIDE DEF kept
  <2>1. Append(kept, Close("lost")) \in Seq(UpFrames)
    BY <1>7, <1>9, AppendTyped
  <2> QED BY <1>1, <1>3, <2>1 DEF kept
<1>12. \A i \in DOMAIN up'[s] : IsHello(s, i)' => i \in DOMAIN up[s] /\ IsHello(s, i)
  <2> HIDE DEF kept
  <2>1. /\ DOMAIN up'[s] = 1..(n + 1) /\ up'[s][n + 1] = Close("lost")
        /\ \A i \in 1..n : up'[s][i] = kept[i]
    BY <1>7, <1>9, <1>10
  <2> QED BY <1>7, <1>9, <2>1 DEF IsHello
<1>13. HelloOnce'
  <2>1. ASSUME NEW u \in Sockets
        PROVE  /\ sock'[u].conn \in Early =>
                    ~sock'[u].ready /\ \A i \in DOMAIN up'[u] : ~IsHello(u, i)'
               /\ \A i \in DOMAIN up'[u] : IsHello(u, i)' =>
                    ~sock'[u].ready /\ \A j \in DOMAIN up'[u] : IsHello(u, j)' => j = i
    <3> HIDE DEF kept
    <3>1. \A i \in DOMAIN up'[u] : IsHello(u, i)' => i \in DOMAIN up[u] /\ IsHello(u, i)
      BY <1>10, <1>12 DEF IsHello
    <3> QED BY <1>1, <1>6, <3>1 DEF HelloOnce, Early
  <2> QED BY <2>1 DEF HelloOnce, Early
<1>14. trouble' \in 0..MaxTrouble
  BY SessionAssumption DEF Cut, Trouble, SessionInv, SessionTypeOK
<1> QED BY <1>1, <1>2, <1>5, <1>6, <1>8, <1>11, <1>13, <1>14, LinkSafe DEF SessionInv, SessionTypeOK

\* Steps that leave the sockets alone.
LEMMA StillSafe ==
  ASSUME SessionInv, UNCHANGED <<sock, entry, lost>>,
         tab' \in [Clients -> Tab], down' \in [Sockets -> Seq(DownFrames)],
         NEW s, NEW m \in UpFrames, m.kind # "hello",
         up' = up \/ up' = [up EXCEPT ![s] = Append(@, m)],
         sets' \in 0..MaxSets, wakes' \in 0..MaxWakes, trouble' \in 0..MaxTrouble
  PROVE  SessionInv'
BY SendSafe DEF SessionInv, SessionTypeOK

LEMMA AnswerSafe ==
  ASSUME SessionInv, NEW s \in Sockets, Answer(s)
  PROVE  SessionInv'
<1>1. /\ down' = [down EXCEPT ![s] = <<>>]
      /\ up' = [up EXCEPT ![s] = Append(@, Close("lost"))]
      /\ UNCHANGED <<sock, entry, tab, counts, lost>>
  BY DEF Answer
<1>2. down' \in [Sockets -> Seq(DownFrames)] /\ tab' \in [Clients -> Tab]
  BY <1>1 DEF SessionInv, SessionTypeOK
<1>3. sets' \in 0..MaxSets /\ wakes' \in 0..MaxWakes /\ trouble' \in 0..MaxTrouble
  BY <1>1 DEF SessionInv, SessionTypeOK, counts
<1> QED BY <1>1, <1>2, <1>3, CloseFrame, StillSafe

LEMMA OfflineTyped ==
  ASSUME NEW t \in Tab
  PROVE  Offline(t) \in Tab /\ Scheduled(t) \in Tab
BY DEF Offline, Scheduled, Tab

LEMMA AnnouncedFrame ==
  ASSUME NEW c, NEW t \in Tab
  PROVE  LET m == [kind |-> "presence", state |-> t.mine]
         IN  /\ m \in UpFrames /\ m.kind # "hello"
             /\ \/ Announced(c, t) = up
                \/ Announced(c, t) = [up EXCEPT ![t.socket] = Append(@, m)]
BY CloseFrame DEF Announced, Sent, Tab

LEMMA OpenSocketSafe ==
  ASSUME SessionInv, NEW c \in Clients, OpenSocket(c)
  PROVE  SessionInv'
<1>1. PICK s \in Unused :
        /\ sock' = [sock EXCEPT ![s] = [owner |-> c, conn |-> "dialing", ready |-> FALSE,
             defunct |-> FALSE, expired |-> FALSE, broken |-> FALSE]]
        /\ up' = [up EXCEPT ![s] = <<>>]
        /\ down' = [down EXCEPT ![s] = <<>>]
        /\ tab' = [tab EXCEPT ![c].due = FALSE, ![c].socket = s]
  BY DEF OpenSocket
<1>2. /\ sock \in [Sockets -> SocketRecords] /\ tab \in [Clients -> Tab]
      /\ down \in [Sockets -> Seq(DownFrames)] /\ up \in [Sockets -> Seq(UpFrames)]
      /\ HelloOnce /\ UNCHANGED <<entry, counts, lost>>
  BY DEF SessionInv, SessionTypeOK, OpenSocket
<1>3. s \in Sockets /\ s \notin Attached
  BY DEF Unused, Attached
<1>4. /\ sock' \in [Sockets -> SocketRecords]
      /\ sock'[s].conn = "dialing" /\ sock'[s].ready = FALSE
      /\ \A u \in Sockets \ {s} : sock'[u] = sock[u]
  BY <1>1, <1>2, <1>3, SessionAssumption DEF SocketRecords
<1>5. /\ up' \in [Sockets -> Seq(UpFrames)] /\ down' \in [Sockets -> Seq(DownFrames)]
      /\ up'[s] = <<>> /\ \A u \in Sockets \ {s} : up'[u] = up[u]
  BY <1>1, <1>2, <1>3
<1>6. tab' \in [Clients -> Tab]
  <2>1. [tab[c] EXCEPT !.due = FALSE, !.socket = s] \in Tab
    BY <1>2, <1>3 DEF Tab
  <2>2. tab' = [tab EXCEPT ![c] = [tab[c] EXCEPT !.due = FALSE, !.socket = s]]
    BY <1>1
  <2> QED BY <1>2, <2>1, <2>2
<1>7. Attached' = Attached
  BY <1>3, <1>4 DEF Attached
<1>8. NewerWins' /\ EntryOwned'
  <2>1. \A u \in Attached : sock'[u] = sock[u]
    BY <1>3, <1>4 DEF Attached
  <2> QED BY <1>2, <1>7, <2>1, SocketsStay DEF SessionInv
<1>9. HelloOnce'
  <2>1. ASSUME NEW u \in Sockets
        PROVE  /\ sock'[u].conn \in Early =>
                    ~sock'[u].ready /\ \A i \in DOMAIN up'[u] : ~IsHello(u, i)'
               /\ \A i \in DOMAIN up'[u] : IsHello(u, i)' =>
                    ~sock'[u].ready /\ \A j \in DOMAIN up'[u] : IsHello(u, j)' => j = i
    <3>1. CASE u = s
      BY <1>4, <1>5, <3>1
    <3>2. CASE u # s
      BY <1>2, <1>4, <1>5, <3>2 DEF HelloOnce, Early, IsHello
    <3> QED BY <3>1, <3>2
  <2> QED BY <2>1 DEF HelloOnce, Early
<1> QED BY <1>2, <1>4, <1>5, <1>6, <1>8, <1>9 DEF SessionInv, SessionTypeOK, counts

LEMMA OpenedSafe ==
  ASSUME SessionInv, NEW c \in Clients, Opened(c)
  PROVE  SessionInv'
<1> DEFINE hello == [kind |-> "hello"]
<1>1. /\ sock \in [Sockets -> SocketRecords] /\ tab \in [Clients -> Tab]
      /\ down \in [Sockets -> Seq(DownFrames)] /\ up \in [Sockets -> Seq(UpFrames)]
      /\ HelloOnce
  BY DEF SessionInv, SessionTypeOK
<1>2. PICK s : s = tab[c].socket
  OBVIOUS
<1>3. /\ s \in Sockets /\ sock[s].conn = "accepted"
      /\ sock' = [sock EXCEPT ![s] = [sock[s] EXCEPT !.conn = "open"]]
      /\ up' = [up EXCEPT ![s] = Append(@, hello)]
      /\ tab' = [tab EXCEPT ![c] = [tab[c] EXCEPT !.status = "syncing"]]
      /\ UNCHANGED <<entry, down, counts, lost>>
  BY <1>1, <1>2 DEF Opened, Tab
<1>4. [sock[s] EXCEPT !.conn = "open"] \in SocketRecords /\ hello \in UpFrames
      /\ [tab[c] EXCEPT !.status = "syncing"] \in Tab
  <2>1. sock[s] \in SocketRecords /\ tab[c] \in Tab
    BY <1>1, <1>3
  <2>2. [sock[s] EXCEPT !.conn = "open"] \in SocketRecords
    BY <2>1, <1>3 DEF SocketRecords
  <2>3. hello \in UpFrames
    BY DEF UpFrames
  <2>4. [tab[c] EXCEPT !.status = "syncing"] \in Tab
    BY <2>1 DEF Tab
  <2> QED BY <2>2, <2>3, <2>4
<1> HIDE DEF hello
<1>5. sock' \in [Sockets -> SocketRecords] /\ tab' \in [Clients -> Tab]
  BY <1>1, <1>3, <1>4
<1>6. \A u \in Sockets : /\ sock'[u].owner = sock[u].owner /\ sock'[u].ready = sock[u].ready
                         /\ sock'[u].defunct = sock[u].defunct
                         /\ sock'[u].conn = IF u = s THEN "open" ELSE sock[u].conn
  BY <1>1, <1>3 DEF SocketRecords
<1>7. Attached' = Attached
  BY <1>3, <1>6 DEF Attached
<1>8. NewerWins' /\ EntryOwned'
  BY <1>3, <1>6, <1>7, SocketsStay DEF SessionInv, Attached
<1>9. /\ up'[s] = Append(up[s], hello) /\ up[s] \in Seq(UpFrames)
      /\ \A u \in Sockets \ {s} : up'[u] = up[u]
  BY <1>1, <1>3
<1>10. up' \in [Sockets -> Seq(UpFrames)]
  BY <1>1, <1>3, <1>4, <1>9, AppendTyped
<1>11. /\ Len(up[s]) \in Nat /\ DOMAIN up[s] = 1..Len(up[s]) /\ DOMAIN up'[s] = 1..(Len(up[s]) + 1)
       /\ \A i \in 1..Len(up[s]) : up'[s][i] = up[s][i]
  BY <1>4, <1>9
<1>12. ~sock[s].ready /\ \A i \in DOMAIN up[s] : ~IsHello(s, i)
  BY <1>1, <1>3 DEF HelloOnce
<1>13. \A i \in DOMAIN up'[s] : IsHello(s, i)' => i = Len(up[s]) + 1
  BY <1>11, <1>12 DEF IsHello
<1>14. HelloOnce'
  <2>1. ASSUME NEW u \in Sockets
        PROVE  /\ sock'[u].conn \in Early =>
                    ~sock'[u].ready /\ \A i \in DOMAIN up'[u] : ~IsHello(u, i)'
               /\ \A i \in DOMAIN up'[u] : IsHello(u, i)' =>
                    ~sock'[u].ready /\ \A j \in DOMAIN up'[u] : IsHello(u, j)' => j = i
    <3>1. CASE u = s
      BY <1>6, <1>12, <1>13, <3>1 DEF Early
    <3>2. CASE u # s
      BY <1>1, <1>6, <1>9, <3>2 DEF HelloOnce, Early, IsHello
    <3> QED BY <3>1, <3>2
  <2> QED BY <2>1 DEF HelloOnce, Early
<1> QED BY <1>1, <1>3, <1>5, <1>8, <1>10, <1>14 DEF SessionInv, SessionTypeOK, counts

LEMMA ClientReceiveSafe ==
  ASSUME SessionInv, NEW c \in Clients, ClientReceive(c)
  PROVE  SessionInv'
<1> DEFINE s == tab[c].socket
           msg == Head(down[s])
<1>1. /\ tab \in [Clients -> Tab] /\ down \in [Sockets -> Seq(DownFrames)]
      /\ sets \in 0..MaxSets /\ wakes \in 0..MaxWakes /\ trouble \in 0..MaxTrouble
      /\ tab[c] \in Tab
  BY DEF SessionInv, SessionTypeOK
<1>2. s # None /\ down[s] # <<>> /\ UNCHANGED <<sock, entry, counts, lost>>
  BY DEF ClientReceive
<1>3. s \in Sockets
  BY <1>1, <1>2 DEF Tab
<1>4. /\ msg \in DownFrames /\ Tail(down[s]) \in Seq(DownFrames)
      /\ [down EXCEPT ![s] = Tail(@)] \in [Sockets -> Seq(DownFrames)]
      /\ [down EXCEPT ![s] = <<>>] \in [Sockets -> Seq(DownFrames)]
  <2>1. down[s] \in Seq(DownFrames)
    BY <1>1, <1>3
  <2>2. msg \in DownFrames /\ Tail(down[s]) \in Seq(DownFrames)
    BY <1>2, <2>1
  <2>3. <<>> \in Seq(DownFrames)
    OBVIOUS
  <2> HIDE DEF s, msg
  <2> QED BY <1>1, <2>2, <2>3, ExceptTyped
<1>5. sets' \in 0..MaxSets /\ wakes' \in 0..MaxWakes /\ trouble' \in 0..MaxTrouble
  BY <1>1, <1>2 DEF counts
<1>6. CASE msg.kind = "close"
  <2> DEFINE off == Offline([tab[c] EXCEPT !.socket = None])
  <2>1. Disconnected(c, msg.code)
    BY <1>6 DEF ClientReceive
  <2>2. [tab[c] EXCEPT !.socket = None] \in Tab
    BY <1>1 DEF Tab
  <2>3. off \in Tab /\ Scheduled(off) \in Tab
    BY <2>2, OfflineTyped
  <2>4. [off EXCEPT !.status = "fatal"] \in Tab
    <3> HIDE DEF off
    <3> QED BY <2>3 DEF Tab
  <2>5. tab' \in {[tab EXCEPT ![c] = [off EXCEPT !.status = "fatal"]],
                 [tab EXCEPT ![c] = Scheduled(off)]}
    BY <2>1 DEF Disconnected
  <2>6. tab' \in [Clients -> Tab]
    <3> HIDE DEF off
    <3> QED BY <1>1, <2>3, <2>4, <2>5
  <2>7. /\ down' = [down EXCEPT ![s] = <<>>]
        /\ up' = up \/ up' = [up EXCEPT ![s] = Append(@, Close("lost"))]
    BY <2>1 DEF Disconnected
  <2> HIDE DEF s
  <2> QED BY <1>2, <1>4, <1>5, <2>6, <2>7, CloseFrame, StillSafe
<1>7. CASE msg.kind = "peers"
  <2> DEFINE t == [tab[c] EXCEPT !.live = TRUE, !.peers = msg.peers]
             m == [kind |-> "presence", state |-> t.mine]
  <2>1. /\ tab' = [tab EXCEPT ![c] = t] /\ down' = [down EXCEPT ![s] = Tail(@)]
        /\ up' = up \/ up' = Announced(c, t)
    BY <1>7 DEF ClientReceive, Peers
  <2>2. msg.peers \in Shown
    BY <1>4, <1>7 DEF DownFrames, Closes
  <2>3. t \in Tab
    BY <1>1, <2>2 DEF Tab, Shown
  <2>4. /\ m \in UpFrames /\ m.kind # "hello"
        /\ up' = up \/ up' = [up EXCEPT ![t.socket] = Append(@, m)]
    BY <2>1, <2>3, AnnouncedFrame
  <2>5. tab' \in [Clients -> Tab]
    BY <1>1, <2>1, <2>3
  <2> HIDE DEF t, m, s
  <2> QED BY <1>2, <1>4, <1>5, <2>1, <2>4, <2>5, StillSafe
<1>8. CASE msg.kind = "presence"
  <2>1. /\ tab' = [tab EXCEPT ![c].peers[msg.who] = msg.state]
        /\ down' = [down EXCEPT ![s] = Tail(@)] /\ up' = up
    BY <1>8 DEF ClientReceive
  <2>2. msg.who \in Clients /\ msg.state \in States \cup {None}
    BY <1>4, <1>8 DEF DownFrames, Closes
  <2>3. [tab[c] EXCEPT !.peers = [tab[c].peers EXCEPT ![msg.who] = msg.state]] \in Tab
    BY <1>1, <2>2 DEF Tab
  <2>4. tab' = [tab EXCEPT ![c] =
                  [tab[c] EXCEPT !.peers = [tab[c].peers EXCEPT ![msg.who] = msg.state]]]
    BY <2>1
  <2>5. tab' \in [Clients -> Tab]
    BY <1>1, <2>3, <2>4
  <2> HIDE DEF s
  <2> QED BY <1>2, <1>4, <1>5, <2>1, <2>5, CloseFrame, StillSafe
<1>9. CASE msg.kind = "poll"
  <2> DEFINE m == [kind |-> "presence", state |-> tab[c].mine]
  <2>1. /\ up' = up \/ up' = Announced(c, tab[c])
        /\ down' = [down EXCEPT ![s] = Tail(@)] /\ tab' = tab
    BY <1>9 DEF ClientReceive
  <2>2. /\ m \in UpFrames /\ m.kind # "hello"
        /\ up' = up \/ up' = [up EXCEPT ![s] = Append(@, m)]
    BY <1>1, <2>1, AnnouncedFrame
  <2> HIDE DEF m, s
  <2> QED BY <1>1, <1>2, <1>4, <1>5, <2>1, <2>2, StillSafe
<1>10. msg.kind \in {"close", "peers", "presence", "poll"}
  BY <1>4 DEF DownFrames, Closes
<1> QED BY <1>6, <1>7, <1>8, <1>9, <1>10

\* A client whose socket or token fails.
LEMMA DropSafe ==
  ASSUME SessionInv, NEW c \in Clients, HeartbeatTimeout(c) \/ TokenFails(c)
  PROVE  SessionInv'
<1>1. /\ tab \in [Clients -> Tab] /\ down \in [Sockets -> Seq(DownFrames)] /\ tab[c] \in Tab
      /\ sets \in 0..MaxSets /\ wakes \in 0..MaxWakes /\ trouble \in 0..MaxTrouble
  BY DEF SessionInv, SessionTypeOK
<1>2. UNCHANGED <<sock, entry, sets, wakes, lost>> /\ trouble < MaxTrouble /\ trouble' = trouble + 1
  BY DEF HeartbeatTimeout, TokenFails, Trouble
<1>3. trouble' \in 0..MaxTrouble
  BY <1>1, <1>2, SessionAssumption
<1>4. CASE HeartbeatTimeout(c)
  <2> DEFINE s == tab[c].socket
             off == Scheduled(Offline([tab[c] EXCEPT !.socket = None]))
  <2>1. /\ tab' = [tab EXCEPT ![c] = off]
        /\ up' = [up EXCEPT ![s] = Append(@, Close("lost"))]
        /\ down' = [down EXCEPT ![s] = <<>>]
    BY <1>4 DEF HeartbeatTimeout
  <2>2. [tab[c] EXCEPT !.socket = None] \in Tab
    BY <1>1 DEF Tab
  <2>3. off \in Tab
    BY <2>2, OfflineTyped
  <2>4. <<>> \in Seq(DownFrames)
    OBVIOUS
  <2> HIDE DEF s, off
  <2>5. tab' \in [Clients -> Tab] /\ down' \in [Sockets -> Seq(DownFrames)]
    BY <1>1, <2>1, <2>3, <2>4, ExceptTyped
  <2> QED BY <1>1, <1>2, <1>3, <2>1, <2>5, CloseFrame, StillSafe
<1>5. CASE TokenFails(c)
  <2> DEFINE off == Scheduled([tab[c] EXCEPT !.due = FALSE, !.socket = None])
  <2>1. tab' = [tab EXCEPT ![c] = off] /\ UNCHANGED <<up, down>>
    BY <1>5 DEF TokenFails
  <2>2. [tab[c] EXCEPT !.due = FALSE, !.socket = None] \in Tab
    BY <1>1 DEF Tab
  <2>3. off \in Tab
    BY <2>2, OfflineTyped
  <2> HIDE DEF off
  <2> QED BY <1>1, <1>2, <1>3, <2>1, <2>3, CloseFrame, StillSafe
<1> QED BY <1>4, <1>5

LEMMA LeaveSafe ==
  ASSUME SessionInv, NEW c \in Clients, Leave(c)
  PROVE  SessionInv'
<1>1. /\ tab \in [Clients -> Tab] /\ down \in [Sockets -> Seq(DownFrames)] /\ tab[c] \in Tab
      /\ sets \in 0..MaxSets /\ wakes \in 0..MaxWakes /\ trouble \in 0..MaxTrouble
      /\ sock \in [Sockets -> SocketRecords]
  BY DEF SessionInv, SessionTypeOK
<1>2. PICK s : s = tab[c].socket
  OBVIOUS
<1> DEFINE gone == [Offline(tab[c]) EXCEPT !.status = "idle", !.socket = None,
                                           !.due = FALSE, !.mine = None]
<1>3. /\ tab' = [tab EXCEPT ![c] = gone]
      /\ up' = up \/ up' = [up EXCEPT ![s] = Append(@, Close("lost"))]
      /\ down' = down \/ down' = [down EXCEPT ![s] = <<>>]
      /\ \/ sock' = sock
         \/ /\ s # None /\ sock[s].conn = "dialing"
            /\ sock' = [sock EXCEPT ![s] = [sock[s] EXCEPT !.conn = "gone"]]
      /\ UNCHANGED <<entry, sets, wakes, lost>>
      /\ trouble < MaxTrouble /\ trouble' = trouble + 1
  BY <1>2 DEF Leave, Trouble
<1>4. gone \in Tab
  <2>1. Offline(tab[c]) \in Tab
    BY <1>1, OfflineTyped
  <2> QED BY <2>1 DEF Tab
<1> HIDE DEF gone
<1>5. <<>> \in Seq(DownFrames)
  OBVIOUS
<1>6. tab' \in [Clients -> Tab] /\ down' \in [Sockets -> Seq(DownFrames)]
  <2>1. /\ [tab EXCEPT ![c] = gone] \in [Clients -> Tab]
        /\ [down EXCEPT ![s] = <<>>] \in [Sockets -> Seq(DownFrames)]
    BY <1>1, <1>4, <1>5, ExceptTyped
  <2> QED BY <1>1, <1>3, <2>1
<1>7. s \in Sockets \cup {None}
  BY <1>1, <1>2 DEF Tab
<1>8. sock' \in [Sockets -> SocketRecords]
  <2>1. CASE sock' = sock
    BY <1>1, <2>1
  <2>2. CASE /\ s # None /\ sock[s].conn = "dialing"
             /\ sock' = [sock EXCEPT ![s] = [sock[s] EXCEPT !.conn = "gone"]]
    <3>1. [sock[s] EXCEPT !.conn = "gone"] \in SocketRecords
      BY <1>1, <1>7, <2>2 DEF SocketRecords
    <3> QED BY <1>1, <2>2, <3>1, ExceptTyped
  <2> QED BY <1>3, <2>1, <2>2
<1>9. \A u \in Sockets : /\ sock'[u].owner = sock[u].owner /\ sock'[u].ready = sock[u].ready
                         /\ sock'[u].defunct = sock[u].defunct
                         /\ \/ sock'[u].conn = sock[u].conn
                            \/ sock[u].conn = "dialing" /\ sock'[u].conn = "gone"
  <2>1. CASE sock' = sock
    BY <2>1
  <2>2. CASE /\ sock[s].conn = "dialing"
             /\ sock' = [sock EXCEPT ![s] = [sock[s] EXCEPT !.conn = "gone"]]
    BY <1>1, <2>2 DEF SocketRecords
  <2> QED BY <1>3, <2>1, <2>2
<1>10. trouble' \in 0..MaxTrouble
  BY <1>1, <1>3, SessionAssumption
<1>11. entry' = entry /\ lost' = lost /\ sets' \in 0..MaxSets /\ wakes' \in 0..MaxWakes
  BY <1>1, <1>3
<1>12. up' = up \/ up' = [up EXCEPT ![s] = Append(@, Close("lost"))]
  BY <1>3
<1> QED BY <1>6, <1>8, <1>9, <1>10, <1>11, <1>12, CloseFrame, SendSafe

LEMMA WakeSafe ==
  ASSUME SessionInv, NEW c \in Clients, Wake(c)
  PROVE  SessionInv'
<1>1. /\ tab \in [Clients -> Tab] /\ down \in [Sockets -> Seq(DownFrames)] /\ tab[c] \in Tab
      /\ sets \in 0..MaxSets /\ wakes \in 0..MaxWakes /\ trouble \in 0..MaxTrouble
  BY DEF SessionInv, SessionTypeOK
<1>2. /\ wakes < MaxWakes /\ wakes' = wakes + 1
      /\ tab' = [tab EXCEPT ![c] = [tab[c] EXCEPT !.due = TRUE]]
      /\ UNCHANGED <<sock, entry, up, down, sets, trouble, lost>>
  BY DEF Wake
<1>3. [tab[c] EXCEPT !.due = TRUE] \in Tab
  BY <1>1 DEF Tab
<1>4. wakes' \in 0..MaxWakes
  BY <1>1, <1>2, SessionAssumption
<1> QED BY <1>1, <1>2, <1>3, <1>4, ExceptTyped, CloseFrame, StillSafe

LEMMA PresenceSentSafe ==
  ASSUME SessionInv, NEW c \in Clients,
         SendTimer(c) \/ \E state \in States \cup {None} : SetPresence(c, state)
  PROVE  SessionInv'
<1>1. /\ tab \in [Clients -> Tab] /\ down \in [Sockets -> Seq(DownFrames)] /\ tab[c] \in Tab
      /\ sets \in 0..MaxSets /\ wakes \in 0..MaxWakes /\ trouble \in 0..MaxTrouble
  BY DEF SessionInv, SessionTypeOK
<1>2. CASE SendTimer(c)
  <2> DEFINE m == [kind |-> "presence", state |-> tab[c].mine]
  <2>1. /\ tab' = [tab EXCEPT ![c] = [tab[c] EXCEPT !.sending = FALSE]]
        /\ up' = Announced(c, tab[c])
        /\ UNCHANGED <<sock, entry, down, sets, wakes, trouble, lost>>
    BY <1>2 DEF SendTimer, counts
  <2>2. [tab[c] EXCEPT !.sending = FALSE] \in Tab
    BY <1>1 DEF Tab
  <2>3. /\ m \in UpFrames /\ m.kind # "hello"
        /\ up' = up \/ up' = [up EXCEPT ![tab[c].socket] = Append(@, m)]
    BY <1>1, <2>1, AnnouncedFrame
  <2> HIDE DEF m
  <2> QED BY <1>1, <2>1, <2>2, <2>3, ExceptTyped, StillSafe
<1>3. CASE \E state \in States \cup {None} : SetPresence(c, state)
  <2>1. PICK state \in States \cup {None} : SetPresence(c, state)
    BY <1>3
  <2> DEFINE t == [tab[c] EXCEPT !.mine = state]
             m == [kind |-> "presence", state |-> t.mine]
             late == [t EXCEPT !.sending = TRUE]
  <2>2. /\ sets < MaxSets /\ sets' = sets + 1
        /\ \/ up' = Announced(c, t) /\ tab' = [tab EXCEPT ![c] = t]
           \/ up' = up /\ tab' = [tab EXCEPT ![c] = late]
        /\ UNCHANGED <<sock, entry, down, wakes, trouble, lost>>
    BY <2>1 DEF SetPresence
  <2>3. t \in Tab /\ late \in Tab
    BY <1>1 DEF Tab
  <2>4. /\ m \in UpFrames /\ m.kind # "hello"
        /\ up' = up \/ up' = [up EXCEPT ![t.socket] = Append(@, m)]
    BY <2>2, <2>3, AnnouncedFrame
  <2>5. sets' \in 0..MaxSets
    BY <1>1, <2>2, SessionAssumption
  <2> HIDE DEF m, t, late
  <2>6. tab' \in [Clients -> Tab]
    BY <1>1, <2>2, <2>3, ExceptTyped
  <2> QED BY <1>1, <2>2, <2>4, <2>5, <2>6, StillSafe
<1> QED BY <1>2, <1>3

LEMMA StepSession ==
  ASSUME SessionInv, Next
  PROVE  SessionInv'
<1>1. CASE Workspace
  BY <1>1, UpgradeSafe, ReceiveSafe, SocketClosedSafe, PokeSafe DEF Workspace
<1>2. CASE Client
  BY <1>2, OpenSocketSafe, OpenedSafe, ClientReceiveSafe, PresenceSentSafe DEF Client
<1>3. CASE Environment
  <2>1. CASE \E C \in {{c} : c \in Troubled} \cup {Clients}, mode \in {"kick", "refresh"} :
               Disconnect(C, mode)
    <3>1. {{c} : c \in Troubled} \cup {Clients} \subseteq SUBSET Clients
      BY SessionAssumption
    <3> QED BY <2>1, <3>1, DisconnectSafe
  <2>2. CASE \E s \in Sockets : Refused(s) \/ Expire(s) \/ Cut(s)
    BY <2>2, RefusedSafe, ExpireSafe, CutSafe
  <2>3. CASE \E c \in Clients : Wake(c) \/ TokenFails(c) \/ HeartbeatTimeout(c) \/ Leave(c)
    BY <2>3, WakeSafe, DropSafe, LeaveSafe
  <2> QED BY <1>3, <2>1, <2>2, <2>3, HibernateSafe DEF Environment
<1> QED BY <1>1, <1>2, <1>3, AnswerSafe, PresenceSentSafe DEF Next

-----------------------------------------------------------------------------
(* The theorems *)

\* The inductive invariant.
THEOREM SessionCorrect == SessionSpec => []SessionInv
<1>1. SessionInv /\ UNCHANGED vars => SessionInv'
  BY DEF SessionInv, SessionTypeOK, HelloOnce, IsHello, NewerWins, EntryOwned, Ready, Attached,
     Owner, vars, counts
<1>2. SessionInv /\ [Next]_vars => SessionInv'
  BY <1>1, StepSession
<1> QED BY InitSession, <1>2, PTL DEF SessionSpec

\* Every reachable state is well typed.
THEOREM SessionsTyped == SessionSpec => []SessionTypeOK
<1>1. SessionInv => SessionTypeOK
  BY DEF SessionInv
<1> QED BY SessionCorrect, <1>1, PTL

\* The workspace leaves a client at most one socket that is not closed.
THEOREM OneSocketEach == SessionSpec => []NewerWins
<1>1. SessionInv => NewerWins
  BY DEF SessionInv
<1> QED BY SessionCorrect, <1>1, PTL

\* No presence entry outlives its socket or belongs to another client's.
THEOREM EntriesAreOwned == SessionSpec => []EntryOwned
<1>1. SessionInv => EntryOwned
  BY DEF SessionInv
<1> QED BY SessionCorrect, <1>1, PTL
=============================================================================
