-------------------------------- MODULE Sessions --------------------------------
(***************************************************************************)
(* Sockets and presence.  The workspace keeps its sockets with their       *)
(* attachments, closes them for policy, and relays the presence of the     *)
(* clients over them (packages/server/src/do.ts); a client dials, redials  *)
(* and announces itself (packages/client/src/client.ts).                   *)
(*                                                                         *)
(* A handler of the workspace is one step: none of them awaits.  The       *)
(* delays of the client's timers are left out, and with them the           *)
(* difference between the immediate redial after a refresh and a paced     *)
(* one.  Pokes and pushes are in SyncSystem; here a poke is only a reason  *)
(* to walk the ready sockets.                                              *)
(***************************************************************************)
EXTENDS Naturals, Sequences, FiniteSets, SequencesExt

CONSTANTS
  Clients,
  States,      \* what a client announces
  None,        \* no socket, no presence
  Sockets,
  Troubled,    \* the clients whose connections meet trouble
  Troubles,    \* what else happens: TroubleKinds
  MaxTrouble,  \* how often
  MaxWakes,    \* online and visibilitychange events that find a client reconnecting
  MaxSets      \* calls of presence.set and presence.clear

TroubleKinds == {"cut", "heartbeat", "fail", "reject", "expire", "kick",
                 "refresh", "hibernate", "leave"}

ASSUME SessionAssumption ==
  /\ None \notin Clients \cup States \cup Sockets
  /\ Sockets \subseteq Nat /\ IsFiniteSet(Sockets) /\ IsFiniteSet(Clients)
  /\ Troubled \subseteq Clients /\ Troubles \subseteq TroubleKinds
  /\ {MaxTrouble, MaxWakes, MaxSets} \subseteq Nat

VARIABLES
  sock,     \* a socket: who dialled it, how far it came, its attachment
  entry,    \* #presence of the workspace
  tab,      \* the client
  up,       \* frames on their way to the workspace
  down,     \* frames on their way to the client
  sets,
  wakes,
  trouble,
  lost      \* history variable: whose entry hibernation dropped, not announced since

counts == <<sets, wakes, trouble>>
vars == <<sock, entry, tab, up, down, counts, lost>>

Owner(s) == sock[s].owner

Close(code) == [kind |-> "close", code |-> code]
Closing(s) == \E i \in DOMAIN down[s] : down[s][i].kind = "close"

\* 4403 and every other code in [4400, 4499], and 4409: the client gives up.
Permanent == {"policy", "superseded"}

-----------------------------------------------------------------------------
(* The workspace *)

\* ctx.getWebSockets(): accepted, and its close event not delivered yet.
Attached == {s \in Sockets : sock[s].conn \in {"accepted", "open"}}
Ready == {s \in Attached : sock[s].ready /\ ~sock[s].defunct}

\* A client drops the frames of a socket it no longer holds, all but the close.
Listening(s) == Owner(s) # None /\ tab[Owner(s)].socket = s /\ ~sock[s].broken

\* Mutant: the client's entry goes with any of its sockets.
EntriesOfClient(e, X) == {c \in Clients : e[c] # None /\ \E s \in X : Owner(s) = c}

Entries(e, X) == {c \in Clients : e[c] # None /\ e[c].socket \in X}
Gone(C) == [i \in 1..Cardinality(C) |->
              [kind |-> "presence", who |-> SetToSeq(C)[i], state |-> None]]

\* Closes the sockets X, frames going to the sockets of reached; k and e are
\* the sockets and the presence the handler has so far.  A socket past its
\* deadline is closed instead of being written to, and one whose link is down
\* may throw.  A closed socket loses its presence entry, which the others are
\* told, so that closing goes on until nothing new is closed; in which order
\* the others are told makes no difference to them.
FanOut(k, e, X, code, frames, reached) ==
  \E Y \in SUBSET (Ready \ X) :
    LET out == X \cup Y
        dropped == Entries(e, out)
        told == (IF dropped = {} THEN reached ELSE Ready) \ X
    IN /\ Y \subseteq {s \in told : sock[s].expired \/ sock[s].broken}
       /\ {s \in told : sock[s].expired} \subseteq Y
       /\ sock' = [s \in Sockets |-> [k[s] EXCEPT !.defunct = @ \/ s \in out]]
       /\ entry' = [c \in Clients |-> IF c \in dropped THEN None ELSE e[c]]
       /\ down' = [s \in Sockets |->
            IF s \in out
            THEN IF sock[s].defunct \/ sock[s].broken THEN down[s]
                 ELSE Append(down[s], Close(IF s \in X THEN code ELSE "refresh"))
            ELSE IF Listening(s)
            THEN down[s] \o (IF s \in reached THEN frames ELSE <<>>)
                         \o (IF s \in told THEN Gone(dropped) ELSE <<>>)
            ELSE down[s]]

Trouble(kind) == kind \in Troubles /\ trouble < MaxTrouble /\ trouble' = trouble + 1

\* Mutant: only sockets that said hello are superseded.
SupersededReady(s) == {t \in Ready : Owner(t) = Owner(s)}

\* fetch: the socket s is upgraded, those its client had are superseded.
Superseded(s) == {t \in Attached : Owner(t) = Owner(s)}

Upgrade(s) ==
  /\ sock[s].conn = "dialing"
  /\ FanOut([sock EXCEPT ![s].conn = "accepted"], entry, Superseded(s), "superseded", <<>>, {})
  /\ UNCHANGED <<tab, up, counts, lost>>

\* authorize in the worker refuses the upgrade, or the network does: the
\* workspace never hears of the socket.
Refused(s) ==
  /\ sock[s].conn = "dialing" /\ Owner(s) \in Troubled
  /\ sock' = [sock EXCEPT ![s].conn = "gone"]
  /\ \E code \in {"policy", "lost"} :
       /\ Trouble(IF code = "policy" THEN "reject" ELSE "fail")
       /\ down' = [down EXCEPT ![s] = <<Close(code)>>]
  /\ UNCHANGED <<entry, tab, up, sets, wakes, lost>>

\* handleHello: what the other clients announce follows the catch-up poke.
\* Both go to the socket itself, so a link that is down can throw.
Snapshot(c) == [kind |-> "peers",
                peers |-> [d \in Clients |-> IF d = c \/ entry[d] = None THEN None
                                             ELSE entry[d].state]]

Hello(s) ==
  /\ entry' = entry
  /\ \/ /\ sock' = [sock EXCEPT ![s].ready = TRUE]
        /\ down' = IF Listening(s) THEN [down EXCEPT ![s] = Append(@, Snapshot(Owner(s)))]
                   ELSE down
     \/ /\ sock[s].broken
        /\ sock' = [sock EXCEPT ![s].ready = TRUE, ![s].defunct = TRUE]
        /\ down' = down
  /\ UNCHANGED lost

\* Mutant: a clear is stored like any other state.
PresenceStored(s, state) ==
  /\ IF sock[s].ready
     THEN FanOut(sock, [entry EXCEPT ![Owner(s)] = [socket |-> s, state |-> state]], {}, "none",
                 <<[kind |-> "presence", who |-> Owner(s), state |-> state]>>, Ready \ {s})
     ELSE UNCHANGED <<sock, entry, down>>
  /\ UNCHANGED lost

\* handlePresence.  A clear for which there is no entry is not relayed.
Presence(s, state) ==
  LET c == Owner(s)
      set == IF state = None THEN None ELSE [socket |-> s, state |-> state]
  IN /\ IF ~sock[s].ready \/ (state = None /\ entry[c] = None)
        THEN UNCHANGED <<sock, entry, down>>
        ELSE FanOut(sock, [entry EXCEPT ![c] = set], {}, "none",
                    <<[kind |-> "presence", who |-> c, state |-> state]>>, Ready \ {s})
     /\ lost' = IF sock[s].ready /\ state # None THEN lost \ {c} ELSE lost

\* Mutant: the frames of a socket the workspace closed are still handled.
ReceiveLate(s) ==
  /\ s \in Attached /\ up[s] # <<>> /\ Head(up[s]).kind # "close"
  /\ up' = [up EXCEPT ![s] = Tail(@)]
  /\ IF Head(up[s]).kind = "hello" THEN Hello(s) ELSE Presence(s, Head(up[s]).state)
  /\ UNCHANGED <<tab, counts>>

\* webSocketMessage: the frames of a socket the workspace closed are dropped,
\* and a socket past its deadline is closed.
Receive(s) ==
  /\ s \in Attached /\ up[s] # <<>> /\ Head(up[s]).kind # "close"
  /\ up' = [up EXCEPT ![s] = Tail(@)]
  /\ LET msg == Head(up[s])
     IN CASE sock[s].defunct -> UNCHANGED <<sock, entry, down, lost>>
          [] ~sock[s].defunct /\ sock[s].expired ->
               FanOut(sock, entry, {s}, "refresh", <<>>, {}) /\ UNCHANGED lost
          [] ~sock[s].defunct /\ ~sock[s].expired /\ msg.kind = "hello" -> Hello(s)
          [] OTHER -> Presence(s, msg.state)
  /\ UNCHANGED <<tab, counts>>

\* webSocketClose and webSocketError.
SocketClosed(s) ==
  /\ s \in Attached /\ up[s] # <<>> /\ Head(up[s]).kind = "close"
  /\ up' = [up EXCEPT ![s] = <<>>]
  /\ FanOut([sock EXCEPT ![s].conn = "gone"], entry, {s}, "lost", <<>>, {})
  /\ UNCHANGED <<tab, counts, lost>>

\* A poke for somebody's push: what closes an idle socket past its deadline.
Poke ==
  /\ \E s \in Ready : sock[s].expired
  /\ FanOut(sock, entry, {}, "none", <<>>, Ready)
  /\ UNCHANGED <<tab, up, counts, lost>>

Expire(s) ==
  /\ s \in Attached /\ ~sock[s].expired /\ ~sock[s].defunct /\ Owner(s) \in Troubled
  /\ Trouble("expire")
  /\ sock' = [sock EXCEPT ![s].expired = TRUE]
  /\ UNCHANGED <<entry, tab, up, down, sets, wakes, lost>>

\* POST disconnect, with a clientId or without.
Disconnect(C, mode) ==
  /\ Trouble(mode)
  /\ FanOut(sock, entry, {s \in Attached : Owner(s) \in C},
            IF mode = "kick" THEN "policy" ELSE "refresh", <<>>, {})
  /\ UNCHANGED <<tab, up, sets, wakes, lost>>

\* The workspace hibernates, and the next event wakes it: the constructor
\* polls the ready sockets before that event is handled.
Hibernate ==
  /\ Ready # {}
  /\ Trouble("hibernate")
  /\ lost' = lost \cup {c \in Clients : entry[c] # None}
  /\ FanOut(sock, [c \in Clients |-> None], {}, "none", <<[kind |-> "poll"]>>, Ready)
  /\ UNCHANGED <<tab, up, sets, wakes>>

-----------------------------------------------------------------------------
(* The network *)

\* The link dies.  What was on its way to the client is lost; the workspace
\* may still get what was on its way there.  Each side learns of it when it
\* takes the close from its queue: the client by its heartbeat, at the latest.
Cut(s) ==
  /\ s \in Attached /\ ~sock[s].broken /\ Owner(s) \in Troubled
  /\ Trouble("cut")
  /\ sock' = [sock EXCEPT ![s].broken = TRUE]
  /\ down' = [down EXCEPT ![s] = <<Close("lost")>>]
  /\ \E n \in 0..Len(up[s]) :
       /\ \A i \in 1..n : up[s][i].kind # "close"
       /\ up' = [up EXCEPT ![s] = Append(SubSeq(@, 1, n), Close("lost"))]
  /\ UNCHANGED <<entry, tab, sets, wakes, lost>>

\* The client's network stack answers the close of a socket nobody holds.
Answer(s) ==
  /\ s \in Attached /\ ~sock[s].broken /\ ~Listening(s) /\ Closing(s)
  /\ down' = [down EXCEPT ![s] = <<>>]
  /\ up' = [up EXCEPT ![s] = Append(@, Close("lost"))]
  /\ UNCHANGED <<sock, entry, tab, counts, lost>>

-----------------------------------------------------------------------------
(* The client *)

Stopped(c) == tab[c].status = "idle"

\* The frame the client sends; a send on a socket that is not open
\* throws, and the client ignores that.
Sent(s, frame) ==
  IF s # None /\ sock[s].conn = "open" /\ ~sock[s].broken
  THEN [up EXCEPT ![s] = Append(@, frame)] ELSE up

\* What presenceDisconnected leaves.
Offline(t) == [t EXCEPT !.live = FALSE, !.sending = FALSE, !.peers = [d \in Clients |-> None]]

\* scheduleReconnect.
Scheduled(t) == IF t.status \in {"fatal", "idle"} THEN t
                ELSE [t EXCEPT !.status = "reconnecting", !.due = TRUE]

\* wake: connects at once, also when a dial is already under way.  A later
\* connect makes the answer to an earlier token request void.
Wake(c) ==
  /\ tab[c].status = "reconnecting" /\ wakes < MaxWakes /\ c \in Troubled
  /\ wakes' = wakes + 1
  /\ tab' = [tab EXCEPT ![c].due = TRUE]
  /\ UNCHANGED <<sock, entry, up, down, sets, trouble, lost>>

Unused == {s \in Sockets : /\ sock[s].conn \in {"free", "gone"}
                           /\ \A c \in Clients : tab[c].socket # s}

\* connect and openSocket, when the timer has fired and the token is there.  A
\* socket the client still has is not closed; from now on it is ignored.
OpenSocket(c) ==
  /\ tab[c].due
  /\ \E s \in Unused :
        /\ \A u \in Unused : s <= u
        /\ sock' = [sock EXCEPT ![s] = [owner |-> c, conn |-> "dialing", ready |-> FALSE,
                        defunct |-> FALSE, expired |-> FALSE, broken |-> FALSE]]
        /\ up' = [up EXCEPT ![s] = <<>>]
        /\ down' = [down EXCEPT ![s] = <<>>]
        /\ tab' = [tab EXCEPT ![c].due = FALSE, ![c].socket = s]
  /\ UNCHANGED <<entry, counts, lost>>

\* The token provider rejects.
TokenFails(c) ==
  /\ tab[c].due /\ c \in Troubled
  /\ Trouble("fail")
  /\ tab' = [tab EXCEPT ![c] = Scheduled([@ EXCEPT !.due = FALSE, !.socket = None])]
  /\ UNCHANGED <<sock, entry, up, down, sets, wakes, lost>>

\* The socket's open event: the client says hello.
Opened(c) ==
  LET s == tab[c].socket
  IN /\ s # None /\ sock[s].conn = "accepted" /\ ~sock[s].broken
     /\ sock' = [sock EXCEPT ![s].conn = "open"]
     /\ up' = [up EXCEPT ![s] = Append(@, [kind |-> "hello"])]
     /\ tab' = [tab EXCEPT ![c].status = "syncing"]
     /\ UNCHANGED <<entry, down, counts, lost>>

\* onDisconnect; fatal when the code is permanent.  The close is answered; the
\* workspace does not look at the code of the answer.
Disconnected(c, code) ==
  LET s == tab[c].socket
      off == Offline([tab[c] EXCEPT !.socket = None])
  IN /\ tab' = [tab EXCEPT ![c] = IF code \in Permanent THEN [off EXCEPT !.status = "fatal"]
                                  ELSE Scheduled(off)]
     /\ up' = IF s \in Attached /\ ~sock[s].broken
              THEN [up EXCEPT ![s] = Append(@, Close("lost"))] ELSE up
     /\ down' = [down EXCEPT ![s] = <<>>]

\* sendPresence.
Announced(c, t) ==
  IF t.live THEN Sent(t.socket, [kind |-> "presence", state |-> t.mine]) ELSE up

\* onMessage: the snapshot is also the signal to announce oneself.
Peers(c, peers) ==
  LET t == [tab[c] EXCEPT !.live = TRUE, !.peers = peers]
  IN /\ tab' = [tab EXCEPT ![c] = t]
     /\ up' = IF t.mine = None THEN up ELSE Announced(c, t)

ClientReceive(c) ==
  LET s == tab[c].socket
  IN /\ s # None /\ down[s] # <<>>
     /\ sock[s].conn = "accepted" => Head(down[s]).kind = "close"
     /\ LET msg == Head(down[s])
            rest == [down EXCEPT ![s] = Tail(@)]
        IN CASE msg.kind = "close" -> Disconnected(c, msg.code)
             [] msg.kind = "peers" -> Peers(c, msg.peers) /\ down' = rest
             [] msg.kind = "presence" ->
                  /\ tab' = [tab EXCEPT ![c].peers[msg.who] = msg.state]
                  /\ down' = rest /\ up' = up
             [] msg.kind = "poll" ->
                  /\ up' = IF tab[c].mine = None THEN up ELSE Announced(c, tab[c])
                  /\ down' = rest /\ tab' = tab
     /\ UNCHANGED <<sock, entry, counts, lost>>

\* The heartbeat's deadline passes although the link is only slow: the client
\* drops the socket, and the workspace still gets what was sent on it.
HeartbeatTimeout(c) ==
  LET s == tab[c].socket
  IN /\ s # None /\ sock[s].conn = "open" /\ ~sock[s].broken /\ c \in Troubled
     /\ Trouble("heartbeat")
     /\ tab' = [tab EXCEPT ![c] = Scheduled(Offline([@ EXCEPT !.socket = None]))]
     /\ up' = [up EXCEPT ![s] = Append(@, Close("lost"))]
     /\ down' = [down EXCEPT ![s] = <<>>]
     /\ UNCHANGED <<sock, entry, sets, wakes, lost>>

\* destroy.
Leave(c) ==
  /\ ~Stopped(c) /\ c \in Troubled
  /\ Trouble("leave")
  /\ LET s == tab[c].socket
     IN /\ tab' = [tab EXCEPT ![c] = [Offline(@) EXCEPT !.status = "idle", !.socket = None,
                                      !.due = FALSE, !.mine = None]]
        /\ up' = IF s \in Attached /\ ~sock[s].broken
                 THEN [up EXCEPT ![s] = Append(@, Close("lost"))] ELSE up
        /\ down' = IF s = None THEN down ELSE [down EXCEPT ![s] = <<>>]
        /\ sock' = IF s # None /\ sock[s].conn = "dialing" THEN [sock EXCEPT ![s].conn = "gone"]
                   ELSE sock
  /\ UNCHANGED <<entry, sets, wakes, lost>>

\* presence.set and clear: sent at once, or with the pending send, or at the
\* end of the throttle window.
SetPresence(c, state) ==
  LET t == [tab[c] EXCEPT !.mine = state]
  IN /\ ~Stopped(c) /\ sets < MaxSets /\ state # tab[c].mine
     /\ sets' = sets + 1
     /\ \/ /\ ~t.sending
           /\ up' = Announced(c, t)
           /\ tab' = [tab EXCEPT ![c] = t]
        \/ /\ tab' = [tab EXCEPT ![c] = [t EXCEPT !.sending = TRUE]]
           /\ up' = up
     /\ UNCHANGED <<sock, entry, down, wakes, trouble, lost>>

SendTimer(c) ==
  /\ tab[c].sending
  /\ tab' = [tab EXCEPT ![c].sending = FALSE]
  /\ up' = Announced(c, tab[c])
  /\ UNCHANGED <<sock, entry, down, counts, lost>>

-----------------------------------------------------------------------------

Init ==
  /\ sock = [s \in Sockets |-> [owner |-> None, conn |-> "free", ready |-> FALSE,
                                defunct |-> FALSE, expired |-> FALSE, broken |-> FALSE]]
  /\ entry = [c \in Clients |-> None]
  /\ tab = [c \in Clients |-> [status |-> "connecting", socket |-> None, due |-> TRUE,
                               mine |-> None, live |-> FALSE,
                               sending |-> FALSE, peers |-> [d \in Clients |-> None]]]
  /\ up = [s \in Sockets |-> <<>>]
  /\ down = [s \in Sockets |-> <<>>]
  /\ sets = 0 /\ wakes = 0 /\ trouble = 0 /\ lost = {}

Workspace ==
  \/ \E s \in Sockets : Upgrade(s) \/ Receive(s) \/ SocketClosed(s)
  \/ Poke

Client ==
  \E c \in Clients : OpenSocket(c) \/ Opened(c) \/ ClientReceive(c) \/ SendTimer(c)

Environment ==
  \/ \E s \in Sockets : Refused(s) \/ Expire(s) \/ Cut(s)
  \/ \E c \in Clients : Wake(c) \/ TokenFails(c) \/ HeartbeatTimeout(c) \/ Leave(c)
  \/ \E C \in {{c} : c \in Troubled} \cup {Clients}, mode \in {"kick", "refresh"} : Disconnect(C, mode)
  \/ Hibernate

Next ==
  \/ Workspace
  \/ Client
  \/ \E s \in Sockets : Answer(s)
  \/ \E c \in Clients, state \in States \cup {None} : SetPresence(c, state)
  \/ Environment

\* Frames on a link arrive, timers fire, tokens come, closes are answered.
SessionSpec == Init /\ [][Next]_vars

SessionFairSpec ==
  /\ SessionSpec
  /\ \A s \in Sockets : WF_vars(Upgrade(s)) /\ WF_vars(Receive(s)) /\ WF_vars(SocketClosed(s))
                        /\ WF_vars(Answer(s))
  /\ \A c \in Clients : WF_vars(OpenSocket(c)) /\ WF_vars(Opened(c))
                        /\ WF_vars(ClientReceive(c)) /\ WF_vars(SendTimer(c))

-----------------------------------------------------------------------------
(* Properties *)

Tab == [status : {"connecting", "reconnecting", "syncing", "fatal", "idle"},
        socket : Sockets \cup {None}, due : BOOLEAN,
        mine : States \cup {None}, live : BOOLEAN, sending : BOOLEAN,
        peers : [Clients -> States \cup {None}]]

SocketRecords ==
  {r \in [owner : Clients \cup {None}, conn : {"free", "dialing", "accepted", "open", "gone"},
          ready : BOOLEAN, defunct : BOOLEAN, expired : BOOLEAN, broken : BOOLEAN] :
     r.owner = None => r.conn = "free"}

Shown == [Clients -> States \cup {None}]
Codes == {"lost", "refresh", "policy", "superseded"}
Closes == [kind : {"close"}, code : Codes]
UpFrames == [kind : {"hello"}] \cup [kind : {"presence"}, state : States \cup {None}] \cup Closes
DownFrames == [kind : {"presence"}, who : Clients, state : States \cup {None}]
                \cup [kind : {"peers"}, peers : Shown] \cup [kind : {"poll"}] \cup Closes

\* The type of the state.
SessionTypeOK ==
  /\ sock \in [Sockets -> SocketRecords]
  /\ entry \in [Clients -> [socket : Sockets, state : States] \cup {None}]
  /\ tab \in [Clients -> Tab]
  /\ up \in [Sockets -> Seq(UpFrames)] /\ down \in [Sockets -> Seq(DownFrames)]
  /\ sets \in 0..MaxSets /\ wakes \in 0..MaxWakes /\ trouble \in 0..MaxTrouble /\ lost \subseteq Clients

\* Of the sockets of a client the workspace has closed all but one, however
\* its upgrades, its frames and the closes of its old sockets cross.
NewerWins ==
  \A s, t \in Attached : s # t /\ Owner(s) = Owner(t) => sock[s].defunct \/ sock[t].defunct

\* A presence entry belongs to a socket of its client that said hello and that
\* the workspace has not closed: the close of any other socket leaves it alone.
EntryOwned ==
  \A c \in Clients : entry[c] # None => entry[c].socket \in Ready /\ Owner(entry[c].socket) = c

Up(c) == tab[c].socket \in Ready /\ tab[c].live

\* What a client shows of another is what that one last announced, and of one
\* that is gone nothing.  What hibernation forgot of a client that has not
\* announced itself since stays on the screens.
Shows(c, d) ==
  IF Up(d) /\ tab[d].mine # None THEN tab[c].peers[d] = tab[d].mine
  ELSE tab[c].peers[d] = None \/ d \in lost

\* However the connections break, a client ends up connected, unless it gave up
\* for good, and the clients that are connected end up showing each other's
\* presence, and only that.
PresenceSettles ==
  <>[]\A c \in Clients :
        \/ tab[c].status \in {"idle", "fatal"} /\ tab[c].socket = None
        \/ Up(c) /\ \A d \in Clients \ {c} : Shows(c, d)

\* messages.ts:71-77, of a client that has no second tab: the workspace
\* supersedes only sockets the client has given up.
SupersedesZombies ==
  \A c \in Clients : LET s == tab[c].socket IN
    s # None => \A i \in DOMAIN down[s] : down[s][i] # Close("superseded")

-----------------------------------------------------------------------------
(* The inductive invariant behind NewerWins and EntryOwned *)

IsHello(s, i) == up[s][i].kind = "hello"

\* A socket's hello is the only one on it, and comes before the socket is ready.
HelloOnce ==
  \A s \in Sockets :
    /\ sock[s].conn \in {"free", "dialing", "accepted"} =>
         ~sock[s].ready /\ \A i \in DOMAIN up[s] : ~IsHello(s, i)
    /\ \A i \in DOMAIN up[s] : IsHello(s, i) =>
         ~sock[s].ready /\ \A j \in DOMAIN up[s] : IsHello(s, j) => j = i

SessionInv == SessionTypeOK /\ HelloOnce /\ NewerWins /\ EntryOwned
=============================================================================
