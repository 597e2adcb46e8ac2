---------------------------- MODULE Connections ----------------------------
(***************************************************************************)
(* Who knows which connection: the process-wide sets ConnectionManager::   *)
(* connections (the limit of open connections), RateController::sockets    *)
(* (whom bytes are moved for) and TorrentServer::clients (which torrents   *)
(* incoming peers can reach), and TorrentClient::connections of each       *)
(* torrent, over the life of torrents and connections.  The sets hold raw  *)
(* pointers; a torrent owns the connections it has opened, the server those*)
(* it has accepted.                                                        *)
(*                                                                         *)
(* PeerWireClient::abort() emits disconnected() within the call, except on *)
(* a connection that is still connecting: then nothing is emitted and the  *)
(* socket inside goes on connecting.                                       *)
(***************************************************************************)
EXTENDS Naturals, FiniteSets

CONSTANTS Torrents,
          Conns,             \* PeerWireClient objects; one that is freed can be used again
          MaxConnections     \* ConnectionManager's limit

ASSUME ConnectionsAssumption ==
  MaxConnections \in Nat /\ "server" \notin Torrents /\ "nobody" \notin Torrents

VARIABLES
  state,        \* TorrentClient::state; "Searching" stands for itself and all above it
  life,         \* of a torrent: "listed" by the dialog, "stopping" after its stop(),
                \* "doomed" by deleteLater(), "gone"
  verifying,    \* the files of the torrent are being verified
  due,          \* a verdict that can move the torrent's state is under way
  listening,    \* TorrentServer listens
  clients,      \* TorrentServer::clients, how often a torrent is in it
  list,         \* TorrentClient::connections
  manager,      \* ConnectionManager::connections
  sockets,      \* RateController::sockets
  sock,         \* of a connection: "none" (no object), "connecting", "connected", "closed",
                \* "doomed" by deleteLater()
  handler,      \* whose slots its signals reach: a torrent, "server" or "nobody"
  parent,       \* who deletes it when it is deleted itself: a torrent or "server"
  strays,       \* history: opened after the dialog gave the torrent up, or connecting when a pause forgot them
  listenFailed  \* history: torrents that found no port to listen on

torrentVars == <<state, life, verifying, due, listenFailed>>
serverVars  == <<listening, clients>>
connVars    == <<list, manager, sockets, sock, handler, parent, strays>>
vars == <<torrentVars, serverVars, connVars>>

States == {"Preparing", "Searching", "Paused", "Stopping", "Idle"}

TypeOK ==
  /\ state \in [Torrents -> States]
  /\ life \in [Torrents -> {"listed", "stopping", "doomed", "gone"}]
  /\ verifying \in [Torrents -> BOOLEAN] /\ due \in [Torrents -> BOOLEAN]
  /\ listening \in BOOLEAN
  /\ clients \in [Torrents -> 0..1]
  /\ list \in [Torrents -> SUBSET Conns]
  /\ manager \subseteq Conns /\ sockets \subseteq Conns
  /\ sock \in [Conns -> {"none", "connecting", "connected", "closed", "doomed"}]
  /\ handler \in [Conns -> Torrents \cup {"server", "nobody"}]
  /\ parent \in [Conns -> Torrents \cup {"server"}]
  /\ strays \subseteq Conns /\ listenFailed \subseteq Torrents

Exists(t) == life[t] # "gone"
Alive(c)  == sock[c] \in {"connecting", "connected", "closed"}
Dangling  == {c \in manager \cup sockets : sock[c] = "none"}

-----------------------------------------------------------------------------
\* Every torrent has been added to the list: start() registers it with the server.
Init ==
  /\ state = [t \in Torrents |-> "Preparing"] /\ life = [t \in Torrents |-> "listed"]
  /\ verifying = [t \in Torrents |-> TRUE] /\ due = [t \in Torrents |-> FALSE]
  /\ listening = FALSE /\ clients = [t \in Torrents |-> 1]
  /\ list = [t \in Torrents |-> {}] /\ manager = {} /\ sockets = {}
  /\ sock = [c \in Conns |-> "none"] /\ handler = [c \in Conns |-> "nobody"]
  /\ parent = [c \in Conns |-> "server"]
  /\ strays = {} /\ listenFailed = {}

canAddConnection == Cardinality(manager) < MaxConnections

\* Mutant: what the server accepts is not counted.
CreateUncounted(c, who, how) ==
  /\ sock[c] = "none" /\ c \notin manager \cup sockets
  /\ sock' = [sock EXCEPT ![c] = how]
  /\ handler' = [handler EXCEPT ![c] = who] /\ parent' = [parent EXCEPT ![c] = who]
  /\ manager' = (IF who = "server" THEN manager ELSE manager \cup {c})
  /\ sockets' = sockets \cup {c}

\* A new object, known to the rate controller and the connection manager.
Create(c, who, how) ==
  /\ sock[c] = "none" /\ c \notin manager \cup sockets
  /\ sock' = [sock EXCEPT ![c] = how]
  /\ handler' = [handler EXCEPT ![c] = who] /\ parent' = [parent EXCEPT ![c] = who]
  /\ manager' = manager \cup {c} /\ sockets' = sockets \cup {c}

\* Mutant: the rate controller is not told.
RemoveKeepingSockets(cs) == manager' = manager \ cs /\ sockets' = sockets

\* What both removeClient do to the sets.
RemoveFromSets(cs) == manager' = manager \ cs /\ sockets' = sockets \ cs

\* Mutant: the torrent's list is left alone.
ListsUnchanged(cs) == list

ListsWithout(cs) == [t \in Torrents |-> list[t] \ cs]

\* removeClient of the server or of a torrent, for the connections cs.
RemoveClients(cs) ==
  /\ RemoveFromSets(cs)
  /\ list' = ListsWithout(cs)
  /\ sock' = [c \in Conns |-> IF c \in cs THEN "doomed" ELSE sock[c]]

-----------------------------------------------------------------------------
\* fullVerificationDone, whatever the state: the server listens, or setError makes
\* the dialog delete the torrent, which stays registered with the server.
VerificationDone(t) ==
  /\ Exists(t) /\ verifying[t]
  /\ verifying' = [verifying EXCEPT ![t] = FALSE]
  /\ \/ /\ listening' = TRUE
        /\ state' = [state EXCEPT ![t] = "Searching"]
        /\ UNCHANGED <<life, listenFailed>>
     \/ /\ ~listening
        /\ listenFailed' = listenFailed \cup {t}
        /\ life' = [life EXCEPT ![t] = IF @ = "listed" THEN "doomed" ELSE @]
        /\ UNCHANGED <<listening, state>>
  /\ UNCHANGED <<due, clients, connVars>>

MayConnect(t) == state[t] \notin {"Stopping", "Idle", "Paused"}

\* A turn of connectToPeers: a connection to a free peer. There is none before the
\* tracker has been asked, which takes a verification and a port to listen on.
ConnectToPeer(t, c) ==
  /\ Exists(t) /\ MayConnect(t) /\ ~verifying[t] /\ t \notin listenFailed
  /\ canAddConnection
  /\ Create(c, t, "connecting")
  /\ list' = [list EXCEPT ![t] = @ \cup {c}]
  /\ strays' = IF life[t] = "listed" THEN strays ELSE strays \cup {c}
  /\ UNCHANGED <<torrentVars, serverVars>>

\* setupOutgoingConnection.
Connected(c) ==
  /\ sock[c] = "connecting"
  /\ sock' = [sock EXCEPT ![c] = "connected"]
  /\ UNCHANGED <<torrentVars, serverVars, list, manager, sockets, handler, parent, strays>>

\* incomingConnection, when it is accepted.
Incoming(c) ==
  /\ listening /\ canAddConnection /\ \E t \in Torrents : clients[t] > 0
  /\ Create(c, "server", "connected")
  /\ UNCHANGED <<torrentVars, serverVars, list, strays>>

\* processInfoHash for a torrent that is registered and runs: setupIncomingConnection.
HandshakeFor(c, t) ==
  /\ sock[c] = "connected" /\ handler[c] = "server"
  /\ clients[t] > 0 /\ Exists(t) /\ state[t] = "Searching"
  /\ handler' = [handler EXCEPT ![c] = t]
  /\ list' = [list EXCEPT ![t] = @ \cup {c}]
  /\ sockets' = sockets \cup {c}
  /\ UNCHANGED <<torrentVars, serverVars, manager, sock, parent, strays>>

\* processInfoHash for any other: TorrentServer::removeClient.
HandshakeForNobody(c) ==
  /\ sock[c] = "connected" /\ handler[c] = "server"
  /\ RemoveClients({c})
  /\ UNCHANGED <<torrentVars, serverVars, handler, parent, strays>>

\* error(): the peer has closed the connection or cannot be reached. Both removeClient slots listen to it.
Fails(c) ==
  /\ sock[c] \in {"connecting", "connected"} /\ handler[c] # "nobody"
  /\ RemoveClients({c})
  /\ UNCHANGED <<torrentVars, serverVars, handler, parent, strays>>

\* abort() after a message that makes no sense: disconnected() reaches a torrent,
\* but the server does not listen to it.
Aborts(c) ==
  /\ sock[c] = "connected"
  /\ IF handler[c] \in Torrents
       THEN RemoveClients({c})
       ELSE /\ sock' = [sock EXCEPT ![c] = "closed"]
            /\ UNCHANGED <<list, manager, sockets>>
  /\ UNCHANGED <<torrentVars, serverVars, handler, parent, strays>>

\* timeoutTimer: abort(), and infoHashReceived() of no hash, which the server takes
\* for a handshake. A connection that is connecting hears nothing of its abort.
TimesOut(c) ==
  /\ \/ handler[c] = "server" /\ sock[c] \in {"connected", "closed"}
     \/ handler[c] \in Torrents /\ sock[c] = "connected"
  /\ RemoveClients({c})
  /\ UNCHANGED <<torrentVars, serverVars, handler, parent, strays>>

-----------------------------------------------------------------------------
ConnectedOf(t)  == {c \in list[t] : sock[c] = "connected"}
ConnectingOf(t) == {c \in list[t] : sock[c] = "connecting"}

\* TorrentServer::removeClient(client).
Unregister(t) == [clients EXCEPT ![t] = 0]

\* setPaused(true): every connection is aborted, the list is cleared, the torrent is
\* unregistered. What is connecting stays in both sets.
Forget(t) ==
  /\ RemoveFromSets(ConnectedOf(t))
  /\ sock' = [c \in Conns |-> IF c \in ConnectedOf(t) THEN "doomed" ELSE sock[c]]
  /\ list' = [list EXCEPT ![t] = {}]
  /\ strays' = strays \cup ConnectingOf(t)
  /\ clients' = Unregister(t)
  /\ state' = [state EXCEPT ![t] = "Paused"]
  /\ UNCHANGED <<handler, parent>>

Pause(t) ==
  /\ life[t] = "listed" /\ state[t] = "Searching"
  /\ Forget(t)
  /\ UNCHANGED <<life, verifying, due, listening, listenFailed>>

\* handleFileError: a pause, and the dialog deletes the torrent if it still listens.
FileError(t) ==
  /\ Exists(t) /\ state[t] # "Paused"
  /\ Forget(t)
  /\ life' = [life EXCEPT ![t] = IF @ = "listed" THEN "doomed" ELSE @]
  /\ UNCHANGED <<verifying, due, listening, listenFailed>>

\* setPaused(false).
Resume(t) ==
  /\ life[t] = "listed" /\ state[t] = "Paused"
  /\ state' = [state EXCEPT ![t] = "Searching"]
  /\ clients' = [clients EXCEPT ![t] = @ + 1]
  /\ UNCHANGED <<life, verifying, due, listening, listenFailed, connVars>>

\* stop(): all connections leave the sets and are aborted, those connecting without
\* a signal. A torrent that does not run reports stopped() at once.
Stop(t) ==
  /\ life[t] = "listed"
  /\ clients' = Unregister(t)
  /\ RemoveFromSets(list[t])
  /\ sock' = [c \in Conns |-> IF c \in ConnectedOf(t) THEN "doomed" ELSE sock[c]]
  /\ list' = [list EXCEPT ![t] = {}]
  /\ IF state[t] = "Searching"
       THEN /\ state' = [state EXCEPT ![t] = "Stopping"]
            /\ life' = [life EXCEPT ![t] = "stopping"]
       ELSE /\ state' = [state EXCEPT ![t] = "Idle"]
            /\ life' = [life EXCEPT ![t] = "doomed"]
  /\ UNCHANGED <<verifying, due, listening, listenFailed, handler, parent, strays>>

\* The tracker client reports stopped(): torrentStopped.
StopAnswered(t) ==
  /\ life[t] = "stopping"
  /\ life' = [life EXCEPT ![t] = "doomed"]
  /\ UNCHANGED <<state, verifying, due, listenFailed, serverVars, connVars>>

\* blockReceived: the state becomes Downloading if a piece is complete, whatever it
\* was, and a verdict may be asked for.
BlockReceived(t) ==
  /\ Exists(t) /\ ~due[t] /\ \E c \in Conns : sock[c] = "connected" /\ handler[c] = t
  /\ due' = [due EXCEPT ![t] = TRUE]
  /\ state' \in {state, [state EXCEPT ![t] = "Searching"]}
  /\ UNCHANGED <<life, verifying, listenFailed, serverVars, connVars>>

\* pieceVerified: the first or the last piece sets the state, whatever it was.
Verdict(t) ==
  /\ Exists(t) /\ due[t]
  /\ due' = [due EXCEPT ![t] = FALSE]
  /\ state' \in {state, [state EXCEPT ![t] = "Searching"]}
  /\ UNCHANGED <<life, verifying, listenFailed, serverVars, connVars>>

\* The event loop deletes a connection.
DeleteConnection(c) ==
  /\ sock[c] = "doomed"
  /\ sock' = [sock EXCEPT ![c] = "none"]
  /\ handler' = [handler EXCEPT ![c] = "nobody"] /\ parent' = [parent EXCEPT ![c] = "server"]
  /\ strays' = strays \ {c}
  /\ UNCHANGED <<torrentVars, serverVars, list, manager, sockets>>

\* The event loop deletes a torrent and with it the connections it has opened;
\* nothing takes them out of the sets.
DeleteTorrent(t) ==
  /\ life[t] = "doomed"
  /\ life' = [life EXCEPT ![t] = "gone"]
  /\ LET own == {c \in Conns : parent[c] = t /\ sock[c] # "none"}
     IN /\ sock' = [c \in Conns |-> IF c \in own THEN "none" ELSE sock[c]]
        /\ handler' = [c \in Conns |-> IF handler[c] = t THEN "nobody" ELSE handler[c]]
        /\ parent' = [c \in Conns |-> IF c \in own THEN "server" ELSE parent[c]]
        /\ strays' = strays \ (own \ (manager \cup sockets))
  /\ list' = [list EXCEPT ![t] = {}]
  /\ UNCHANGED <<state, verifying, due, listenFailed, serverVars, manager, sockets>>

Next ==
  \/ \E t \in Torrents :
       \/ VerificationDone(t) \/ Pause(t) \/ FileError(t) \/ Resume(t) \/ Stop(t)
       \/ StopAnswered(t) \/ BlockReceived(t) \/ Verdict(t) \/ DeleteTorrent(t)
       \/ \E c \in Conns : ConnectToPeer(t, c) \/ HandshakeFor(c, t)
  \/ \E c \in Conns :
       \/ Connected(c) \/ Incoming(c) \/ HandshakeForNobody(c) \/ Fails(c)
       \/ Aborts(c) \/ TimesOut(c) \/ DeleteConnection(c)

Spec == Init /\ [][Next]_vars

-----------------------------------------------------------------------------
\* The limit of 250 holds though outgoing and incoming connections are added at
\* two places, and an incoming one passes from the server to a torrent.
LimitKept == Cardinality(manager) <= MaxConnections

\* A torrent's own list, the connection manager and the rate controller agree: what
\* a torrent lists exists, is its own, has a slot and is given bandwidth.
ListedAreKept ==
  \A t \in Torrents : \A c \in list[t] :
    c \in manager \cap sockets /\ Alive(c) /\ handler[c] = t

\* The sets keep no pointer to a deleted connection, whatever order torrents are
\* paused, stopped and deleted in - but for those a pause has forgotten while they were
\* connecting, and those that a torrent opens after its stop, revived by a late verdict.
OnlyStraysDangle == Dangling \subseteq strays

\* A live connection occupies a slot until its torrent is stopped.
LiveAreCounted ==
  \A c \in Conns : Alive(c) /\ c \notin manager =>
    handler[c] \in Torrents /\ life[handler[c]] # "listed"

\* While a torrent is paused it has no connection, but for those forgotten ones.
PausedIsQuiet ==
  \A t \in Torrents : life[t] = "listed" /\ state[t] = "Paused" =>
    {c \in Conns : Alive(c) /\ handler[c] = t} \subseteq strays

\* The server keeps no pointer to a deleted torrent, but for one that found no port.
RegisteredExist ==
  \A t \in Torrents : clients[t] > 0 => Exists(t) \/ t \in listenFailed
=============================================================================
