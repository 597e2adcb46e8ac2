-------------------------- MODULE ConnectionsProofs --------------------------
(***************************************************************************)
(* Theorems about Connections, for any number of torrents and connections: *)
(* the limit, and what the process-wide sets of raw pointers hold.         *)
(***************************************************************************)
EXTENDS Connections, FiniteSetTheorems, TLAPS

Sets == manager \cup sockets

-----------------------------------------------------------------------------
\* The limit.

LimitInv == IsFiniteSet(manager) /\ LimitKept

LEMMA CreateLimit ==
  ASSUME LimitInv, canAddConnection, NEW c \in Conns, NEW who, NEW how, Create(c, who, how)
  PROVE  LimitInv'
<1>1. manager' = manager \cup {c} /\ c \notin manager
  BY DEF Create
<1>2. IsFiniteSet(manager') /\ Cardinality(manager') = Cardinality(manager) + 1
  BY <1>1, FS_AddElement DEF LimitInv
<1>3. Cardinality(manager) \in Nat
  BY FS_CardinalityType DEF LimitInv
<1> QED
  BY <1>2, <1>3, ConnectionsAssumption DEF LimitInv, LimitKept, canAddConnection

LEMMA RemoveLimit ==
  ASSUME LimitInv, manager' \subseteq manager
  PROVE  LimitInv'
<1>1. IsFiniteSet(manager') /\ Cardinality(manager') <= Cardinality(manager)
  BY FS_Subset DEF LimitInv
<1>2. Cardinality(manager) \in Nat /\ Cardinality(manager') \in Nat
  BY <1>1, FS_CardinalityType DEF LimitInv
<1> QED
  BY <1>1, <1>2, ConnectionsAssumption DEF LimitInv, LimitKept

LEMMA LimitStep == LimitInv /\ [Next]_vars => LimitInv'
<1> SUFFICES ASSUME LimitInv, [Next]_vars PROVE LimitInv'
  OBVIOUS
<1>1. CASE UNCHANGED vars
  BY <1>1, RemoveLimit DEF vars, connVars
<1>2. ASSUME NEW t \in Torrents,
             VerificationDone(t) \/ Pause(t) \/ FileError(t) \/ Resume(t) \/ Stop(t)
               \/ StopAnswered(t) \/ BlockReceived(t) \/ Verdict(t) \/ DeleteTorrent(t)
      PROVE  LimitInv'
  <2>1. manager' \subseteq manager
    BY <1>2 DEF VerificationDone, Pause, FileError, Resume, Stop, StopAnswered, BlockReceived,
                Verdict, DeleteTorrent, Forget, RemoveFromSets, connVars
  <2> QED
    BY <2>1, RemoveLimit
<1>3. ASSUME NEW t \in Torrents, NEW c \in Conns, ConnectToPeer(t, c)
      PROVE  LimitInv'
  BY <1>3, CreateLimit DEF ConnectToPeer
<1>4. ASSUME NEW c \in Conns, Incoming(c)
      PROVE  LimitInv'
  BY <1>4, CreateLimit DEF Incoming
<1>5. ASSUME NEW t \in Torrents, NEW c \in Conns, HandshakeFor(c, t)
      PROVE  LimitInv'
  BY <1>5, RemoveLimit DEF HandshakeFor
<1>6. ASSUME NEW c \in Conns,
             Connected(c) \/ HandshakeForNobody(c) \/ Fails(c) \/ Aborts(c) \/ TimesOut(c)
               \/ DeleteConnection(c)
      PROVE  LimitInv'
  <2>1. manager' \subseteq manager
    BY <1>6 DEF Connected, HandshakeForNobody, Fails, Aborts, TimesOut, DeleteConnection,
                RemoveClients, RemoveFromSets
  <2> QED
    BY <2>1, RemoveLimit
<1> QED
  BY <1>1, <1>2, <1>3, <1>4, <1>5, <1>6 DEF Next

\* However torrents open connections and peers come in, the limit holds.
THEOREM LimitHolds == Spec => []LimitKept
<1>1. Init => LimitInv
  BY FS_EmptySet, ConnectionsAssumption DEF Init, LimitInv, LimitKept
<1>2. LimitInv => LimitKept
  BY DEF LimitInv
<1> QED
  BY <1>1, <1>2, LimitStep, PTL DEF Spec
-----------------------------------------------------------------------------
\* The server's list of torrents.

\* A torrent is registered while the dialog lists it, a paused one is not.
Registration(t) ==
  /\ clients[t] > 0 => life[t] = "listed" \/ t \in listenFailed
  /\ state[t] = "Paused" => clients[t] = 0

\* The types of the connections, and what belongs to the torrents with Registration.
ConnTypes ==
  /\ list \in [Torrents -> SUBSET Conns]
  /\ manager \subseteq Conns /\ sockets \subseteq Conns
  /\ sock \in [Conns -> {"none", "connecting", "connected", "closed", "doomed"}]
  /\ handler \in [Conns -> Torrents \cup {"server", "nobody"}]
  /\ parent \in [Conns -> Torrents \cup {"server"}]
  /\ strays \subseteq Conns

TorrentTypes ==
  /\ state \in [Torrents -> States]
  /\ life \in [Torrents -> {"listed", "stopping", "doomed", "gone"}]
  /\ verifying \in [Torrents -> BOOLEAN] /\ due \in [Torrents -> BOOLEAN]
  /\ listening \in BOOLEAN
  /\ clients \in [Torrents -> 0..1]
  /\ listenFailed \subseteq Torrents

TorrentInv == TorrentTypes /\ \A t \in Torrents : Registration(t)

LEMMA TorrentInit == Init => TorrentInv
<1> SUFFICES ASSUME Init PROVE TorrentInv
  OBVIOUS
<1>1. TorrentTypes
  <2>1. clients \in [Torrents -> 0..1] /\ verifying \in [Torrents -> BOOLEAN]
    BY DEF Init
  <2>2. due \in [Torrents -> BOOLEAN] /\ listening \in BOOLEAN /\ listenFailed \subseteq Torrents
    BY DEF Init
  <2>3. state \in [Torrents -> States]
    BY DEF Init, States
  <2>4. life \in [Torrents -> {"listed", "stopping", "doomed", "gone"}]
    BY DEF Init
  <2> QED
    BY <2>1, <2>2, <2>3, <2>4 DEF TorrentTypes
<1>2. \A t \in Torrents : Registration(t)
  BY DEF Init, Registration
<1> QED
  BY <1>1, <1>2 DEF TorrentInv

LEMMA TorrentStep == TorrentInv /\ [Next]_vars => TorrentInv'
<1> SUFFICES ASSUME TorrentInv, [Next]_vars PROVE TorrentInv'
  OBVIOUS
<1> USE DEF TorrentInv, TorrentTypes, Registration
<1>1. CASE UNCHANGED <<torrentVars, serverVars>>
  BY <1>1 DEF torrentVars, serverVars
<1>2. ASSUME NEW t \in Torrents, VerificationDone(t)
      PROVE  TorrentInv'
  BY <1>2 DEF VerificationDone, States
<1>3. ASSUME NEW t \in Torrents, Pause(t) \/ FileError(t)
      PROVE  TorrentInv'
  BY <1>3 DEF Pause, FileError, Forget, Unregister, States
<1>4. ASSUME NEW t \in Torrents, Resume(t)
      PROVE  TorrentInv'
  BY <1>4 DEF Resume, States
<1>5. ASSUME NEW t \in Torrents, Stop(t)
      PROVE  TorrentInv'
  BY <1>5 DEF Stop, Unregister, States
<1>6. ASSUME NEW t \in Torrents, StopAnswered(t) \/ DeleteTorrent(t)
      PROVE  TorrentInv'
  BY <1>6 DEF StopAnswered, DeleteTorrent, serverVars
<1>7. ASSUME NEW t \in Torrents, BlockReceived(t) \/ Verdict(t)
      PROVE  TorrentInv'
  BY <1>7 DEF BlockReceived, Verdict, serverVars, States
<1>8. ASSUME NEW t \in Torrents, NEW c \in Conns, ConnectToPeer(t, c) \/ HandshakeFor(c, t)
      PROVE  UNCHANGED <<torrentVars, serverVars>>
  BY <1>8 DEF ConnectToPeer, HandshakeFor
<1>9. ASSUME NEW c \in Conns,
             Connected(c) \/ Incoming(c) \/ HandshakeForNobody(c) \/ Fails(c) \/ Aborts(c)
               \/ TimesOut(c) \/ DeleteConnection(c)
      PROVE  UNCHANGED <<torrentVars, serverVars>>
  BY <1>9 DEF Connected, Incoming, HandshakeForNobody, Fails, Aborts, TimesOut, DeleteConnection
<1>10. CASE UNCHANGED vars
  BY <1>10, <1>1 DEF vars
<1> QED
  BY <1>1, <1>2, <1>3, <1>4, <1>5, <1>6, <1>7, <1>8, <1>9, <1>10 DEF Next

\* The server keeps no pointer to a torrent the event loop has deleted, but for one
\* that found no port to listen on.
THEOREM RegisteredAreThere == Spec => []RegisteredExist
<1>1. TorrentInv => RegisteredExist
  BY DEF TorrentInv, TorrentTypes, Registration, RegisteredExist, Exists
<1> QED
  BY <1>1, TorrentInit, TorrentStep, PTL DEF Spec
-----------------------------------------------------------------------------
\* The sets of connections.

\* What a connection's fields say of each other: a torrent handles what it owns, what is
\* connecting is owned by a torrent, abort() closes only what the server handles, a
\* doomed connection has left the sets, a live one has a slot until its owner is stopped,
\* and an object that is gone dangles only as a stray.
Shape(c) ==
  /\ parent[c] \in Torrents => handler[c] = parent[c] /\ sock[c] # "none"
  /\ sock[c] = "connecting" => parent[c] \in Torrents
  /\ sock[c] = "closed" => handler[c] \notin Torrents
  /\ sock[c] = "doomed" => c \notin Sets
  /\ Alive(c) /\ c \notin manager => parent[c] \in Torrents /\ life[parent[c]] # "listed"
  /\ sock[c] = "none" /\ c \in Sets => c \in strays

\* How a torrent and a connection are related: the torrent lists its own live connections,
\* it owns none while its files are verified, and one that is in the sets, owned or live,
\* is listed or a stray - a stray, if the dialog has given the torrent up or it is paused.
Related(t, c) ==
  /\ c \in list[t] => c \in manager \cap sockets /\ Alive(c) /\ handler[c] = t
  /\ verifying[t] => parent[c] # t
  /\ parent[c] = t /\ c \in Sets =>
       /\ c \in list[t] \cup strays
       /\ life[t] # "listed" => c \in strays
  /\ Alive(c) /\ handler[c] = t /\ life[t] = "listed" =>
       /\ c \in list[t] \cup strays
       /\ state[t] = "Paused" => c \in strays

ConnInv ==
  /\ TorrentInv /\ ConnTypes
  /\ \A c \in Conns : Shape(c)
  /\ \A t \in Torrents, c \in Conns : Related(t, c)

LEMMA ConnInit == Init => ConnInv
<1> SUFFICES ASSUME Init PROVE ConnInv
  OBVIOUS
<1>1. ConnTypes
  BY DEF Init, ConnTypes
<1>2. \A c \in Conns : Shape(c)
  BY ConnectionsAssumption DEF Init, Shape, Sets, Alive
<1>3. \A t \in Torrents, c \in Conns : Related(t, c)
  BY ConnectionsAssumption DEF Init, Related, Sets, Alive
<1> QED
  BY <1>1, <1>2, <1>3, TorrentInit DEF ConnInv

LEMMA CreateKeeps ==
  ASSUME ConnInv, TorrentInv', NEW t \in Torrents, NEW x \in Conns, ConnectToPeer(t, x)
  PROVE  ConnInv'
<1> USE DEF ConnInv, ConnTypes, TorrentInv, TorrentTypes, ConnectToPeer, Create, torrentVars, serverVars
<1>1. ConnTypes'
  OBVIOUS
<1>2. ASSUME NEW c \in Conns PROVE Shape(c)'
  BY <1>2, ConnectionsAssumption DEF Shape, Sets, Alive
<1>3. ASSUME NEW u \in Torrents, NEW c \in Conns PROVE Related(u, c)'
  BY <1>3, ConnectionsAssumption DEF Shape, Related, Sets, Alive, MayConnect
<1> QED
  BY <1>1, <1>2, <1>3

LEMMA IncomingKeeps ==
  ASSUME ConnInv, TorrentInv', NEW x \in Conns, Incoming(x)
  PROVE  ConnInv'
<1> USE DEF ConnInv, ConnTypes, TorrentInv, TorrentTypes, Incoming, Create, torrentVars, serverVars
<1>1. ConnTypes'
  OBVIOUS
<1>2. ASSUME NEW c \in Conns PROVE Shape(c)'
  BY <1>2, ConnectionsAssumption DEF Shape, Sets, Alive
<1>3. ASSUME NEW u \in Torrents, NEW c \in Conns PROVE Related(u, c)'
  BY <1>3, ConnectionsAssumption DEF Shape, Related, Sets, Alive
<1> QED
  BY <1>1, <1>2, <1>3

LEMMA HandshakeKeeps ==
  ASSUME ConnInv, TorrentInv', NEW x \in Conns, NEW t \in Torrents, HandshakeFor(x, t)
  PROVE  ConnInv'
<1> USE DEF ConnInv, ConnTypes, TorrentInv, TorrentTypes, HandshakeFor, torrentVars, serverVars
<1>1. ConnTypes'
  OBVIOUS
<1>2. ASSUME NEW c \in Conns PROVE Shape(c)'
  BY <1>2, ConnectionsAssumption DEF Shape, Sets, Alive
<1>3. ASSUME NEW u \in Torrents, NEW c \in Conns PROVE Related(u, c)'
  BY <1>3, ConnectionsAssumption DEF Shape, Related, Sets, Alive
<1> QED
  BY <1>1, <1>2, <1>3

LEMMA RemoveKeeps ==
  ASSUME ConnInv, TorrentInv', NEW x \in Conns, sock[x] \in {"connecting", "connected", "closed"},
         RemoveClients({x}), UNCHANGED <<torrentVars, serverVars, handler, parent, strays>>
  PROVE  ConnInv'
<1> USE DEF ConnInv, ConnTypes, TorrentInv, TorrentTypes, RemoveClients, RemoveFromSets, ListsWithout,
            torrentVars, serverVars
<1>1. ConnTypes'
  OBVIOUS
<1>2. ASSUME NEW c \in Conns PROVE Shape(c)'
  BY <1>2, ConnectionsAssumption DEF Shape, Sets, Alive
<1>3. ASSUME NEW u \in Torrents, NEW c \in Conns PROVE Related(u, c)'
  BY <1>3, ConnectionsAssumption DEF Shape, Related, Sets, Alive
<1> QED
  BY <1>1, <1>2, <1>3

LEMMA SignalsKeep ==
  ASSUME ConnInv, TorrentInv', NEW x \in Conns,
         HandshakeForNobody(x) \/ Fails(x) \/ Aborts(x) \/ TimesOut(x)
  PROVE  ConnInv'
<1>1. CASE HandshakeForNobody(x) \/ Fails(x) \/ TimesOut(x)
  BY <1>1, RemoveKeeps DEF HandshakeForNobody, Fails, TimesOut
<1>2. CASE Aborts(x) /\ handler[x] \in Torrents
  BY <1>2, RemoveKeeps DEF Aborts
<1>3. CASE Aborts(x) /\ handler[x] \notin Torrents
  <2> USE DEF ConnInv, ConnTypes, TorrentInv, TorrentTypes, Aborts, torrentVars, serverVars
  <2>1. ConnTypes'
    BY <1>3
  <2>2. ASSUME NEW c \in Conns PROVE Shape(c)'
    BY <1>3, <2>2, ConnectionsAssumption DEF Shape, Sets, Alive
  <2>3. ASSUME NEW u \in Torrents, NEW c \in Conns PROVE Related(u, c)'
    BY <1>3, <2>3, ConnectionsAssumption DEF Shape, Related, Sets, Alive
  <2> QED
    BY <2>1, <2>2, <2>3
<1> QED
  BY <1>1, <1>2, <1>3

LEMMA SocketKeeps ==
  ASSUME ConnInv, TorrentInv', NEW x \in Conns, Connected(x) \/ DeleteConnection(x)
  PROVE  ConnInv'
<1> USE DEF ConnInv, ConnTypes, TorrentInv, TorrentTypes, Connected, DeleteConnection, torrentVars, serverVars
<1>1. ConnTypes'
  OBVIOUS
<1>2. ASSUME NEW c \in Conns PROVE Shape(c)'
  BY <1>2, ConnectionsAssumption DEF Shape, Sets, Alive
<1>3. ASSUME NEW u \in Torrents, NEW c \in Conns PROVE Related(u, c)'
  BY <1>3, ConnectionsAssumption DEF Shape, Related, Sets, Alive
<1> QED
  BY <1>1, <1>2, <1>3

\* A pause and a file error.
LEMMA ForgetKeeps ==
  ASSUME ConnInv, TorrentInv', NEW t \in Torrents, Forget(t), verifying' = verifying,
         life' = life \/ life' = [life EXCEPT ![t] = IF @ = "listed" THEN "doomed" ELSE @]
  PROVE  ConnInv'
<1> USE DEF ConnInv, ConnTypes, TorrentInv, TorrentTypes, Forget, RemoveFromSets, ConnectedOf, ConnectingOf
<1>1. ConnTypes'
  OBVIOUS
<1>2. ASSUME NEW c \in Conns PROVE Shape(c)'
  BY <1>2, ConnectionsAssumption DEF Shape, Related, Sets, Alive
<1>3. ASSUME NEW u \in Torrents, NEW c \in Conns PROVE Related(u, c)'
  BY <1>3, ConnectionsAssumption DEF Shape, Related, Sets, Alive
<1> QED
  BY <1>1, <1>2, <1>3

LEMMA StopKeeps ==
  ASSUME ConnInv, TorrentInv', NEW t \in Torrents, Stop(t)
  PROVE  ConnInv'
<1> USE DEF ConnInv, ConnTypes, TorrentInv, TorrentTypes, Stop, RemoveFromSets, ConnectedOf
<1>0. life'[t] # "listed" /\ \A u \in Torrents \ {t} : life'[u] = life[u] /\ state'[u] = state[u]
  OBVIOUS
<1>1. ConnTypes'
  OBVIOUS
<1>2. ASSUME NEW c \in Conns PROVE Shape(c)'
  BY <1>0, <1>2, ConnectionsAssumption DEF Shape, Related, Sets, Alive
<1>3. ASSUME NEW u \in Torrents, NEW c \in Conns PROVE Related(u, c)'
  BY <1>0, <1>3, ConnectionsAssumption DEF Shape, Related, Sets, Alive
<1> QED
  BY <1>1, <1>2, <1>3

LEMMA DeleteKeeps ==
  ASSUME ConnInv, TorrentInv', NEW t \in Torrents, DeleteTorrent(t)
  PROVE  ConnInv'
<1> USE DEF ConnInv, ConnTypes, TorrentInv, TorrentTypes, DeleteTorrent, serverVars
<1>1. ConnTypes'
  OBVIOUS
<1>2. ASSUME NEW c \in Conns PROVE Shape(c)'
  BY <1>2, ConnectionsAssumption DEF Shape, Related, Sets, Alive
<1>3. ASSUME NEW u \in Torrents, NEW c \in Conns PROVE Related(u, c)'
  BY <1>3, ConnectionsAssumption DEF Shape, Related, Sets, Alive
<1> QED
  BY <1>1, <1>2, <1>3

\* What leaves the connections alone.
LEMMA TorrentKeeps ==
  ASSUME ConnInv, TorrentInv', NEW t \in Torrents,
         VerificationDone(t) \/ Resume(t) \/ StopAnswered(t) \/ BlockReceived(t) \/ Verdict(t)
  PROVE  ConnInv'
<1>0. UNCHANGED connVars
  BY DEF VerificationDone, Resume, StopAnswered, BlockReceived, Verdict
<1>1. \A u \in Torrents : /\ life'[u] = "listed" => life[u] = "listed"
                          /\ state'[u] = "Paused" => state[u] = "Paused"
                          /\ verifying'[u] => verifying[u]
  BY DEF VerificationDone, Resume, StopAnswered, BlockReceived, Verdict, ConnInv, TorrentInv,
         TorrentTypes, States
<1>2. \A u \in Torrents : life[u] = "listed" /\ life'[u] # "listed" => verifying[u]
  BY DEF VerificationDone, Resume, StopAnswered, BlockReceived, Verdict, ConnInv, TorrentInv,
         TorrentTypes
<1> USE DEF ConnInv, connVars
<1>3. ConnTypes'
  BY <1>0 DEF ConnTypes
<1>4. ASSUME NEW c \in Conns PROVE Shape(c)'
  BY <1>0, <1>1, <1>4 DEF Shape, Sets, Alive, ConnTypes
<1>5. ASSUME NEW u \in Torrents, NEW c \in Conns PROVE Related(u, c)'
  BY <1>0, <1>1, <1>2, <1>5 DEF Related, Sets, Alive, ConnTypes
<1> QED
  BY <1>3, <1>4, <1>5

LEMMA ConnStep == ConnInv /\ [Next]_vars => ConnInv'
<1> SUFFICES ASSUME ConnInv, [Next]_vars PROVE ConnInv'
  OBVIOUS
<1>1. TorrentInv'
  BY TorrentStep DEF ConnInv
<1>2. CASE UNCHANGED vars
  BY <1>1, <1>2 DEF vars, connVars, torrentVars, serverVars, ConnInv, ConnTypes, Shape, Related, Sets, Alive
<1>3. ASSUME NEW t \in Torrents, Pause(t) \/ FileError(t)
      PROVE  ConnInv'
  BY <1>1, <1>3, ForgetKeeps DEF Pause, FileError
<1>4. ASSUME NEW t \in Torrents,
             VerificationDone(t) \/ Resume(t) \/ Stop(t) \/ StopAnswered(t) \/ BlockReceived(t)
               \/ Verdict(t) \/ DeleteTorrent(t)
      PROVE  ConnInv'
  BY <1>1, <1>4, TorrentKeeps, StopKeeps, DeleteKeeps
<1>5. ASSUME NEW t \in Torrents, NEW c \in Conns, ConnectToPeer(t, c) \/ HandshakeFor(c, t)
      PROVE  ConnInv'
  BY <1>1, <1>5, CreateKeeps, HandshakeKeeps
<1>6. ASSUME NEW c \in Conns,
             Connected(c) \/ Incoming(c) \/ HandshakeForNobody(c) \/ Fails(c) \/ Aborts(c)
               \/ TimesOut(c) \/ DeleteConnection(c)
      PROVE  ConnInv'
  BY <1>1, <1>6, SocketKeeps, IncomingKeeps, SignalsKeep
<1> QED
  BY <1>2, <1>3, <1>4, <1>5, <1>6 DEF Next

\* The types of the variables.
THEOREM TypeCorrect == Spec => []TypeOK
<1>1. ConnInv => TypeOK
  BY DEF ConnInv, ConnTypes, TorrentInv, TorrentTypes, TypeOK
<1> QED
  BY <1>1, ConnInit, ConnStep, PTL DEF Spec

\* What a torrent lists exists, is its own, has a slot and is given bandwidth.
THEOREM ListsAgree == Spec => []ListedAreKept
<1>1. ConnInv => ListedAreKept
  BY DEF ConnInv, ConnTypes, Related, ListedAreKept
<1> QED
  BY <1>1, ConnInit, ConnStep, PTL DEF Spec

\* The process-wide sets point at no deleted connection but the strays, in whatever
\* order torrents are paused, stopped, revived and deleted.
THEOREM NothingElseDangles == Spec => []OnlyStraysDangle
<1>1. ConnInv => OnlyStraysDangle
  BY DEF ConnInv, ConnTypes, Shape, Sets, OnlyStraysDangle, Dangling
<1> QED
  BY <1>1, ConnInit, ConnStep, PTL DEF Spec

\* A live connection has its slot until its torrent is stopped.
THEOREM SlotsAreCounted == Spec => []LiveAreCounted
<1>1. ConnInv => LiveAreCounted
  BY DEF ConnInv, Shape, LiveAreCounted
<1> QED
  BY <1>1, ConnInit, ConnStep, PTL DEF Spec

\* A paused torrent has no connections but the strays.
THEOREM PauseIsQuiet == Spec => []PausedIsQuiet
<1>1. ConnInv => PausedIsQuiet
  BY DEF ConnInv, Related, PausedIsQuiet
<1> QED
  BY <1>1, ConnInit, ConnStep, PTL DEF Spec
=============================================================================
