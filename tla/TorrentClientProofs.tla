------------------------ MODULE TorrentClientProofs ------------------------
(***************************************************************************)
(* Theorems about TorrentClient, for every number of clients, pieces and   *)
(* blocks, every quota and every budget of the environment.                *)
(***************************************************************************)
EXTENDS TorrentClient, FiniteSetTheorems, TLAPS

\* The bookkeeping of pieces, and the state that depends on it.  The range of
\* both sets matters before the files are verified, and gives them a cardinality.
Partition ==
  /\ pendingPieces \in SUBSET Pieces
  /\ incompletePieces \in SUBSET Pieces
  /\ PiecesPartitioned
  /\ NeverEndgame

\* What is pending is a part of what is incomplete, so the end game never begins.
LEMMA NoEndgameTest ==
  ASSUME NEW I \in SUBSET Pieces, NEW P \in SUBSET I
  PROVE  ~EndgameTest(I, P)
<1>1. IsFiniteSet(Pieces)
  BY NumPiecesAssumption, FS_Interval DEF Pieces
<1>2. IsFiniteSet(I)
  BY <1>1, FS_Subset
<1>3. Cardinality(I) \in Nat /\ Cardinality(P) \in Nat /\ Cardinality(P) <= Cardinality(I)
  BY <1>2, FS_Subset, FS_CardinalityType
<1> QED
  BY <1>3 DEF EndgameTest

LEMMA PartitionInit == Init => Partition
BY DEF Init, Partition, PiecesPartitioned, NeverEndgame

\* A client that comes up starts the end game at most before the files are verified.
LEMMA ConnectionState == Partition /\ pieceCount > 0 => StateOnConnection # "Endgame"
<1> SUFFICES ASSUME Partition, pieceCount > 0 PROVE StateOnConnection # "Endgame"
  OBVIOUS
<1>1. ~EndgameTest(incompletePieces, pendingPieces)
  BY NoEndgameTest DEF Partition, PiecesPartitioned
<1> QED
  BY <1>1 DEF StateOnConnection, Partition, NeverEndgame

\* Handlers that touch none of the sets of pieces and do not start the end game.
LEMMA PartitionKept ==
  ASSUME Partition,
         UNCHANGED <<pieceCount, pendingPieces, completedPieces, incompletePieces>>,
         pieceCount > 0 /\ state' = "Endgame" => state = "Endgame"
  PROVE  Partition'
BY DEF Partition, PiecesPartitioned, NeverEndgame

LEMMA PartitionOfTracker == Partition /\ Tracker => Partition'
<1> SUFFICES ASSUME Partition, Tracker PROVE Partition'
  OBVIOUS
<1>1. UNCHANGED <<pieceCount, pendingPieces, completedPieces, incompletePieces>>
  BY DEF Tracker, ConnectToPeers, AddToPeerList, pieceVars
<1>2. state' = "Endgame" => state = "Endgame"
  BY DEF Tracker, ConnectToPeers, AddToPeerList, ConnectToPeersBody
<1> QED
  BY <1>1, <1>2, PartitionKept

LEMMA PartitionOfUser == Partition /\ User => Partition'
<1> SUFFICES ASSUME Partition, User PROVE Partition'
  OBVIOUS
<1>1. UNCHANGED <<pieceCount, pendingPieces, completedPieces, incompletePieces>>
  BY DEF User, Start, Pause, Resume, Stop, pieceVars
<1>2. state' # "Endgame"
  BY DEF User, Start, Pause, Resume, Stop
<1> QED
  BY <1>1, <1>2, PartitionKept

LEMMA PartitionOfVerification == Partition /\ FullVerificationDone => Partition'
<1> SUFFICES ASSUME Partition, FullVerificationDone PROVE Partition'
  OBVIOUS
<1> USE DEF FullVerificationDone, TrustChecksums
<1>1. incompletePieces' = Pieces \ completedPieces'
  OBVIOUS
<1>2. state' # "Endgame"
  OBVIOUS
<1>3. pendingPieces' \in SUBSET (Pieces \ completedPieces')
  BY DEF Partition
<1> QED
  BY <1>1, <1>2, <1>3 DEF Partition, PiecesPartitioned, NeverEndgame

LEMMA PartitionOfVerdict == Partition /\ PieceVerified => Partition'
<1> SUFFICES ASSUME Partition, PieceVerified PROVE Partition'
  OBVIOUS
<1> DEFINE p == Head(verifying)
<1>1. pieceCount > 0 /\ pieceCount' = pieceCount
  BY DEF PieceVerified
<1>2. CASE UNCHANGED <<state, pendingPieces, completedPieces, incompletePieces>>
  BY <1>1, <1>2, PartitionKept DEF PieceVerified
<1>3. CASE CompletePiece(p) /\ (state' = "Seeding" \/ state' = StateOnPiece(p))
  <2>1. CompletePiece(p) /\ (state' = "Seeding" \/ state' = StateOnPiece(p))
    BY <1>3
  <2>2. /\ incompletePieces' \in SUBSET Pieces
        /\ PiecesPartitioned'
        /\ pendingPieces' \in SUBSET incompletePieces'
    BY <1>1, <2>1 DEF CompletePiece, Partition, PiecesPartitioned
  <2>3. ~EndgameTest(incompletePieces', pendingPieces')
    BY <2>2, NoEndgameTest
  <2>4. state' # "Endgame"
    BY <1>1, <2>1, <2>3 DEF StateOnPiece, Partition, NeverEndgame
  <2> QED
    BY <2>2, <2>4 DEF Partition, NeverEndgame
<1> QED
  BY <1>2, <1>3 DEF PieceVerified

LEMMA PartitionOfFileError == Partition /\ HandleFileError => Partition'
BY PartitionKept DEF HandleFileError, pieceVars

\* The scheduler starts only pieces that are incomplete.
LEMMA OnlyIncompleteStarted == Scheduler => pendingPieces' \subseteq pendingPieces \cup incompletePieces
<1>1. CASE ScheduleDownloads \/ RequestBlocks \/ EndRequestMore
  BY <1>1 DEF ScheduleDownloads, RequestBlocks, EndRequestMore
<1>2. CASE SchedulePieceForClient
  <2> DEFINE c == Head(sched)
  <2>1. CASE NoAssignment
    BY <2>1 DEF NoAssignment
  <2>2. CASE ShareWarmUpPiece(c)
    BY <2>2 DEF ShareWarmUpPiece, Assign, NoAssignment
  <2>3. CASE SchedulePiece(c)
    <3> DEFINE ps == AvailableTo(c)
               partial == ps \cap pendingPieces
    <3>1. ps \subseteq incompletePieces
      BY DEF AvailableTo
    <3>2. PieceChoices(ps) \subseteq ps /\ FirstOf(partial) \subseteq partial
      BY DEF PieceChoices, FirstOf
    <3>3. ASSUME NEW p \in ps, Assign(c, p)
          PROVE  pendingPieces' \subseteq pendingPieces \cup incompletePieces
      BY <3>1, <3>3 DEF Assign
    <3>4. NoAssignment \/ \E p \in ps : Assign(c, p)
      <4>1. ASSUME NEW p \in (IF partial # {} THEN FirstOf(partial) ELSE PieceChoices(ps))
            PROVE  p \in ps
        BY <3>2, <4>1
      <4> QED
        BY <2>3, <4>1 DEF SchedulePiece
    <3> QED
      BY <3>3, <3>4 DEF NoAssignment
  <2> QED
    BY <1>2, <2>1, <2>2, <2>3 DEF SchedulePieceForClient
<1> QED
  BY <1>1, <1>2 DEF Scheduler

LEMMA PartitionOfScheduler == Partition /\ Scheduler => Partition'
<1> SUFFICES ASSUME Partition, Scheduler PROVE Partition'
  OBVIOUS
<1>1. UNCHANGED <<state, pieceCount, completedPieces, incompletePieces>>
  BY DEF Scheduler, ScheduleDownloads, SchedulePieceForClient, RequestBlocks, EndRequestMore,
    pieceVars
<1> QED
  BY <1>1, OnlyIncompleteStarted DEF Partition, PiecesPartitioned, NeverEndgame

LEMMA PartitionOfConnection ==
  ASSUME NEW c \in Clients, Partition, Connection(c)
  PROVE  Partition'
<1>1. UNCHANGED <<pieceCount, pendingPieces, completedPieces, incompletePieces>>
  <2>1. SomeBlockReceived(c) => UNCHANGED <<pieceCount, pendingPieces, completedPieces, incompletePieces>>
    BY DEF SomeBlockReceived, BlockReceived
  <2> QED
    BY <2>1 DEF Connection, SetupOutgoingConnection, OrphanConnected, SetupIncomingConnection,
      Disconnect, PeerPiecesAvailable, EarlyPiecesAvailable, PeerChoked, PeerUnchoked, pieceVars
<1>2. state' \in {state, "Downloading", StateOnConnection}
  <2>1. CASE SetupOutgoingConnection(c) \/ OrphanConnected(c) \/ SetupIncomingConnection(c)
    BY <2>1 DEF SetupOutgoingConnection, OrphanConnected, SetupIncomingConnection
  <2>2. CASE Disconnect(c) \/ EarlyPiecesAvailable(c) \/ PeerChoked(c) \/ PeerUnchoked(c)
    BY <2>2 DEF Disconnect, EarlyPiecesAvailable, PeerChoked, PeerUnchoked
  <2>3. CASE \E ps \in SUBSET Pieces : PeerPiecesAvailable(c, ps)
    BY <2>3 DEF PeerPiecesAvailable
  <2>4. CASE SomeBlockReceived(c)
    BY <2>4 DEF SomeBlockReceived, BlockReceived
  <2> QED
    BY <2>1, <2>2, <2>3, <2>4 DEF Connection
<1> QED
  BY <1>1, <1>2, ConnectionState, PartitionKept

LEMMA PartitionNext == Partition /\ [Next]_vars => Partition'
<1>1. Partition /\ UNCHANGED vars => Partition'
  BY DEF vars, pieceVars, Partition, PiecesPartitioned, NeverEndgame
<1> QED
  BY <1>1, PartitionOfTracker, PartitionOfUser, PartitionOfVerification, PartitionOfFileError,
    PartitionOfVerdict, PartitionOfScheduler, PartitionOfConnection DEF Next, FileService

THEOREM Invariance == Spec => []Partition
BY PartitionInit, PartitionNext, PTL DEF Spec

\* completedPieces and incompletePieces (fullVerificationDone, pieceVerified) stay
\* complements, and the scheduler only ever starts incomplete pieces.
THEOREM PiecesStayPartitioned == Spec => []PiecesPartitioned
<1>1. Partition => PiecesPartitioned
  BY DEF Partition
<1> QED
  BY <1>1, Invariance, PTL

\* The end game of setupIncomingConnection, setupOutgoingConnection and pieceVerified
\* is dead code once the files are verified.
THEOREM EndgameIsDead == Spec => []NeverEndgame
<1>1. Partition => NeverEndgame
  BY DEF Partition
<1> QED
  BY <1>1, Invariance, PTL

-----------------------------------------------------------------------------
(* Who is there before the files are verified.                             *)

\* No peer is there before the files are verified (unless EarlyPeers), and no piece that is
\* complete is incomplete or pending, before or after.
Integrity ==
  /\ (pendingPieces \cup incompletePieces) \cap completedPieces = {}
  /\ pieceCount = 0 => sock = [c \in Clients |-> "none"]

LEMMA IntegrityInit == Init => Integrity
<1> SUFFICES ASSUME Init PROVE Integrity
  OBVIOUS
<1>1. PICK had \in [Pieces \ completedPieces -> SUBSET Blocks] :
        pendingPieces = {p \in DOMAIN had : had[p] # {}}
  BY DEF Init
<1>2. pendingPieces \cap completedPieces = {}
  BY <1>1
<1> QED
  BY <1>2 DEF Init, Integrity

\* Handlers that complete nothing.
LEMMA IntegrityKept ==
  ASSUME Integrity, UNCHANGED <<pieceCount, completedPieces, incompletePieces>>,
         pendingPieces' \cap completedPieces = {},
         pieceCount = 0 => sock' = sock
  PROVE  Integrity'
BY DEF Integrity

\* Without early peers the connections appear after the verification.
LEMMA NobodyThere ==
  ASSUME Integrity, ~EarlyPeers, pieceCount = 0, NEW c \in Clients
  PROVE  /\ ~Connected(c)
         /\ ~SetupIncomingConnection(c)
         /\ sock[c] = "none"
BY DEF Integrity, Connected, SetupIncomingConnection

\* A pause and its like forget no connection while there is none.
LEMMA AbortNobody ==
  ASSUME Integrity, pieceCount = 0, AbortAll PROVE sock' = sock
BY DEF Integrity, AbortAll, Connected

LEMMA IntegrityOfTracker == Integrity /\ Tracker => Integrity'
<1> SUFFICES ASSUME Integrity, Tracker PROVE Integrity'
  OBVIOUS
<1>1. UNCHANGED <<pieceCount, pieceVars, pendingPieces>>
  BY DEF Tracker, ConnectToPeers, AddToPeerList, pieceVars
<1>2. pieceCount = 0 => sock' = sock
  BY DEF Tracker, ConnectToPeers, AddToPeerList, ConnectToPeersBody, ConnectSome, connVars
<1> QED
  BY <1>1, <1>2, IntegrityKept DEF Integrity, pieceVars

LEMMA IntegrityOfUser == Integrity /\ (User \/ HandleFileError) => Integrity'
<1> SUFFICES ASSUME Integrity, User \/ HandleFileError PROVE Integrity'
  OBVIOUS
<1>1. UNCHANGED <<pieceCount, pieceVars, pendingPieces>>
  BY DEF User, Start, Pause, Resume, Stop, HandleFileError, pieceVars
<1>2. pieceCount = 0 => sock' = sock
  BY AbortNobody DEF User, Start, Pause, Resume, Stop, HandleFileError, ConnectSome, connVars
<1> QED
  BY <1>1, <1>2, IntegrityKept DEF Integrity, pieceVars

LEMMA IntegrityOfVerification == Integrity /\ FullVerificationDone => Integrity'
<1> SUFFICES ASSUME Integrity, FullVerificationDone PROVE Integrity'
  OBVIOUS
<1>1. /\ pieceCount = 0 /\ pieceCount' = NumPieces
      /\ incompletePieces' = Pieces \ completedPieces'
      /\ pendingPieces' = pendingPieces \ completedPieces'
  BY DEF FullVerificationDone, TrustChecksums, CountPieces
<1> QED
  BY <1>1, NumPiecesAssumption DEF Integrity

LEMMA IntegrityOfVerdict == Integrity /\ PieceVerified => Integrity'
<1> SUFFICES ASSUME Integrity, PieceVerified PROVE Integrity'
  OBVIOUS
<1> DEFINE p == Head(verifying)
<1>1. pieceCount > 0 /\ pieceCount' = pieceCount
  BY DEF PieceVerified
<1>2. UNCHANGED <<pendingPieces, completedPieces, incompletePieces>> \/ CompletePiece(p)
  BY DEF PieceVerified
<1> QED
  BY <1>1, <1>2 DEF CompletePiece, Integrity

LEMMA IntegrityOfScheduler == Integrity /\ Scheduler => Integrity'
<1> SUFFICES ASSUME Integrity, Scheduler PROVE Integrity'
  OBVIOUS
<1>1. UNCHANGED <<pieceCount, sock, pieceVars>>
  BY DEF Scheduler, ScheduleDownloads, SchedulePieceForClient, RequestBlocks, EndRequestMore,
    connVars
<1> QED
  BY <1>1, OnlyIncompleteStarted, IntegrityKept DEF Integrity, pieceVars

\* A block that arrives completes nothing.
LEMMA IntegrityOfBlock ==
  ASSUME Integrity, ~EarlyPeers, NEW c \in Clients, SomeBlockReceived(c)
  PROVE  Integrity'
<1>1. pieceCount # 0
  BY NobodyThere DEF SomeBlockReceived, BlockReceived
<1>2. UNCHANGED <<pieceCount, pendingPieces, completedPieces, incompletePieces>>
  BY DEF SomeBlockReceived, BlockReceived
<1> QED
  BY <1>1, <1>2 DEF Integrity

LEMMA IntegrityOfConnection ==
  ASSUME Integrity, ~EarlyPeers, NEW c \in Clients, Connection(c)
  PROVE  Integrity'
<1>1. CASE SomeBlockReceived(c)
  BY <1>1, IntegrityOfBlock
<1>2. CASE \/ SetupOutgoingConnection(c) \/ OrphanConnected(c) \/ SetupIncomingConnection(c)
           \/ Disconnect(c) \/ PeerChoked(c) \/ PeerUnchoked(c) \/ EarlyPiecesAvailable(c)
           \/ \E ps \in SUBSET Pieces : PeerPiecesAvailable(c, ps)
  <2>1. UNCHANGED <<pieceCount, pieceVars, pendingPieces>>
    BY <1>2 DEF SetupOutgoingConnection, OrphanConnected, SetupIncomingConnection, Disconnect,
      PeerPiecesAvailable, EarlyPiecesAvailable, PeerChoked, PeerUnchoked
  <2>2. pieceCount # 0
    BY <1>2, NobodyThere DEF Connected, SetupOutgoingConnection, OrphanConnected, Disconnect,
      PeerPiecesAvailable, EarlyPiecesAvailable, PeerChoked, PeerUnchoked
  <2> QED
    BY <2>1, <2>2, IntegrityKept DEF Integrity, pieceVars
<1> QED
  BY <1>1, <1>2 DEF Connection

LEMMA IntegrityNext == Integrity /\ ~EarlyPeers /\ [Next]_vars => Integrity'
<1>1. Integrity /\ UNCHANGED vars => Integrity'
  BY DEF vars, connVars, pieceVars, Integrity
<1> QED
  BY <1>1, IntegrityOfTracker, IntegrityOfUser, IntegrityOfVerification, IntegrityOfVerdict,
    IntegrityOfScheduler, IntegrityOfConnection DEF Next, FileService

-----------------------------------------------------------------------------
(* What the peers have announced, and what they have been told.            *)

SockStates == {"none", "connecting", "connected", "early", "orphan"}

\* A connection that is not up may go anywhere, though not before the files are verified.
SocksMove ==
  \A c \in Clients :
    sock'[c] = sock[c] \/ (sock[c] # "connected" /\ (pieceCount = 0 => sock'[c] \in {"none", "early"}))

\* The connections cs are gone, others that were coming up may be forgotten.
SocksGone(cs) ==
  \A c \in Clients :
    IF c \in cs THEN sock'[c] = "none"
                ELSE sock'[c] = sock[c] \/ (sock[c] = "connecting" /\ sock'[c] = "orphan")

\* Only connected peers have announced pieces, nobody connects before the files are
\* verified, and what is complete then was complete before.
Informed ==
  /\ DOMAIN interested = Clients
  /\ sock \in [Clients -> SockStates]
  /\ avail \in [Clients -> SUBSET Pieces]
  /\ \A c \in Clients : sock[c] # "connected" => avail[c] = {}
  /\ pieceCount = 0 => \A c \in Clients : sock[c] \notin {"connecting", "connected"}
  /\ InterestKept

LEMMA InformedInit == Init => Informed
BY DEF Init, Informed, InterestKept, SockStates

\* The interest of the clients cs is forgotten with what they announced, all others keep theirs.
LEMMA InformedReset ==
  ASSUME Informed, NEW cs \in SUBSET Clients, ResetWire(cs), UNCHANGED <<pieceCount, completedPieces>>,
         sock' \in [Clients -> SockStates],
         SocksGone(cs)
  PROVE  Informed'
<1>1. \A c \in Clients : avail'[c] = IF c \in cs THEN {} ELSE avail[c]
  BY DEF ResetWire
<1>2. \A c \in Clients : interested'[c] = (c \notin cs /\ interested[c])
  BY DEF ResetWire
<1>3. avail' \in [Clients -> SUBSET Pieces]
  BY DEF ResetWire, Informed
<1>4. \A c \in Clients : sock'[c] # "connected" => avail'[c] = {}
  BY <1>1 DEF Informed, SocksGone
<1>5. pieceCount' = 0 => \A c \in Clients : sock'[c] \notin {"connecting", "connected"}
  BY DEF Informed, SocksGone
<1>6. ASSUME NEW c \in Clients, sock'[c] = "connected", avail'[c] \ completedPieces' # {}
      PROVE  interested'[c]
  <2>1. c \notin cs /\ sock[c] = "connected" /\ avail'[c] = avail[c]
    BY <1>1, <1>6 DEF SocksGone
  <2>2. interested[c]
    BY <1>6, <2>1 DEF Informed, InterestKept
  <2> QED
    BY <1>2, <2>1, <2>2
<1>7. InterestKept' /\ DOMAIN interested' = Clients
  BY <1>6 DEF InterestKept, ResetWire
<1> QED
  BY <1>3, <1>4, <1>5, <1>7 DEF Informed

\* The peers and what they have been told stay; more may be complete.
LEMMA InformedKept ==
  ASSUME Informed, UNCHANGED <<pieceCount, avail, interested>>, completedPieces \subseteq completedPieces',
         sock' \in [Clients -> SockStates],
         SocksMove
  PROVE  Informed'
<1>1. \A c \in Clients : sock[c] # "connected" => avail[c] = {}
  BY DEF Informed
<1>2. \A c \in Clients : sock'[c] # "connected" => avail'[c] = {}
  BY <1>1 DEF SocksMove
<1>3. pieceCount' = 0 => \A c \in Clients : sock'[c] \notin {"connecting", "connected"}
  BY DEF Informed, SocksMove
<1>4. InterestKept'
  BY <1>1 DEF Informed, InterestKept, SocksMove
<1> QED
  BY <1>2, <1>3, <1>4 DEF Informed

LEMMA InformedOfRemove ==
  ASSUME Informed, NEW c \in Clients, RemoveClient(c), UNCHANGED <<pieceCount, completedPieces>>
  PROVE  Informed'
<1>1. sock' = [sock EXCEPT ![c] = "none"] /\ ResetWire({c}) /\ {c} \in SUBSET Clients
  BY DEF RemoveClient
<1>2. sock' \in [Clients -> SockStates]
      /\ \A d \in Clients : sock'[d] = IF d = c THEN "none" ELSE sock[d]
  BY <1>1 DEF Informed, SockStates
<1>3. SocksGone({c})
  BY <1>2 DEF SocksGone
<1> QED
  BY <1>1, <1>2, <1>3, InformedReset

LEMMA InformedOfAbort ==
  ASSUME Informed, AbortAll, UNCHANGED <<pieceCount, completedPieces>>
  PROVE  Informed'
<1> DEFINE up == {c \in Clients : Connected(c)} \cap ToSet(connections)
<1>1. ResetWire(up) /\ up \in SUBSET Clients
  BY DEF AbortAll
<1>2. sock' = [c \in Clients |-> IF c \in up THEN "none" ELSE IF sock[c] = "connecting" THEN "orphan" ELSE sock[c]]
  BY DEF AbortAll
<1> HIDE DEF up
<1>3. sock' \in [Clients -> SockStates]
  BY <1>2 DEF Informed, SockStates
<1>4. SocksGone(up)
  BY <1>2 DEF SocksGone
<1> QED
  BY <1>1, <1>3, <1>4, InformedReset

\* connectToPeers tries free peers only.
LEMMA InformedOfConnect ==
  ASSUME Informed, ConnectSome, UNCHANGED <<pieceCount, completedPieces>>
  PROVE  Informed'
<1>1. CASE pieceCount = 0
  BY <1>1, InformedKept DEF ConnectSome, connVars, Informed, SocksMove
<1>2. CASE pieceCount # 0
  <2> DEFINE free == {c \in Clients : sock[c] = "none"}
  <2>1. PICK cs \in SetToAllKPermutations(free) :
          /\ sock' = [c \in Clients |-> IF Contains(cs, c) THEN "connecting" ELSE sock[c]]
          /\ UNCHANGED <<interested, avail>>
    BY <1>2 DEF ConnectSome
  <2> HIDE DEF free
  <2>2. PICK s \in SUBSET free : cs \in SetToSeqs(s)
    BY DEF SetToAllKPermutations
  <2>3. cs \in [1..Cardinality(s) -> s]
    BY <2>2 DEF SetToSeqs
  <2>4. \A c : Contains(cs, c) => c \in free
    <3>1. \A c : Contains(cs, c) => \E i \in DOMAIN cs : cs[i] = c
      BY DEF Contains
    <3> QED
      BY <2>3, <3>1
  <2>5. SocksMove
    BY <1>2, <2>1, <2>4 DEF free, SocksMove
  <2>6. sock' \in [Clients -> SockStates]
    BY <2>1 DEF Informed, SockStates
  <2> QED
    BY <1>2, <2>1, <2>5, <2>6, InformedKept
<1> QED
  BY <1>1, <1>2

LEMMA InformedOfConnection ==
  ASSUME Informed, NEW c \in Clients, Connection(c)
  PROVE  Informed'
<1>1. CASE SetupOutgoingConnection(c)
  <2>1. sock[c] = "connecting" /\ sock' = [sock EXCEPT ![c] = "connected"] /\ pieceCount # 0
    BY <1>1 DEF SetupOutgoingConnection, Informed
  <2>2. sock' \in [Clients -> SockStates] /\ \A d \in Clients : sock'[d] = IF d = c THEN "connected" ELSE sock[d]
    BY <2>1 DEF Informed, SockStates
  <2>3. SocksMove
    BY <2>1, <2>2 DEF SocksMove
  <2> QED
    BY <1>1, <2>2, <2>3, InformedKept DEF SetupOutgoingConnection, pieceVars
<1>2. CASE OrphanConnected(c)
  <2>1. sock[c] = "orphan" /\ sock' = [sock EXCEPT ![c] = "none"]
    BY <1>2 DEF OrphanConnected
  <2>2. sock' \in [Clients -> SockStates] /\ \A d \in Clients : sock'[d] = IF d = c THEN "none" ELSE sock[d]
    BY <2>1 DEF Informed, SockStates
  <2>3. SocksMove
    BY <2>1, <2>2 DEF SocksMove
  <2> QED
    BY <1>2, <2>2, <2>3, InformedKept DEF OrphanConnected, pieceVars
<1>3. CASE SetupIncomingConnection(c)
  <2>1. PICK s \in {"connected", "early"} : sock' = [sock EXCEPT ![c] = s] /\ (pieceCount = 0 => s = "early")
    BY <1>3, NumPiecesAssumption DEF SetupIncomingConnection
  <2>2. sock' \in [Clients -> SockStates] /\ \A d \in Clients : sock'[d] = IF d = c THEN s ELSE sock[d]
    BY <2>1 DEF Informed, SockStates
  <2>3. sock[c] = "none"
    BY <1>3 DEF SetupIncomingConnection
  <2>4. SocksMove
    BY <2>1, <2>2, <2>3 DEF SocksMove
  <2> QED
    BY <1>3, <2>2, <2>4, InformedKept DEF SetupIncomingConnection, pieceVars
<1>4. CASE Disconnect(c)
  BY <1>4, InformedOfRemove DEF Disconnect, pieceVars
<1>5. CASE PeerChoked(c) \/ PeerUnchoked(c)
  <2>1. UNCHANGED <<sock, pieceCount, avail, interested, completedPieces>>
    BY <1>5 DEF PeerChoked, PeerUnchoked, pieceVars
  <2> QED
    BY <2>1, InformedKept DEF Informed, SocksMove
<1>6. CASE SomeBlockReceived(c)
  <2>1. UNCHANGED <<sock, pieceCount, avail, interested, completedPieces>>
    BY <1>6 DEF SomeBlockReceived, BlockReceived, connVars
  <2> QED
    BY <2>1, InformedKept DEF Informed, SocksMove
<1>7. CASE EarlyPiecesAvailable(c)
  <2>1. CASE RemoveClient(c)
    BY <1>7, <2>1, InformedOfRemove DEF EarlyPiecesAvailable, pieceVars
  <2>2. CASE ~RemoveClient(c)
    <3>1. /\ sock[c] = "early" /\ interested' = [interested EXCEPT ![c] = pieceCount = 0]
          /\ UNCHANGED <<sock, avail, pieceCount, completedPieces>>
      BY <1>7, <2>2 DEF EarlyPiecesAvailable, pieceVars
    <3>2. \A d \in Clients : d # c => interested'[d] = interested[d]
      BY <3>1
    <3>3. InterestKept'
      BY <3>1, <3>2 DEF Informed, InterestKept
    <3> QED
      BY <3>1, <3>3 DEF Informed
  <2> QED
    BY <2>1, <2>2
<1>8. ASSUME NEW ps \in SUBSET Pieces, PeerPiecesAvailable(c, ps) PROVE Informed'
  <2>1. CASE RemoveClient(c)
    BY <1>8, <2>1, InformedOfRemove DEF PeerPiecesAvailable, pieceVars
  <2>2. CASE ~RemoveClient(c)
    <3>1. /\ sock[c] = "connected" /\ avail' = [avail EXCEPT ![c] = ps]
          /\ UNCHANGED <<sock, pieceCount, completedPieces>>
      BY <1>8, <2>2 DEF PeerPiecesAvailable, pieceVars
    <3>2. \/ interested' = [interested EXCEPT ![c] = TRUE]
          \/ ~HasMissing(c, ps) /\ interested' = [interested EXCEPT ![c] = FALSE]
      BY <1>8, <2>2 DEF PeerPiecesAvailable
    <3>3. avail' \in [Clients -> SUBSET Pieces] /\ avail'[c] = ps /\ \A d \in Clients : d # c => avail'[d] = avail[d]
      BY <3>1 DEF Informed
    <3>4. DOMAIN interested' = Clients /\ \A d \in Clients : d # c => interested'[d] = interested[d]
      BY <3>2 DEF Informed
    <3>5. \A d \in Clients \ {c} : sock'[d] = "connected" /\ avail'[d] \ completedPieces' # {} => interested'[d]
      BY <3>1, <3>3, <3>4 DEF Informed, InterestKept
    <3>6. avail'[c] \ completedPieces' # {} => interested'[c]
      BY <3>1, <3>2, <3>3 DEF HasMissing, Informed
    <3>7. InterestKept'
      BY <3>5, <3>6 DEF InterestKept
    <3> QED
      BY <3>1, <3>3, <3>4, <3>7 DEF Informed
  <2> QED
    BY <2>1, <2>2
<1> QED
  BY <1>1, <1>2, <1>3, <1>4, <1>5, <1>6, <1>7, <1>8 DEF Connection

LEMMA InformedNext == Informed /\ [Next]_vars => Informed'
<1> SUFFICES ASSUME Informed, [Next]_vars PROVE Informed'
  OBVIOUS
<1>1. CASE ConnectToPeers \/ AddToPeerList
  BY <1>1, InformedOfConnect, InformedKept
     DEF ConnectToPeers, AddToPeerList, ConnectToPeersBody, pieceVars, connVars, Informed, SocksMove
<1>2. CASE Start
  BY <1>2, InformedKept DEF Start, connVars, pieceVars, Informed, SocksMove
<1>3. CASE Resume
  BY <1>3, InformedOfConnect DEF Resume, pieceVars
<1>4. CASE Pause \/ Stop \/ HandleFileError
  <2>1. UNCHANGED <<pieceCount, completedPieces>>
    BY <1>4 DEF Pause, Stop, HandleFileError, pieceVars
  <2>2. CASE AbortAll
    BY <2>1, <2>2, InformedOfAbort
  <2>3. CASE UNCHANGED connVars
    BY <2>1, <2>3, InformedKept DEF connVars, Informed, SocksMove
  <2> QED
    BY <1>4, <2>2, <2>3 DEF Pause, Stop, HandleFileError
<1>5. CASE FullVerificationDone
  <2>1. UNCHANGED <<sock, avail, interested>> /\ pieceCount = 0
    BY <1>5 DEF FullVerificationDone, connVars
  <2>2. \A c \in Clients : avail[c] = {}
    BY <2>1 DEF Informed
  <2>3. InterestKept'
    BY <2>1, <2>2 DEF InterestKept
  <2>4. \A c \in Clients : sock'[c] \notin {"connecting", "connected"}
    BY <2>1 DEF Informed
  <2> QED
    BY <2>1, <2>2, <2>3, <2>4 DEF Informed
<1>6. CASE PieceVerified
  <2>1. UNCHANGED <<pieceCount, sock, avail, interested>>
    BY <1>6 DEF PieceVerified, connVars
  <2>2. completedPieces \subseteq completedPieces'
    BY <1>6 DEF PieceVerified, CompletePiece
  <2> QED
    BY <2>1, <2>2, InformedKept DEF Informed, SocksMove
<1>7. CASE Scheduler
  <2>1. UNCHANGED <<pieceCount, completedPieces, sock, avail, interested>>
    BY <1>7 DEF Scheduler, ScheduleDownloads, SchedulePieceForClient, RequestBlocks, EndRequestMore, connVars, pieceVars
  <2> QED
    BY <2>1, InformedKept DEF Informed, SocksMove
<1>8. CASE UNCHANGED vars
  BY <1>8, InformedKept DEF vars, connVars, pieceVars, Informed, SocksMove
<1> QED
  BY <1>1, <1>2, <1>3, <1>4, <1>5, <1>6, <1>7, <1>8, InformedOfConnection DEF Next, Tracker, User, FileService

\* A connected peer that has announced a piece we lack knows of our interest, through
\* chokes, losses, pauses and pieces that complete meanwhile (peerPiecesAvailable).
THEOREM InterestIsKept == Spec => []InterestKept
<1>1. Informed => InterestKept
  BY DEF Informed
<1> QED
  BY <1>1, InformedInit, InformedNext, PTL DEF Spec

-----------------------------------------------------------------------------
(* Parts of sequences.                                                     *)

\* The members of I before i: the rank of i in I is their number.
Below(I, i) == {j \in I : j < i}

\* Ranks are smaller than the set, and grow with the position.
LEMMA RankGrows ==
  ASSUME NEW n \in Nat, NEW I \in SUBSET (1 .. n)
  PROVE  /\ IsFiniteSet(I) /\ Cardinality(I) \in 0 .. n
         /\ \A i \in I : Cardinality(Below(I, i)) \in 0 .. Cardinality(I) - 1
         /\ \A i, j \in I : Cardinality(Below(I, i)) = Cardinality(Below(I, j)) => i = j
<1>1. IsFiniteSet(1 .. n) /\ Cardinality(1 .. n) = n
  BY FS_Interval
<1>2. IsFiniteSet(I) /\ Cardinality(I) \in 0 .. n
  <2>1. IsFiniteSet(I) /\ Cardinality(I) <= Cardinality(1 .. n)
    BY <1>1, FS_Subset
  <2>2. Cardinality(I) \in Nat
    BY <2>1, FS_CardinalityType
  <2> QED
    BY <1>1, <2>1, <2>2
<1>3. ASSUME NEW i \in I
      PROVE  IsFiniteSet(Below(I, i)) /\ Cardinality(Below(I, i)) \in 0 .. Cardinality(I) - 1
  <2>1. Below(I, i) \in SUBSET (I \ {i})
    BY <1>3 DEF Below
  <2>2. IsFiniteSet(I \ {i}) /\ Cardinality(I \ {i}) = Cardinality(I) - 1
    BY <1>2, <1>3, FS_RemoveElement
  <2>3. IsFiniteSet(Below(I, i)) /\ Cardinality(Below(I, i)) <= Cardinality(I) - 1
    BY <2>1, <2>2, FS_Subset
  <2>4. Cardinality(Below(I, i)) \in Nat
    BY <2>3, FS_CardinalityType
  <2> QED
    BY <1>2, <2>3, <2>4
<1>4. ASSUME NEW i \in I, NEW j \in I, i < j
      PROVE  Cardinality(Below(I, i)) < Cardinality(Below(I, j))
  <2>1. ASSUME NEW x \in I, x < i PROVE x < j
    BY <1>4, <2>1
  <2>2. Below(I, i) \cup {i} \in SUBSET Below(I, j)
    BY <1>4, <2>1 DEF Below
  <2>3. i \notin Below(I, i)
    BY DEF Below
  <2>4. Cardinality(Below(I, i) \cup {i}) = Cardinality(Below(I, i)) + 1
    BY <1>3, <2>3, FS_AddElement
  <2>5. Cardinality(Below(I, i) \cup {i}) <= Cardinality(Below(I, j))
    BY <1>3, <2>2, FS_Subset
  <2> QED
    BY <1>3, <2>4, <2>5
<1>5. ASSUME NEW i \in I, NEW j \in I, Cardinality(Below(I, i)) = Cardinality(Below(I, j))
      PROVE  i = j
  <2>1. ~ (i < j) /\ ~ (j < i)
    BY <1>3, <1>4, <1>5
  <2> QED
    BY <2>1
<1> QED
  BY <1>2, <1>3, <1>5

\* Every rank is taken.
LEMMA RankTaken ==
  ASSUME NEW n \in Nat, NEW I \in SUBSET (1 .. n), NEW k \in 1 .. Cardinality(I)
  PROVE  \E i \in I : Cardinality(Below(I, i)) = k - 1
<1> DEFINE m == Cardinality(I)
           rank == [i \in I |-> Cardinality(Below(I, i))]
<1>1. m \in Nat /\ IsFiniteSet(I)
  BY RankGrows
<1>2. rank \in [I -> 0 .. m - 1] /\ \A i, j \in I : rank[i] = rank[j] => i = j
  BY RankGrows
<1>3. rank \in Injection(I, 0 .. m - 1)
  BY <1>2 DEF Injection, IsInjective
<1>4. IsFiniteSet(0 .. m - 1) /\ Cardinality(0 .. m - 1) = m
  <2> HIDE DEF m
  <2>1. m - 1 \in Int
    BY <1>1
  <2> QED
    BY <1>1, <2>1, FS_Interval
<1>5. rank \in Surjection(I, 0 .. m - 1)
  BY <1>3, <1>4, FS_Injection
<1>6. k - 1 \in 0 .. m - 1
  BY <1>1
<1> QED
  BY <1>5, <1>6 DEF Surjection

\* Selected picks the elements at the positions I, all of them and no others.
LEMMA SelectedPicks ==
  ASSUME NEW S, NEW s \in Seq(S), NEW I \in SUBSET (DOMAIN s)
  PROVE  /\ Selected(s, I) \in Seq(S)
         /\ Len(Selected(s, I)) <= Len(s)
         /\ ToSet(Selected(s, I)) = {s[i] : i \in I}
<1> DEFINE nth(k) == CHOOSE i \in I : Cardinality(Below(I, i)) = k - 1
           m == Cardinality(I)
<1>1. Len(s) \in Nat /\ I \in SUBSET (1 .. Len(s))
  OBVIOUS
<1>2. m \in 0 .. Len(s)
  BY <1>1, RankGrows
<1>3. Selected(s, I) = [k \in 1 .. m |-> s[nth(k)]]
  BY DEF Selected, Below
<1>4. ASSUME NEW k \in 1 .. m PROVE nth(k) \in I /\ Cardinality(Below(I, nth(k))) = k - 1
  BY <1>1, RankTaken
<1>5. ASSUME NEW i \in I PROVE \E k \in 1 .. m : nth(k) = i
  <2> DEFINE k == Cardinality(Below(I, i)) + 1
  <2>1. Cardinality(Below(I, i)) \in 0 .. m - 1
    BY <1>1, RankGrows
  <2>2. k \in 1 .. m /\ k - 1 = Cardinality(Below(I, i))
    BY <1>2, <2>1
  <2>3. nth(k) \in I /\ Cardinality(Below(I, nth(k))) = k - 1
    BY <1>4, <2>2
  <2> HIDE DEF nth, k
  <2>4. nth(k) = i
    BY <1>1, <2>2, <2>3, RankGrows
  <2> QED
    BY <2>2, <2>4
<1> HIDE DEF nth, m
<1>6. Selected(s, I) \in Seq(S) /\ Len(Selected(s, I)) = m
  BY <1>1, <1>2, <1>3, <1>4
<1>7. ToSet(Selected(s, I)) = {s[nth(k)] : k \in 1 .. m}
  BY <1>3 DEF ToSet
<1> QED
  BY <1>1, <1>2, <1>4, <1>5, <1>6, <1>7

LEMMA WithoutPicks ==
  ASSUME NEW S, NEW s \in Seq(S), NEW e
  PROVE  /\ Without(s, e) \in Seq(S)
         /\ Len(Without(s, e)) <= Len(s)
         /\ ToSet(Without(s, e)) = ToSet(s) \ {e}
<1> DEFINE I == {i \in DOMAIN s : s[i] # e}
<1>1. {s[i] : i \in I} = ToSet(s) \ {e}
  BY DEF ToSet
<1>2. I \in SUBSET (DOMAIN s) /\ Without(s, e) = Selected(s, I)
  BY DEF Without
<1> QED
  BY <1>1, <1>2, SelectedPicks

LEMMA ContainsSet ==
  ASSUME NEW S, NEW s \in Seq(S), NEW e PROVE Contains(s, e) <=> e \in ToSet(s)
BY DEF Contains, ToSet

-----------------------------------------------------------------------------
(* Types.                                                                  *)

Socks    == {"none", "connecting", "connected", "early", "orphan"}
Requests == [client : Clients, pieces : Seq(Pieces)] \cup {NoRequest}

\* What the handlers that end connections change.
WireTypes ==
  /\ connections \in Seq(Clients)
  /\ sock \in [Clients -> Socks]
  /\ choked \in [Clients -> BOOLEAN]
  /\ interested \in [Clients -> BOOLEAN]
  /\ avail \in [Clients -> SUBSET Pieces]
  /\ incoming \in [Clients -> Seq(Block)]
  /\ connectingToClients \in BOOLEAN
  /\ piece \in [Pieces -> Piece]
  /\ payloads \in [Clients -> Seq(Pieces)]

\* What the others change.
LoopTypes ==
  /\ state \in States
  /\ registered \in BOOLEAN
  /\ pieceCount \in {0, NumPieces}
  /\ pendingPieces \in SUBSET Pieces
  /\ completedPieces \in SUBSET Pieces
  /\ incompletePieces \in SUBSET Pieces
  /\ verifiedPieces \in SUBSET Pieces
  /\ verifying \in Seq(Pieces)
  /\ store \in [Pieces -> [Blocks -> BOOLEAN]]
  /\ hashes \in [Pieces -> SUBSET {"right", "wrong"}]
  /\ overrun \in SUBSET Pieces
  /\ schedulerCalled \in BOOLEAN
  /\ sched \in Seq(Clients)
  /\ req \in Requests
  /\ left \in [Kinds -> Nat]

LEMMA TypeParts == (TypeOK <=> WireTypes /\ LoopTypes) /\ (TypeOK' <=> WireTypes' /\ LoopTypes')
BY DEF TypeOK, WireTypes, LoopTypes, Socks, Requests

LEMMA TypeInit == Init => TypeOK
<1> SUFFICES ASSUME Init PROVE TypeOK
  OBVIOUS
<1>1. piece \in [Pieces -> Piece] /\ pendingPieces \in SUBSET Pieces
  <2>1. PICK had \in [Pieces \ completedPieces -> SUBSET Blocks] :
          /\ pendingPieces = {p \in DOMAIN had : had[p] # {}}
          /\ piece = [p \in Pieces |-> NewPiece(IF p \in DOMAIN had THEN had[p] ELSE {})]
    BY DEF Init
  <2> QED
    BY <2>1 DEF NewPiece, Piece
<1>2. verifiedPieces \in SUBSET Pieces /\ completedPieces \in SUBSET Pieces
  BY DEF Init
<1>3. left \in [Kinds -> Nat]
  BY LimitAssumption DEF Init
<1>4. WireTypes
  <2>1. /\ sock = [c \in Clients |-> "none"] /\ choked = [c \in Clients |-> TRUE]
        /\ interested = [c \in Clients |-> FALSE] /\ avail = [c \in Clients |-> {}]
        /\ connections = <<>> /\ connectingToClients = FALSE
    BY DEF Init
  <2>2. incoming = [c \in Clients |-> <<>>] /\ payloads = [c \in Clients |-> <<>>]
    BY DEF Init
  <2>3. incoming \in [Clients -> Seq(Block)] /\ payloads \in [Clients -> Seq(Pieces)]
    BY <2>2
  <2>4. /\ sock \in [Clients -> Socks] /\ choked \in [Clients -> BOOLEAN]
        /\ interested \in [Clients -> BOOLEAN] /\ avail \in [Clients -> SUBSET Pieces]
    BY <2>1 DEF Socks
  <2>5. connections \in Seq(Clients)
    BY <2>1
  <2> QED
    BY <1>1, <2>1, <2>3, <2>4, <2>5 DEF WireTypes
<1>5. LoopTypes
  <2>1. /\ state = "Idle" /\ registered = FALSE /\ pieceCount = 0 /\ incompletePieces = {}
        /\ schedulerCalled = FALSE /\ verifying = <<>> /\ sched = <<>> /\ req = NoRequest
        /\ store \in [Pieces -> [Blocks -> BOOLEAN]]
        /\ hashes = [p \in Pieces |-> {}] /\ overrun = {}
    BY DEF Init
  <2>2. verifying \in Seq(Pieces) /\ sched \in Seq(Clients)
    BY <2>1
  <2>3. state \in States /\ req \in Requests
    BY <2>1 DEF States, Requests
  <2> QED
    BY <1>1, <1>2, <1>3, <2>1, <2>2, <2>3 DEF LoopTypes
<1> QED
  BY <1>4, <1>5, TypeParts

LEMMA TypesOfSpend ==
  ASSUME LoopTypes, NEW kind \in Kinds, Spend(kind) PROVE left' \in [Kinds -> Nat]
BY DEF LoopTypes, Spend

LEMMA TypesOfRelease ==
  ASSUME WireTypes, NEW cs \in SUBSET Clients, ReleasePayloads(cs)
  PROVE  piece' \in [Pieces -> Piece] /\ payloads' \in [Clients -> Seq(Pieces)]
<1>1. \A p \in Pieces : piece'[p] = piece[p] \/ piece'[p] = [piece[p] EXCEPT !.requested = {}, !.inProgress = FALSE]
  BY DEF ReleasePayloads
<1>2. ASSUME NEW p \in Pieces PROVE [piece[p] EXCEPT !.requested = {}, !.inProgress = FALSE] \in Piece
  BY DEF WireTypes, Piece
<1>3. piece' \in [Pieces -> Piece]
  <2>1. piece' = [p \in Pieces |-> piece'[p]]
    BY DEF ReleasePayloads
  <2> QED
    BY <1>1, <1>2, <2>1 DEF WireTypes
<1>4. payloads' \in [Clients -> Seq(Pieces)]
  <2>1. payloads' = [c \in Clients |-> IF c \in cs THEN <<>> ELSE payloads[c]]
    BY DEF ReleasePayloads
  <2> QED
    BY <2>1 DEF WireTypes
<1> QED
  BY <1>3, <1>4

LEMMA TypesOfReset ==
  ASSUME WireTypes, NEW cs \in SUBSET Clients, ResetWire(cs)
  PROVE  /\ choked' \in [Clients -> BOOLEAN]
         /\ interested' \in [Clients -> BOOLEAN]
         /\ avail' \in [Clients -> SUBSET Pieces]
         /\ incoming' \in [Clients -> Seq(Block)]
BY DEF WireTypes, ResetWire

LEMMA TypesOfRemove ==
  ASSUME WireTypes, NEW c \in Clients, RemoveClient(c) PROVE WireTypes'
<1>1. connections' \in Seq(Clients)
  BY WithoutPicks DEF WireTypes, RemoveClient
<1>2. ResetWire({c}) /\ ReleasePayloads({c}) /\ {c} \in SUBSET Clients
  BY DEF RemoveClient
<1>3. sock' \in [Clients -> Socks] /\ connectingToClients' \in BOOLEAN
  BY DEF WireTypes, RemoveClient, Socks
<1> QED
  BY <1>1, <1>2, <1>3, TypesOfRelease, TypesOfReset DEF WireTypes

LEMMA TypesOfAbort ==
  ASSUME WireTypes, AbortAll PROVE WireTypes'
<1> DEFINE up == {c \in Clients : Connected(c)} \cap ToSet(connections)
<1>1. ResetWire(up) /\ ReleasePayloads(up) /\ up \in SUBSET Clients
  BY DEF AbortAll
<1>2. /\ connections' = <<>>
      /\ sock' = [c \in Clients |-> IF c \in up THEN "none"
                                    ELSE IF sock[c] = "connecting" THEN "orphan" ELSE sock[c]]
      /\ connectingToClients' = (connectingToClients \/ up # {})
  BY DEF AbortAll
<1> HIDE DEF up
<1>3. connections' \in Seq(Clients) /\ sock' \in [Clients -> Socks] /\ connectingToClients' \in BOOLEAN
  BY <1>2 DEF WireTypes, Socks
<1> QED
  BY <1>1, <1>3, TypesOfRelease, TypesOfReset DEF WireTypes

\* What connectToPeers tries is a sequence of clients.
LEMMA TriedPeers ==
  ASSUME NEW cs \in SetToAllKPermutations({c \in Clients : sock[c] = "none"})
  PROVE  cs \in Seq(Clients) /\ \A c \in ToSet(cs) : sock[c] = "none"
<1> DEFINE free == {c \in Clients : sock[c] = "none"}
<1>1. PICK s \in SUBSET free : cs \in SetToSeqs(s)
  BY DEF SetToAllKPermutations
<1>2. Cardinality(s) \in Nat
  BY ClientsAssumption, FS_Subset, FS_CardinalityType
<1>3. cs \in [1 .. Cardinality(s) -> s]
  BY <1>1 DEF SetToSeqs
<1> QED
  BY <1>2, <1>3 DEF ToSet

LEMMA TypesOfConnect ==
  ASSUME WireTypes, ConnectSome, UNCHANGED <<incoming, piece, payloads>>, connectingToClients' \in BOOLEAN
  PROVE  WireTypes'
<1>1. CASE pieceCount = 0
  BY <1>1 DEF ConnectSome, connVars, WireTypes
<1>2. CASE pieceCount # 0
  <2>1. PICK cs \in SetToAllKPermutations({c \in Clients : sock[c] = "none"}) :
         /\ connections' = connections \o cs
         /\ sock' = [c \in Clients |-> IF Contains(cs, c) THEN "connecting" ELSE sock[c]]
         /\ UNCHANGED <<choked, interested, avail>>
    BY <1>2 DEF ConnectSome
  <2>2. connections' \in Seq(Clients)
    BY <2>1, TriedPeers DEF WireTypes
  <2>3. sock' \in [Clients -> Socks]
    BY <2>1 DEF WireTypes, Socks
  <2> QED
    BY <2>1, <2>2, <2>3 DEF WireTypes
<1> QED
  BY <1>1, <1>2

\* A client's running requestMore goes through pieces of its payload.
LEMMA TypesOfRequestMore ==
  ASSUME LoopTypes, payloads' \in [Clients -> Seq(Pieces)], NEW c \in Clients, BeginRequestMore(c)
  PROVE  schedulerCalled' \in BOOLEAN /\ req' \in Requests /\ ToSet(req'.pieces) \subseteq ToSet(payloads'[c])
<1> DEFINE given  == payloads'[c]
           I      == {i \in DOMAIN given : piece'[given[i]].inProgress \/ MultiMode'}
           active == Selected(given, I)
<1>1. given \in Seq(Pieces) /\ I \in SUBSET (DOMAIN given)
  OBVIOUS
<1>2. active \in Seq(Pieces) /\ ToSet(active) \subseteq ToSet(given)
  <2>1. active \in Seq(Pieces) /\ ToSet(active) = {given[i] : i \in I}
    BY <1>1, SelectedPicks
  <2> QED
    BY <2>1 DEF ToSet
<1>3. /\ req' = NoRequest \/ req' = [client |-> c, pieces |-> active]
      /\ schedulerCalled' = TRUE \/ schedulerCalled' = schedulerCalled
  BY DEF BeginRequestMore, CallScheduler
<1> HIDE DEF active, given
<1>4. req' \in Requests
  BY <1>2, <1>3 DEF Requests
<1>5. ToSet(req'.pieces) \subseteq ToSet(given)
  <2>1. CASE req' = NoRequest
    BY <2>1 DEF NoRequest, ToSet
  <2>2. CASE req' # NoRequest
    BY <1>2, <1>3, <2>2
  <2> QED
    BY <2>1, <2>2
<1> QED
  BY <1>3, <1>4, <1>5 DEF LoopTypes, given

LEMMA TypesOfTracker == TypeOK /\ Tracker => TypeOK'
<1> SUFFICES ASSUME TypeOK, Tracker PROVE TypeOK'
  OBVIOUS
<1>1. WireTypes /\ LoopTypes
  BY TypeParts
<1>2. WireTypes'
  <2>1. CASE UNCHANGED connVars /\ connectingToClients' \in {connectingToClients, TRUE, FALSE}
    BY <1>1, <2>1 DEF Tracker, ConnectToPeers, AddToPeerList, connVars, WireTypes
  <2>2. CASE ConnectSome
    <3>1. UNCHANGED <<incoming, piece, payloads>>
      BY DEF Tracker, ConnectToPeers, AddToPeerList
    <3>2. connectingToClients' \in {connectingToClients, TRUE, FALSE}
      BY DEF Tracker, ConnectToPeers, AddToPeerList, ConnectToPeersBody
    <3>3. connectingToClients' \in BOOLEAN
      BY <1>1, <3>2 DEF WireTypes
    <3> QED
      BY <1>1, <2>2, <3>1, <3>3, TypesOfConnect
  <2> QED
    BY <2>1, <2>2 DEF Tracker, ConnectToPeers, AddToPeerList, ConnectToPeersBody, connVars
<1>3. left' \in [Kinds -> Nat]
  BY <1>1, TypesOfSpend, LimitAssumption DEF Tracker, ConnectToPeers, AddToPeerList, LoopTypes
<1>4. state' \in {state, "Connecting"}
  BY DEF Tracker, ConnectToPeers, AddToPeerList, ConnectToPeersBody
<1>5. LoopTypes'
  BY <1>1, <1>3, <1>4 DEF Tracker, ConnectToPeers, AddToPeerList, LoopTypes, pieceVars, loopVars, States
<1> QED
  BY <1>2, <1>5, TypeParts

\* Start, a pause and its like, a resumption.
LEMMA TypesOfUser == TypeOK /\ (User \/ HandleFileError) => TypeOK'
<1> SUFFICES ASSUME TypeOK, User \/ HandleFileError PROVE TypeOK'
  OBVIOUS
<1>1. WireTypes /\ LoopTypes
  BY TypeParts
<1>2. WireTypes'
  <2>1. CASE AbortAll
    BY <1>1, <2>1, TypesOfAbort
  <2>2. CASE Resume
    BY <1>1, <2>2, TypesOfConnect DEF Resume
  <2>3. CASE UNCHANGED <<connVars, incoming, connectingToClients, piece, payloads>>
    BY <1>1, <2>3 DEF connVars, WireTypes
  <2> QED
    BY <2>1, <2>2, <2>3 DEF User, Start, Pause, Stop, HandleFileError
<1>3. left' \in [Kinds -> Nat]
  BY <1>1, TypesOfSpend, LimitAssumption DEF User, Start, Pause, Resume, Stop, HandleFileError, LoopTypes
<1>4. state' \in States /\ registered' \in BOOLEAN
  BY <1>1 DEF User, Start, Pause, Resume, Stop, HandleFileError, LoopTypes, States
<1>5. LoopTypes'
  BY <1>1, <1>3, <1>4 DEF User, Start, Pause, Resume, Stop, HandleFileError, LoopTypes, pieceVars, loopVars
<1> QED
  BY <1>2, <1>5, TypeParts

LEMMA TypesOfVerification == TypeOK /\ FullVerificationDone => TypeOK'
<1> SUFFICES ASSUME TypeOK, FullVerificationDone PROVE TypeOK'
  OBVIOUS
<1>1. WireTypes /\ LoopTypes
  BY TypeParts
<1>2. piece' \in [Pieces -> Piece]
  BY <1>1 DEF FullVerificationDone, TrustChecksums, WireTypes, NewPiece, Piece
<1>3. WireTypes'
  BY <1>1, <1>2 DEF FullVerificationDone, WireTypes, connVars
<1>4. LoopTypes'
  BY <1>1 DEF FullVerificationDone, CountPieces, TrustChecksums, LoopTypes, loopVars, States
<1> QED
  BY <1>3, <1>4, TypeParts

LEMMA TypesOfVerdict == TypeOK /\ PieceVerified => TypeOK'
<1> SUFFICES ASSUME TypeOK, PieceVerified PROVE TypeOK'
  OBVIOUS
<1>1. WireTypes /\ LoopTypes
  BY TypeParts
<1> DEFINE p == Head(verifying)
<1>2. p \in Pieces /\ verifying' \in Seq(Pieces)
  BY <1>1 DEF PieceVerified, LoopTypes
<1>3. payloads' \in [Clients -> Seq(Pieces)]
  BY <1>1, WithoutPicks DEF PieceVerified, DropFromPayloads, WireTypes
<1>4. piece' \in [Pieces -> Piece]
  BY <1>1, <1>2 DEF PieceVerified, ClearPiece, NewPiece, Piece, WireTypes
<1>5. WireTypes'
  BY <1>1, <1>3, <1>4 DEF PieceVerified, WireTypes, connVars
<1>6. /\ pendingPieces' \in SUBSET Pieces /\ completedPieces' \in SUBSET Pieces
      /\ incompletePieces' \in SUBSET Pieces
  BY <1>1, <1>2 DEF PieceVerified, CompletePiece, LoopTypes
<1>7. state' \in States /\ schedulerCalled' \in BOOLEAN
  BY <1>1 DEF PieceVerified, StateOnPiece, CallScheduler, LoopTypes, States
<1>8. LoopTypes'
  BY <1>1, <1>2, <1>6, <1>7 DEF PieceVerified, LoopTypes, loopVars
<1> QED
  BY <1>5, <1>8, TypeParts

\* What requestBlocks asks for are blocks, no more than the quota has room for.
LEMMA OrdersBounded ==
  ASSUME NEW p, NEW quota \in Nat, NEW bs \in BlockOrders(p, quota)
  PROVE  bs \in Seq(Blocks) /\ Len(bs) <= quota
<1> DEFINE missing == Blocks \ piece[p].completed
           unasked == missing \ piece[p].requested
           bits    == IF unasked = {} /\ MultiMode THEN missing ELSE unasked
           n       == IF Cardinality(bits) < quota THEN Cardinality(bits) ELSE quota
           chosen  == {t \in SUBSET bits : Cardinality(t) = n}
<1>1. bits \in SUBSET Blocks
  OBVIOUS
<1>2. PICK t \in chosen : bs \in SetToSeqs(t)
  BY DEF BlockOrders
<1>3. IsFiniteSet(Blocks)
  BY NumBlocksAssumption, FS_Interval DEF Blocks
<1>4. Cardinality(bits) \in Nat
  BY <1>1, <1>3, FS_Subset, FS_CardinalityType
<1>5. n \in Nat /\ n <= quota
  BY <1>4
<1>6. t \in SUBSET Blocks /\ Cardinality(t) = n
  BY <1>1, <1>2
<1> HIDE DEF chosen, bits, n
<1>7. bs \in [1 .. n -> t]
  BY <1>2, <1>6 DEF SetToSeqs
<1> QED
  BY <1>5, <1>6, <1>7

LEMMA TypesOfAssign ==
  ASSUME TypeOK, NEW c \in Clients, NEW p \in Pieces, Assign(c, p)
  PROVE  /\ piece' \in [Pieces -> Piece]
         /\ payloads' \in [Clients -> Seq(Pieces)]
         /\ pendingPieces' \in SUBSET Pieces
<1>1. piece' \in [Pieces -> Piece]
  BY DEF TypeOK, Assign, Piece
<1>2. <<p>> \o payloads[c] \in Seq(Pieces)
  BY DEF TypeOK
<1>3. payloads' \in [Clients -> Seq(Pieces)]
  BY <1>2 DEF TypeOK, Assign
<1> QED
  BY <1>1, <1>3 DEF TypeOK, Assign

\* What a turn of the scheduler's loop does: it may give the client a piece, which is
\* pending or incomplete, and it may begin requestMore for it.
LEMMA TurnOfScheduler ==
  ASSUME TypeOK, SchedulePieceForClient
  PROVE  LET c == Head(sched) IN
           /\ c \in Clients
           /\ NoAssignment \/ \E p \in Pieces : p \in pendingPieces \cup incompletePieces /\ Assign(c, p)
           /\ UNCHANGED <<schedulerCalled, req>> \/ (Connected(c) /\ BeginRequestMore(c))
           /\ Schedulable(c) \/ (NoAssignment /\ UNCHANGED <<schedulerCalled, req>>)
<1> DEFINE c == Head(sched)
<1>1. c \in Clients
  BY DEF SchedulePieceForClient, TypeOK
<1>2. CASE ~Schedulable(c)
  BY <1>1, <1>2 DEF SchedulePieceForClient
<1>3. CASE Schedulable(c) /\ ShareWarmUpPiece(c)
  BY <1>1, <1>3 DEF ShareWarmUpPiece, Schedulable
<1>4. CASE Schedulable(c) /\ SchedulePiece(c)
  <2> DEFINE ps == AvailableTo(c)
             partial == ps \cap pendingPieces
  <2>1. ps \subseteq incompletePieces /\ incompletePieces \subseteq Pieces
    BY DEF AvailableTo, TypeOK
  <2>2. ASSUME NEW p \in (IF partial # {} THEN FirstOf(partial) ELSE PieceChoices(ps))
        PROVE  p \in ps
    BY <2>2 DEF PieceChoices, FirstOf
  <2>3. NoAssignment \/ \E p \in ps : Assign(c, p)
    BY <1>4, <2>2 DEF SchedulePiece
  <2> QED
    BY <1>1, <1>4, <2>1, <2>3 DEF SchedulePiece, Schedulable
<1> QED
  BY <1>2, <1>3, <1>4 DEF SchedulePieceForClient

LEMMA TypesOfTurn == TypeOK /\ SchedulePieceForClient => TypeOK'
<1> SUFFICES ASSUME TypeOK, SchedulePieceForClient PROVE TypeOK'
  OBVIOUS
<1>1. WireTypes /\ LoopTypes
  BY TypeParts
<1> DEFINE c == Head(sched)
<1>2. /\ c \in Clients
      /\ NoAssignment \/ \E p \in Pieces : Assign(c, p)
      /\ UNCHANGED <<schedulerCalled, req>> \/ BeginRequestMore(c)
  BY TurnOfScheduler
<1>3. /\ piece' \in [Pieces -> Piece]
      /\ payloads' \in [Clients -> Seq(Pieces)]
      /\ pendingPieces' \in SUBSET Pieces
  BY <1>2, TypesOfAssign DEF NoAssignment, TypeOK
<1>4. schedulerCalled' \in BOOLEAN /\ req' \in Requests
  BY <1>1, <1>2, <1>3, TypesOfRequestMore DEF LoopTypes
<1>5. sched' \in Seq(Clients)
  BY <1>1 DEF SchedulePieceForClient, LoopTypes
<1>6. WireTypes'
  BY <1>1, <1>3 DEF SchedulePieceForClient, WireTypes, connVars
<1>7. LoopTypes'
  BY <1>1, <1>3, <1>4, <1>5 DEF SchedulePieceForClient, LoopTypes, pieceVars
<1> QED
  BY <1>6, <1>7, TypeParts

\* One turn of requestMore's loop.
LEMMA TurnOfRequestMore ==
  ASSUME TypeOK, RequestBlocks
  PROVE  LET c == req.client IN
           /\ c \in Clients /\ req # NoRequest
           /\ req'.pieces = Tail(req.pieces) /\ req' \in Requests
           /\ incoming' \in [Clients -> Seq(Block)]
           /\ Len(incoming'[c]) <= MaxInProgress
           /\ \A d \in Clients \ {c} : incoming'[d] = incoming[d]
           /\ piece' \in [Pieces -> Piece]
           /\ \A p \in Pieces : piece'[p].completed = piece[p].completed
<1> DEFINE c == req.client
           p == Head(req.pieces)
<1>1. req.pieces # <<>> /\ req # NoRequest
  BY DEF RequestBlocks, NoRequest
<1>2. c \in Clients /\ p \in Pieces /\ req \in [client : Clients, pieces : Seq(Pieces)]
  BY <1>1 DEF TypeOK
<1>3. MaxInProgress \in Nat
  BY QuotaAssumption DEF MaxInProgress
<1>4. FreeSlots(c) \in Nat /\ Len(incoming[c]) + FreeSlots(c) = MaxInProgress
  <2>1. Len(incoming[c]) \in Nat
    BY <1>2 DEF TypeOK
  <2>2. Len(incoming[c]) < MaxInProgress
    BY DEF RequestBlocks
  <2> QED
    BY <1>3, <2>1, <2>2 DEF FreeSlots
<1>5. PICK bs \in BlockOrders(p, FreeSlots(c)) :
        /\ incoming' = [incoming EXCEPT ![c] = @ \o [i \in DOMAIN bs |-> [piece |-> p, block |-> bs[i]]]]
        /\ piece' = [piece EXCEPT ![p].requested = @ \cup ToSet(bs)]
  BY DEF RequestBlocks
<1>6. bs \in Seq(Blocks) /\ Len(bs) <= FreeSlots(c)
  BY <1>4, OrdersBounded
<1> DEFINE asked == [i \in DOMAIN bs |-> [piece |-> p, block |-> bs[i]]]
<1>7. asked \in Seq(Block) /\ Len(asked) = Len(bs)
  <2>1. bs \in [1 .. Len(bs) -> Blocks] /\ Len(bs) \in Nat
    BY <1>6
  <2>2. \A i \in 1 .. Len(bs) : [piece |-> p, block |-> bs[i]] \in Block
    BY <1>2, <2>1 DEF Block
  <2>3. asked = [i \in 1 .. Len(bs) |-> [piece |-> p, block |-> bs[i]]]
    BY <2>1
  <2> QED
    BY <2>1, <2>2, <2>3
<1> HIDE DEF asked
<1>8. /\ incoming' \in [Clients -> Seq(Block)]
      /\ \A d \in Clients \ {c} : incoming'[d] = incoming[d]
      /\ incoming'[c] = incoming[c] \o asked
  BY <1>2, <1>5, <1>7 DEF TypeOK, asked
<1>9. Len(incoming'[c]) <= MaxInProgress
  BY <1>2, <1>4, <1>6, <1>7, <1>8 DEF TypeOK
<1>10. ToSet(bs) \in SUBSET Blocks
  BY <1>6 DEF ToSet
<1>11. piece' \in [Pieces -> Piece] /\ \A q \in Pieces : piece'[q].completed = piece[q].completed
  <2>1. piece \in [Pieces -> Piece] /\ p \in Pieces
    BY <1>2 DEF TypeOK
  <2>2. PICK new : new = [piece[p] EXCEPT !.requested = @ \cup ToSet(bs)]
    OBVIOUS
  <2>3. piece' = [piece EXCEPT ![p] = new]
    BY <1>5, <2>2
  <2>4. new \in Piece /\ new.completed = piece[p].completed
    BY <1>10, <2>1, <2>2 DEF Piece
  <2> QED
    BY <2>1, <2>3, <2>4
<1>12. req'.pieces = Tail(req.pieces) /\ req' \in Requests
  <2>1. req' = [req EXCEPT !.pieces = Tail(@)]
    BY DEF RequestBlocks
  <2>2. req.pieces \in Seq(Pieces) /\ Tail(req.pieces) \in Seq(Pieces)
    BY <1>1, <1>2
  <2> QED
    BY <1>2, <2>1, <2>2 DEF Requests
<1> QED
  BY <1>1, <1>2, <1>8, <1>9, <1>11, <1>12

LEMMA TypesOfScheduler == TypeOK /\ Scheduler => TypeOK'
<1> SUFFICES ASSUME TypeOK, Scheduler PROVE TypeOK'
  OBVIOUS
<1>1. CASE ScheduleDownloads
  <2>1. WireTypes /\ LoopTypes
    BY TypeParts
  <2>2. sched' \in Seq(Clients)
    BY <1>1, <2>1 DEF ScheduleDownloads, WireTypes
  <2>3. WireTypes' /\ LoopTypes'
    BY <1>1, <2>1, <2>2 DEF ScheduleDownloads, WireTypes, LoopTypes, connVars, pieceVars
  <2> QED
    BY <2>3, TypeParts
<1>2. CASE SchedulePieceForClient
  BY <1>2, TypesOfTurn
<1>3. CASE RequestBlocks
  <2>1. WireTypes /\ LoopTypes
    BY TypeParts
  <2>2. req' \in Requests /\ incoming' \in [Clients -> Seq(Block)] /\ piece' \in [Pieces -> Piece]
    BY <1>3, TurnOfRequestMore
  <2>3. WireTypes' /\ LoopTypes'
    BY <1>3, <2>1, <2>2 DEF RequestBlocks, WireTypes, LoopTypes, connVars, pieceVars
  <2> QED
    BY <2>3, TypeParts
<1>4. CASE EndRequestMore
  BY <1>4 DEF EndRequestMore, CallScheduler, TypeOK, connVars, pieceVars
<1> QED
  BY <1>1, <1>2, <1>3, <1>4 DEF Scheduler

\* What is written lies within the torrent.
LEMMA DataInTorrent ==
  ASSUME NEW p, NEW b, NEW data \in Messages(p, b)
  PROVE  DOMAIN data \subseteq Pieces \X Blocks /\ \A at \in DOMAIN data : data[at] \in BOOLEAN
<1>1. PICK n \in 1 .. MaxSpan : data \in [Span(p, b, n) -> BOOLEAN]
  BY DEF Messages
<1>2. Span(p, b, n) \subseteq Pieces \X Blocks
  BY DEF Span
<1> QED
  BY <1>1, <1>2

LEMMA TypesOfData ==
  ASSUME LoopTypes, NEW p, NEW b, NEW data \in Messages(p, b), NEW whole \in BOOLEAN,
         WriteData(p, data, whole)
  PROVE  /\ store' \in [Pieces -> [Blocks -> BOOLEAN]] /\ overrun' \in SUBSET Pieces
         /\ hashes' \in [Pieces -> SUBSET {"right", "wrong"}]
<1>1. \A at \in DOMAIN data : data[at] \in BOOLEAN
  BY DataInTorrent
<1>2. store \in [Pieces -> [Blocks -> BOOLEAN]] /\ hashes \in [Pieces -> SUBSET {"right", "wrong"}]
  BY DEF LoopTypes
<1>3. \A q \in Pieces, a \in Blocks :
        (IF <<q, a>> \in DOMAIN data THEN data[<<q, a>>] ELSE store[q][a]) \in BOOLEAN
  BY <1>1, <1>2
<1>4. store' \in [Pieces -> [Blocks -> BOOLEAN]]
  BY <1>3 DEF WriteData
<1>5. \A q \in Pieces : Hash(store', q) \in {"right", "wrong"}
  BY DEF Hash
<1>6. hashes' \in [Pieces -> SUBSET {"right", "wrong"}]
  BY <1>2, <1>5 DEF WriteData
<1>7. overrun' \in SUBSET Pieces
  BY DEF WriteData
<1> QED
  BY <1>4, <1>6, <1>7

\* A client that receives a block: what it no longer waits for, and what follows for
\* the piece.
LEMMA TypesOfBlock ==
  ASSUME TypeOK, NEW c \in Clients, NEW p \in Pieces, NEW b \in Blocks,
         NEW exact \in BOOLEAN, NEW data \in Messages(p, b), BlockReceived(c, p, b, exact, data)
  PROVE  TypeOK'
<1>1. WireTypes /\ LoopTypes
  BY TypeParts
<1>2. incoming' \in [Clients -> Seq(Block)]
  BY <1>1, WithoutPicks DEF BlockReceived, WireTypes
<1>3. payloads' \in [Clients -> Seq(Pieces)]
  BY <1>1, WithoutPicks DEF BlockReceived, DropFromPayloads, WireTypes
<1>4. piece' \in [Pieces -> Piece]
  <2>1. \/ piece' = piece
        \/ piece' = [piece EXCEPT ![p].completed = piece[p].completed \cup {b}, ![p].requested = @ \ {b}]
    BY DEF BlockReceived
  <2>2. piece[p] \in Piece
    BY <1>1 DEF WireTypes
  <2>3. [piece[p] EXCEPT !.completed = piece[p].completed \cup {b}, !.requested = @ \ {b}] \in Piece
    BY <2>2 DEF Piece
  <2> QED
    BY <1>1, <2>1, <2>3 DEF WireTypes
<1>5. /\ verifying' \in Seq(Pieces) /\ state' \in States
      /\ store' \in [Pieces -> [Blocks -> BOOLEAN]] /\ overrun' \in SUBSET Pieces
      /\ hashes' \in [Pieces -> SUBSET {"right", "wrong"}]
  <2>1. verifying' = verifying \/ verifying' = Append(verifying, p)
    BY DEF BlockReceived
  <2>2. UNCHANGED <<store, hashes, overrun>> \/ WriteData(p, data, piece[p].completed \cup {b} = Blocks)
    BY DEF BlockReceived
  <2>3. state' = state \/ state' = "Downloading"
    BY DEF BlockReceived
  <2>4. verifying' \in Seq(Pieces)
    <3>1. verifying \in Seq(Pieces)
      BY <1>1 DEF LoopTypes
    <3> QED
      BY <2>1, <3>1
  <2>5. /\ store' \in [Pieces -> [Blocks -> BOOLEAN]] /\ overrun' \in SUBSET Pieces
        /\ hashes' \in [Pieces -> SUBSET {"right", "wrong"}]
    BY <1>1, <2>2, TypesOfData DEF LoopTypes
  <2>6. state' \in States
    BY <1>1, <2>3 DEF LoopTypes, States
  <2> QED
    BY <2>4, <2>5, <2>6
<1>6. schedulerCalled' \in BOOLEAN /\ req' \in Requests
  <2>1. BeginRequestMore(c)
    BY DEF BlockReceived
  <2> QED
    BY <1>1, <1>3, <2>1, TypesOfRequestMore
<1>7. left' \in [Kinds -> Nat]
  BY <1>1, TypesOfSpend, LimitAssumption DEF BlockReceived, LoopTypes
<1>8. WireTypes'
  BY <1>1, <1>2, <1>3, <1>4 DEF BlockReceived, WireTypes, connVars
<1>9. LoopTypes'
  BY <1>1, <1>5, <1>6, <1>7 DEF BlockReceived, LoopTypes
<1> QED
  BY <1>8, <1>9, TypeParts

LEMMA TypesOfConnection ==
  ASSUME TypeOK, NEW c \in Clients, Connection(c)
  PROVE  TypeOK'
<1>1. WireTypes /\ LoopTypes
  BY TypeParts
<1>2. StateOnConnection \in States
  BY <1>1 DEF StateOnConnection, LoopTypes, States
<1>3. CASE SetupOutgoingConnection(c) \/ OrphanConnected(c) \/ SetupIncomingConnection(c)
  <2>1. sock' \in [Clients -> Socks] /\ connections' \in Seq(Clients) /\ connectingToClients' \in BOOLEAN
    <3>1. \E s \in Socks : sock' = [sock EXCEPT ![c] = s]
      BY <1>3 DEF SetupOutgoingConnection, OrphanConnected, SetupIncomingConnection, Socks
    <3>2. connections' = connections \/ connections' = Append(connections, c)
      BY <1>3 DEF SetupOutgoingConnection, OrphanConnected, SetupIncomingConnection
    <3>3. connectingToClients' \in {connectingToClients, TRUE}
      BY <1>3 DEF SetupOutgoingConnection, OrphanConnected, SetupIncomingConnection
    <3>4. sock' \in [Clients -> Socks]
      BY <1>1, <3>1 DEF WireTypes
    <3>5. connections' \in Seq(Clients)
      <4>1. connections \in Seq(Clients)
        BY <1>1 DEF WireTypes
      <4> QED
        BY <3>2, <4>1
    <3>6. connectingToClients' \in BOOLEAN
      BY <1>1, <3>3 DEF WireTypes
    <3> QED
      BY <3>4, <3>5, <3>6
  <2>2. WireTypes'
    BY <1>1, <1>3, <2>1
       DEF SetupOutgoingConnection, OrphanConnected, SetupIncomingConnection, WireTypes
  <2>3. LoopTypes'
    BY <1>1, <1>2, <1>3
       DEF SetupOutgoingConnection, OrphanConnected, SetupIncomingConnection, LoopTypes, pieceVars, loopVars
  <2> QED
    BY <2>2, <2>3, TypeParts
<1>4. CASE Disconnect(c)
  <2>1. WireTypes'
    BY <1>1, <1>4, TypesOfRemove DEF Disconnect
  <2>2. left' \in [Kinds -> Nat]
    BY <1>1, <1>4, TypesOfSpend, LimitAssumption DEF Disconnect
  <2>3. LoopTypes'
    BY <1>1, <1>4, <2>2 DEF Disconnect, LoopTypes, pieceVars, loopVars
  <2> QED
    BY <2>1, <2>3, TypeParts
<1>5. CASE PeerChoked(c)
  <2>1. piece' \in [Pieces -> Piece] /\ payloads' \in [Clients -> Seq(Pieces)]
    <3>1. ReleasePayloads({c}) /\ {c} \in SUBSET Clients
      BY <1>5 DEF PeerChoked
    <3> QED
      BY <1>1, <3>1, TypesOfRelease
  <2>2. WireTypes'
    <3>1. /\ choked' = [choked EXCEPT ![c] = TRUE] /\ incoming' = [incoming EXCEPT ![c] = <<>>]
          /\ UNCHANGED <<connections, sock, interested, avail, connectingToClients>>
      BY <1>5 DEF PeerChoked
    <3> QED
      BY <1>1, <2>1, <3>1 DEF WireTypes
  <2>3. left' \in [Kinds -> Nat]
    BY <1>1, <1>5, TypesOfSpend, LimitAssumption DEF PeerChoked
  <2>4. LoopTypes'
    BY <1>1, <1>5, <2>3 DEF PeerChoked, LoopTypes, pieceVars, loopVars
  <2> QED
    BY <2>2, <2>4, TypeParts
<1>6. CASE PeerUnchoked(c)
  BY <1>6 DEF PeerUnchoked, CallScheduler, TypeOK, pieceVars, loopVars
<1>7. ASSUME NEW ps \in SUBSET Pieces, PeerPiecesAvailable(c, ps) PROVE TypeOK'
  <2>1. WireTypes'
    <3>1. CASE RemoveClient(c)
      BY <1>1, <3>1, TypesOfRemove
    <3>2. CASE ~RemoveClient(c)
      BY <1>1, <1>7, <3>2 DEF PeerPiecesAvailable, WireTypes
    <3> QED
      BY <3>1, <3>2
  <2>2. schedulerCalled' \in BOOLEAN
    BY <1>1, <1>7 DEF PeerPiecesAvailable, CallScheduler, LoopTypes
  <2>3. LoopTypes'
    BY <1>1, <1>7, <2>2 DEF PeerPiecesAvailable, LoopTypes, pieceVars, loopVars
  <2> QED
    BY <2>1, <2>3, TypeParts
<1>8. CASE EarlyPiecesAvailable(c)
  <2>1. WireTypes'
    <3>1. CASE RemoveClient(c)
      BY <1>1, <3>1, TypesOfRemove
    <3>2. CASE ~RemoveClient(c)
      BY <1>1, <1>8, <3>2 DEF EarlyPiecesAvailable, WireTypes
    <3> QED
      BY <3>1, <3>2
  <2>2. schedulerCalled' \in BOOLEAN
    BY <1>1, <1>8 DEF EarlyPiecesAvailable, CallScheduler, LoopTypes
  <2>3. LoopTypes'
    BY <1>1, <1>8, <2>2 DEF EarlyPiecesAvailable, LoopTypes, pieceVars, loopVars
  <2> QED
    BY <2>1, <2>3, TypeParts
<1> QED
  <2>1. CASE SomeBlockReceived(c)
    <3>1. PICK p \in Pieces, b \in Blocks, exact \in BOOLEAN :
            \E data \in Messages(p, b) : BlockReceived(c, p, b, exact, data)
      BY <2>1 DEF SomeBlockReceived
    <3>2. PICK data \in Messages(p, b) : BlockReceived(c, p, b, exact, data)
      BY <3>1
    <3> QED
      BY <3>2, TypesOfBlock
  <2> QED
    BY <1>3, <1>4, <1>5, <1>6, <1>7, <1>8, <2>1 DEF Connection

LEMMA TypeNext == TypeOK /\ [Next]_vars => TypeOK'
<1>1. TypeOK /\ UNCHANGED vars => TypeOK'
  BY DEF vars, connVars, pieceVars, loopVars, TypeOK
<1> QED
  BY <1>1, TypesOfTracker, TypesOfUser, TypesOfVerification, TypesOfVerdict, TypesOfScheduler,
     TypesOfConnection DEF Next, FileService

\* Every variable keeps its type, whatever the peers, the tracker and the user do.
THEOREM TypesHold == Spec => []TypeOK
BY TypeInit, TypeNext, PTL DEF Spec

-----------------------------------------------------------------------------
(* Pointers to pieces, and verdicts.                                       *)

\* A piece is full exactly while its verdict is awaited, which is once; a piece that is
\* not pending has no blocks; before the files are verified no client has a payload.
Pointers ==
  /\ NoDanglingPiece
  /\ \A i, j \in 1 .. Len(verifying) : verifying[i] = verifying[j] => i = j
  /\ \A p \in Pieces : piece[p].completed = Blocks <=> p \in ToSet(verifying)
  /\ \A p \in Pieces \ pendingPieces : piece[p].completed = {}
  /\ pieceCount = 0 => verifying = <<>> /\ \A c \in Clients : payloads[c] = <<>>

LEMMA SomeBlock == Blocks # {}
<1>1. 0 \in Blocks
  BY NumBlocksAssumption DEF Blocks
<1> QED
  BY <1>1

LEMMA NoMembers == ASSUME NEW S, NEW s \in Seq(S) PROVE s = <<>> <=> ToSet(s) = {}
BY DEF ToSet

LEMMA PointersInit == Init => Pointers
<1> SUFFICES ASSUME Init PROVE Pointers
  OBVIOUS
<1>1. PICK had \in [Pieces \ completedPieces -> SUBSET Blocks] :
        /\ \A p \in DOMAIN had : had[p] # Blocks
        /\ pendingPieces = {p \in DOMAIN had : had[p] # {}}
        /\ piece = [p \in Pieces |-> NewPiece(IF p \in DOMAIN had THEN had[p] ELSE {})]
  BY DEF Init
<1>2. \A p \in Pieces : piece[p].completed = IF p \in DOMAIN had THEN had[p] ELSE {}
  BY <1>1 DEF NewPiece
<1>3. \A p \in Pieces : piece[p].completed # Blocks
  BY <1>1, <1>2, SomeBlock
<1>4. \A p \in Pieces \ pendingPieces : piece[p].completed = {}
  BY <1>1, <1>2
<1>5. verifying = <<>> /\ req.pieces = <<>> /\ \A c \in Clients : payloads[c] = <<>>
  BY DEF Init, NoRequest
<1>6. ToSet(<<>>) = {}
  BY DEF ToSet
<1> QED
  BY <1>3, <1>4, <1>5, <1>6 DEF Pointers, NoDanglingPiece

\* Handlers that give no piece to a client and get no block.
LEMMA PointersKept ==
  ASSUME Pointers, UNCHANGED <<pieceCount, pendingPieces, verifying>>,
         payloads' \in [Clients -> Seq(Pieces)],
         \A p \in Pieces : piece'[p].completed = piece[p].completed,
         \A c \in Clients : ToSet(payloads'[c]) \subseteq ToSet(payloads[c]),
         ToSet(req'.pieces) \subseteq pendingPieces
  PROVE  Pointers'
<1>1. pieceCount' = 0 => \A c \in Clients : payloads'[c] = <<>>
  <2> SUFFICES ASSUME pieceCount = 0, NEW c \in Clients PROVE payloads'[c] = <<>>
    OBVIOUS
  <2>1. payloads[c] = <<>>
    BY DEF Pointers
  <2>2. ToSet(payloads[c]) = {}
    BY <2>1 DEF ToSet
  <2>3. ToSet(payloads'[c]) = {}
    BY <2>2
  <2> QED
    BY <2>3, NoMembers
<1> QED
  BY <1>1 DEF Pointers, NoDanglingPiece

\* The loops that are running end before any handler starts.
LEMMA NoneRunning == Quiet => ToSet(req.pieces) = {} /\ req.pieces = <<>>
BY DEF Quiet, NoRequest, ToSet

\* A release takes the payloads of some clients, and no block.
LEMMA ReleaseKeepsBlocks ==
  ASSUME TypeOK, NEW cs \in SUBSET Clients, ReleasePayloads(cs)
  PROVE  /\ \A p \in Pieces : piece'[p].completed = piece[p].completed
         /\ \A c \in Clients : ToSet(payloads'[c]) \subseteq ToSet(payloads[c])
<1>1. ASSUME NEW p \in Pieces PROVE piece'[p].completed = piece[p].completed
  <2>1. piece'[p] = piece[p] \/ piece'[p] = [piece[p] EXCEPT !.requested = {}, !.inProgress = FALSE]
    BY DEF ReleasePayloads
  <2>2. piece[p] \in Piece
    BY DEF TypeOK
  <2> QED
    BY <2>1, <2>2 DEF Piece
<1>2. \A c \in Clients : payloads'[c] = <<>> \/ payloads'[c] = payloads[c]
  BY DEF ReleasePayloads
<1> QED
  BY <1>1, <1>2 DEF ToSet

\* The user, the tracker, file errors, and what a connection does but for its blocks.
LEMMA PointersOfRelease ==
  ASSUME TypeOK, TypeOK', Pointers, Quiet, UNCHANGED <<pieceCount, pendingPieces, verifying, req>>,
         \/ UNCHANGED <<piece, payloads>>
         \/ \E cs \in SUBSET Clients : ReleasePayloads(cs)
  PROVE  Pointers'
<1>1. /\ \A p \in Pieces : piece'[p].completed = piece[p].completed
      /\ \A c \in Clients : ToSet(payloads'[c]) \subseteq ToSet(payloads[c])
  BY ReleaseKeepsBlocks
<1>2. ToSet(req'.pieces) \subseteq pendingPieces
  BY NoneRunning
<1>3. payloads' \in [Clients -> Seq(Pieces)]
  BY DEF TypeOK
<1> QED
  BY <1>1, <1>2, <1>3, PointersKept

LEMMA PointersOfUser ==
  TypeOK /\ TypeOK' /\ Pointers /\ (Tracker \/ User \/ HandleFileError) => Pointers'
<1> SUFFICES ASSUME TypeOK, TypeOK', Pointers, Tracker \/ User \/ HandleFileError PROVE Pointers'
  OBVIOUS
<1>1. AbortAll => \E cs \in SUBSET Clients : ReleasePayloads(cs)
  BY DEF AbortAll
<1>2. UNCHANGED <<pieceCount, pendingPieces, verifying, req>>
  BY DEF Tracker, ConnectToPeers, AddToPeerList, User, Start, Pause, Resume, Stop, HandleFileError,
    pieceVars, loopVars
<1>3. \/ UNCHANGED <<piece, payloads>>
      \/ \E cs \in SUBSET Clients : ReleasePayloads(cs)
  BY <1>1 DEF Tracker, ConnectToPeers, AddToPeerList, User, Start, Pause, Resume, Stop, HandleFileError
<1>4. CASE Quiet
  BY <1>2, <1>3, <1>4, PointersOfRelease
<1>5. CASE Start
  BY <1>5 DEF Start, Pointers, NoDanglingPiece, pieceVars, loopVars
<1> QED
  BY <1>4, <1>5 DEF Tracker, ConnectToPeers, AddToPeerList, User, Pause, Resume, Stop, HandleFileError

LEMMA PointersOfVerification == Pointers /\ FullVerificationDone => Pointers'
<1> SUFFICES ASSUME Pointers, FullVerificationDone PROVE Pointers'
  OBVIOUS
<1>1. /\ verifying = <<>> /\ verifying' = <<>>
      /\ \A c \in Clients : payloads'[c] = <<>>
  BY DEF FullVerificationDone, Pointers
<1>2. ToSet(<<>>) = {}
  BY DEF ToSet
<1>3. req'.pieces = <<>>
  BY NoneRunning DEF FullVerificationDone, loopVars
<1>4. \A p \in Pieces : piece'[p] = IF p \in completedPieces' THEN NewPiece({}) ELSE piece[p]
  BY DEF FullVerificationDone, TrustChecksums
<1>5. \A p \in Pieces : piece'[p].completed = IF p \in completedPieces' THEN {} ELSE piece[p].completed
  BY <1>4 DEF NewPiece
<1>6. pendingPieces' = pendingPieces \ completedPieces'
  BY DEF FullVerificationDone, TrustChecksums
<1>7. \A p \in Pieces : piece'[p].completed # Blocks
  BY <1>1, <1>2, <1>5, SomeBlock DEF Pointers
<1>8. \A p \in Pieces \ pendingPieces' : piece'[p].completed = {}
  BY <1>5, <1>6 DEF Pointers
<1> QED
  BY <1>1, <1>2, <1>3, <1>7, <1>8 DEF Pointers, NoDanglingPiece

\* The members of a sequence without repetition, but for the first one.
LEMMA TailMembers ==
  ASSUME NEW S, NEW s \in Seq(S), s # <<>>, \A i, j \in 1 .. Len(s) : s[i] = s[j] => i = j
  PROVE  /\ ToSet(Tail(s)) = ToSet(s) \ {Head(s)}
         /\ \A i, j \in 1 .. Len(Tail(s)) : Tail(s)[i] = Tail(s)[j] => i = j
<1>1. Len(s) \in Nat \ {0} /\ Head(s) = s[1] /\ Len(Tail(s)) = Len(s) - 1
  OBVIOUS
<1>2. \A i \in 1 .. Len(s) - 1 : Tail(s)[i] = s[i + 1]
  BY <1>1
<1>3. ToSet(s) = {s[i] : i \in 1 .. Len(s)} /\ ToSet(Tail(s)) = {s[i + 1] : i \in 1 .. Len(s) - 1}
  <2>1. DOMAIN s = 1 .. Len(s) /\ DOMAIN Tail(s) = 1 .. Len(s) - 1
    BY <1>1
  <2>2. ToSet(Tail(s)) = {Tail(s)[i] : i \in 1 .. Len(s) - 1}
    BY <2>1 DEF ToSet
  <2>3. {Tail(s)[i] : i \in 1 .. Len(s) - 1} = {s[i + 1] : i \in 1 .. Len(s) - 1}
    BY <1>2
  <2>4. ToSet(s) = {s[i] : i \in 1 .. Len(s)}
    BY <2>1 DEF ToSet
  <2> QED
    BY <2>2, <2>3, <2>4
<1>4. \A i \in 1 .. Len(s) - 1 : i + 1 \in 1 .. Len(s) /\ s[i + 1] # s[1]
  BY <1>1
<1>5. \A i \in 1 .. Len(s) : i = 1 \/ i - 1 \in 1 .. Len(s) - 1
  BY <1>1
<1>6. ASSUME NEW x \in ToSet(s), x # Head(s) PROVE x \in ToSet(Tail(s))
  <2>1. PICK i \in 1 .. Len(s) : x = s[i]
    BY <1>3
  <2>2. i - 1 \in 1 .. Len(s) - 1 /\ s[(i - 1) + 1] = x
    BY <1>1, <1>5, <1>6, <2>1
  <2> QED
    BY <1>3, <2>2
<1>7. ASSUME NEW x \in ToSet(Tail(s)) PROVE x \in ToSet(s) /\ x # Head(s)
  BY <1>1, <1>3, <1>4
<1>8. ASSUME NEW i \in 1 .. Len(Tail(s)), NEW j \in 1 .. Len(Tail(s)), Tail(s)[i] = Tail(s)[j]
      PROVE  i = j
  <2>1. s[i + 1] = s[j + 1] /\ i + 1 \in 1 .. Len(s) /\ j + 1 \in 1 .. Len(s)
    BY <1>1, <1>2, <1>8
  <2>2. i + 1 = j + 1
    BY <2>1
  <2> QED
    BY <1>1, <2>2
<1> QED
  BY <1>6, <1>7, <1>8

\* An element is added to a sequence that lacks it.
LEMMA AppendMembers ==
  ASSUME NEW S, NEW s \in Seq(S), NEW e \in S, e \notin ToSet(s),
         \A i, j \in 1 .. Len(s) : s[i] = s[j] => i = j
  PROVE  /\ ToSet(Append(s, e)) = ToSet(s) \cup {e}
         /\ \A i, j \in 1 .. Len(Append(s, e)) : Append(s, e)[i] = Append(s, e)[j] => i = j
<1>1. Len(s) \in Nat /\ DOMAIN s = 1 .. Len(s)
  OBVIOUS
<1>2. /\ DOMAIN Append(s, e) = 1 .. Len(s) + 1 /\ Len(Append(s, e)) = Len(s) + 1
      /\ Append(s, e)[Len(s) + 1] = e
      /\ \A i \in 1 .. Len(s) : Append(s, e)[i] = s[i]
  OBVIOUS
<1>3. \A i \in 1 .. Len(s) : s[i] # e
  BY <1>1 DEF ToSet
<1>4. 1 .. Len(s) + 1 = (1 .. Len(s)) \cup {Len(s) + 1}
  BY <1>1
<1>5. ToSet(Append(s, e)) = ToSet(s) \cup {e}
  BY <1>1, <1>2, <1>4 DEF ToSet
<1>6. \A i, j \in (1 .. Len(s)) \cup {Len(s) + 1} : Append(s, e)[i] = Append(s, e)[j] => i = j
  BY <1>2, <1>3
<1> QED
  BY <1>2, <1>4, <1>5, <1>6

LEMMA PointersOfVerdict == TypeOK /\ Pointers /\ PieceVerified => Pointers'
<1> SUFFICES ASSUME TypeOK, Pointers, PieceVerified PROVE Pointers'
  OBVIOUS
<1> DEFINE p == Head(verifying)
<1>1. /\ verifying \in Seq(Pieces) /\ verifying # <<>> /\ verifying' = Tail(verifying)
      /\ pieceCount' = pieceCount /\ pieceCount # 0
  BY NumPiecesAssumption DEF PieceVerified, TypeOK
<1>2. p \in Pieces /\ p \in ToSet(verifying)
  BY <1>1 DEF ToSet
<1>3. /\ ToSet(verifying') = ToSet(verifying) \ {p}
      /\ \A i, j \in 1 .. Len(verifying') : verifying'[i] = verifying'[j] => i = j
  BY <1>1, TailMembers DEF Pointers
<1>4. pendingPieces \ {p} \subseteq pendingPieces' /\ pendingPieces' \subseteq pendingPieces
  BY DEF PieceVerified, CompletePiece
<1>5. \A c \in Clients : ToSet(payloads'[c]) = ToSet(payloads[c]) \ {p}
  BY WithoutPicks DEF PieceVerified, DropFromPayloads, TypeOK
<1>6. ToSet(req'.pieces) = {}
  BY NoneRunning DEF PieceVerified, loopVars
<1>7. piece' = [piece EXCEPT ![p] = NewPiece({})]
  BY DEF PieceVerified, ClearPiece
<1> HIDE DEF p
<1>8. \A q \in Pieces : piece'[q].completed = IF q = p THEN {} ELSE piece[q].completed
  BY <1>2, <1>7 DEF NewPiece, TypeOK
<1>9. NoDanglingPiece'
  BY <1>3, <1>4, <1>5, <1>6 DEF Pointers, NoDanglingPiece
<1>10. \A q \in Pieces : piece'[q].completed = Blocks <=> q \in ToSet(verifying')
  BY <1>3, <1>8, SomeBlock DEF Pointers
<1>11. \A q \in Pieces \ pendingPieces' : piece'[q].completed = {}
  BY <1>4, <1>8 DEF Pointers
<1> QED
  BY <1>1, <1>3, <1>9, <1>10, <1>11 DEF Pointers

\* A piece is given to a client after it has become pending.
LEMMA PointersOfTurn ==
  ASSUME TypeOK, TypeOK', Integrity, Pointers, SchedulePieceForClient
  PROVE  Pointers'
<1> DEFINE c == Head(sched)
<1>1. /\ c \in Clients
      /\ NoAssignment \/ \E p \in Pieces : Assign(c, p)
      /\ UNCHANGED <<schedulerCalled, req>> \/ (Connected(c) /\ BeginRequestMore(c))
      /\ Schedulable(c) \/ (NoAssignment /\ UNCHANGED <<schedulerCalled, req>>)
  BY TurnOfScheduler
<1>2. UNCHANGED <<pieceCount, verifying>>
  BY DEF SchedulePieceForClient, pieceVars
<1>3. LoopTypes /\ payloads' \in [Clients -> Seq(Pieces)] /\ payloads \in [Clients -> Seq(Pieces)]
  BY TypeParts DEF TypeOK
<1> HIDE DEF c
<1>4. pieceCount = 0 => ~Schedulable(c)
  BY <1>1 DEF Integrity, Schedulable, Connected
<1>5. /\ pendingPieces \subseteq pendingPieces'
      /\ \A q \in Pieces : piece'[q].completed = piece[q].completed
      /\ \A d \in Clients : ToSet(payloads'[d]) \subseteq pendingPieces'
  <2>1. CASE NoAssignment
    BY <2>1 DEF NoAssignment, Pointers, NoDanglingPiece
  <2>2. ASSUME NEW p \in Pieces, Assign(c, p)
        PROVE  /\ pendingPieces \subseteq pendingPieces'
               /\ \A q \in Pieces : piece'[q].completed = piece[q].completed
               /\ \A d \in Clients : ToSet(payloads'[d]) \subseteq pendingPieces'
    <3>1. piece' = [piece EXCEPT ![p].inProgress = TRUE] /\ pendingPieces' = pendingPieces \cup {p}
          /\ payloads' = [payloads EXCEPT ![c] = <<p>> \o @]
      BY <2>2 DEF Assign
    <3>2. \A q \in Pieces : piece'[q].completed = piece[q].completed
      BY <3>1 DEF TypeOK, Piece
    <3>3. payloads[c] \in Seq(Pieces) /\ payloads'[c] = <<p>> \o payloads[c]
      BY <1>1, <1>3, <3>1
    <3>4. ToSet(<<p>> \o payloads[c]) \subseteq {p} \cup ToSet(payloads[c])
      BY <3>3 DEF ToSet
    <3>5. \A d \in Clients \ {c} : payloads'[d] = payloads[d]
      BY <1>3, <3>1
    <3> QED
      BY <1>1, <3>1, <3>2, <3>3, <3>4, <3>5 DEF Pointers, NoDanglingPiece
  <2> QED
    BY <1>1, <2>1, <2>2
<1>6. ToSet(req'.pieces) \subseteq pendingPieces'
  <2>1. CASE UNCHANGED req
    BY <1>5, <2>1 DEF Pointers, NoDanglingPiece
  <2>2. CASE BeginRequestMore(c)
    BY <1>1, <1>3, <1>5, <2>2, TypesOfRequestMore
  <2> QED
    BY <1>1, <2>1, <2>2
<1>7. ToSet(verifying') \subseteq pendingPieces'
  BY <1>2, <1>5 DEF Pointers, NoDanglingPiece
<1>8. \A q \in Pieces \ pendingPieces' : piece'[q].completed = {}
  BY <1>5 DEF Pointers
<1>9. pieceCount = 0 => \A d \in Clients : payloads'[d] = <<>>
  BY <1>1, <1>4 DEF NoAssignment, Pointers
<1> QED
  BY <1>2, <1>5, <1>6, <1>7, <1>8, <1>9 DEF Pointers, NoDanglingPiece

LEMMA PointersOfScheduler ==
  ASSUME TypeOK, TypeOK', Integrity, Pointers, Scheduler
  PROVE  Pointers'
<1>1. CASE ScheduleDownloads
  BY <1>1 DEF ScheduleDownloads, Pointers, NoDanglingPiece, pieceVars
<1>2. CASE RequestBlocks
  <2>1. /\ req'.pieces = Tail(req.pieces) /\ req.pieces \in Seq(Pieces) /\ req.pieces # <<>>
        /\ \A p \in Pieces : piece'[p].completed = piece[p].completed
    <3>1. req.pieces # <<>>
      BY <1>2 DEF RequestBlocks
    <3> QED
      BY <1>2, <3>1, TurnOfRequestMore DEF TypeOK, NoRequest
  <2>2. ToSet(req'.pieces) \subseteq ToSet(req.pieces)
    BY <2>1 DEF ToSet
  <2>3. UNCHANGED <<pieceCount, pendingPieces, verifying, payloads>>
    BY <1>2 DEF RequestBlocks, pieceVars
  <2>4. payloads' \in [Clients -> Seq(Pieces)] /\ ToSet(req'.pieces) \subseteq pendingPieces
    BY <2>2 DEF TypeOK, Pointers, NoDanglingPiece
  <2> QED
    BY <2>1, <2>3, <2>4, PointersKept
<1>3. CASE EndRequestMore
  <2>1. ToSet(req'.pieces) = {}
    BY <1>3 DEF EndRequestMore, NoRequest, ToSet
  <2> QED
    BY <1>3, <2>1 DEF EndRequestMore, Pointers, NoDanglingPiece, pieceVars
<1> QED
  BY <1>1, <1>2, <1>3, PointersOfTurn DEF Scheduler

\* The last block of a piece asks for its verdict, and takes the piece from every client.
LEMMA PointersOfBlock ==
  ASSUME TypeOK, TypeOK', Integrity, Pointers, ~EarlyPeers, NEW c \in Clients, NEW p \in Pieces,
         NEW b \in Blocks, NEW exact \in BOOLEAN, NEW data \in Messages(p, b),
         BlockReceived(c, p, b, exact, data)
  PROVE  Pointers'
<1>1. pieceCount # 0 /\ UNCHANGED <<pieceCount, pendingPieces>>
  BY NobodyThere DEF BlockReceived
<1>2. /\ LoopTypes /\ payloads' \in [Clients -> Seq(Pieces)] /\ payloads \in [Clients -> Seq(Pieces)]
      /\ verifying \in Seq(Pieces) /\ piece \in [Pieces -> Piece]
  BY TypeParts DEF TypeOK
<1>3. \A d \in Clients : ToSet(payloads'[d]) \subseteq ToSet(payloads[d])
  <2>1. UNCHANGED payloads \/ DropFromPayloads(p)
    BY DEF BlockReceived
  <2> QED
    BY <1>2, <2>1, WithoutPicks DEF DropFromPayloads
<1>4. ToSet(req'.pieces) \subseteq pendingPieces
  <2>1. BeginRequestMore(c)
    BY DEF BlockReceived
  <2>2. ToSet(req'.pieces) \subseteq ToSet(payloads'[c])
    BY <1>2, <2>1, TypesOfRequestMore
  <2> QED
    BY <1>3, <2>2 DEF Pointers, NoDanglingPiece
<1>5. CASE ~IsMissing(p, b)
  <2>1. UNCHANGED <<verifying, piece>>
    BY <1>5 DEF BlockReceived
  <2> QED
    BY <1>1, <1>2, <1>3, <1>4, <2>1, PointersKept
<1>6. CASE IsMissing(p, b)
  <2> DEFINE withB == piece[p].completed \cup {b}
  <2>1. p \in pendingPieces /\ p \notin ToSet(verifying)
    BY <1>6 DEF IsMissing, Pointers
  <2>2. \A q \in Pieces : piece'[q].completed = IF q = p THEN withB ELSE piece[q].completed
    <3>1. piece' = [piece EXCEPT ![p].completed = withB, ![p].requested = @ \ {b}]
      BY <1>6 DEF BlockReceived
    <3> QED
      BY <1>2, <3>1 DEF Piece
  <2>3. CASE withB = Blocks
    <3>1. verifying' = Append(verifying, p)
      BY <1>6, <2>3 DEF BlockReceived
    <3> DEFINE longer == Append(verifying, p)
    <3>0. /\ ToSet(longer) = ToSet(verifying) \cup {p}
          /\ \A i, j \in 1 .. Len(longer) : longer[i] = longer[j] => i = j
      <4>1. /\ verifying \in Seq(Pieces) /\ p \notin ToSet(verifying)
            /\ \A i, j \in 1 .. Len(verifying) : verifying[i] = verifying[j] => i = j
        BY <1>2, <2>1 DEF Pointers
      <4> QED
        BY <4>1, AppendMembers
    <3>2. ToSet(verifying') = ToSet(verifying) \cup {p}
      BY <3>0, <3>1
    <3>3. \A i, j \in 1 .. Len(verifying') : verifying'[i] = verifying'[j] => i = j
      BY <3>0, <3>1
    <3> HIDE DEF longer
    <3>4. \A q \in Pieces : piece'[q].completed = Blocks <=> q \in ToSet(verifying')
      BY <2>2, <2>3, <3>2 DEF Pointers
    <3> QED
      BY <1>1, <1>3, <1>4, <2>1, <2>2, <3>2, <3>3, <3>4 DEF Pointers, NoDanglingPiece
  <2>4. CASE withB # Blocks
    <3>1. verifying' = verifying
      BY <1>6, <2>4 DEF BlockReceived
    <3> QED
      BY <1>1, <1>3, <1>4, <2>1, <2>2, <2>4, <3>1 DEF Pointers, NoDanglingPiece
  <2> QED
    BY <2>3, <2>4
<1> QED
  BY <1>5, <1>6

LEMMA PointersOfConnection ==
  ASSUME TypeOK, TypeOK', Integrity, Pointers, ~EarlyPeers, NEW c \in Clients, Connection(c)
  PROVE  Pointers'
<1>1. CASE SomeBlockReceived(c)
  BY <1>1, PointersOfBlock DEF SomeBlockReceived
<1>2. CASE \/ SetupOutgoingConnection(c) \/ OrphanConnected(c) \/ SetupIncomingConnection(c)
           \/ Disconnect(c) \/ PeerChoked(c) \/ PeerUnchoked(c) \/ EarlyPiecesAvailable(c)
           \/ \E ps \in SUBSET Pieces : PeerPiecesAvailable(c, ps)
  <2>1. Quiet /\ UNCHANGED <<pieceCount, pendingPieces, verifying, req>>
    BY <1>2 DEF SetupOutgoingConnection, OrphanConnected, SetupIncomingConnection, Disconnect,
      PeerPiecesAvailable, EarlyPiecesAvailable, PeerChoked, PeerUnchoked, pieceVars, loopVars
  <2>2. {c} \in SUBSET Clients /\ (RemoveClient(c) => ReleasePayloads({c}))
    BY DEF RemoveClient
  <2>3. UNCHANGED <<piece, payloads>> \/ ReleasePayloads({c})
    BY <1>2, <2>2 DEF SetupOutgoingConnection, OrphanConnected, SetupIncomingConnection, Disconnect,
      PeerPiecesAvailable, EarlyPiecesAvailable, PeerChoked, PeerUnchoked
  <2> QED
    BY <2>1, <2>2, <2>3, PointersOfRelease
<1> QED
  BY <1>1, <1>2 DEF Connection

LEMMA PointersNext ==
  TypeOK /\ TypeOK' /\ Integrity /\ ~EarlyPeers /\ Pointers /\ [Next]_vars => Pointers'
<1>1. Pointers /\ UNCHANGED vars => Pointers'
  BY DEF vars, pieceVars, loopVars, Pointers, NoDanglingPiece
<1> QED
  BY <1>1, PointersOfUser, PointersOfVerification, PointersOfVerdict, PointersOfScheduler,
     PointersOfConnection DEF Next, FileService

LEMMA PointersHold == ASSUME ~EarlyPeers PROVE Spec => []Pointers
<1>1. TypeOK /\ Integrity /\ Pointers /\ [Next]_vars => (TypeOK /\ Integrity /\ Pointers)'
  BY TypeNext, IntegrityNext, PointersNext
<1>2. Init => TypeOK /\ Integrity /\ Pointers
  BY TypeInit, IntegrityInit, PointersInit
<1> QED
  BY <1>1, <1>2, PTL DEF Spec

\* pieceVerified deletes a piece when no payload, no running requestMore and no later
\* verdict points to it: chokes, losses, pauses, late blocks and failed verdicts in any order
\* leave no dangling TorrentPiece*.
THEOREM PiecesStayAlive == ASSUME ~EarlyPeers PROVE Spec => []NoDanglingPiece
<1>1. Pointers => NoDanglingPiece
  BY DEF Pointers
<1> QED
  BY <1>1, PointersHold, PTL

\* blockReceived asks for the verdict on a piece once, and the piece stays full until
\* pieceVerified has it, though a warm-up may give the piece to further clients meanwhile.
THEOREM VerdictsAreSingle == ASSUME ~EarlyPeers PROVE Spec => []OneVerdictPerPiece
<1>1. TypeOK /\ Pointers => OneVerdictPerPiece
  BY DEF TypeOK, Pointers, OneVerdictPerPiece
<1>2. Spec => []TypeOK
  BY TypesHold
<1> QED
  BY <1>1, <1>2, PointersHold, PTL

-----------------------------------------------------------------------------
(* The content of the complete pieces.                                     *)

IntactPieces == {p \in Pieces : Intact(store, p)}

\* What the verdicts say is so, but for pieces that data for another piece have run into:
\* a piece is stored for no longer once its verdict is asked for.
Intactness ==
  /\ completedPieces \ overrun \subseteq IntactPieces
  /\ pieceCount = 0 => verifiedPieces \subseteq IntactPieces
  /\ \A p \in Pieces \ overrun : "right" \in hashes[p] => p \in IntactPieces
  /\ \A p \in Pieces : hashes[p] # {} => p \in ToSet(verifying)

LEMMA IntactnessInit == Init => Intactness
BY DEF Init, Intactness, IntactPieces, Intact

\* Handlers that store nothing and get no verdict.
LEMMA IntactnessKept ==
  ASSUME Intactness,
         UNCHANGED <<completedPieces, verifiedPieces, verifying, store, hashes, overrun>>,
         pieceCount' = 0 => pieceCount = 0
  PROVE  Intactness'
BY DEF Intactness, IntactPieces, Intact

LEMMA IntactnessOfVerification == Intactness /\ FullVerificationDone => Intactness'
<1> SUFFICES ASSUME Intactness, FullVerificationDone PROVE Intactness'
  OBVIOUS
<1>1. /\ pieceCount = 0 /\ completedPieces' = verifiedPieces
      /\ UNCHANGED <<verifiedPieces, verifying, store, hashes, overrun>>
  BY DEF FullVerificationDone
<1> QED
  BY <1>1 DEF Intactness, IntactPieces, Intact

LEMMA IntactnessOfVerdict == TypeOK /\ Pointers /\ Intactness /\ PieceVerified => Intactness'
<1> SUFFICES ASSUME TypeOK, Pointers, Intactness, PieceVerified PROVE Intactness'
  OBVIOUS
<1> DEFINE p == Head(verifying)
<1>1. /\ verifying \in Seq(Pieces) /\ verifying # <<>> /\ verifying' = Tail(verifying)
      /\ hashes' = [hashes EXCEPT ![p] = {}]
      /\ pieceCount # 0 /\ UNCHANGED <<pieceCount, verifiedPieces, store, overrun>>
  BY NumPiecesAssumption DEF PieceVerified, TypeOK
<1>2. ToSet(verifying') = ToSet(verifying) \ {p}
  BY <1>1, TailMembers DEF Pointers
<1>3. completedPieces' \subseteq completedPieces \cup {q \in {p} : "right" \in hashes[q]}
  BY DEF PieceVerified, CompletePiece
<1>4. p \in Pieces
  BY <1>1
<1> HIDE DEF p
<1>5. \A q \in Pieces : hashes'[q] = IF q = p THEN {} ELSE hashes[q]
  BY <1>1 DEF TypeOK
<1>6. IntactPieces' = IntactPieces
  BY <1>1 DEF IntactPieces, Intact
<1>7. completedPieces' \ overrun' \subseteq IntactPieces'
  BY <1>1, <1>3, <1>4, <1>6 DEF Intactness
<1> QED
  BY <1>1, <1>2, <1>5, <1>6, <1>7 DEF Intactness

\* The piece a message is for is not complete and awaits no verdict; the others it runs
\* into are noted in overrun.
LEMMA IntactnessOfBlock ==
  ASSUME TypeOK, TypeOK', Integrity, Pointers, Intactness, ~EarlyPeers, NEW c \in Clients,
         NEW p \in Pieces, NEW b \in Blocks, NEW exact \in BOOLEAN,
         NEW data \in Messages(p, b), BlockReceived(c, p, b, exact, data)
  PROVE  Intactness'
<1>1. pieceCount # 0 /\ UNCHANGED <<pieceCount, completedPieces, verifiedPieces>>
  BY NobodyThere DEF BlockReceived
<1>2. CASE ~IsMissing(p, b)
  BY <1>1, <1>2, IntactnessKept DEF BlockReceived
<1>3. CASE IsMissing(p, b)
  <2> DEFINE whole == piece[p].completed \cup {b} = Blocks
  <2>1. WriteData(p, data, whole)
    BY <1>3 DEF BlockReceived
  <2>2. p \notin completedPieces /\ p \notin ToSet(verifying)
    BY <1>3 DEF IsMissing, Integrity, Pointers
  <2>3. verifying' = IF whole THEN Append(verifying, p) ELSE verifying
    BY <1>3 DEF BlockReceived
  <2>4. whole \in BOOLEAN
    OBVIOUS
  <2> HIDE DEF whole
  <2>5. ToSet(verifying') = ToSet(verifying) \cup (IF whole THEN {p} ELSE {})
    <3>1. /\ verifying \in Seq(Pieces)
          /\ \A i, j \in 1 .. Len(verifying) : verifying[i] = verifying[j] => i = j
      BY DEF TypeOK, Pointers
    <3>2. ToSet(Append(verifying, p)) = ToSet(verifying) \cup {p}
      BY <2>2, <3>1, AppendMembers
    <3> QED
      BY <2>3, <3>2
  <2>6. ASSUME NEW q \in Pieces \ overrun', q # p
        PROVE  q \notin overrun /\ (q \in IntactPieces <=> q \in IntactPieces')
    <3>1. q \notin overrun /\ \A a \in Blocks : <<q, a>> \notin DOMAIN data
      BY <2>1, <2>6 DEF WriteData
    <3>2. \A a \in Blocks : store'[q][a] = store[q][a]
      BY <2>1, <3>1 DEF WriteData
    <3> QED
      BY <3>1, <3>2 DEF IntactPieces, Intact
  <2>7. \A q \in Pieces : Hash(store', q) = "right" => q \in IntactPieces'
    BY DEF Hash, IntactPieces
  <2>8. /\ whole => hashes'[p] = {Hash(store', p)}
        /\ ~whole => hashes'[p] = {}
        /\ \A q \in Pieces \ {p} : hashes'[q] \in {hashes[q], hashes[q] \cup {Hash(store', q)}}
        /\ \A q \in Pieces \ {p} : hashes'[q] # {} => hashes[q] # {} \/ q \in ToSet(verifying)
    <3>1. hashes[p] = {}
      BY <2>2 DEF Intactness
    <3>2. \A q \in Pieces : hashes'[q] =
            IF q = p /\ whole THEN {Hash(store', q)}
            ELSE IF q \in ToSet(verifying) THEN hashes[q] \cup {Hash(store', q)} ELSE hashes[q]
      BY <2>1 DEF WriteData
    <3> QED
      BY <2>2, <3>1, <3>2
  <2>9. completedPieces' \ overrun' \subseteq IntactPieces'
    BY <1>1, <2>2, <2>6 DEF Intactness, TypeOK
  <2>10. \A q \in Pieces \ overrun' : "right" \in hashes'[q] => q \in IntactPieces'
    BY <2>6, <2>7, <2>8 DEF Intactness
  <2>11. \A q \in Pieces : hashes'[q] # {} => q \in ToSet(verifying')
    BY <2>5, <2>8 DEF Intactness
  <2> QED
    BY <1>1, <2>9, <2>10, <2>11 DEF Intactness
<1> QED
  BY <1>2, <1>3

LEMMA IntactnessNext ==
  TypeOK /\ TypeOK' /\ Integrity /\ ~EarlyPeers /\ Pointers /\ Intactness /\ [Next]_vars => Intactness'
<1> SUFFICES ASSUME TypeOK, TypeOK', Integrity, ~EarlyPeers, Pointers, Intactness, [Next]_vars
             PROVE  Intactness'
  OBVIOUS
<1>1. CASE UNCHANGED vars
  BY <1>1, IntactnessKept DEF vars, pieceVars
<1>2. CASE Tracker \/ User \/ HandleFileError
  <2>1. UNCHANGED <<pieceCount, pieceVars>>
    BY <1>2 DEF Tracker, ConnectToPeers, AddToPeerList, User, Start, Pause, Resume, Stop,
      HandleFileError, pieceVars
  <2> QED
    BY <2>1, IntactnessKept DEF pieceVars
<1>3. CASE FullVerificationDone
  BY <1>3, IntactnessOfVerification
<1>4. CASE PieceVerified
  BY <1>4, IntactnessOfVerdict
<1>5. CASE Scheduler
  <2>1. UNCHANGED <<pieceCount, pieceVars>>
    BY <1>5 DEF Scheduler, ScheduleDownloads, SchedulePieceForClient, RequestBlocks,
      EndRequestMore, pieceVars
  <2> QED
    BY <2>1, IntactnessKept DEF pieceVars
<1>6. ASSUME NEW c \in Clients, Connection(c) PROVE Intactness'
  <2>1. CASE SomeBlockReceived(c)
    BY <2>1, IntactnessOfBlock DEF SomeBlockReceived
  <2>2. CASE \/ SetupOutgoingConnection(c) \/ OrphanConnected(c) \/ SetupIncomingConnection(c)
             \/ Disconnect(c) \/ PeerChoked(c) \/ PeerUnchoked(c) \/ EarlyPiecesAvailable(c)
             \/ \E ps \in SUBSET Pieces : PeerPiecesAvailable(c, ps)
    <3>1. UNCHANGED <<pieceCount, pieceVars>>
      BY <2>2 DEF SetupOutgoingConnection, OrphanConnected, SetupIncomingConnection, Disconnect,
        PeerPiecesAvailable, EarlyPiecesAvailable, PeerChoked, PeerUnchoked
    <3> QED
      BY <3>1, IntactnessKept DEF pieceVars
  <2> QED
    BY <1>6, <2>1, <2>2 DEF Connection
<1> QED
  BY <1>1, <1>2, <1>3, <1>4, <1>5, <1>6 DEF Next, FileService

\* Whatever peers send, in blocks of any size that begin anywhere, and whatever verdicts,
\* resumed pieces, pauses and file errors come: a piece that the client announces and
\* serves as complete is what the torrent says, or data that a peer sent for another
\* piece have run over that one's end into it.
THEOREM CompleteMeansIntact == ASSUME ~EarlyPeers PROVE Spec => []CompletedIsIntact
<1>1. TypeOK /\ Intactness => CompletedIsIntact
  BY DEF TypeOK, Intactness, IntactPieces, CompletedIsIntact
<1>2. TypeOK /\ Integrity /\ Pointers /\ Intactness /\ [Next]_vars
        => (TypeOK /\ Integrity /\ Pointers /\ Intactness)'
  BY TypeNext, IntegrityNext, PointersNext, IntactnessNext
<1>3. Init => TypeOK /\ Integrity /\ Pointers /\ Intactness
  BY TypeInit, IntegrityInit, PointersInit, IntactnessInit
<1> QED
  BY <1>1, <1>2, <1>3, PTL DEF Spec

-----------------------------------------------------------------------------
(* Quotas.                                                                 *)

Away == {"Idle", "Paused", "Stopping", "Preparing"}

\* Blocks are only asked of peers that are connected, and connections has all of these
\* and those that will be.
Attached ==
  /\ \A c \in Clients : sock[c] \notin {"none", "orphan"} => c \in ToSet(connections)
  /\ \A c \in Clients : ~Connected(c) => incoming[c] = <<>>
  /\ req # NoRequest => Connected(req.client)

\* Nobody is connected or about to be while the client is away, and the files are
\* verified after it has been started.
AwayAlone ==
  /\ state \in Away => \A c \in Clients : sock[c] \in {"none", "orphan"}
  /\ state = "Preparing" \/ (state = "Idle" /\ left["stop"] = Limit["stop"]) => pieceCount = 0
  /\ left["stop"] <= Limit["stop"]

\* Without a complete piece the first peer starts the warm-up, so nobody is connected
\* when it begins.
FirstComes ==
  state \in {"Searching", "Connecting"} /\ completedPieces = {} =>
    \A c \in Clients : sock[c] # "connected"

Quota == QuotaKept /\ Attached /\ AwayAlone /\ FirstComes

LEMMA QuotaInit == Init => Quota
<1> SUFFICES ASSUME Init PROVE Quota
  OBVIOUS
<1>1. /\ state = "Idle" /\ pieceCount = 0 /\ req = NoRequest /\ left = Limit
      /\ \A c \in Clients : sock[c] = "none" /\ incoming[c] = <<>>
  BY DEF Init
<1>2. Limit["stop"] \in Nat
  BY LimitAssumption
<1>3. QuotaKept
  <2>1. MaxInProgress \in Nat
    BY QuotaAssumption DEF MaxInProgress
  <2>2. Len(<<>>) = 0
    OBVIOUS
  <2> QED
    BY <1>1, <2>1, <2>2 DEF QuotaKept
<1> QED
  BY <1>1, <1>2, <1>3 DEF Quota, Attached, AwayAlone, FirstComes, Connected

LEMMA Quotas ==
  /\ MaxInProgress \in Nat /\ MaxBlocksInProgress \in Nat /\ MaxInProgress <= MaxBlocksInProgress
  /\ state' = state => MaxInProgress' = MaxInProgress
  /\ state' \notin {"WarmingUp", "Endgame"} => MaxInProgress' = MaxBlocksInProgress
BY QuotaAssumption DEF MaxInProgress, MultiMode

\* No queue of requests gets longer, and no quota smaller.
LEMMA QueuesShrink ==
  ASSUME TypeOK, TypeOK', QuotaKept,
         state' = state \/ state' \notin {"WarmingUp", "Endgame"},
         \A c \in Clients : incoming'[c] = <<>> \/ sock'[c] = sock[c],
         \A c \in Clients : Len(incoming'[c]) <= Len(incoming[c])
  PROVE  QuotaKept'
<1> SUFFICES ASSUME NEW c \in Clients
             PROVE  Len(incoming'[c]) <= IF sock'[c] = "early" THEN MaxBlocksInProgress ELSE MaxInProgress'
  BY DEF QuotaKept
<1>1. Len(incoming[c]) \in Nat /\ Len(incoming'[c]) \in Nat
  BY DEF TypeOK
<1>2. MaxInProgress' \in Nat /\ MaxInProgress' >= MaxInProgress
  BY Quotas
<1>3. CASE incoming'[c] = <<>>
  BY <1>2, <1>3, Quotas
<1>4. CASE sock'[c] = sock[c]
  BY <1>1, <1>2, <1>4, Quotas DEF QuotaKept
<1> QED
  BY <1>3, <1>4

\* Handlers that neither make nor lose a connection.
LEMMA QuotaOfSteady ==
  ASSUME TypeOK, TypeOK', Quota,
         UNCHANGED <<sock, connections, pieceCount>>, left'["stop"] = left["stop"],
         state' = state \/ state' \in {"Downloading", "Seeding"},
         completedPieces \subseteq completedPieces',
         \A c \in Clients : Len(incoming'[c]) <= Len(incoming[c]),
         req' # NoRequest => Connected(req'.client)
  PROVE  Quota'
<1>1. QuotaKept'
  BY QueuesShrink DEF Quota
<1>2. \A c \in Clients : incoming[c] = <<>> => incoming'[c] = <<>>
  BY DEF TypeOK
<1>3. Attached'
  BY <1>2 DEF Quota, Attached, Connected
<1>4. AwayAlone'
  BY DEF Quota, AwayAlone, Away
<1>5. FirstComes'
  BY DEF Quota, FirstComes
<1> QED
  BY <1>1, <1>3, <1>4, <1>5 DEF Quota

LEMMA SpendKeepsStop ==
  ASSUME TypeOK, NEW kind \in Kinds \ {"stop"}, UNCHANGED left \/ Spend(kind)
  PROVE  left'["stop"] = left["stop"]
BY LimitAssumption DEF Spend, TypeOK

\* requestMore serves connected clients, and asks for no more than the quota.
LEMMA QuotaOfScheduler == TypeOK /\ TypeOK' /\ Quota /\ Scheduler => Quota'
<1> SUFFICES ASSUME TypeOK, TypeOK', Quota, Scheduler PROVE Quota'
  OBVIOUS
<1>1. UNCHANGED <<sock, connections, pieceCount, left, state, completedPieces>>
  BY DEF Scheduler, ScheduleDownloads, SchedulePieceForClient, RequestBlocks, EndRequestMore,
    connVars, pieceVars
<1>2. CASE RequestBlocks
  <2> DEFINE c == req.client
  <2>1. /\ c \in Clients /\ req # NoRequest
        /\ Len(incoming'[c]) <= MaxInProgress
        /\ \A d \in Clients \ {c} : incoming'[d] = incoming[d]
    BY <1>2, TurnOfRequestMore
  <2>2. Connected(c) /\ req'.client = c
    BY <1>2, <2>1 DEF Quota, Attached, RequestBlocks, TypeOK
  <2>3. QuotaKept'
    <3>1. MaxInProgress' = MaxInProgress
      BY <1>1, Quotas
    <3>2. Len(incoming'[c]) \in Nat
      BY <2>1 DEF TypeOK
    <3>3. \A d \in Clients \ {c} : Len(incoming'[d]) = Len(incoming[d])
      BY <2>1
    <3> QED
      BY <1>1, <2>1, <3>1, <3>2, <3>3, Quotas DEF Quota, QuotaKept
  <2>4. Attached'
    BY <1>1, <2>1, <2>2 DEF Quota, Attached, Connected
  <2> QED
    BY <1>1, <2>3, <2>4 DEF Quota, AwayAlone, FirstComes
<1>3. CASE ScheduleDownloads \/ SchedulePieceForClient \/ EndRequestMore
  <2>1. \A c \in Clients : Len(incoming'[c]) <= Len(incoming[c])
    BY <1>3 DEF ScheduleDownloads, SchedulePieceForClient, EndRequestMore, TypeOK
  <2>2. req' # NoRequest => Connected(req'.client)
    <3>1. CASE UNCHANGED req \/ req' = NoRequest
      BY <3>1 DEF Quota, Attached
    <3>2. CASE SchedulePieceForClient
      <4>1. UNCHANGED req \/ (Connected(Head(sched)) /\ BeginRequestMore(Head(sched)))
        BY <3>2, TurnOfScheduler
      <4> QED
        BY <3>1, <4>1 DEF BeginRequestMore
    <3> QED
      BY <1>3, <3>1, <3>2 DEF ScheduleDownloads, EndRequestMore
  <2> QED
    BY <1>1, <2>1, <2>2, QuotaOfSteady
<1> QED
  BY <1>2, <1>3 DEF Scheduler

\* A client that is removed takes its connection and its requests along.
LEMMA QuotaOfRemove ==
  ASSUME TypeOK, TypeOK', Quota, NEW c \in Clients, RemoveClient(c), Quiet,
         UNCHANGED <<state, pieceCount, completedPieces, req>>, left'["stop"] = left["stop"]
  PROVE  Quota'
<1>1. /\ \A d \in Clients : sock'[d] = IF d = c THEN "none" ELSE sock[d]
      /\ \A d \in Clients : incoming'[d] = IF d = c THEN <<>> ELSE incoming[d]
  BY DEF RemoveClient, ResetWire, TypeOK
<1>2. ToSet(connections') = ToSet(connections) \ {c}
  BY WithoutPicks DEF RemoveClient, TypeOK
<1>3. QuotaKept'
  <2>1. Len(<<>>) = 0 /\ \A d \in Clients : Len(incoming[d]) \in Nat
    BY DEF TypeOK
  <2> QED
    BY <1>1, <2>1, QueuesShrink DEF Quota
<1>4. Attached'
  BY <1>1, <1>2 DEF Quota, Attached, Connected, Quiet
<1>5. AwayAlone' /\ FirstComes'
  BY <1>1 DEF Quota, AwayAlone, FirstComes
<1> QED
  BY <1>3, <1>4, <1>5 DEF Quota

\* Whoever is connected is in connections, and signals disconnected when it is aborted.
LEMMA QuotaOfAbort ==
  ASSUME TypeOK, TypeOK', Quota, AbortAll, Quiet, state' \in {"Idle", "Paused", "Stopping"},
         UNCHANGED <<pieceCount, completedPieces, req>>,
         left'["stop"] <= Limit["stop"], state' = "Idle" => left'["stop"] # Limit["stop"]
  PROVE  Quota'
<1> DEFINE up == {c \in Clients : Connected(c)} \cap ToSet(connections)
<1>1. \A c \in Clients : c \in up <=> Connected(c)
  BY DEF Quota, Attached, Connected
<1>2. /\ sock' = [c \in Clients |-> IF c \in up THEN "none"
                                    ELSE IF sock[c] = "connecting" THEN "orphan" ELSE sock[c]]
      /\ ResetWire(up)
  BY DEF AbortAll
<1> HIDE DEF up
<1>3. \A c \in Clients : sock'[c] \in {"none", "orphan"}
  <2>1. \A c \in Clients : sock[c] \in {"none", "connecting", "orphan"} \/ c \in up
    BY <1>1 DEF Connected, TypeOK
  <2> QED
    BY <1>2, <2>1
<1>4. \A c \in Clients : incoming'[c] = <<>>
  <2>1. \A c \in Clients : c \in up \/ incoming[c] = <<>>
    BY <1>1 DEF Quota, Attached
  <2> QED
    BY <1>2, <2>1 DEF ResetWire
<1>5. QuotaKept'
  <2>1. Len(<<>>) = 0 /\ \A c \in Clients : Len(incoming[c]) \in Nat
    BY DEF TypeOK
  <2> QED
    BY <1>4, <2>1, QueuesShrink DEF Quota
<1>6. Attached' /\ FirstComes'
  BY <1>3, <1>4 DEF Attached, FirstComes, Connected, Quiet
<1>7. AwayAlone'
  BY <1>3 DEF AwayAlone
<1> QED
  BY <1>5, <1>6, <1>7 DEF Quota

\* Peers are tried, by a client that is not away.
LEMMA QuotaOfConnect ==
  ASSUME TypeOK, TypeOK', Quota, ConnectSome, Quiet,
         UNCHANGED <<pieceCount, completedPieces, req, incoming>>, left'["stop"] = left["stop"],
         state' = state \/ state' \in {"Connecting", "Seeding"},
         state' \in Away => state = "Preparing",
         state' = "Connecting" => state \in {"Searching", "Connecting", "Paused"}
  PROVE  Quota'
<1>1. /\ \A c \in Clients :
           sock'[c] = sock[c] \/ (sock[c] = "none" /\ sock'[c] = "connecting" /\ c \in ToSet(connections'))
      /\ \A c \in Clients : c \in ToSet(connections) => c \in ToSet(connections')
      /\ pieceCount = 0 => UNCHANGED sock
  <2>1. CASE pieceCount = 0
    BY <2>1 DEF ConnectSome, connVars
  <2>2. CASE pieceCount # 0
    <3>1. PICK cs \in SetToAllKPermutations({c \in Clients : sock[c] = "none"}) :
           /\ connections' = connections \o cs
           /\ sock' = [c \in Clients |-> IF Contains(cs, c) THEN "connecting" ELSE sock[c]]
      BY <2>2 DEF ConnectSome
    <3>2. cs \in Seq(Clients) /\ \A c \in ToSet(cs) : sock[c] = "none"
      BY <3>1, TriedPeers
    <3>3. \A c \in Clients : Contains(cs, c) => sock[c] = "none"
      BY <3>2, ContainsSet
    <3>4. ToSet(connections) \cup ToSet(cs) \subseteq ToSet(connections \o cs)
      <4>1. connections \in Seq(Clients)
        BY DEF TypeOK
      <4>2. Len(connections) \in Nat /\ Len(cs) \in Nat /\ Len(connections \o cs) = Len(connections) + Len(cs)
        BY <3>2, <4>1
      <4>3. \A i \in 1 .. Len(connections) : i \in 1 .. Len(connections \o cs) /\ (connections \o cs)[i] = connections[i]
        BY <3>2, <4>1, <4>2
      <4>4. \A i \in 1 .. Len(cs) : /\ Len(connections) + i \in 1 .. Len(connections \o cs)
                                    /\ (connections \o cs)[Len(connections) + i] = cs[i]
        BY <3>2, <4>1, <4>2
      <4>5. /\ DOMAIN connections = 1 .. Len(connections) /\ DOMAIN cs = 1 .. Len(cs)
            /\ DOMAIN (connections \o cs) = 1 .. Len(connections \o cs)
        BY <3>2, <4>1
      <4> QED
        BY <4>3, <4>4, <4>5 DEF ToSet
    <3>5. \A c \in Clients : Contains(cs, c) <=> c \in ToSet(cs)
      BY <3>2, ContainsSet
    <3> QED
      BY <2>2, <3>1, <3>3, <3>4, <3>5
  <2> QED
    BY <2>1, <2>2
<1>2. \A c \in Clients : Connected(c)' <=> Connected(c)
  BY <1>1 DEF Connected
<1>3. QuotaKept'
  <2>1. \A c \in Clients : incoming'[c] = <<>> \/ sock'[c] = sock[c]
    BY <1>1 DEF Quota, Attached, Connected
  <2>2. \A c \in Clients : Len(incoming'[c]) <= Len(incoming[c])
    BY DEF TypeOK
  <2> QED
    BY <2>1, <2>2, QueuesShrink DEF Quota
<1>4. Attached'
  BY <1>1, <1>2 DEF Quota, Attached, Quiet
<1>5. AwayAlone'
  <2>1. state' \in Away => pieceCount = 0 /\ state = "Preparing"
    BY DEF Quota, AwayAlone
  <2> QED
    BY <1>1, <2>1 DEF Quota, AwayAlone, Away
<1>6. FirstComes'
  <2>1. \A c \in Clients : sock'[c] = "connected" => sock[c] = "connected"
    BY <1>1
  <2> QED
    BY <2>1 DEF Quota, FirstComes, AwayAlone, Away
<1> QED
  BY <1>3, <1>4, <1>5, <1>6 DEF Quota

\* A connection comes up.  When that starts the warm-up or the end game, nobody else has
\* been asked for anything but early peers.
LEMMA QuotaOfComing ==
  ASSUME TypeOK, TypeOK', Partition, Informed, Quota, NEW c \in Clients,
         SetupOutgoingConnection(c) \/ OrphanConnected(c) \/ SetupIncomingConnection(c)
  PROVE  Quota'
<1>1. /\ Quiet /\ UNCHANGED <<pieceCount, completedPieces, incoming, req, left>>
      /\ state' = StateOnConnection
      /\ \A d \in Clients \ {c} : sock'[d] = sock[d]
      /\ sock[c] \in {"none", "connecting", "orphan"}
  BY DEF SetupOutgoingConnection, OrphanConnected, SetupIncomingConnection, pieceVars, loopVars, TypeOK
<1>2. /\ sock'[c] \in {"none", "connected", "early"}
      /\ sock'[c] = "connected" => pieceCount # 0
      /\ sock'[c] # "none" => state \notin Away
  BY SMTT(30) DEF SetupOutgoingConnection, OrphanConnected, SetupIncomingConnection, Accepts, TypeOK,
    Informed, Quota, AwayAlone, Away
<1>3. /\ \A d \in Clients : d \in ToSet(connections) => d \in ToSet(connections')
      /\ sock'[c] # "none" => c \in ToSet(connections')
  <2>1. CASE SetupOutgoingConnection(c) \/ OrphanConnected(c)
    BY <2>1 DEF SetupOutgoingConnection, OrphanConnected, Quota, Attached, TypeOK
  <2>2. CASE SetupIncomingConnection(c)
    <3>1. connections' = Append(connections, c)
      BY <2>2 DEF SetupIncomingConnection
    <3>2. connections \in Seq(Clients)
      BY DEF TypeOK
    <3>3. /\ Len(connections') = Len(connections) + 1 /\ connections'[Len(connections) + 1] = c
          /\ \A i \in 1 .. Len(connections) : connections'[i] = connections[i]
          /\ DOMAIN connections' = 1 .. Len(connections) + 1 /\ DOMAIN connections = 1 .. Len(connections)
          /\ Len(connections) \in Nat
      BY <3>1, <3>2
    <3>4. \A i \in 1 .. Len(connections) : i \in 1 .. Len(connections) + 1
      BY <3>3
    <3>5. Len(connections) + 1 \in 1 .. Len(connections) + 1
      BY <3>3
    <3> QED
      BY <3>3, <3>4, <3>5 DEF ToSet
  <2> QED
    BY <2>1, <2>2
<1>4. incoming[c] = <<>> /\ incoming'[c] = <<>>
  BY <1>1 DEF Quota, Attached, Connected
<1>5. ASSUME state' # state PROVE \A d \in Clients : sock[d] # "connected"
  <2>1. CASE state' = "WarmingUp"
    BY <1>1, <1>5, <2>1 DEF StateOnConnection, Quota, FirstComes
  <2>2. CASE state' = "Endgame"
    <3>1. pieceCount = 0
      BY <1>1, <2>2, ConnectionState, NumPiecesAssumption DEF TypeOK
    <3> QED
      BY <3>1 DEF Informed
  <2> QED
    BY <1>1, <1>5, <2>1, <2>2 DEF StateOnConnection
<1>6. QuotaKept'
  <2> SUFFICES ASSUME NEW d \in Clients
               PROVE  Len(incoming'[d]) <= IF sock'[d] = "early" THEN MaxBlocksInProgress ELSE MaxInProgress'
    BY DEF QuotaKept
  <2>1. MaxInProgress' \in Nat /\ MaxBlocksInProgress \in Nat
    BY QuotaAssumption DEF MaxInProgress
  <2>2. CASE incoming[d] = <<>>
    BY <1>1, <2>1, <2>2
  <2>3. CASE incoming[d] # <<>>
    <3>1. d # c /\ Connected(d) /\ sock'[d] = sock[d]
      BY <1>1, <1>4, <2>3 DEF Quota, Attached
    <3>2. CASE sock[d] = "early"
      BY <1>1, <3>1, <3>2 DEF Quota, QuotaKept
    <3>3. CASE sock[d] = "connected"
      BY <1>1, <1>5, <3>1, <3>3, Quotas DEF Quota, QuotaKept
    <3> QED
      BY <3>1, <3>2, <3>3 DEF Connected
  <2> QED
    BY <2>2, <2>3
<1>7. Attached'
  <2>1. \A d \in Clients : sock'[d] \notin {"none", "orphan"} => d \in ToSet(connections')
    BY <1>1, <1>3 DEF Quota, Attached
  <2>2. \A d \in Clients : ~Connected(d)' => incoming'[d] = <<>>
    BY <1>1, <1>4 DEF Quota, Attached, Connected
  <2> QED
    BY <1>1, <2>1, <2>2 DEF Attached, Quiet
<1>8. state' # state => state \notin Away /\ state' \notin Away
  BY <1>1 DEF StateOnConnection, Away
<1>9. AwayAlone'
  <2>1. state' \in Away => state = state'
    BY <1>8
  <2>2. \A s \in {"Idle", "Preparing"} : s \in Away
    BY DEF Away
  <2> QED
    BY <1>1, <1>2, <2>1, <2>2 DEF Quota, AwayAlone
<1>10. FirstComes'
  <2>1. state' \in {"Searching", "Connecting"} => completedPieces' # {}
    BY <1>1 DEF StateOnConnection
  <2> QED
    BY <2>1 DEF FirstComes
<1> QED
  BY <1>6, <1>7, <1>9, <1>10 DEF Quota

LEMMA QuotaOfBlock ==
  ASSUME TypeOK, TypeOK', Quota, NEW c \in Clients, NEW p \in Pieces, NEW b \in Blocks,
         NEW exact \in BOOLEAN, NEW data \in Messages(p, b), BlockReceived(c, p, b, exact, data)
  PROVE  Quota'
<1>1. /\ UNCHANGED <<sock, connections, pieceCount, completedPieces>>
      /\ state' \in {state, "Downloading"}
      /\ Connected(c) /\ BeginRequestMore(c)
  BY DEF BlockReceived, connVars
<1>2. \A d \in Clients : Len(incoming'[d]) <= Len(incoming[d])
  <2>1. \A d \in Clients : incoming'[d] = incoming[d] \/ incoming'[d] = Without(incoming[d], [piece |-> p, block |-> b])
    BY DEF BlockReceived
  <2>2. \A d \in Clients : incoming[d] \in Seq(Block) /\ Len(incoming[d]) <= Len(incoming[d])
    BY DEF TypeOK
  <2> QED
    BY <2>1, <2>2, WithoutPicks
<1>3. left'["stop"] = left["stop"]
  BY SpendKeepsStop, LimitAssumption DEF BlockReceived
<1>4. req' # NoRequest => Connected(req'.client)
  BY <1>1 DEF BeginRequestMore
<1> QED
  BY <1>1, <1>2, <1>3, <1>4, QuotaOfSteady

LEMMA QuotaOfConnection ==
  ASSUME TypeOK, TypeOK', Partition, Informed, Quota, NEW c \in Clients, Connection(c)
  PROVE  Quota'
<1>1. CASE SetupOutgoingConnection(c) \/ OrphanConnected(c) \/ SetupIncomingConnection(c)
  BY <1>1, QuotaOfComing
<1>2. CASE SomeBlockReceived(c)
  BY <1>2, QuotaOfBlock DEF SomeBlockReceived
<1>3. CASE \/ Disconnect(c) \/ PeerChoked(c) \/ PeerUnchoked(c) \/ EarlyPiecesAvailable(c)
           \/ \E ps \in SUBSET Pieces : PeerPiecesAvailable(c, ps)
  <2>1. /\ Quiet /\ UNCHANGED <<state, pieceCount, completedPieces, req>>
        /\ UNCHANGED left \/ Spend("loss") \/ Spend("choke")
    BY <1>3 DEF Disconnect, PeerPiecesAvailable, EarlyPiecesAvailable, PeerChoked, PeerUnchoked,
      pieceVars, loopVars
  <2>2. left'["stop"] = left["stop"]
    BY <2>1, SpendKeepsStop, LimitAssumption
  <2>3. CASE RemoveClient(c)
    BY <2>1, <2>2, <2>3, QuotaOfRemove
  <2>4. CASE ~RemoveClient(c)
    <3>1. /\ UNCHANGED <<sock, connections>>
          /\ UNCHANGED incoming \/ incoming' = [incoming EXCEPT ![c] = <<>>]
      BY <1>3, <2>4 DEF Disconnect, PeerPiecesAvailable, EarlyPiecesAvailable, PeerChoked, PeerUnchoked
    <3>2. \A d \in Clients : Len(incoming'[d]) <= Len(incoming[d])
      <4>1. Len(<<>>) = 0 /\ \A d \in Clients : Len(incoming[d]) \in Nat
        BY DEF TypeOK
      <4>2. \A d \in Clients : incoming'[d] = incoming[d] \/ incoming'[d] = <<>>
        BY <3>1 DEF TypeOK
      <4> QED
        BY <4>1, <4>2
    <3> QED
      BY <2>1, <2>2, <3>1, <3>2, QuotaOfSteady DEF Quiet
  <2> QED
    BY <2>3, <2>4
<1> QED
  BY <1>1, <1>2, <1>3 DEF Connection

LEMMA QuotaOfTracker == TypeOK /\ TypeOK' /\ Quota /\ Tracker => Quota'
<1> SUFFICES ASSUME TypeOK, TypeOK', Quota, Tracker PROVE Quota'
  OBVIOUS
<1>1. /\ Quiet /\ UNCHANGED <<pieceCount, completedPieces, req, incoming>>
      /\ UNCHANGED left \/ Spend("announce")
      /\ state' = state \/ (state = "Searching" /\ state' = "Connecting")
  BY DEF Tracker, ConnectToPeers, AddToPeerList, ConnectToPeersBody, pieceVars, loopVars
<1>2. left'["stop"] = left["stop"]
  BY <1>1, SpendKeepsStop, LimitAssumption
<1>3. CASE ConnectSome /\ state \notin {"Stopping", "Idle", "Paused"}
  BY <1>1, <1>2, <1>3, QuotaOfConnect DEF Away
<1>4. CASE UNCHANGED <<state, sock, connections>>
  <2>1. \A c \in Clients : Len(incoming'[c]) <= Len(incoming[c])
    BY <1>1 DEF TypeOK
  <2> QED
    BY <1>1, <1>2, <1>4, <2>1, QuotaOfSteady DEF Quiet
<1> QED
  BY <1>3, <1>4 DEF Tracker, ConnectToPeers, AddToPeerList, ConnectToPeersBody, connVars

LEMMA QuotaOfUser == TypeOK /\ TypeOK' /\ Quota /\ (User \/ HandleFileError) => Quota'
<1> SUFFICES ASSUME TypeOK, TypeOK', Quota, User \/ HandleFileError PROVE Quota'
  OBVIOUS
<1> USE LimitAssumption
<1>1. CASE Start
  <2>1. /\ UNCHANGED <<sock, connections, incoming, pieceCount, completedPieces, req, left>>
        /\ state = "Idle" /\ state' = "Preparing" /\ pieceCount = 0
    BY <1>1 DEF Start, Quota, AwayAlone, connVars, pieceVars, loopVars
  <2>2. QuotaKept'
    <3>1. \A c \in Clients : Len(incoming'[c]) <= Len(incoming[c])
      BY <2>1 DEF TypeOK
    <3> QED
      BY <2>1, <3>1, QueuesShrink DEF Quota
  <2> QED
    BY <2>1, <2>2 DEF Quota, Attached, AwayAlone, FirstComes, Connected, Away
<1>2. CASE Resume
  <2>1. /\ ConnectSome /\ Quiet /\ UNCHANGED <<pieceCount, completedPieces, req, incoming, left>>
        /\ state = "Paused" /\ state' \in {"Connecting", "Seeding"}
    BY <1>2 DEF Resume, pieceVars, loopVars
  <2> QED
    BY <2>1, QuotaOfConnect DEF Away
<1>3. CASE (Pause \/ HandleFileError) /\ AbortAll
  <2>1. /\ Quiet /\ state' = "Paused" /\ UNCHANGED <<pieceCount, completedPieces, req>>
        /\ Spend("pause") \/ Spend("fileError")
    BY <1>3 DEF Pause, HandleFileError, pieceVars, loopVars
  <2>2. left'["stop"] = left["stop"]
    BY <2>1, SpendKeepsStop
  <2> QED
    BY <1>3, <2>1, <2>2, QuotaOfAbort DEF Quota, AwayAlone
<1>4. CASE HandleFileError /\ UNCHANGED <<state, connVars, incoming>>
  <2>1. UNCHANGED <<state, sock, connections, incoming, pieceCount, completedPieces, req>> /\ Spend("fileError")
    BY <1>4 DEF HandleFileError, connVars, pieceVars, loopVars
  <2>2. left'["stop"] = left["stop"]
    BY <2>1, SpendKeepsStop
  <2>3. \A c \in Clients : Len(incoming'[c]) <= Len(incoming[c])
    BY <2>1 DEF TypeOK
  <2> QED
    BY <2>1, <2>2, <2>3, QuotaOfSteady DEF Quota, Attached
<1>5. CASE Stop
  <2>1. /\ AbortAll /\ Quiet /\ state' \in {"Idle", "Stopping"} /\ Spend("stop")
        /\ UNCHANGED <<pieceCount, completedPieces, req>>
    BY <1>5 DEF Stop, pieceVars, loopVars
  <2>2. left["stop"] \in Nat /\ Limit["stop"] \in Nat /\ left["stop"] <= Limit["stop"]
    BY DEF Quota, AwayAlone, TypeOK
  <2>3. left'["stop"] = left["stop"] - 1
    BY <2>1 DEF Spend, TypeOK
  <2> QED
    BY <2>1, <2>2, <2>3, QuotaOfAbort
<1> QED
  BY <1>1, <1>2, <1>3, <1>4, <1>5 DEF User, Pause, HandleFileError

\* The files are verified while no connected peer has been asked for anything.
LEMMA QuotaOfVerification ==
  TypeOK /\ TypeOK' /\ Informed /\ Quota /\ FullVerificationDone => Quota'
<1> SUFFICES ASSUME TypeOK, TypeOK', Informed, Quota, FullVerificationDone PROVE Quota'
  OBVIOUS
<1>1. /\ Quiet /\ pieceCount = 0 /\ UNCHANGED <<sock, connections, incoming, req, left>>
      /\ state' \in {"Seeding", "Searching"}
  BY DEF FullVerificationDone, connVars, loopVars
<1>2. \A c \in Clients : sock'[c] # "connected"
  BY <1>1 DEF Informed
<1>3. QuotaKept'
  <2>1. \A c \in Clients : Len(incoming'[c]) <= Len(incoming[c])
    BY <1>1 DEF TypeOK
  <2> QED
    BY <1>1, <2>1, QueuesShrink DEF Quota
<1> QED
  BY <1>1, <1>2, <1>3 DEF Quota, Attached, AwayAlone, FirstComes, Connected, Away

LEMMA QuotaOfVerdict ==
  TypeOK /\ TypeOK' /\ Partition /\ Quota /\ PieceVerified => Quota'
<1> SUFFICES ASSUME TypeOK, TypeOK', Partition, Quota, PieceVerified PROVE Quota'
  OBVIOUS
<1>1. /\ Quiet /\ pieceCount > 0
      /\ UNCHANGED <<sock, connections, incoming, pieceCount, req, left>>
      /\ completedPieces \subseteq completedPieces'
  BY DEF PieceVerified, CompletePiece, connVars, loopVars
<1>2. state' # "Endgame"
  BY <1>1, PartitionOfVerdict DEF Partition, NeverEndgame
<1>3. state' = state \/ state' \in {"Downloading", "Seeding"}
  BY <1>2 DEF PieceVerified, StateOnPiece
<1>4. \A c \in Clients : Len(incoming'[c]) <= Len(incoming[c])
  BY <1>1 DEF TypeOK
<1> QED
  BY <1>1, <1>3, <1>4, QuotaOfSteady DEF Quiet

LEMMA QuotaNext ==
  TypeOK /\ TypeOK' /\ Partition /\ Informed /\ Quota /\ [Next]_vars => Quota'
<1>1. TypeOK /\ Quota /\ UNCHANGED vars => Quota'
  BY DEF vars, connVars, pieceVars, loopVars, Quota, QuotaKept, Attached, AwayAlone, FirstComes,
    Connected, MaxInProgress, MultiMode
<1> QED
  BY <1>1, QuotaOfTracker, QuotaOfUser, QuotaOfVerification, QuotaOfVerdict, QuotaOfScheduler,
     QuotaOfConnection DEF Next, FileService

\* No peer is ever asked for more blocks than the quota of the mode (requestBlocks), however
\* modes, pauses, chokes and connections follow each other; a peer from before the
\* verification, for no more than the large quota.
THEOREM QuotaIsKept == Spec => []QuotaKept
<1> DEFINE IInv == TypeOK /\ Partition /\ Informed /\ Quota
<1>1. Init => IInv
  BY TypeInit, PartitionInit, InformedInit, QuotaInit
<1>2. IInv /\ [Next]_vars => IInv'
  BY TypeNext, PartitionNext, InformedNext, QuotaNext
<1>3. IInv => QuotaKept
  BY DEF Quota
<1> QED
  BY <1>1, <1>2, <1>3, PTL DEF Spec
=============================================================================
