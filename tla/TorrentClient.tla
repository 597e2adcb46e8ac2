--------------------------- MODULE TorrentClient ---------------------------
(***************************************************************************)
(* The download side of a torrent client (src/torrentclient.cpp): which    *)
(* pieces are given to which peer, which blocks are requested, what        *)
(* happens to the blocks that arrive and to the verdicts of the file       *)
(* manager, while peers choke, leave, send damaged blocks and the user     *)
(* pauses and resumes the torrent.                                         *)
(*                                                                         *)
(* Everything runs on the GUI thread.  A handler that loops over the       *)
(* connections (scheduleDownloads) or over the pieces of a connection      *)
(* (requestMore) takes one step per turn of the loop; sched and req hold   *)
(* the rest of the loops, and no other handler starts before both are      *)
(* over (Quiet).  The other handlers are one action each.                  *)
(*                                                                         *)
(* The file manager is used by the contract of FileService: a block is     *)
(* stored when it is written, verdicts come in the order they were asked   *)
(* for, and a verdict is about all writes made before it.  The tracker,    *)
(* the peers and the user are the environment.                             *)
(***************************************************************************)
EXTENDS Naturals, Sequences, FiniteSets, SequencesExt

CONSTANTS
  Clients,              \* the PeerWireClient objects
  NumPieces,            \* pieces of the torrent
  NumBlocks,            \* blocks of a piece
  MaxBlocksInProgress,  \* requests a peer may have outstanding
  MaxBlocksInMultiMode, \* the same while warming up or finishing
  WarmUpPieces,         \* pending pieces from which on warm-up shares them (4 in the code)
  EndGamePieces,        \* the constant of that name (5; the code also writes it as 5)
  Resumed,              \* the torrent may have been started, and saved, before
  EarlyPeers,           \* peers may join before the files are verified: see Accepts
  MaxSpan,              \* blocks one message can reach into (200000 bytes: 14 in the code)
  Kinds,                \* what the environment does only a few times
  Limit                 \* bound: how often it does each of them

ASSUME ClientsAssumption == IsFiniteSet(Clients)
ASSUME NumPiecesAssumption == NumPieces \in Nat \ {0}
ASSUME NumBlocksAssumption == NumBlocks \in Nat \ {0}
ASSUME QuotaAssumption ==
  /\ MaxBlocksInProgress \in Nat \ {0}
  /\ MaxBlocksInMultiMode \in 1 .. MaxBlocksInProgress
ASSUME ResumedAssumption == Resumed \in BOOLEAN /\ EarlyPeers \in BOOLEAN
ASSUME WarmUpAssumption == WarmUpPieces \in Nat \ {0} /\ EndGamePieces \in Nat
ASSUME SpanAssumption == MaxSpan \in Nat \ {0}
ASSUME LimitAssumption ==
  /\ {"choke", "loss", "corrupt", "late", "stray", "pause", "fileError", "stop", "announce"}
       \subseteq Kinds
  /\ Limit \in [Kinds -> Nat]

Pieces == 0 .. NumPieces - 1
Blocks == 0 .. NumBlocks - 1

States == {"Idle", "Paused", "Stopping", "Preparing", "Searching", "Connecting",
           "WarmingUp", "Downloading", "Endgame", "Seeding"}

\* TorrentPiece: the progress of a piece that has been started.
Piece == [completed : SUBSET Blocks, requested : SUBSET Blocks, inProgress : BOOLEAN]
NewPiece(completed) == [completed |-> completed, requested |-> {}, inProgress |-> FALSE]

Block     == [piece : Pieces, block : Blocks]
NoRequest == [client |-> "none", pieces |-> <<>>]

VARIABLES
  state,
  registered,          \* the torrent server knows this client
  pieceCount,          \* 0 until the files are verified
  \* connections
  connections,         \* in the order they were made
  sock,                \* "none", "connecting", "connected", "early" (connected before the
                       \* files were verified) or "orphan" (connecting, but forgotten)
  choked,              \* the peer chokes us
  interested,          \* we told the peer we are interested
  avail,               \* the pieces the peer has announced
  incoming,            \* blocks requested from the peer and not received
  connectingToClients, \* connectToPeers is due
  \* pieces
  pendingPieces,       \* the keys of the map of that name: pieces that have been started
  piece,               \* its values: piece[p], NewPiece({}) where p is not a key
  payloads,            \* pieces given to each client, the latest first
  completedPieces,
  incompletePieces,
  verifiedPieces,      \* what the file manager's initial verification finds complete
  verifying,           \* verdicts the file manager owes, oldest first
  store,               \* store[p][b]: the block on disk is the torrent's
  hashes,              \* hashes[p]: what the checksum of p has been since a verdict was asked for
  overrun,             \* history, for CompletedIsIntact: pieces that a message for another piece
                       \* has been written into since they were last put up for a verdict
  \* the handlers in progress
  schedulerCalled,     \* scheduleDownloads is posted
  sched,               \* clients the running scheduleDownloads has still to visit
  req,                 \* the running requestMore: its client and the pieces left
  left                 \* what the environment may still do, by kind

connVars  == <<connections, sock, choked, interested, avail>>
pieceVars == <<completedPieces, incompletePieces, verifiedPieces, verifying, store, hashes,
               overrun>>
loopVars  == <<sched, req>>

vars == <<state, registered, pieceCount, connVars, incoming, connectingToClients,
          pendingPieces, piece, payloads, pieceVars, schedulerCalled, loopVars, left>>

-----------------------------------------------------------------------------
(* Reading the state.                                                      *)

Quiet == sched = <<>> /\ req = NoRequest

Connected(c) == sock[c] \in {"connected", "early"}

MultiMode     == state \in {"WarmingUp", "Endgame"}
MaxInProgress == IF MultiMode THEN MaxBlocksInMultiMode ELSE MaxBlocksInProgress

\* The test for the end game, written out at three places of the code.
EndgameTest(incomplete, pend) ==
  Cardinality(incomplete) < EndGamePieces /\ Cardinality(pend) > Cardinality(incomplete)

\* The elements of s at the positions I, in their order (SelectSeq, by positions).
Selected(s, I) ==
  LET nth(k) == CHOOSE i \in I : Cardinality({j \in I : j < i}) = k - 1
  IN  [k \in 1 .. Cardinality(I) |-> s[nth(k)]]

\* s without any e.
Without(s, e) == Selected(s, {i \in DOMAIN s : s[i] # e})

Spend(kind) == left[kind] > 0 /\ left' = [left EXCEPT ![kind] = @ - 1]

-----------------------------------------------------------------------------
(* Changes several handlers make.                                          *)

CallScheduler == schedulerCalled' = TRUE

\* The payload of the clients cs is forgotten: their pieces are no longer in progress
\* and all their blocks may be requested again (removeClient, peerChoked).
ReleasePayloads(cs) ==
  /\ piece' = [p \in Pieces |->
        IF \E c \in cs : Contains(payloads[c], p)
          THEN [piece[p] EXCEPT !.requested = {}, !.inProgress = FALSE]
          ELSE piece[p]]
  /\ payloads' = [c \in Clients |-> IF c \in cs THEN <<>> ELSE payloads[c]]

\* Mutant: the piece stays in the payloads.
KeepInPayloads(p) == UNCHANGED payloads

\* A piece leaves every payload (blockReceived, pieceVerified).
DropFromPayloads(p) == payloads' = [c \in Clients |-> Without(payloads[c], p)]

\* The wire state of clients that are gone; a later connection is a new object.
ResetWire(cs) ==
  /\ choked'     = [c \in Clients |-> c \in cs \/ choked[c]]
  /\ interested' = [c \in Clients |-> c \notin cs /\ interested[c]]
  /\ avail'      = [c \in Clients |-> IF c \in cs THEN {} ELSE avail[c]]
  /\ incoming'   = [c \in Clients |-> IF c \in cs THEN <<>> ELSE incoming[c]]

\* removeClient, for the client that signalled disconnected or an error.
RemoveClient(c) ==
  /\ connections' = Without(connections, c)
  /\ sock' = [sock EXCEPT ![c] = "none"]
  /\ ResetWire({c})
  /\ ReleasePayloads({c})
  /\ connectingToClients' = TRUE

\* abort() on every connection, then connections.clear(): a connected client signals
\* disconnected and is removed; one that still connects signals nothing.
AbortAll ==
  LET up == {c \in Clients : Connected(c)} \cap ToSet(connections) IN
    /\ connections' = <<>>
    /\ sock' = [c \in Clients |-> IF c \in up THEN "none"
                                  ELSE IF sock[c] = "connecting" THEN "orphan" ELSE sock[c]]
    /\ ResetWire(up)
    /\ ReleasePayloads(up)
    /\ connectingToClients' = (connectingToClients \/ up # {})

\* requestMore(c) up to its loop, after the handler's own changes: the scheduler is
\* posted when the client works on nothing, and nothing happens at a full quota.
BeginRequestMore(c) ==
  LET given  == payloads'[c]
      active == Selected(given, {i \in DOMAIN given : piece'[given[i]].inProgress \/ MultiMode'})
  IN  IF active = <<>> /\ incompletePieces # {}
        THEN CallScheduler /\ req' = NoRequest
        ELSE /\ UNCHANGED schedulerCalled
             /\ req' = IF Len(incoming'[c]) = MaxInProgress' THEN NoRequest
                       ELSE [client |-> c, pieces |-> active]

\* connectToPeers: any of the free peers, in any order, may be tried; the tracker is
\* asked for peers once the files are verified.
ConnectSome ==
  IF pieceCount = 0 THEN UNCHANGED connVars
  ELSE \E cs \in SetToAllKPermutations({c \in Clients : sock[c] = "none"}) :
         /\ connections' = connections \o cs
         /\ sock' = [c \in Clients |-> IF Contains(cs, c) THEN "connecting" ELSE sock[c]]
         /\ UNCHANGED <<choked, interested, avail>>

\* setupOutgoingConnection and setupIncomingConnection: the first peer warms us up.
StateOnConnection ==
  IF state \notin {"Searching", "Connecting"} THEN state
  ELSE IF completedPieces = {} THEN "WarmingUp"
  ELSE IF EndgameTest(incompletePieces, pendingPieces) THEN "Endgame" ELSE state

-----------------------------------------------------------------------------
(* Start, verification of the files, tracker, user.                        *)

\* A client restored from the saved state trusts its complete pieces (the files
\* held them when it was saved); of the partial ones it only knows which blocks it
\* had stored, and what the disk holds of them may be something else.
Init ==
  /\ state = "Idle"
  /\ registered = FALSE
  /\ pieceCount = 0
  /\ connections = <<>>
  /\ sock = [c \in Clients |-> "none"]
  /\ choked = [c \in Clients |-> TRUE]
  /\ interested = [c \in Clients |-> FALSE]
  /\ avail = [c \in Clients |-> {}]
  /\ incoming = [c \in Clients |-> <<>>]
  /\ connectingToClients = FALSE
  /\ store \in [Pieces -> [Blocks -> BOOLEAN]]
  /\ Resumed \/ store = [p \in Pieces |-> [b \in Blocks |-> FALSE]]
  /\ completedPieces \in SUBSET {p \in Pieces : \A b \in Blocks : store[p][b]}
  /\ \E had \in [Pieces \ completedPieces -> SUBSET Blocks] :
       /\ \A p \in DOMAIN had : had[p] # Blocks /\ (Resumed \/ had[p] = {})
       /\ pendingPieces = {p \in DOMAIN had : had[p] # {}}
       /\ piece = [p \in Pieces |-> NewPiece(IF p \in DOMAIN had THEN had[p] ELSE {})]
  /\ payloads = [c \in Clients |-> <<>>]
  /\ incompletePieces = {}
  /\ verifiedPieces \in
       IF completedPieces # {} THEN {completedPieces}
                               ELSE SUBSET {p \in Pieces : \A b \in Blocks : store[p][b]}
  /\ verifying = <<>>
  /\ hashes = [p \in Pieces |-> {}]
  /\ overrun = {}
  /\ schedulerCalled = FALSE
  /\ sched = <<>>
  /\ req = NoRequest
  /\ left = Limit

Start ==
  /\ state = "Idle" /\ ~registered /\ left["stop"] = Limit["stop"]
  /\ state' = "Preparing"
  /\ registered' = TRUE
  /\ UNCHANGED <<pieceCount, connVars, incoming, connectingToClients, pendingPieces, piece,
                 payloads, pieceVars, schedulerCalled, loopVars, left>>

\* Mutant: the count is that of the complete pieces.
CountComplete(completed) == pieceCount' = Cardinality(completed)

CountPieces(completed) == pieceCount' = NumPieces

\* Mutant: the started pieces are not compared with the checksums.
KeepPartials(completed) ==
  /\ UNCHANGED pendingPieces
  /\ piece' = [p \in Pieces |-> IF p \in completed THEN NewPiece({}) ELSE piece[p]]

\* A started piece the checksums find complete is not pending any more.
TrustChecksums(completed) ==
  /\ pendingPieces' = pendingPieces \ completed
  /\ piece' = [p \in Pieces |-> IF p \in completed THEN NewPiece({}) ELSE piece[p]]

\* fullVerificationDone.  When no piece was known to be complete the file manager has
\* hashed those it could read (unless it had to create the files: then none is complete),
\* and it has done so before any block is stored.
FullVerificationDone ==
  /\ Quiet /\ pieceCount = 0 /\ state \notin {"Idle", "Stopping"}
  /\ completedPieces' = verifiedPieces
  /\ incompletePieces' = Pieces \ completedPieces'
  /\ CountPieces(completedPieces')
  /\ TrustChecksums(completedPieces')
  /\ state' = IF completedPieces' = Pieces THEN "Seeding" ELSE "Searching"
  /\ UNCHANGED <<registered, connVars, incoming, connectingToClients, payloads,
                 verifiedPieces, verifying, store, hashes, overrun, schedulerCalled, loopVars,
                 left>>

ConnectToPeersBody ==
  /\ connectingToClients' = FALSE
  /\ IF state \in {"Stopping", "Idle", "Paused"}
       THEN UNCHANGED <<state, connVars>>
       ELSE /\ state' = IF state = "Searching" THEN "Connecting" ELSE state
            /\ ConnectSome

\* connectToPeers, from the timer callPeerConnector has set.
ConnectToPeers ==
  /\ Quiet /\ connectingToClients
  /\ ConnectToPeersBody
  /\ UNCHANGED <<registered, pieceCount, incoming, pendingPieces, piece, payloads, pieceVars,
                 schedulerCalled, loopVars, left>>

\* addToPeerList: the tracker, started after the verification, sends its list.
AddToPeerList ==
  /\ Quiet /\ pieceCount > 0 /\ Spend("announce")
  /\ IF state \in {"Paused", "Stopping", "Idle"}
       THEN UNCHANGED <<state, connVars, connectingToClients>>
       ELSE IF state \in {"Searching", "WarmingUp"}
         THEN ConnectToPeersBody
         ELSE connectingToClients' = TRUE /\ UNCHANGED <<state, connVars>>
  /\ UNCHANGED <<registered, pieceCount, incoming, pendingPieces, piece, payloads, pieceVars,
                 schedulerCalled, loopVars>>

\* setPaused(true) from the pause action, offered in every state after Preparing.
Pause ==
  /\ Quiet /\ state \notin {"Idle", "Paused", "Stopping", "Preparing"} /\ Spend("pause")
  /\ state' = "Paused"
  /\ AbortAll
  /\ registered' = FALSE
  /\ UNCHANGED <<pieceCount, pendingPieces, pieceVars, schedulerCalled, loopVars>>

\* setPaused(false).
Resume ==
  /\ Quiet /\ state = "Paused"
  /\ IF completedPieces = Pieces
       THEN state' = "Seeding"
       ELSE state' = "Connecting"   \* Searching, until connectToPeers a line later
  /\ connectingToClients' = FALSE
  /\ ConnectSome
  /\ registered' = TRUE
  /\ UNCHANGED <<pieceCount, incoming, pendingPieces, piece, payloads, pieceVars,
                 schedulerCalled, loopVars, left>>

\* handleFileError: the file manager could not open, read or write a file.
HandleFileError ==
  /\ Quiet /\ state # "Idle" /\ Spend("fileError")
  /\ IF state = "Paused"
       THEN UNCHANGED <<state, registered, connVars, incoming, connectingToClients, piece,
                        payloads>>
       ELSE state' = "Paused" /\ AbortAll /\ registered' = FALSE
  /\ UNCHANGED <<pieceCount, pendingPieces, pieceVars, schedulerCalled, loopVars>>

Stop ==
  /\ Quiet /\ state # "Stopping" /\ Spend("stop")
  /\ state' = IF state \in {"Searching", "Connecting", "WarmingUp", "Downloading", "Endgame",
                            "Seeding"} THEN "Stopping" ELSE "Idle"
  /\ AbortAll
  /\ registered' = FALSE
  /\ UNCHANGED <<pieceCount, pendingPieces, pieceVars, schedulerCalled, loopVars>>

-----------------------------------------------------------------------------
(* The connections.                                                        *)

\* setupOutgoingConnection.  A connection that a pause has forgotten may still come
\* up; its signals reach the client, which no longer schedules it.
SetupOutgoingConnection(c) ==
  /\ Quiet /\ sock[c] = "connecting"
  /\ sock' = [sock EXCEPT ![c] = "connected"]
  /\ state' = StateOnConnection
  /\ UNCHANGED <<registered, pieceCount, connections, choked, interested, avail, incoming,
                 connectingToClients, pendingPieces, piece, payloads, pieceVars,
                 schedulerCalled, loopVars, left>>

OrphanConnected(c) ==
  /\ Quiet /\ sock[c] = "orphan"
  /\ sock' = [sock EXCEPT ![c] = "none"]  \* and, as nothing else comes of it, its end
  /\ connectingToClients' = TRUE
  /\ state' = StateOnConnection
  /\ UNCHANGED <<registered, pieceCount, connections, choked, interested, avail, incoming,
                 pendingPieces, piece, payloads, pieceVars,
                 schedulerCalled, loopVars, left>>

\* TorrentServer::processInfoHash finds this client.  Before the files are verified
\* that takes a client that an error has paused and the user has resumed, and another
\* torrent that has opened the server's port.
Accepts == registered /\ state \notin {"Idle", "Paused", "Stopping", "Preparing"}

\* setupIncomingConnection.  The wire client is told pieceCount.
SetupIncomingConnection(c) ==
  /\ Quiet /\ sock[c] = "none" /\ Accepts
  /\ \/ pieceCount > 0 /\ sock' = [sock EXCEPT ![c] = "connected"]
     \/ pieceCount = 0 /\ EarlyPeers /\ sock' = [sock EXCEPT ![c] = "early"]
  /\ connections' = Append(connections, c)
  /\ state' = StateOnConnection
  /\ UNCHANGED <<registered, pieceCount, choked, interested, avail, incoming,
                 connectingToClients, pendingPieces, piece, payloads, pieceVars,
                 schedulerCalled, loopVars, left>>

\* The connection ends: refused, closed by the peer, timed out or aborted.
Disconnect(c) ==
  /\ Quiet /\ sock[c] # "none" /\ Spend("loss")
  /\ RemoveClient(c)
  /\ UNCHANGED <<state, registered, pieceCount, pendingPieces, pieceVars, schedulerCalled,
                 loopVars>>

\* The requested blocks of the pieces the client works on (peerPiecesAvailable).
BlocksInProgress(c) ==
  {r \in Block : /\ Contains(payloads[c], r.piece) /\ piece[r.piece].inProgress
                 /\ r.block \in piece[r.piece].requested}

\* Mutant: a piece that another client works on is not of interest.
HasUnstarted(c, ps) == ps \ (completedPieces \cup pendingPieces) # {}

\* The peer has a piece we lack.
HasMissing(c, ps) == ps \ completedPieces # {}

\* peerPiecesAvailable: a bit field, or one more piece, from the peer.
PeerPiecesAvailable(c, ps) ==
  /\ Quiet /\ sock[c] = "connected"
  /\ avail[c] \subseteq ps /\ avail[c] # ps
  /\ \/ /\ ps = Pieces /\ state = "Seeding"
        /\ RemoveClient(c)
        /\ UNCHANGED schedulerCalled
     \/ /\ ps = Pieces => state # "Seeding"
        /\ avail' = [avail EXCEPT ![c] = ps]
        /\ IF ps = Pieces \/ HasMissing(c, ps)
             THEN /\ interested' = [interested EXCEPT ![c] = TRUE]
                  /\ IF ps = Pieces \/ BlocksInProgress(c) = {}
                       THEN CallScheduler ELSE UNCHANGED schedulerCalled
             ELSE interested' = [interested EXCEPT ![c] = FALSE] /\ UNCHANGED schedulerCalled
        /\ UNCHANGED <<connections, sock, choked, incoming, connectingToClients, piece, payloads>>
  /\ UNCHANGED <<state, registered, pieceCount, pendingPieces, pieceVars, loopVars, left>>

\* peerPiecesAvailable of an early peer: its list has no room for any piece, so that
\* it looks like a seed as long as pieceCount is 0 too, and useless afterwards.
EarlyPiecesAvailable(c) ==
  /\ Quiet /\ sock[c] = "early"
  /\ IF pieceCount = 0 /\ state = "Seeding"
       THEN RemoveClient(c) /\ UNCHANGED schedulerCalled
       ELSE /\ interested' = [interested EXCEPT ![c] = pieceCount = 0]
            /\ IF pieceCount = 0 THEN CallScheduler ELSE UNCHANGED schedulerCalled
            /\ UNCHANGED <<connections, sock, choked, avail, incoming, connectingToClients,
                           piece, payloads>>
  /\ UNCHANGED <<state, registered, pieceCount, pendingPieces, pieceVars, loopVars, left>>

\* A choke message and peerChoked.
PeerChoked(c) ==
  /\ Quiet /\ Connected(c) /\ ~choked[c] /\ Spend("choke")
  /\ choked' = [choked EXCEPT ![c] = TRUE]
  /\ incoming' = [incoming EXCEPT ![c] = <<>>]
  /\ ReleasePayloads({c})
  /\ UNCHANGED <<state, registered, pieceCount, connections, sock, interested, avail,
                 connectingToClients, pendingPieces, pieceVars, schedulerCalled, loopVars>>

\* An unchoke message and peerUnchoked.
PeerUnchoked(c) ==
  /\ Quiet /\ Connected(c) /\ choked[c]
  /\ choked' = [choked EXCEPT ![c] = FALSE]
  /\ IF state # "Seeding" THEN CallScheduler ELSE UNCHANGED schedulerCalled
  /\ UNCHANGED <<state, registered, pieceCount, connections, sock, interested, avail, incoming,
                 connectingToClients, pendingPieces, piece, payloads, pieceVars, loopVars, left>>

-----------------------------------------------------------------------------
(* Downloading.                                                            *)

\* Mutant: a block is stored again.
IsPending(p, b) == p \in pendingPieces

\* The block is one of a started piece, and still missing.
IsMissing(p, b) == p \in pendingPieces /\ b \notin piece[p].completed

\* The blocks that n blocks' worth of data reach into, from block b of piece p on:
\* nothing stops them at the end of the piece, only at the end of the torrent.
Span(p, b, n) ==
  {at \in Pieces \X Blocks :
     at[1] * NumBlocks + at[2] \in p * NumBlocks + b .. p * NumBlocks + b + n - 1}

\* What a message does to the blocks it reaches into: TRUE where the torrent's block is
\* then on disk.
Messages(p, b) == UNION {[Span(p, b, n) -> BOOLEAN] : n \in 1 .. MaxSpan}

\* The checksum of what is on disk is the one of the torrent.
Intact(disk, p) == \A b \in Blocks : disk[p][b]

\* Mutant: the checksum is not looked at.
NoHash(disk, p) == "right"

Hash(disk, p) == IF Intact(disk, p) THEN "right" ELSE "wrong"

\* Where the data of a message for piece p go.  A verdict that is owed when they come may
\* be about what was there before as well; whole: it is asked for now.
WriteData(p, data, whole) ==
  /\ store' = [q \in Pieces |-> [a \in Blocks |->
       IF <<q, a>> \in DOMAIN data THEN data[<<q, a>>] ELSE store[q][a]]]
  /\ hashes' = [q \in Pieces |->
       IF q = p /\ whole THEN {Hash(store', q)}
       ELSE IF q \in ToSet(verifying) THEN hashes[q] \cup {Hash(store', q)}
       ELSE hashes[q]]
  /\ overrun' = {q \in Pieces :
       IF q = p THEN q \in overrun /\ ~whole
                ELSE q \in overrun \/ \E a \in Blocks : <<q, a>> \in DOMAIN data}

\* blockReceived from client c, with data for piece p that begin in its block b.  A
\* message is exact when it begins where the block does and has its size.  A peer may as
\* well send one that begins anywhere in the block, of any size: no request is answered
\* by it, but the data are written and the block counts as there.  (One without data
\* aborts the connection: Disconnect.)
BlockReceived(c, p, b, exact, data) ==
  LET block == [piece |-> p, block |-> b]
      isNew == IsMissing(p, b)
      withB == piece[p].completed \cup {b}
      asked == exact /\ Contains(incoming[c], block)
  IN
  /\ Quiet /\ Connected(c)
  /\ exact => DOMAIN data = {<<p, b>>}
  /\ \/ asked /\ data[<<p, b>>] /\ UNCHANGED left
     \/ asked /\ ~data[<<p, b>>] /\ Spend("corrupt")
     \/ exact /\ ~asked /\ Spend("late")
     \/ ~exact /\ Spend("stray")
  \* the client's request is answered; while pieces are shared, others' are cancelled
  /\ incoming' = [o \in Clients |->
       IF exact /\ (o = c \/ (isNew /\ MultiMode /\ Contains(payloads[o], p)))
         THEN Without(incoming[o], block) ELSE incoming[o]]
  /\ IF isNew
       THEN /\ state' = IF state \notin {"Downloading", "Endgame"} /\ completedPieces # {}
                          THEN "Downloading" ELSE state
            /\ WriteData(p, data, withB = Blocks)
            /\ piece' = [piece EXCEPT ![p].completed = withB, ![p].requested = @ \ {b}]
            /\ IF withB = Blocks
                 THEN verifying' = Append(verifying, p) /\ DropFromPayloads(p)
                 ELSE UNCHANGED <<verifying, payloads>>
       ELSE UNCHANGED <<state, store, hashes, overrun, piece, verifying, payloads>>
  /\ BeginRequestMore(c)
  /\ UNCHANGED <<registered, pieceCount, connVars, connectingToClients, pendingPieces,
                 completedPieces, incompletePieces, verifiedPieces, sched>>

\* scheduleDownloads: the posted call starts its loop over the connections.
ScheduleDownloads ==
  /\ Quiet /\ schedulerCalled
  /\ schedulerCalled' = FALSE
  /\ sched' = IF state \in {"Stopping", "Paused", "Idle"} THEN <<>> ELSE connections
  /\ UNCHANGED <<state, registered, pieceCount, connVars, incoming, connectingToClients,
                 pendingPieces, piece, payloads, pieceVars, req, left>>

Schedulable(c) == Connected(c) /\ ~choked[c] /\ Len(incoming[c]) < MaxInProgress

WarmUpSharing == state = "WarmingUp" /\ Cardinality(pendingPieces) >= WarmUpPieces

\* The oldest piece of an idle client that works on none, or not on all, of its pieces.
Resumable(c) ==
  /\ incoming[c] = <<>>
  /\ \E p \in ToSet(payloads[c]) : ~piece[p].inProgress

\* incompletePiecesAvailableToClient
AvailableTo(c) ==
  LET busy    == IF state = "WarmingUp" THEN {} ELSE {p \in pendingPieces : piece[p].inProgress}
      current == {p \in ToSet(payloads[c]) : piece[p].inProgress}
  IN  (incompletePieces \cap avail[c]) \ (busy \cup current)

\* How many connections have piece p.
Occurrences(p) == Cardinality({c \in ToSet(connections) : p \in avail[c]})

FirstOf(ps) == {p \in ps : \A q \in ps : p <= q}

\* A new piece is picked at random, or the rarest; while warming up, the most common.
PieceChoices(ps) ==
  IF state = "WarmingUp"
    THEN {p \in ps : \A q \in ps : Occurrences(p) >= Occurrences(q)}
    ELSE ps

\* Piece p becomes the client's latest payload and is in progress.
Assign(c, p) ==
  /\ piece' = [piece EXCEPT ![p].inProgress = TRUE]
  /\ pendingPieces' = pendingPieces \cup {p}
  /\ payloads' = [payloads EXCEPT ![c] = <<p>> \o @]

NoAssignment == UNCHANGED <<piece, pendingPieces, payloads>>

\* Warm-up: a client without a payload gets any pending piece, whatever it has.
ShareWarmUpPiece(c) ==
  /\ WarmUpSharing
  /\ \E p \in Pieces :
       /\ IF payloads[c] # <<>> THEN p = Head(payloads[c]) /\ NoAssignment
                                ELSE p \in pendingPieces /\ Assign(c, p)
       /\ IF Cardinality(Blocks \ piece[p].completed) = Len(incoming[c])
            THEN UNCHANGED <<schedulerCalled, req>>
            ELSE BeginRequestMore(c)

\* An idle client carries on with its payload, or gets the first partial piece it has,
\* or a new one; when there is none the connection is left idle.
SchedulePiece(c) ==
  /\ ~WarmUpSharing
  /\ \/ Resumable(c) /\ NoAssignment /\ BeginRequestMore(c)
     \/ /\ ~Resumable(c)
        /\ LET ps == AvailableTo(c)
               partial == ps \cap pendingPieces
           IN \/ ps = {} /\ NoAssignment /\ UNCHANGED <<schedulerCalled, req>>
              \/ /\ ps # {}
                 /\ \E p \in (IF partial # {} THEN FirstOf(partial) ELSE PieceChoices(ps)) :
                      Assign(c, p)
                 /\ BeginRequestMore(c)

\* schedulePieceForClient: one turn of the scheduler's loop.
SchedulePieceForClient ==
  /\ sched # <<>> /\ req = NoRequest
  /\ sched' = Tail(sched)
  /\ UNCHANGED <<state, registered, pieceCount, connVars, incoming, connectingToClients,
                 pieceVars, left>>
  /\ LET c == Head(sched) IN
       \/ ~Schedulable(c) /\ NoAssignment /\ UNCHANGED <<schedulerCalled, req>>
       \/ Schedulable(c) /\ (ShareWarmUpPiece(c) \/ SchedulePiece(c))

\* Mutant: one too many.
FreeSlotsAndOne(c) == 1 + MaxInProgress - Len(incoming[c])

FreeSlots(c) == MaxInProgress - Len(incoming[c])

\* The blocks of p that requestBlocks may ask for, in the order it asks: the first ones
\* missing and unrequested; shared pieces are asked for at random, and all over again
\* once every missing block is requested.
BlockOrders(p, quota) ==
  LET missing == Blocks \ piece[p].completed
      unasked == missing \ piece[p].requested
      bits    == IF unasked = {} /\ MultiMode THEN missing ELSE unasked
      n       == IF Cardinality(bits) < quota THEN Cardinality(bits) ELSE quota
      chosen  == {bs \in SUBSET bits : Cardinality(bs) = n}
      first   == {bs \in chosen : \A b \in bs, a \in bits \ bs : b < a}
  IN  IF MultiMode THEN UNION {SetToSeqs(bs) : bs \in chosen}
                   ELSE {s \in UNION {SetToSeqs(bs) : bs \in first} :
                           \A i, j \in DOMAIN s : i < j => s[i] < s[j]}

\* requestBlocks: one turn of requestMore's loop.
RequestBlocks ==
  LET c == req.client
      p == Head(req.pieces)
  IN
  /\ req.pieces # <<>> /\ Len(incoming[c]) < MaxInProgress
  /\ \E bs \in BlockOrders(p, FreeSlots(c)) :
       /\ incoming' = [incoming EXCEPT
            ![c] = @ \o [i \in DOMAIN bs |-> [piece |-> p, block |-> bs[i]]]]
       /\ piece' = [piece EXCEPT ![p].requested = @ \cup ToSet(bs)]
  /\ req' = [req EXCEPT !.pieces = Tail(@)]
  /\ UNCHANGED <<state, registered, pieceCount, connVars, connectingToClients, pendingPieces,
                 payloads, pieceVars, schedulerCalled, sched, left>>

\* The end of requestMore: a quota that is not filled calls the scheduler again.
EndRequestMore ==
  /\ req # NoRequest
  /\ req.pieces = <<>> \/ Len(incoming[req.client]) >= MaxInProgress
  /\ IF Len(incoming[req.client]) < MaxInProgress /\ state # "WarmingUp"
       THEN CallScheduler ELSE UNCHANGED schedulerCalled
  /\ req' = NoRequest
  /\ UNCHANGED <<state, registered, pieceCount, connVars, incoming, connectingToClients,
                 pendingPieces, piece, payloads, pieceVars, sched, left>>

\* Mutant: a cleared piece stays in progress.
ForgetBlocks(p) == piece' = [piece EXCEPT ![p] = [NewPiece({}) EXCEPT !.inProgress = TRUE]]

ClearPiece(p) == piece' = [piece EXCEPT ![p] = NewPiece({})]

CompletePiece(p) ==
  /\ pendingPieces' = pendingPieces \ {p}
  /\ completedPieces' = completedPieces \cup {p}
  /\ incompletePieces' = incompletePieces \ {p}

\* The state after a piece is completed that is not the last one.
StateOnPiece(p) ==
  IF completedPieces \cup {p} = {p} THEN "Downloading"
  ELSE IF EndgameTest(incompletePieces', pendingPieces') THEN "Endgame" ELSE state

\* pieceVerified: the oldest verdict, after the one about all files.  It says what the
\* checksum was at some moment since it was asked for.  The piece is cleared, or it is
\* complete.
PieceVerified ==
  /\ Quiet /\ verifying # <<>> /\ pieceCount > 0
  /\ verifying' = Tail(verifying)
  /\ LET p == Head(verifying) IN
       /\ DropFromPayloads(p)
       /\ ClearPiece(p)
       /\ hashes' = [hashes EXCEPT ![p] = {}]
       /\ \/ /\ "wrong" \in hashes[p] /\ p \in pendingPieces  \* the piece is dereferenced
             /\ CallScheduler
             /\ UNCHANGED <<state, pendingPieces, completedPieces, incompletePieces>>
          \/ /\ "right" \in hashes[p]
             /\ CompletePiece(p)
             /\ IF completedPieces' = Pieces
                  THEN state' = "Seeding" /\ UNCHANGED schedulerCalled
                  ELSE state' = StateOnPiece(p) /\ CallScheduler
  /\ UNCHANGED <<registered, pieceCount, connVars, incoming, connectingToClients,
                 verifiedPieces, store, overrun, loopVars, left>>

-----------------------------------------------------------------------------

Tracker == ConnectToPeers \/ AddToPeerList

User == Start \/ Pause \/ Resume \/ Stop

FileService == FullVerificationDone \/ HandleFileError \/ PieceVerified

Scheduler == ScheduleDownloads \/ SchedulePieceForClient \/ RequestBlocks \/ EndRequestMore

SomeBlockReceived(c) ==
  \E p \in Pieces, b \in Blocks, exact \in BOOLEAN : \E data \in Messages(p, b) :
    BlockReceived(c, p, b, exact, data)

Connection(c) ==
  \/ SetupOutgoingConnection(c) \/ OrphanConnected(c) \/ SetupIncomingConnection(c)
  \/ Disconnect(c) \/ PeerChoked(c) \/ PeerUnchoked(c)
  \/ \E ps \in SUBSET Pieces : PeerPiecesAvailable(c, ps)
  \/ EarlyPiecesAvailable(c)
  \/ SomeBlockReceived(c)

Next == Tracker \/ User \/ FileService \/ Scheduler \/ \E c \in Clients : Connection(c)

Spec == Init /\ [][Next]_vars

\* A requested block arrives undamaged.
Answer(c, p, b) ==
  /\ Contains(incoming[c], [piece |-> p, block |-> b])
  /\ BlockReceived(c, p, b, TRUE, [at \in {<<p, b>>} |-> TRUE])

\* What generous peers do, each once: connect, announce every piece, unchoke us, and
\* answer every request.  A peer that has left need not come back.
GenerousPeer(c) ==
  \/ left["loss"] = Limit["loss"] /\ SetupIncomingConnection(c)
  \/ PeerPiecesAvailable(c, Pieces)
  \/ PeerUnchoked(c)
  \/ \E p \in Pieces, b \in Blocks : Answer(c, p, b)

\* What reaches the event loop from the file manager and from generous peers.
Arrivals == FullVerificationDone \/ PieceVerified \/ \E c \in Clients : GenerousPeer(c)

\* The user starts the torrent, the event loop runs the posted scheduler and the loops
\* it has begun and, in between, what arrives: an arrival is ready again and again
\* while the scheduler keeps posting itself, hence SF.  There are finitely many
\* arrivals, so none of them is left out for ever.
Fairness == WF_vars(Start) /\ WF_vars(Scheduler) /\ SF_vars(Arrivals)

FairSpec == Spec /\ Fairness

-----------------------------------------------------------------------------
(* Properties.                                                             *)

TypeOK ==
  /\ state \in States
  /\ registered \in BOOLEAN
  /\ pieceCount \in {0, NumPieces}
  /\ connections \in Seq(Clients)
  /\ sock \in [Clients -> {"none", "connecting", "connected", "early", "orphan"}]
  /\ choked \in [Clients -> BOOLEAN]
  /\ interested \in [Clients -> BOOLEAN]
  /\ avail \in [Clients -> SUBSET Pieces]
  /\ incoming \in [Clients -> Seq(Block)]
  /\ connectingToClients \in BOOLEAN
  /\ pendingPieces \in SUBSET Pieces
  /\ piece \in [Pieces -> Piece]
  /\ payloads \in [Clients -> Seq(Pieces)]
  /\ completedPieces \in SUBSET Pieces
  /\ incompletePieces \in SUBSET Pieces
  /\ verifiedPieces \in SUBSET Pieces
  /\ verifying \in Seq(Pieces)
  /\ store \in [Pieces -> [Blocks -> BOOLEAN]]
  /\ hashes \in [Pieces -> SUBSET {"right", "wrong"}]
  /\ overrun \in SUBSET Pieces
  /\ schedulerCalled \in BOOLEAN
  /\ sched \in Seq(Clients)
  /\ req \in [client : Clients, pieces : Seq(Pieces)] \cup {NoRequest}
  /\ left \in [Kinds -> Nat]

\* completedPieces and incompletePieces, two bit arrays kept by hand, stay complements,
\* and only incomplete pieces are pending.
PiecesPartitioned ==
  pieceCount > 0 =>
    /\ incompletePieces = Pieces \ completedPieces
    /\ pendingPieces \subseteq incompletePieces

\* The code's pointers are live: a piece is deleted (pieceVerified) only when no
\* payload, no running requestMore and no verdict to come refers to it.
NoDanglingPiece ==
  /\ \A c \in Clients : ToSet(payloads[c]) \subseteq pendingPieces
  /\ ToSet(req.pieces) \subseteq pendingPieces
  /\ ToSet(verifying) \subseteq pendingPieces

\* A verdict is awaited for a piece exactly once, and while it is, no block of the
\* piece counts as missing: none is asked for, stored or thrown away for it.
OneVerdictPerPiece ==
  /\ \A i, j \in 1 .. Len(verifying) : verifying[i] = verifying[j] => i = j
  /\ \A p \in pendingPieces :
       pieceCount > 0 => (piece[p].completed = Blocks <=> p \in ToSet(verifying))

\* What the client announces and serves as complete is intact on disk, unless a peer has
\* sent data for another piece that run on into it, which blockReceived and writeBlock
\* let pass.  Nothing else damages it: no late, duplicate or cancelled block, no data
\* that begin or end within a block, no failed or late verdict and no resumed piece.
CompletedIsIntact == \A p \in completedPieces \ overrun : Intact(store, p)

\* A peer is never asked for more blocks than the quota of the mode the client is in,
\* though the quota shrinks when a mode begins.  The exception is a peer from before the
\* files were verified: the verification ends the warm-up, and the next peer begins it
\* again when this one has been asked for more.
QuotaKept ==
  \A c \in Clients :
    Len(incoming[c]) <= IF sock[c] = "early" THEN MaxBlocksInProgress ELSE MaxInProgress

\* The comments of the code count on an end game, in which the last blocks are asked of
\* several peers.  Once the files are verified this state is out of reach: its test asks
\* for more pending than incomplete pieces, and every pending piece is incomplete.
NeverEndgame == pieceCount > 0 => state # "Endgame"

\* The messages sent by peerPiecesAvailable keep the peer informed: a connected peer
\* that has announced a piece we still lack has been told that we are interested.
InterestKept ==
  \A c \in Clients : sock[c] = "connected" /\ avail[c] \ completedPieces # {} => interested[c]

\* With generous peers the torrent is downloaded, a damaged block notwithstanding: the
\* scheduler, the quotas and the failed verdicts never leave a piece that nobody will
\* ask for.
DownloadCompletes == <>(completedPieces = Pieces)
=============================================================================
