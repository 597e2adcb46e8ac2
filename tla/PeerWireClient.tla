--------------------------- MODULE PeerWireClient ---------------------------
(***************************************************************************)
(* One connection to a peer (src/peerwireclient.cpp) from its construction *)
(* to its end, with the part of the torrent client that uploads over it:   *)
(* who is choked and unchoked (scheduleUploads), and the blocks that the   *)
(* peer asks for, the file manager reads and the connection sends.         *)
(*                                                                         *)
(* Of a peer that connects to us the server gives the descriptor to the    *)
(* outer socket, while all methods use the inner one (`socket`), so that   *)
(* its handshake is never read.  The model lets it be read, as the code    *)
(* that comes after it means to: an over-approximation.                    *)
(*                                                                         *)
(* Everything runs on the GUI thread, a handler is one action, and what a  *)
(* signal makes the torrent client do is part of the action that emits it. *)
(* The peer may send any message at any time; a message that has arrived   *)
(* only in part has no effect but to show that the peer is alive.          *)
(*                                                                         *)
(* The stream to the peer is a sequence of messages: a block stands for    *)
(* the piece message that carries it, and "other" for messages that change *)
(* nothing about uploads and the handshake (requests, interest, ...).      *)
(***************************************************************************)
EXTENDS Integers, Sequences, FiniteSets

CONSTANTS
  Blocks,          \* blocks, those the peer asks for and those we ask for
  BlockLength,     \* bytes of a block (16384 in the code)
  HeaderLength,    \* bytes of the header of a piece message (13)
  MaxPendingSize,  \* most bytes waiting to be sent (32 * 16384)
  MaxIncoming,     \* requests we may have outstanding
  MaxBuffer,       \* bound: messages in outgoingBuffer
  MaxReads         \* bound: requests of the peer the file manager works on

ASSUME SizeAssumption ==
  /\ BlockLength \in Nat \ {0} /\ HeaderLength \in Nat \ {0}
  /\ MaxPendingSize \in Nat
ASSUME BoundAssumption == MaxIncoming \in Nat /\ MaxBuffer \in Nat /\ MaxReads \in Nat
ASSUME BlocksAssumption ==
  Blocks \cap {"handshake", "bitfield", "choke", "unchoke", "other"} = {}

Messages == Blocks \cup {"handshake", "bitfield", "choke", "unchoke", "other"}

VARIABLES
  sock,               \* "connecting", "connected" or "closed"
  initialized,        \* the info hash is known: a torrent client owns the connection
  sentHandShake,
  received,           \* of the handshake: "nothing", "infoHash" or, with the peer id, "peerId"
  choking,            \* the four flags of pwState: ChokingPeer,
  interestedInPeer,
  chokedByPeer,
  peerIsInterested,
  pendingBlocks,      \* blocks to send that are not yet in outgoingBuffer
  pendingBlockSizes,
  outgoingBuffer,
  incoming,           \* blocks requested and not received
  pendingRequestTimer,\* it runs
  invalidateTimeout,
  reads,              \* blocks the file manager reads for the peer (readIds)
  peerChoked,         \* what the peer has been told last
  firstMessage,       \* history: the first message ever written, or "none"
  silent              \* the peer sends nothing any more

handshakeVars == <<sock, initialized, sentHandShake, received>>
flagVars      == <<choking, interestedInPeer, chokedByPeer, peerIsInterested>>
queueVars     == <<pendingBlocks, pendingBlockSizes>>
streamVars    == <<outgoingBuffer, firstMessage>>
requestVars   == <<incoming, pendingRequestTimer>>
peerVars      == <<peerChoked, silent>>

vars == <<handshakeVars, flagVars, queueVars, streamVars, requestVars, invalidateTimeout,
          reads, peerVars>>

-----------------------------------------------------------------------------
(* Parts of the handlers.                                                  *)

\* writeData, for a sequence of messages.
Write(ms) ==
  /\ Len(outgoingBuffer) + Len(ms) <= MaxBuffer
  /\ outgoingBuffer' = outgoingBuffer \o ms
  /\ firstMessage' = IF firstMessage = "none" /\ ms # <<>> THEN Head(ms) ELSE firstMessage

\* abort(): the torrent client's removeClient forgets the reads of the peer.
Abort == sock' = "closed" /\ reads' = <<>>

\* initialize and sendPieceList, the list being left out when it is all zeros.
Opening(hasPieces) ==
  (IF sentHandShake THEN <<>> ELSE <<"handshake">>)
    \o (IF hasPieces THEN <<"bitfield">> ELSE <<>>)

ClearPending == pendingBlockSizes' = 0 /\ pendingBlocks' = <<>>

Up == sock = "connected" /\ received = "peerId"

Init ==
  /\ sock \in {"connecting", "connected"}  \* we connect to a peer, or a peer to us
  /\ initialized = FALSE
  /\ sentHandShake = FALSE
  /\ received = "nothing"
  /\ choking = TRUE
  /\ interestedInPeer = FALSE
  /\ chokedByPeer = TRUE
  /\ peerIsInterested = FALSE
  /\ pendingBlocks = <<>>
  /\ pendingBlockSizes = 0
  /\ outgoingBuffer = <<>>
  /\ incoming = {}
  /\ pendingRequestTimer = FALSE
  /\ invalidateTimeout = FALSE
  /\ reads = <<>>
  /\ peerChoked = TRUE
  /\ firstMessage = "none"
  /\ silent = FALSE

-----------------------------------------------------------------------------
(* The connection comes up.                                                *)

\* setupOutgoingConnection.
SetupOutgoingConnection ==
  /\ sock = "connecting" /\ ~silent
  /\ sock' = "connected"
  /\ initialized' = TRUE
  /\ sentHandShake' = TRUE
  /\ \E hasPieces \in BOOLEAN : Write(Opening(hasPieces))
  /\ UNCHANGED <<received, flagVars, queueVars, requestVars, invalidateTimeout, reads, peerVars>>

\* processIncomingData up to the info hash.  The server looks for the torrent of an
\* incoming connection and has it set up; a foreign protocol or hash ends it.
ReceiveInfoHash ==
  /\ sock = "connected" /\ received = "nothing" /\ ~silent
  /\ invalidateTimeout' = TRUE
  /\ \/ /\ Abort
        /\ UNCHANGED <<initialized, sentHandShake, received, streamVars>>
     \/ /\ received' = "infoHash"
        /\ initialized' = TRUE
        /\ sentHandShake' = TRUE
        /\ IF initialized THEN UNCHANGED streamVars
                          ELSE \E hasPieces \in BOOLEAN : Write(Opening(hasPieces))
        /\ UNCHANGED <<sock, reads>>
  /\ UNCHANGED <<flagVars, queueVars, requestVars, peerVars>>

\* The delayed peer id; our own ends the connection.
ReceivePeerId ==
  /\ sock = "connected" /\ received = "infoHash" /\ ~silent
  /\ invalidateTimeout' = TRUE
  /\ \/ Abort /\ UNCHANGED received
     \/ received' = "peerId" /\ UNCHANGED <<sock, reads>>
  /\ UNCHANGED <<initialized, sentHandShake, flagVars, queueVars, streamVars, requestVars,
                 peerVars>>

\* Some bytes that complete no message, a keep-alive or an unsupported message.
ReceivePart ==
  /\ sock = "connected" /\ ~silent
  /\ invalidateTimeout' = TRUE
  /\ UNCHANGED <<handshakeVars, flagVars, queueVars, streamVars, requestVars, reads, peerVars>>

-----------------------------------------------------------------------------
(* Messages from the peer.                                                 *)

Receive == Up /\ ~silent /\ invalidateTimeout' = TRUE

ChokePacket ==
  /\ Receive
  /\ chokedByPeer' = TRUE
  /\ incoming' = {}
  /\ pendingRequestTimer' = FALSE
  /\ UNCHANGED <<handshakeVars, choking, interestedInPeer, peerIsInterested, queueVars,
                 streamVars, reads, peerVars>>

UnchokePacket ==
  /\ Receive
  /\ chokedByPeer' = FALSE
  /\ UNCHANGED <<handshakeVars, choking, interestedInPeer, peerIsInterested, queueVars,
                 streamVars, requestVars, reads, peerVars>>

InterestedPacket(isInterested) ==
  /\ Receive
  /\ peerIsInterested' = isInterested
  /\ UNCHANGED <<handshakeVars, choking, interestedInPeer, chokedByPeer, queueVars, streamVars,
                 requestVars, reads, peerVars>>

\* A have or bit field message: peerPiecesAvailable tells the peer of a change of our
\* interest, and drops it when both of us have everything.
PiecesAvailable ==
  /\ Receive
  /\ \/ Abort /\ UNCHANGED <<interestedInPeer, streamVars, pendingRequestTimer>>
     \/ /\ ~interestedInPeer  \* sendInterested
        /\ interestedInPeer' = TRUE
        /\ Write(<<"other">>)
        /\ pendingRequestTimer' = TRUE
        /\ UNCHANGED <<sock, reads>>
     \/ /\ interestedInPeer   \* sendNotInterested
        /\ interestedInPeer' = FALSE
        /\ Write(<<"other">>)
        /\ UNCHANGED <<sock, reads, pendingRequestTimer>>
     \/ UNCHANGED <<sock, reads, interestedInPeer, streamVars, pendingRequestTimer>>
  /\ UNCHANGED <<initialized, sentHandShake, received, choking, chokedByPeer, peerIsInterested,
                 queueVars, incoming, peerVars>>

\* Mutant: a choked peer is served.
ServeAnyone == TRUE

\* What peerRequestsBlock and sendToPeer ask.
ServesPeer == ~choking

\* peerRequestsBlock, for a block of a complete piece; what it ignores is ReceivePart.
RequestPacket(b) ==
  /\ Receive
  /\ IF ServesPeer THEN Len(reads) < MaxReads /\ reads' = Append(reads, b)
                   ELSE UNCHANGED reads
  /\ UNCHANGED <<handshakeVars, flagVars, queueVars, streamVars, requestVars, peerVars>>

\* A block arrives; the torrent client may ask for others before the timer of the
\* requests is killed.  It drops a peer that sends a block of no bytes.
PiecePacket(b) ==
  /\ Receive
  /\ \/ Abort /\ UNCHANGED <<incoming, streamVars>>
     \/ \E more \in SUBSET (Blocks \ {b}) :
          /\ chokedByPeer => more = {}
          /\ Cardinality(incoming \ {b}) + Cardinality(more \ incoming) <= MaxIncoming
          /\ incoming' = (incoming \ {b}) \cup more
          /\ IF more = {} THEN UNCHANGED streamVars ELSE Write(<<"other">>)
          /\ UNCHANGED <<sock, reads>>
  /\ pendingRequestTimer' = FALSE
  /\ UNCHANGED <<initialized, sentHandShake, received, flagVars, queueVars, peerVars>>

\* The first block of that name is taken out of the queue, its bytes stay counted.
CancelPacket(b) ==
  /\ Receive
  /\ IF \E i \in 1 .. Len(pendingBlocks) : pendingBlocks[i] = b
       THEN \E i \in 1 .. Len(pendingBlocks) :
              /\ pendingBlocks[i] = b /\ \A j \in 1 .. i - 1 : pendingBlocks[j] # b
              /\ pendingBlocks' =
                   SubSeq(pendingBlocks, 1, i - 1) \o SubSeq(pendingBlocks, i + 1, Len(pendingBlocks))
       ELSE UNCHANGED pendingBlocks
  /\ UNCHANGED <<handshakeVars, flagVars, pendingBlockSizes, streamVars, requestVars, reads,
                 peerVars>>

-----------------------------------------------------------------------------
(* The torrent client: requests and news.                                  *)

\* requestBlock, from the scheduler.
RequestBlock(b) ==
  /\ Up /\ ~chokedByPeer /\ b \notin incoming /\ Cardinality(incoming) < MaxIncoming
  /\ incoming' = incoming \cup {b}
  /\ Write(<<"other">>)
  /\ pendingRequestTimer' = TRUE
  /\ UNCHANGED <<handshakeVars, flagVars, queueVars, invalidateTimeout, reads, peerVars>>

\* cancelRequest: another peer has sent the block.
CancelRequest(b) ==
  /\ Up /\ b \in incoming
  /\ incoming' = incoming \ {b}
  /\ Write(<<"other">>)
  /\ UNCHANGED <<handshakeVars, flagVars, queueVars, pendingRequestTimer, invalidateTimeout,
                 reads, peerVars>>

\* sendPieceNotification, to connected peers of the torrent, and sendKeepAlive.
Notify ==
  /\ sock = "connected" /\ initialized
  /\ Write(<<"other">>)
  /\ UNCHANGED <<handshakeVars, flagVars, queueVars, requestVars, invalidateTimeout, reads,
                 peerVars>>

-----------------------------------------------------------------------------
(* The torrent client: uploads.                                            *)

\* scheduleUploads unchokes this peer: one of the fastest, or the one peer it picks
\* from those it has not looked at, which are the interested ones, the seeds and the
\* connections that are not up yet.
UnchokePeer ==
  /\ sock = "connecting" \/ (sock = "connected" /\ initialized)
  /\ choking
  /\ choking' = FALSE
  /\ Write(<<"unchoke">>)
  /\ pendingRequestTimer' = FALSE
  /\ UNCHANGED <<handshakeVars, interestedInPeer, chokedByPeer, peerIsInterested, queueVars,
                 incoming, invalidateTimeout, reads, peerVars>>

\* scheduleUploads chokes this peer, not being one of the fastest, or drops it.
ChokePeer ==
  /\ sock = "connected" /\ initialized /\ ~choking
  /\ \/ /\ choking' = TRUE
        /\ Write(<<"choke">>)
        /\ ClearPending
        /\ UNCHANGED <<sock, reads>>
     \/ Abort /\ UNCHANGED <<choking, streamVars, queueVars>>
  /\ UNCHANGED <<initialized, sentHandShake, received, interestedInPeer, chokedByPeer,
                 peerIsInterested, requestVars, invalidateTimeout, peerVars>>

\* Mutant: the limit is not looked at.
NeverOverflows(size) == FALSE

Overflows(size) == size > MaxPendingSize

\* sendToPeer and sendBlock: the file manager has read the oldest block.  Too long a
\* queue is dropped by choking and unchoking the peer.
SendToPeer ==
  /\ sock # "closed" /\ reads # <<>>
  /\ reads' = Tail(reads)
  /\ IF ~ServesPeer THEN UNCHANGED <<queueVars, streamVars, pendingRequestTimer>>
     ELSE LET size == pendingBlockSizes + HeaderLength + BlockLength IN
       \/ /\ ~Overflows(size)
          /\ pendingBlocks' = Append(pendingBlocks, Head(reads))
          /\ pendingBlockSizes' = size
          /\ UNCHANGED <<streamVars, pendingRequestTimer>>
       \/ /\ Overflows(size)
          /\ Write(<<"choke", "unchoke">>)
          /\ ClearPending
          /\ pendingRequestTimer' = FALSE
  /\ UNCHANGED <<handshakeVars, flagVars, incoming, invalidateTimeout, peerVars>>

\* writeToSocket, as far as the rate controller lets it write: the next block moves to
\* the empty buffer, or the first message of the buffer has been sent.
TakeBlock ==
  /\ sock = "connected" /\ outgoingBuffer = <<>> /\ pendingBlocks # <<>>
  /\ outgoingBuffer' = <<Head(pendingBlocks)>>
  /\ pendingBlocks' = Tail(pendingBlocks)
  /\ pendingBlockSizes' = pendingBlockSizes - BlockLength
  /\ firstMessage' = IF firstMessage = "none" THEN Head(pendingBlocks) ELSE firstMessage
  /\ UNCHANGED <<handshakeVars, flagVars, requestVars, invalidateTimeout, reads, peerVars>>

SendMessage ==
  /\ sock = "connected" /\ outgoingBuffer # <<>>
  /\ outgoingBuffer' = Tail(outgoingBuffer)
  /\ peerChoked' = IF Head(outgoingBuffer) \in {"choke", "unchoke"}
                     THEN Head(outgoingBuffer) = "choke" ELSE peerChoked
  /\ UNCHANGED <<handshakeVars, flagVars, queueVars, firstMessage, requestVars,
                 invalidateTimeout, reads, silent>>

-----------------------------------------------------------------------------
(* Timers, and the end.                                                    *)

\* Mutant: the peer counts as alive for ever.
StayValid == UNCHANGED invalidateTimeout

RestartTimeout == invalidateTimeout' = FALSE

\* timeoutTimer.
TimeoutExpires ==
  /\ sock # "closed"
  /\ IF invalidateTimeout THEN RestartTimeout /\ UNCHANGED <<sock, reads>>
                          ELSE Abort /\ UNCHANGED invalidateTimeout
  /\ UNCHANGED <<initialized, sentHandShake, received, flagVars, queueVars, streamVars,
                 requestVars, peerVars>>

\* pendingRequestTimer.
RequestExpires ==
  /\ sock # "closed" /\ pendingRequestTimer
  /\ Abort
  /\ UNCHANGED <<initialized, sentHandShake, received, flagVars, queueVars, streamVars,
                 requestVars, invalidateTimeout, peerVars>>

\* The socket reports an error or the end of the stream, the torrent is paused, or a
\* packet announces an impossible length.
Disconnect ==
  /\ sock # "closed"
  /\ Abort
  /\ UNCHANGED <<initialized, sentHandShake, received, flagVars, queueVars, streamVars,
                 requestVars, invalidateTimeout, peerVars>>

\* The peer is gone, and its host does not say so.
FallSilent ==
  /\ ~silent
  /\ silent' = TRUE
  /\ UNCHANGED <<handshakeVars, flagVars, queueVars, streamVars, requestVars,
                 invalidateTimeout, reads, peerChoked>>

-----------------------------------------------------------------------------

Handshake == SetupOutgoingConnection \/ ReceiveInfoHash \/ ReceivePeerId \/ ReceivePart

Packet ==
  \/ ChokePacket \/ UnchokePacket \/ PiecesAvailable
  \/ \E isInterested \in BOOLEAN : InterestedPacket(isInterested)
  \/ \E b \in Blocks : RequestPacket(b) \/ PiecePacket(b) \/ CancelPacket(b)

Client ==
  \/ Notify \/ UnchokePeer \/ ChokePeer \/ SendToPeer
  \/ \E b \in Blocks : RequestBlock(b) \/ CancelRequest(b)

Transfer == TakeBlock \/ SendMessage

End == TimeoutExpires \/ RequestExpires \/ Disconnect \/ FallSilent

Next == Handshake \/ Packet \/ Client \/ Transfer \/ End

Spec == Init /\ [][Next]_vars

\* A timer that runs expires.
FairSpec == Spec /\ WF_vars(TimeoutExpires)

-----------------------------------------------------------------------------
(* Properties.                                                             *)

TypeOK ==
  /\ sock \in {"connecting", "connected", "closed"}
  /\ initialized \in BOOLEAN /\ sentHandShake \in BOOLEAN
  /\ received \in {"nothing", "infoHash", "peerId"}
  /\ choking \in BOOLEAN /\ interestedInPeer \in BOOLEAN
  /\ chokedByPeer \in BOOLEAN /\ peerIsInterested \in BOOLEAN
  /\ pendingBlocks \in Seq(Blocks)
  /\ pendingBlockSizes \in Nat
  /\ outgoingBuffer \in Seq(Messages)
  /\ incoming \in SUBSET Blocks
  /\ pendingRequestTimer \in BOOLEAN /\ invalidateTimeout \in BOOLEAN
  /\ reads \in Seq(Blocks)
  /\ peerChoked \in BOOLEAN
  /\ firstMessage \in Messages \cup {"none"}
  /\ silent \in BOOLEAN

\* The byte count of the queue, raised by the header and the block, lowered by the
\* block alone and not at all by a cancel, never falls below what is queued, and the
\* queue never outgrows its limit.
QueueBounded ==
  /\ Len(pendingBlocks) * (HeaderLength + BlockLength) <= pendingBlockSizes
  /\ pendingBlockSizes <= MaxPendingSize

\* What a peer that believed to be choked, or not, believes when all messages of the
\* stream s before the i-th have arrived.
ToldChoked(s, believed, i) ==
  \/ believed /\ \A j \in 1 .. i - 1 : s[j] # "unchoke"
  \/ \E j \in 1 .. i - 1 : s[j] = "choke" /\ \A k \in j + 1 .. i - 1 : s[k] # "unchoke"

\* "After receiving a choke message, the peer will assume all pending requests are
\* lost.": no block arrives at a peer that has been told it is choked, although blocks
\* are read and sent long after they were asked for.
BlocksOnlyToUnchoked ==
  \A i \in 1 .. Len(outgoingBuffer) :
    outgoingBuffer[i] \in Blocks => ~ToldChoked(outgoingBuffer, peerChoked, i)

\* A peer that falls silent, connected or not, is dropped: keep-alives, uploads and
\* other timers never keep its connection alive.
SilentPeerDropped == silent ~> sock = "closed"
=============================================================================
