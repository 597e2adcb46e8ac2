----------------------------- MODULE FileService -----------------------------
(***************************************************************************)
(* What the file manager promises to the torrent client that owns it,      *)
(* without threads, locks or wake-ups: a service that accepts reads,       *)
(* writes and piece verifications, serves each kind in the order it was    *)
(* asked, answers through one ordered stream of signals, and verifies a    *)
(* piece only when every write accepted before is on disk.  Closing the    *)
(* service (the destructor) makes it discard writes and fail the           *)
(* verifications it still performs.  FileManager.tla implements it.        *)
(***************************************************************************)
EXTENDS Naturals, Sequences

CONSTANTS
  NumPieces,   \* pieces of the torrent, numbered from 0
  Blocks,      \* blocks of a piece
  MaxRequests  \* bound: requests the client issues in one run

Pieces == 0 .. NumPieces - 1

Content == {"good", "bad"}  \* what is stored in a block: the torrent's data, or not

VARIABLES
  phase,     \* "new", "opening", "scanning", "serving", "failed"
  closing,   \* the owner is destroying the service
  disk,      \* disk[p][b] : the content of every block
  verified,  \* the pieces whose checksum has been confirmed (or was trusted)
  reads,     \* accepted reads, oldest first
  writes,    \* accepted writes, oldest first
  verifies,  \* pieces whose verification was requested, oldest first
  events,    \* signals not yet received by the client, oldest first
  readId,    \* the identifier of the next read
  issued     \* number of requests so far

vars == <<phase, closing, disk, verified, reads, writes, verifies, events, readId, issued>>

ReadRequest  == [id : Nat, piece : Pieces, block : Blocks]
WriteRequest == [piece : Pieces, block : Blocks, data : Content]

DataRead(id, data)    == [type |-> "dataRead", id |-> id, data |-> data]
PieceVerified(p, ok)  == [type |-> "pieceVerified", piece |-> p, ok |-> ok]
VerificationDone      == [type |-> "verificationDone"]
ErrorSignal           == [type |-> "error"]

Event ==
  [type : {"dataRead"}, id : Nat, data : Content]
    \cup [type : {"pieceVerified"}, piece : Pieces, ok : BOOLEAN]
    \cup {VerificationDone, ErrorSignal}

\* The checksum of a piece matches exactly when every block holds the torrent's data.
ChecksumMatches(store, p) == \A b \in Blocks : store[p][b] = "good"

Init ==
  /\ phase = "new"
  /\ closing = FALSE
  /\ disk \in [Pieces -> [Blocks -> Content]]
  /\ verified \in SUBSET Pieces
  /\ reads = <<>>
  /\ writes = <<>>
  /\ verifies = <<>>
  /\ events = <<>>
  /\ readId = 0
  /\ issued = 0

-----------------------------------------------------------------------------

\* The client starts the service on the files of its torrent.
Start ==
  /\ phase = "new"
  /\ phase' = "opening"
  /\ UNCHANGED <<closing, disk, verified, reads, writes, verifies, events, readId, issued>>

\* The files are created, opened and sized, or an error is signalled.
Open ==
  /\ phase = "opening"
  /\ \/ phase' = "scanning" /\ UNCHANGED events
     \/ phase' = "failed" /\ events' = Append(events, ErrorSignal)
  /\ UNCHANGED <<closing, disk, verified, reads, writes, verifies, readId, issued>>

\* One piece is confirmed by the initial verification.
Confirm(p) ==
  /\ phase = "scanning"
  /\ ~closing
  /\ ChecksumMatches(disk, p)
  /\ verified' = verified \cup {p}
  /\ UNCHANGED <<phase, closing, disk, reads, writes, verifies, events, readId, issued>>

\* The initial verification reads a piece it cannot open.
ScanError ==
  /\ phase = "scanning"
  /\ events' = Append(events, ErrorSignal)
  /\ UNCHANGED <<phase, closing, disk, verified, reads, writes, verifies, readId, issued>>

\* The initial verification is over.
ScanDone ==
  /\ phase = "scanning"
  /\ phase' = "serving"
  /\ events' = Append(events, VerificationDone)
  /\ UNCHANGED <<closing, disk, verified, reads, writes, verifies, readId, issued>>

\* Requests are accepted once the service is past its initial verification; a failed
\* service accepts them too, and forgets them.
Read(p, b) ==
  /\ phase \in {"serving", "failed"} /\ ~closing /\ issued < MaxRequests
  /\ issued' = issued + 1
  /\ reads' = Append(reads, [id |-> readId, piece |-> p, block |-> b])
  /\ readId' = readId + 1
  /\ UNCHANGED <<phase, closing, disk, verified, writes, verifies, events>>

Write(p, b, data) ==
  /\ phase \in {"serving", "failed"} /\ ~closing /\ issued < MaxRequests
  /\ issued' = issued + 1
  /\ writes' = Append(writes, [piece |-> p, block |-> b, data |-> data])
  /\ UNCHANGED <<phase, closing, disk, verified, reads, verifies, events, readId>>

VerifyPiece(p) ==
  /\ phase \in {"serving", "failed"} /\ ~closing /\ issued < MaxRequests
  /\ issued' = issued + 1
  /\ verifies' = Append(verifies, p)
  /\ UNCHANGED <<phase, closing, disk, verified, reads, writes, events, readId>>

\* The client receives the oldest signal.
Receive ==
  /\ events # <<>>
  /\ events' = Tail(events)
  /\ UNCHANGED <<phase, closing, disk, verified, reads, writes, verifies, readId, issued>>

\* The oldest read is answered with what is on disk; when the file cannot be
\* opened or read, or the service is closing, the answer is a short block.
ServeRead ==
  /\ reads # <<>>
  /\ LET r == Head(reads) IN
       \/ /\ ~closing
          /\ events' = Append(events, DataRead(r.id, disk[r.piece][r.block]))
       \/ events' = events \o <<ErrorSignal, DataRead(r.id, "bad")>>
       \/ events' = Append(events, DataRead(r.id, "bad"))
  /\ reads' = Tail(reads)
  /\ UNCHANGED <<phase, closing, disk, verified, writes, verifies, readId, issued>>

\* The oldest write reaches the disk; an I/O error is signalled and leaves the
\* block as it was or damaged.  A closing service may do so silently.
ServeWrite ==
  /\ writes # <<>>
  /\ LET w == Head(writes) IN
       \/ /\ ~closing
          /\ disk' = [disk EXCEPT ![w.piece][w.block] = w.data]
          /\ UNCHANGED events
       \/ /\ disk' \in {disk, [disk EXCEPT ![w.piece][w.block] = "bad"]}
          /\ \/ events' = Append(events, ErrorSignal)
             \/ closing /\ UNCHANGED events
  /\ writes' = Tail(writes)
  /\ UNCHANGED <<phase, closing, verified, reads, verifies, readId, issued>>

\* The oldest verification is answered, and only when no accepted write is waiting.
ServeVerify ==
  /\ verifies # <<>> /\ writes = <<>>
  /\ LET p == Head(verifies) IN
       \/ /\ ~closing
          /\ events' = Append(events, PieceVerified(p, ChecksumMatches(disk, p)))
          /\ verified' = IF ChecksumMatches(disk, p) THEN verified \cup {p} ELSE verified
       \/ /\ events' = events \o <<ErrorSignal, PieceVerified(p, FALSE)>>
          /\ UNCHANGED verified
       \/ /\ closing
          /\ events' = Append(events, PieceVerified(p, FALSE))
          /\ UNCHANGED verified
  /\ verifies' = Tail(verifies)
  /\ UNCHANGED <<phase, closing, disk, reads, writes, readId, issued>>

Close ==
  /\ ~closing /\ closing' = TRUE
  /\ UNCHANGED <<phase, disk, verified, reads, writes, verifies, events, readId, issued>>

\* A closing service forgets writes it had accepted.
Discard ==
  /\ closing /\ writes # <<>>
  /\ \E n \in 1 .. Len(writes) : writes' = SubSeq(writes, n + 1, Len(writes))
  /\ UNCHANGED <<phase, closing, disk, verified, reads, verifies, events, readId, issued>>

Serve == ServeRead \/ ServeWrite \/ ServeVerify

Next ==
  \/ Start \/ Open \/ ScanError \/ ScanDone \/ Receive \/ Serve \/ Close \/ Discard
  \/ \E p \in Pieces : Confirm(p) \/ VerifyPiece(p)
  \/ \E p \in Pieces, b \in Blocks : Read(p, b)
  \/ \E p \in Pieces, b \in Blocks, data \in Content : Write(p, b, data)

Spec == Init /\ [][Next]_vars

\* Nothing the client asked of an open, working service is left waiting: the
\* detailed specification has to deliver this under the fairness of the scheduler
\* and of the client's event loop.
Served ==
  LET over == closing \/ phase = "failed" IN
    /\ reads # <<>>    ~> (reads = <<>> \/ over)
    /\ writes # <<>>   ~> (writes = <<>> \/ over)
    /\ verifies # <<>> ~> (verifies = <<>> \/ over)
=============================================================================
