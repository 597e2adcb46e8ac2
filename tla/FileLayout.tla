------------------------------ MODULE FileLayout ------------------------------
(***************************************************************************)
(* From a torrent file to bytes on the disk.  TorrentClient::setTorrent()  *)
(* parses the file; FileManager::generateFiles() makes the files it names  *)
(* and checks what is there already; TorrentClient cuts the pieces into    *)
(* blocks (schedulePieceForClient(), requestBlocks()), FileManager's       *)
(* writeBlock() and readBlock() find their place in the files, and a piece *)
(* counts as there when its SHA1 sum is right.                             *)
(*                                                                         *)
(* FileManager.tla has the threads and the queues of the same class, and   *)
(* only knows blocks; here everything runs in turn, and the bytes count.   *)
(* The torrent's k-th byte is k, and 0 is a byte that is wrong.            *)
(***************************************************************************)
EXTENDS Integers, SequencesExt

CONSTANTS
  Documents,    \* what a torrent file may hold
  Contents(_),  \* what MetaInfo::parse() makes of it: see MetaInfo.tla
  BlockSize,    \* 16384 in the code
  MaxMessage    \* bytes of data a peer may send at once (199991 in the code)

ASSUME BlockSizeAssumption == BlockSize \in Nat \ {0}
ASSUME MessageAssumption == MaxMessage \in Nat

(* Torrent files with negative numbers are left out, though getInteger()   *)
(* reads a minus sign: no file can be given such a length.                 *)
(* An empty document names no files.                                       *)
ASSUME ContentsAssumption ==
  /\ \A d \in Documents \cup {<<>>} :
       /\ Contents(d).lengths \in Seq(Nat)
       /\ Contents(d).pieceLength \in Nat /\ Contents(d).sums \in Nat
  /\ Contents(<<>>).lengths = <<>>

VARIABLES
  phase,      \* "new", "refused", "parsed" (stopped), "unmade" (a file could not be made),
              \* "running", "error" (paused, since a file could not be written)
  document,   \* the torrent file given to setTorrent()
  metaInfo,   \* what MetaInfo made of it
  files,      \* the bytes of each file on the disk
  image,      \* what has been stored, as one sequence of bytes
  received,   \* completedBlocks: the blocks of pieces not yet verified
  verified,   \* verifiedPieces
  overrun     \* history, for VerifiedIsTrue: verified pieces that data for an earlier piece
              \* have run over into

vars == <<phase, document, metaInfo, files, image, received, verified, overrun>>
-----------------------------------------------------------------------------
(* Pieces and blocks. *)

lengths     == metaInfo.lengths
pieceLength == metaInfo.pieceLength
numPieces   == metaInfo.sums

(* Where each of the files ends in the torrent.                            *)
EndsOf(sizes) ==
  LET end[i \in 0 .. Len(sizes)] == IF i = 0 THEN 0 ELSE end[i - 1] + sizes[i] IN end

totalLength == EndsOf(lengths)[Len(lengths)]
Pieces == 0 .. numPieces - 1

(* The torrents FileManager is started with: the sums fit the length.      *)
Consistent ==
  /\ metaInfo.form # "unset"
  /\ pieceLength > 0 /\ totalLength > 0
  /\ numPieces = (totalLength + pieceLength - 1) \div pieceLength

pieceLengthAt(p) == IF numPieces = p + 1 THEN totalLength % pieceLength ELSE pieceLength

WholeBlocks(p) == pieceLengthAt(p) \div BlockSize

NumBlocks(p) ==
  pieceLengthAt(p) \div BlockSize + (IF pieceLengthAt(p) % BlockSize # 0 THEN 1 ELSE 0)

BlocksOf(p) == {p} \X (0 .. NumBlocks(p) - 1)

BlockLength(p, b) ==
  IF pieceLengthAt(p) % BlockSize # 0 /\ b = NumBlocks(p) - 1
  THEN pieceLengthAt(p) % BlockSize ELSE BlockSize

PlaceByOwnLength(p, offset) == p * pieceLengthAt(p) + offset

StartOf(p, offset) == p * pieceLength + offset

Truth == [k \in 1 .. totalLength |-> k]
Slice(bytes, start, length) == SubSeq(bytes, start + 1, Min({start + length, Len(bytes)}))
-----------------------------------------------------------------------------
(* readBlock() and writeBlock(): both walk over the files, with the place  *)
(* in the torrent where the file at hand begins (currentIndex) and where   *)
(* the next byte goes (start); walk[i] is what they have after i files.    *)

InFile(acc, file) == acc.currentIndex + Len(file) > acc.start

ChunkToEnd(file, pos, length) == SubSeq(file, pos + 1, Len(file))

ChunkAt(file, pos, length) == SubSeq(file, pos + 1, Min({pos + length, Len(file)}))

ReadFrom(acc, file) ==
  LET chunk == ChunkAt(file, acc.start - acc.currentIndex, acc.length)
      next  == [acc EXCEPT !.currentIndex = @ + Len(file)]
  IN  IF acc.length > 0 /\ InFile(acc, file)
      THEN [next EXCEPT !.block = @ \o chunk, !.length = @ - Len(chunk), !.start = @ + Len(chunk)]
      ELSE next

readBlock(disk, p, offset, length) ==
  LET walk[i \in 0 .. Len(disk)] ==
        IF i = 0 THEN [currentIndex |-> 0, start |-> StartOf(p, offset),
                       length |-> length, block |-> <<>>]
        ELSE ReadFrom(walk[i - 1], disk[i])
  IN  walk[Len(disk)].block

WholeBlock(bytes, room) == bytes

WriteChunk(bytes, room) == SubSeq(bytes, 1, Min({Len(bytes), room}))

(* The file number acc.done + 1 is broken when it cannot be opened or       *)
(* takes no byte: the loop ends there, and what was written stays.          *)
WriteTo(acc, file) ==
  LET pos   == acc.start - acc.currentIndex
      chunk == WriteChunk(acc.data, Len(file) - pos)
      next  == [acc EXCEPT !.currentIndex = @ + Len(file), !.done = @ + 1,
                           !.disk = Append(@, file)]
      stored == [k \in DOMAIN file |->
                   IF k \in pos + 1 .. pos + Len(chunk) THEN chunk[k - pos] ELSE file[k]]
  IN  IF acc.data = <<>> \/ ~ acc.ok \/ ~ InFile(acc, file) THEN next
      ELSE IF acc.done + 1 = acc.broken THEN [next EXCEPT !.ok = FALSE]
      ELSE [next EXCEPT !.disk = Append(acc.disk, stored),
                        !.data = SubSeq(@, Len(chunk) + 1, Len(@)),
                        !.start = @ + Len(chunk), !.written = @ + Len(chunk)]

writeBlock(disk, p, offset, data, broken) ==
  LET walk[i \in 0 .. Len(disk)] ==
        IF i = 0 THEN [currentIndex |-> 0, start |-> StartOf(p, offset), data |-> data,
                       broken |-> broken, done |-> 0, disk |-> <<>>, written |-> 0,
                       ok |-> TRUE]
        ELSE WriteTo(walk[i - 1], disk[i])
  IN  walk[Len(disk)]

(* verifySinglePiece(): the SHA1 sum is that of the torrent's own bytes.    *)
ShaMatches(disk, p) ==
  readBlock(disk, p, 0, pieceLength) = Slice(Truth, StartOf(p, 0), pieceLength)
-----------------------------------------------------------------------------
Init ==
  /\ phase = "new"
  /\ document = <<>>
  /\ metaInfo = Contents(<<>>)
  /\ files = <<>>
  /\ image = <<>>
  /\ received = {}
  /\ verified = {}
  /\ overrun = {}

(* TorrentClient::setTorrent(): the torrent's name is the SHA1 of its info. *)
SetTorrent(c) ==
  /\ phase = "new"
  /\ document' = c
  /\ metaInfo' = Contents(c)
  /\ phase' = IF metaInfo'.ok THEN "parsed" ELSE "refused"
  /\ files' = [i \in DOMAIN metaInfo'.lengths |-> <<>>]
  /\ UNCHANGED <<image, received, verified, overrun>>

Resize(file, length) == [k \in 1 .. length |-> IF k <= Len(file) THEN file[k] ELSE 0]

IsNewFile(disk) == \E i \in DOMAIN lengths : Len(disk[i]) # lengths[i]

(* generateFiles() with n files that open and take their size, and the      *)
(* verification of what is there, which is left out when a file was resized.*)
GenerateFiles(n) ==
  /\ phase = "parsed" /\ Consistent
  /\ files' = [i \in DOMAIN lengths |->
                  IF i <= n THEN Resize(files[i], lengths[i]) ELSE files[i]]
  /\ image' = FlattenSeq(files')
  /\ received' = {} /\ overrun' = {}
  /\ IF n = Len(lengths)
     THEN /\ phase' = "running"
          /\ verified' = IF IsNewFile(files) THEN {} ELSE {p \in Pieces : ShaMatches(files', p)}
     ELSE phase' = "unmade" /\ verified' = {}
  /\ UNCHANGED <<document, metaInfo>>

(* The blocks of the piece a message begins in: its number is all that is   *)
(* looked at.                                                               *)
BlockAt(offset) == offset \div BlockSize

(* A peer sends n bytes for the piece p from offset on, the torrent's or    *)
(* wrong ones; offset and n are as the peer likes.  They are written, over  *)
(* the end of the piece if they are so many, and the block they begin in    *)
(* counts as there.  A file that fails pauses the torrent.                  *)
BlockArrives(p, offset, n, right, broken) ==
  LET start  == StartOf(p, offset)
      data   == [k \in 1 .. n |-> IF right THEN start + k ELSE 0]
      result == writeBlock(files, p, offset, data, broken)
  IN  /\ phase = "running"
      /\ p \notin verified
      /\ BlockAt(offset) < NumBlocks(p) /\ <<p, BlockAt(offset)>> \notin received
      /\ files' = result.disk
      /\ image' = [k \in DOMAIN image |->
                      IF k \in start + 1 .. start + result.written THEN data[k - start] ELSE image[k]]
      /\ phase' = IF result.ok THEN "running" ELSE "error"
      /\ received' = received \cup {<<p, BlockAt(offset)>>}
      /\ overrun' = overrun \cup {q \in verified : q > p /\ StartOf(q, 0) < start + n}
      /\ UNCHANGED <<document, metaInfo, verified>>

(* The user resumes a torrent that a file error has paused: the thread of   *)
(* the FileManager has gone on all the time.                                *)
Resume ==
  /\ phase = "error"
  /\ phase' = "running"
  /\ UNCHANGED <<document, metaInfo, files, image, received, verified, overrun>>

(* verifyPiece() once the last block is written, and pieceVerified().       *)
VerifyPiece(p) ==
  /\ phase \in {"running", "error"}
  /\ p \notin verified
  /\ BlocksOf(p) # {} /\ BlocksOf(p) \subseteq received
  /\ verified' = IF ShaMatches(files, p) THEN verified \cup {p} ELSE verified
  /\ received' = received \ BlocksOf(p)
  /\ UNCHANGED <<phase, document, metaInfo, files, image, overrun>>

(* The torrent is stopped, by the user or by an error; it can be started    *)
(* again, and nothing it had verified is taken over here.                   *)
Stop ==
  /\ phase \in {"unmade", "running", "error"}
  /\ phase' = "parsed"
  /\ verified' = {} /\ received' = {} /\ overrun' = {}
  /\ UNCHANGED <<document, metaInfo, files, image>>

(* Somebody deletes a file of a torrent that is stopped. *)
FileDeleted(i) ==
  /\ phase = "parsed" /\ image # <<>>
  /\ files[i] # <<>>
  /\ files' = [files EXCEPT ![i] = <<>>]
  /\ image' = FlattenSeq(files')
  /\ UNCHANGED <<phase, document, metaInfo, received, verified, overrun>>

Next ==
  \/ \E c \in Documents : SetTorrent(c)
  \/ \E n \in 0 .. Len(lengths) : GenerateFiles(n)
  \/ \E p \in Pieces, offset \in 0 .. pieceLength - 1, n \in 1 .. MaxMessage,
        right \in BOOLEAN, broken \in 0 .. Len(files) :
       BlockArrives(p, offset, n, right, broken)
  \/ Resume
  \/ \E p \in Pieces : VerifyPiece(p)
  \/ Stop
  \/ \E i \in DOMAIN files : FileDeleted(i)

Spec == Init /\ [][Next]_vars
-----------------------------------------------------------------------------
(* Properties. *)

(* However a block lies over the borders between the files, empty ones      *)
(* among them, and wherever a write breaks off: the files, put one after    *)
(* the other, are what has been stored, and each keeps its length.  What    *)
(* has been stored of a write that broke off is a first part of its data,   *)
(* every byte at its place in the torrent (FileManager::writeBlock()).      *)
WritesInPlace ==
  phase \in {"running", "error"} =>
    /\ FlattenSeq(files) = image
    /\ \A i \in DOMAIN files : Len(files[i]) = lengths[i]

(* Whatever a peer asks for, it gets those bytes of the torrent and no      *)
(* others, up to its end (FileManager::readBlock()).                        *)
ReadIsSlice ==
  phase = "running" =>
    \A p \in Pieces : \A offset \in 0 .. pieceLength - 1, length \in 1 .. pieceLength :
      StartOf(p, offset) < totalLength =>
        readBlock(files, p, offset, length) = Slice(image, StartOf(p, offset), length)

(* A piece that counts as verified has the torrent's bytes, and goes on     *)
(* having them while other pieces are written, some of them wrongly, and    *)
(* after a restart with files that were changed in between.  The exception  *)
(* is a piece that a peer's data for an earlier piece run over into, which  *)
(* neither blockReceived() nor writeBlock() prevents.                       *)
VerifiedIsTrue ==
  \A p \in verified \ overrun :
    Slice(image, StartOf(p, 0), pieceLength) = Slice(Truth, StartOf(p, 0), pieceLength)

(* The blocks asked for are all of the torrent, each byte in one of them.   *)
(* It holds of a torrent whose last piece is shorter than the others only:  *)
(* pieceLengthAt() makes a last piece that is not shorter 0 bytes long.     *)
BlocksTile ==
  (phase = "running" /\ totalLength % pieceLength # 0) =>
    \A k \in 0 .. totalLength - 1 :
      Cardinality({pb \in UNION {BlocksOf(p) : p \in Pieces} :
        k - StartOf(pb[1], pb[2] * BlockSize) \in 0 .. BlockLength(pb[1], pb[2]) - 1}) = 1
=============================================================================
