----------------------------- MODULE TorrentFile -----------------------------
(***************************************************************************)
(* FileLayout with the torrent files MetaInfo reads: which torrent a file  *)
(* stands for, and what setTorrent() makes of it.  A torrent here is what  *)
(* its maker put down: one file or several, their lengths, the length of   *)
(* the pieces and the string of their SHA1 sums.                           *)
(***************************************************************************)
EXTENDS FileLayout, MetaInfo

CONSTANT Known   \* the torrents whose makers' files the documents are compared with

ASSUME KnownAssumption ==
  \A t \in Known :
    /\ t.form \in {"single", "multi"} /\ t.lengths \in Seq(Nat) /\ t.pieceLength \in Nat
    /\ t.form = "single" => Len(t.lengths) = 1
    /\ t.pieces \in DOMAIN SumCount

ASSUME DocumentsAssumption ==
  /\ Documents \subseteq Seq(Token)
  /\ \A c \in Documents \cup {<<>>} : Contents(c) = Parse(c)

FileEntry(n) == <<D, Str("length"), Num(n), E>>

FileEntries(sizes) ==
  [i \in 1 .. 4 * Len(sizes) |-> FileEntry(sizes[((i - 1) \div 4) + 1])[((i - 1) % 4) + 1]]

InfoOf(t) ==
  (IF t.form = "single"
   THEN <<D, Str("length"), Num(t.lengths[1])>>
   ELSE <<D, Str("files"), L>> \o FileEntries(t.lengths) \o <<E>>)
  \o <<Str("piece length"), Num(t.pieceLength), Str("pieces"), Str(t.pieces), E>>

DocumentOf(t) == <<D, Str("announce"), Str("url"), Str("info")>> \o InfoOf(t) \o <<E>>

Says(m, t) ==
  /\ m.ok /\ m.form = t.form /\ m.lengths = t.lengths
  /\ m.pieceLength = t.pieceLength /\ m.sums = SumCount[t.pieces]

OneInfo(c) ==
  \A i, j \in DOMAIN c : c[i] = Str("info") /\ c[j] = Str("info") => i = j

(* A torrent file is read as what was written into it, and the bytes that   *)
(* are hashed to the torrent's name are its info section, to the byte; and  *)
(* a damaged file that is accepted under that name says the same files and  *)
(* pieces, so that nobody joins the peers of a torrent with another idea of *)
(* its bytes (BencodeParser::parse(), MetaInfo::parse()).  The second half  *)
(* needs that the file has the word "info" once: of several keys with this  *)
(* name, at any depth, the parser takes the bytes behind the last one.      *)
NameIsTorrent ==
  \A t \in Known :
    /\ document = DocumentOf(t) => Says(metaInfo, t) /\ metaInfo.info = InfoOf(t)
    /\ metaInfo.ok /\ metaInfo.info = InfoOf(t) /\ OneInfo(document) => Says(metaInfo, t)
=============================================================================
