---------------------------- MODULE MCFileLayout ----------------------------
(***************************************************************************)
(* FileLayout for TLC: torrents of one and of three files, with an empty   *)
(* file, with blocks over the borders of the files, and with a last piece  *)
(* of full length; each also cut off anywhere, with a byte that is no      *)
(* bencoding or a broken integer put in anywhere, and with a token lost.   *)
(***************************************************************************)
EXTENDS TorrentFile

FourTorrents == {
  [form |-> "single", lengths |-> <<5>>,       pieceLength |-> 4, pieces |-> "ab"],
  [form |-> "single", lengths |-> <<4>>,       pieceLength |-> 2, pieces |-> "cd"],
  [form |-> "multi",  lengths |-> <<2, 0, 3>>, pieceLength |-> 3, pieces |-> "ef"],
  [form |-> "multi",  lengths |-> <<1, 1, 3>>, pieceLength |-> 3, pieces |-> "gh"]}

SumsOfPieces == [s \in {"ab", "cd", "ef", "gh"} |-> 2]

Damaged(c) ==
  {SubSeq(c, 1, k) : k \in 0 .. Len(c)}
    \cup {SubSeq(c, 1, k) \o <<x>> \o SubSeq(c, k + 1, Len(c)) : k \in 0 .. Len(c), x \in {BadInt, BadStr, Junk}}
    \cup {SubSeq(c, 1, k - 1) \o SubSeq(c, k + 1, Len(c)) : k \in 1 .. Len(c)}

AllDocuments == UNION {Damaged(DocumentOf(t)) : t \in FourTorrents}
=============================================================================
