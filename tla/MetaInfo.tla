------------------------------ MODULE MetaInfo ------------------------------
(***************************************************************************)
(* What a torrent file says (metainfo.cpp): whether it has one file or     *)
(* several, their lengths, the piece length and the SHA1 sums, and the     *)
(* bytes of its info section, whose SHA1 is the name of the torrent for    *)
(* every peer and tracker.  Names, dates and comments are left out.        *)
(***************************************************************************)
EXTENDS BencodeParser

CONSTANT SumCount    \* how many sums of 20 bytes the string "pieces" holds

ASSUME SumCountAssumption == SumCount \in [DOMAIN SumCount -> Nat]

(* The form is a member that clear() does not set: it is "unset" when the  *)
(* info dictionary has neither "files" nor "length".                       *)
Cleared == [ok |-> FALSE, form |-> "unset", lengths |-> <<>>, pieceLength |-> 0,
            sums |-> 0, info |-> <<>>]

Sums(info) ==
  LET pieces == AsBytes(Value(info, "pieces"))
  IN  IF pieces \in DOMAIN SumCount THEN SumCount[pieces] ELSE 0

FileLengths(info) ==
  LET files == AsList(Value(info, "files"))
  IN  [i \in DOMAIN files |-> AsNum(Value(AsMap(files[i]), "length"))]

MultiFile(info) ==
  [Cleared EXCEPT !.form = "multi", !.lengths = FileLengths(info), !.sums = Sums(info),
                  !.pieceLength = AsNum(Value(info, "piece length"))]

SingleFile(info) ==
  [Cleared EXCEPT !.form = "single", !.lengths = <<AsNum(Value(info, "length"))>>,
                  !.sums = Sums(info), !.pieceLength = AsNum(Value(info, "piece length"))]

ReadInfo(info) ==
  CASE "files" \in DOMAIN info  -> MultiFile(info)
    [] "files" \notin DOMAIN info /\ "length" \in DOMAIN info -> SingleFile(info)
    [] OTHER                    -> Cleared

Parse(data) ==
  LET r    == ParseDictionary(data)
      dict == AsMap(r.v)
  IN  CASE ~ r.ok                            -> Cleared
        [] r.ok /\ "info" \notin DOMAIN dict -> [Cleared EXCEPT !.info = InfoSection(data, r.st)]
        [] r.ok /\ "info" \in DOMAIN dict    ->
             [ReadInfo(AsMap(dict["info"])) EXCEPT !.ok = TRUE, !.info = InfoSection(data, r.st)]
=============================================================================
