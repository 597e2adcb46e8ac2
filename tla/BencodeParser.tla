---------------------------- MODULE BencodeParser ----------------------------
(***************************************************************************)
(* The parser of torrent files and of the tracker's answers                *)
(* (bencodeparser.cpp).  It is a recursive descent over a buffer and an    *)
(* index it never sets back to try again: getInteger() moves on before it  *)
(* has found out that there is no integer, and the next alternative starts *)
(* where it stopped.  A dictionary ends at whatever is not a key, a list   *)
(* or a dictionary whose "e" is missing ends with the buffer, and what     *)
(* follows the outer dictionary is not looked at.                          *)
(*                                                                         *)
(* The buffer is a sequence of tokens:  an integer, a string, the letters  *)
(* d, l and e, a broken integer, a broken length of a string, and any      *)
(* other byte.  A string whose announced length passes the end of the      *)
(* buffer is its own shorter string, the last token.                       *)
(*                                                                         *)
(* The length of a string is an int, and its digits may be too many for    *)
(* one: the sum overflows, and the index it is added to may then be        *)
(* anywhere, further back too.  Such a string is a token of its own        *)
(* (Wrapped), with the place it takes the parser to; a parser that is sent *)
(* back need not end, so that what is said of all files is said of those   *)
(* whose lengths fit (LengthsFit).                                         *)
(***************************************************************************)
EXTENDS Integers, Sequences

Num(k) == [t |-> "int", num |-> k]
Str(s) == [t |-> "str", str |-> s]
D      == [t |-> "d"]
L      == [t |-> "l"]
E      == [t |-> "e"]
BadInt == [t |-> "badint"]
BadStr == [t |-> "badstr"]
Junk   == [t |-> "junk"]

Token == [t : {"int"}, num : Nat] \cup [t : {"str"}, str : STRING]
           \cup {D, L, E, BadInt, BadStr, Junk}

Wrapped       == [t : {"wrapped"}, str : STRING, to : Int]
AnyToken      == Token \cup Wrapped
LengthsFit(c) == \A i \in 1 .. Len(c) : c[i] \notin Wrapped

(* The values: QVariant of a number, a byte array, a list, a map. *)
List(s)    == [t |-> "list", list |-> s]
Dict(f)    == [t |-> "dict", dict |-> f]
EmptyMap   == [k \in {} |-> 0]
AsMap(v)   == IF v.t = "dict" THEN v.dict ELSE EmptyMap
AsList(v)  == IF v.t = "list" THEN v.list ELSE <<>>
AsNum(v)   == IF v.t = "int" THEN v.num ELSE 0
AsBytes(v) == IF v.t = "str" THEN v.str ELSE ""
Value(map, key) == IF key \in DOMAIN map THEN map[key] ELSE [t |-> "invalid"]

(* The parser's state: index, and the extent of the "info" value.  At the  *)
(* end of the buffer there is the byte 0 that QByteArray keeps there.      *)
State0     == [index |-> 1, infoStart |-> 1, infoLength |-> 0]
At(c, st)  == IF st.index <= Len(c) THEN c[st.index] ELSE Junk
Advance(st) == [st EXCEPT !.index = @ + 1]

Fail(st)      == [ok |-> FALSE, st |-> st]
Found(v, st)  == [ok |-> TRUE, v |-> v, st |-> st]

getByteString(c, st) ==
  CASE At(c, st).t = "str"    -> Found(At(c, st), Advance(st))
    [] At(c, st).t = "badstr" -> Fail(Advance(st))
    [] At(c, st).t = "wrapped" -> Found(Str(At(c, st).str), [st EXCEPT !.index = At(c, st).to])
    [] OTHER                  -> Fail(st)

getInteger(c, st) ==
  CASE At(c, st).t = "int"    -> Found(At(c, st), Advance(st))
    [] At(c, st).t = "badint" -> Fail(Advance(st))
    [] OTHER                  -> Fail(st)

(* The parser remembers where the value of a key "info" starts, and how    *)
(* long it is once it is read; at any depth, and the last one counts.      *)
OpenInfoAtKey(key, st) ==
  IF key = "info" THEN [st EXCEPT !.infoStart = st.index - 1] ELSE st

OpenInfo(key, st) ==
  IF key = "info" THEN [st EXCEPT !.infoStart = st.index] ELSE st

CloseInfo(key, st) ==
  IF key = "info" THEN [st EXCEPT !.infoLength = st.index - st.infoStart] ELSE st

(* Where the parser can be, and the calls it makes of itself: the rest of a *)
(* list or of a dictionary, from a state on.  What get returns for a call   *)
(* is what the loop collects from there to its end.                         *)
States(c) ==
  {st \in [index : 1 .. Len(c) + 1, infoStart : 1 .. Len(c) + 1, infoLength : 0 .. Len(c)] :
     st.infoStart <= st.index}

Calls(c) == {"list", "dict"} \X States(c)

getList(c, get, st) ==
  IF At(c, st).t = "l" THEN get[<<"list", Advance(st)>>] ELSE Fail(st)

getDictionary(c, get, st) ==
  IF At(c, st).t = "d" THEN get[<<"dict", Advance(st)>>] ELSE Fail(st)

(* The chain of ifs in getList() and in getDictionary(): each alternative  *)
(* starts where the one before it gave up.                                 *)
getValue(c, get, st) ==
  LET i == getInteger(c, st)
      s == getByteString(c, i.st)
      l == getList(c, get, s.st)
  IN  IF i.ok THEN i ELSE IF s.ok THEN s ELSE IF l.ok THEN l ELSE getDictionary(c, get, l.st)

(* The condition of both loops: with the buffer ends what is being read.    *)
GoOn(c, get, call, nothing, st) ==
  IF st.index <= Len(c) THEN get[<<call, st>>] ELSE Found(nothing, st)

getElements(c, get, st) ==
  LET r    == getValue(c, get, st)
      rest == GoOn(c, get, "list", List(<<>>), r.st)
  IN  CASE At(c, st).t = "e"                          -> Found(List(<<>>), Advance(st))
        [] At(c, st).t # "e" /\ ~ r.ok               -> Fail(r.st)
        [] At(c, st).t # "e" /\ r.ok /\ ~ rest.ok    -> Fail(rest.st)
        [] At(c, st).t # "e" /\ r.ok /\ rest.ok      ->
             Found(List(<<r.v>> \o rest.v.list), rest.st)

(* tmp.insert(), with the entries that are inserted later in map: of two    *)
(* entries with one key the last one stays.                                 *)
WithEntry(map, key, v) ==
  [k \in DOMAIN map \cup {key} |-> IF k \in DOMAIN map THEN map[k] ELSE v]

getEntries(c, get, st) ==
  LET k    == getByteString(c, st)
      key  == k.v.str
      r    == getValue(c, get, OpenInfo(key, k.st))
      rest == GoOn(c, get, "dict", Dict(EmptyMap), CloseInfo(key, r.st))
  IN  CASE At(c, st).t = "e"                          -> Found(Dict(EmptyMap), Advance(st))
        [] At(c, st).t # "e" /\ ~ k.ok               -> Found(Dict(EmptyMap), k.st)
        [] At(c, st).t # "e" /\ k.ok /\ ~ r.ok       -> Fail(r.st)
        [] At(c, st).t # "e" /\ k.ok /\ r.ok /\ ~ rest.ok -> Fail(rest.st)
        [] At(c, st).t # "e" /\ k.ok /\ r.ok /\ rest.ok   ->
             Found(Dict(WithEntry(rest.v.dict, key, r.v)), rest.st)

Get(c) ==
  LET get[x \in Calls(c)] ==
        IF x[1] = "list" THEN getElements(c, get, x[2]) ELSE getEntries(c, get, x[2])
  IN  get

(* BencodeParser::parse(), dictionary() and infoSection(). *)
ParseDictionary(c) == IF c = <<>> THEN Fail(State0) ELSE getDictionary(c, Get(c), State0)

InfoSection(c, st) ==
  LET last == st.infoStart + st.infoLength - 1
  IN  SubSeq(c, st.infoStart, IF last <= Len(c) THEN last ELSE Len(c))
=============================================================================
