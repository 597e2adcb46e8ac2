------------------------- MODULE TorrentDialogProofs -------------------------
(***************************************************************************)
(* Theorems about TorrentDialog, for any number of torrents, clients,      *)
(* boxes and timers.                                                       *)
(***************************************************************************)
EXTENDS TorrentDialog, SequenceTheorems, TLAPS

-----------------------------------------------------------------------------
(* Sequences, position by position *)

LEMMA RemoveAtPoints ==
  ASSUME NEW S, NEW s \in Seq(S), NEW i \in 1..Len(s)
  PROVE  /\ RemoveAt(s, i) \in Seq(S)
         /\ Len(RemoveAt(s, i)) = Len(s) - 1
         /\ \A k \in 1..(Len(s) - 1) : RemoveAt(s, i)[k] = IF k < i THEN s[k] ELSE s[k + 1]
<1> DEFINE a == SubSeq(s, 1, i - 1)
           b == SubSeq(s, i + 1, Len(s))
<1>0. Len(s) \in Nat /\ \A k \in 1..Len(s) : s[k] \in S
  BY ElementOfSeq, LenProperties
<1>1. a \in Seq(S) /\ Len(a) = i - 1 /\ \A k \in 1..(i - 1) : a[k] = s[k]
  BY <1>0, SubSeqProperties
<1>2. b \in Seq(S) /\ Len(b) = Len(s) - i /\ \A k \in 1..(Len(s) - i) : b[k] = s[k + i]
  <2>1. i + 1 \in Int /\ Len(s) \in Int /\ \A k \in (i + 1)..Len(s) : s[k] \in S
    BY <1>0
  <2>2. /\ b \in Seq(S) /\ Len(b) = IF i + 1 <= Len(s) THEN Len(s) - (i + 1) + 1 ELSE 0
        /\ \A k \in 1 .. Len(s) - (i + 1) + 1 : b[k] = s[(i + 1) + k - 1]
    BY <2>1, SubSeqProperties
  <2> HIDE DEF b
  <2>3. Len(b) = Len(s) - i
    BY <1>0, <2>2
  <2>4. ASSUME NEW k \in 1..(Len(s) - i) PROVE b[k] = s[k + i]
    <3>1. k \in 1 .. Len(s) - (i + 1) + 1 /\ (i + 1) + k - 1 = k + i
      BY <1>0
    <3> QED
      BY <2>2, <3>1
  <2> QED
    BY <2>2, <2>3, <2>4
<1> HIDE DEF a, b
<1>3. /\ a \o b \in Seq(S) /\ Len(a \o b) = Len(a) + Len(b)
      /\ \A k \in 1 .. Len(a) + Len(b) : (a \o b)[k] = IF k <= Len(a) THEN a[k] ELSE b[k - Len(a)]
  BY <1>1, <1>2, ConcatProperties
<1>4. Len(a \o b) = Len(s) - 1
  BY <1>0, <1>1, <1>2, <1>3
<1>5. ASSUME NEW k \in 1..(Len(s) - 1)
      PROVE  (a \o b)[k] = IF k < i THEN s[k] ELSE s[k + 1]
  <2>1. (a \o b)[k] = IF k <= i - 1 THEN a[k] ELSE b[k - (i - 1)]
    BY <1>0, <1>1, <1>2, <1>3
  <2>2. CASE k < i
    BY <1>0, <1>1, <2>1, <2>2
  <2>3. CASE k >= i
    <3>1. k - (i - 1) \in 1..(Len(s) - i) /\ (k - (i - 1)) + i = k + 1 /\ ~(k <= i - 1) /\ ~(k < i)
      BY <1>0, <2>3
    <3> QED
      BY <1>2, <2>1, <3>1
  <2>4. k < i \/ k >= i
    BY <1>0
  <2> QED
    BY <2>2, <2>3, <2>4
<1> QED
  BY <1>3, <1>4, <1>5 DEF RemoveAt, a, b

Inserted(s, i, e, S) ==
  /\ InsertAt(s, i, e) \in Seq(S)
  /\ Len(InsertAt(s, i, e)) = Len(s) + 1
  /\ \A k \in 1..(Len(s) + 1) :
       InsertAt(s, i, e)[k] = IF k < i THEN s[k] ELSE IF k = i THEN e ELSE s[k - 1]

LEMMA InsertAtPoints ==
  ASSUME NEW S, NEW s \in Seq(S), NEW i \in 1..(Len(s) + 1), NEW e \in S
  PROVE  Inserted(s, i, e, S)
<1> DEFINE a == SubSeq(s, 1, i - 1)
           m == <<e>>
           b == SubSeq(s, i, Len(s))
           am == a \o m
<1>0. Len(s) \in Nat /\ \A k \in 1..Len(s) : s[k] \in S
  BY ElementOfSeq, LenProperties
<1>1. a \in Seq(S) /\ Len(a) = i - 1 /\ \A k \in 1..(i - 1) : a[k] = s[k]
  BY <1>0, SubSeqProperties
<1>2. b \in Seq(S) /\ Len(b) = (Len(s) - i) + 1 /\ \A k \in 1..((Len(s) - i) + 1) : b[k] = s[(k + i) - 1]
  <2>1. i \in Int /\ Len(s) \in Int /\ \A k \in i..Len(s) : s[k] \in S
    BY <1>0
  <2>2. /\ b \in Seq(S) /\ Len(b) = IF i <= Len(s) THEN Len(s) - i + 1 ELSE 0
        /\ \A k \in 1 .. Len(s) - i + 1 : b[k] = s[i + k - 1]
    BY <2>1, SubSeqProperties
  <2> HIDE DEF b
  <2>3. Len(b) = (Len(s) - i) + 1
    BY <1>0, <2>2
  <2>4. ASSUME NEW k \in 1..((Len(s) - i) + 1) PROVE b[k] = s[(k + i) - 1]
    <3>1. k \in 1 .. Len(s) - i + 1 /\ i + k - 1 = (k + i) - 1
      BY <1>0
    <3> QED
      BY <2>2, <3>1
  <2> QED
    BY <2>2, <2>3, <2>4
<1>3. m \in Seq(S) /\ Len(m) = 1 /\ m[1] = e
  OBVIOUS
<1> HIDE DEF a, b, m
<1>4. /\ am \in Seq(S) /\ Len(am) = i
      /\ \A k \in 1..i : am[k] = IF k < i THEN s[k] ELSE e
  <2>1. /\ am \in Seq(S) /\ Len(am) = Len(a) + Len(m)
        /\ \A k \in 1 .. Len(a) + Len(m) : am[k] = IF k <= Len(a) THEN a[k] ELSE m[k - Len(a)]
    BY <1>1, <1>3, ConcatProperties
  <2> HIDE DEF am
  <2>2. Len(am) = i
    BY <1>0, <1>1, <1>3, <2>1
  <2>3. ASSUME NEW k \in 1..i PROVE am[k] = IF k < i THEN s[k] ELSE e
    <3>1. am[k] = IF k <= i - 1 THEN a[k] ELSE m[k - (i - 1)]
      BY <1>0, <1>1, <1>3, <2>1
    <3>2. k < i \/ k - (i - 1) = 1
      BY <1>0
    <3> QED
      BY <1>0, <1>1, <1>3, <3>1, <3>2
  <2> QED
    BY <2>1, <2>2, <2>3
<1> HIDE DEF am
<1>5. /\ am \o b \in Seq(S) /\ Len(am \o b) = Len(am) + Len(b)
      /\ \A k \in 1 .. Len(am) + Len(b) : (am \o b)[k] = IF k <= Len(am) THEN am[k] ELSE b[k - Len(am)]
  BY <1>2, <1>4, ConcatProperties
<1>6. Len(am \o b) = Len(s) + 1
  BY <1>0, <1>2, <1>4, <1>5
<1>7. ASSUME NEW k \in 1..(Len(s) + 1)
      PROVE  (am \o b)[k] = IF k < i THEN s[k] ELSE IF k = i THEN e ELSE s[k - 1]
  <2>1. (am \o b)[k] = IF k <= i THEN am[k] ELSE b[k - i]
    BY <1>0, <1>2, <1>4, <1>5
  <2>2. CASE k <= i
    BY <1>0, <1>4, <2>1, <2>2
  <2>3. CASE k > i
    <3>1. k - i \in 1..((Len(s) - i) + 1) /\ ((k - i) + i) - 1 = k - 1 /\ ~(k <= i) /\ k # i /\ ~(k < i)
      BY <1>0, <2>3
    <3> QED
      BY <1>2, <2>1, <3>1
  <2>4. k <= i \/ k > i
    BY <1>0
  <2> QED
    BY <2>2, <2>3, <2>4
<1> QED
  BY <1>5, <1>6, <1>7 DEF Inserted, InsertAt, a, b, m, am

LEMMA FrontPoints ==
  ASSUME NEW S, NEW s \in Seq(S), s # <<>>
  PROVE  /\ Front(s) \in Seq(S) /\ Len(Front(s)) = Len(s) - 1 /\ Len(s) >= 1
         /\ \A k \in 1..(Len(s) - 1) : Front(s)[k] = s[k]
         /\ Last(s) = s[Len(s)] /\ Last(s) \in S
<1>1. Len(s) \in Nat /\ Len(s) >= 1 /\ \A k \in 1..Len(s) : s[k] \in S
  BY EmptySeq, ElementOfSeq, LenProperties
<1>2. \A k \in 1..(Len(s) - 1) : s[k] \in S
  BY <1>1
<1>3. /\ SubSeq(s, 1, Len(s) - 1) \in Seq(S) /\ Len(SubSeq(s, 1, Len(s) - 1)) = Len(s) - 1
      /\ \A k \in 1..(Len(s) - 1) : SubSeq(s, 1, Len(s) - 1)[k] = s[k]
  <2> DEFINE n == Len(s)
  <2>0. n \in Nat /\ n >= 1
    BY <1>1
  <2> HIDE DEF n
  <2>4. (n - 1) - 1 + 1 = n - 1 /\ (1 <= n - 1 \/ n - 1 = 0) /\ n - 1 \in Int
    BY <2>0
  <2>1. (Len(s) - 1) - 1 + 1 = Len(s) - 1 /\ (1 <= Len(s) - 1 \/ Len(s) - 1 = 0) /\ Len(s) - 1 \in Int
    BY <2>4 DEF n
  <2>2. /\ SubSeq(s, 1, Len(s) - 1) \in Seq(S)
        /\ Len(SubSeq(s, 1, Len(s) - 1)) = IF 1 <= Len(s) - 1 THEN (Len(s) - 1) - 1 + 1 ELSE 0
        /\ \A k \in 1 .. (Len(s) - 1) - 1 + 1 : SubSeq(s, 1, Len(s) - 1)[k] = s[1 + k - 1]
    BY <1>2, <2>1, SubSeqProperties
  <2>3. \A k \in 1..(Len(s) - 1) : 1 + k - 1 = k
    BY <1>1
  <2> QED
    BY <2>1, <2>2, <2>3
<1> QED
  BY <1>1, <1>3 DEF Front, Last
-----------------------------------------------------------------------------
(* Types *)

ClientsOf(list) == [i \in DOMAIN list |-> list[i].client]
TorrentsOf(list) == [i \in DOMAIN list |-> list[i].torrent]

LEMMA JobLists ==
  ASSUME NEW list \in Seq(Job)
  PROVE  /\ Len(list) \in Nat /\ DOMAIN list = 1..Len(list)
         /\ \A k \in 1..Len(list) : list[k] \in Job /\ list[k].client \in Clients /\ list[k].torrent \in Torrents
         /\ ClientsOf(list) \in Seq(Clients) /\ Len(ClientsOf(list)) = Len(list)
         /\ \A k \in 1..Len(list) : ClientsOf(list)[k] = list[k].client
         /\ TorrentsOf(list) \in Seq(Torrents) /\ Len(TorrentsOf(list)) = Len(list)
         /\ \A k \in 1..Len(list) : TorrentsOf(list)[k] = list[k].torrent
<1>1. Len(list) \in Nat /\ DOMAIN list = 1..Len(list) /\ \A k \in 1..Len(list) : list[k] \in Job
  BY ElementOfSeq, LenProperties
<1>2. \A k \in 1..Len(list) : list[k].client \in Clients /\ list[k].torrent \in Torrents
  BY <1>1 DEF Job
<1>3. /\ ClientsOf(list) = [k \in 1..Len(list) |-> list[k].client]
      /\ TorrentsOf(list) = [k \in 1..Len(list) |-> list[k].torrent]
  BY <1>1 DEF ClientsOf, TorrentsOf
<1>4. [k \in 1..Len(list) |-> list[k].client] \in Seq(Clients)
  BY <1>1, <1>2, IsASeq
<1>5. [k \in 1..Len(list) |-> list[k].torrent] \in Seq(Torrents)
  BY <1>1, <1>2, IsASeq
<1>6. DOMAIN ClientsOf(list) = 1..Len(list) /\ DOMAIN TorrentsOf(list) = 1..Len(list)
  BY <1>3
<1>7. Len(ClientsOf(list)) = Len(list) /\ Len(TorrentsOf(list)) = Len(list)
  BY <1>1, <1>3, <1>4, <1>5, <1>6, LenProperties
<1> QED
  BY <1>1, <1>2, <1>3, <1>4, <1>5, <1>7

\* The job of a client.
LEMMA RowFacts ==
  ASSUME TypeOK, NEW c, c \in ToSet(clients)
  PROVE  /\ Row(clients, c) \in 1..Len(jobs) /\ clients[Row(clients, c)] = c
         /\ jobs[Row(clients, c)].client = c /\ c \in Clients
<1>1. clients = ClientsOf(jobs) /\ jobs \in Seq(Job)
  BY DEF clients, ClientsOf, TypeOK
<1>2. DOMAIN clients = 1..Len(jobs)
  BY <1>1, JobLists, LenProperties
<1>3. \E i \in DOMAIN clients : clients[i] = c
  BY DEF ToSet
<1>4. Row(clients, c) \in DOMAIN clients /\ clients[Row(clients, c)] = c
  BY <1>3 DEF Row
<1> QED
  BY <1>1, <1>2, <1>4, JobLists

LEMMA AddJobFacts ==
  ASSUME TypeOK, NEW t \in Torrents, AddJob(t)
  PROVE  \E c \in Clients :
           /\ c \notin ToSet(fastView) /\ [client |-> c, torrent |-> t] \in Job
           /\ jobs' = Append(jobs, [client |-> c, torrent |-> t])
           /\ torrentView' = Append(torrentView, c) /\ fastView' = fastView
<1> DEFINE unused == Clients \ (Alive \cup ToSet(torrentView) \cup ToSet(fastView))
           c == CHOOSE k \in unused : TRUE
<1>1. c \in unused
  BY DEF AddJob
<1>2. /\ jobs' = Append(jobs, [client |-> c, torrent |-> t])
      /\ torrentView' = Append(torrentView, c) /\ fastView' = fastView
  BY DEF AddJob
<1> HIDE DEF c
<1> QED
  BY <1>1, <1>2 DEF Job

LEMMA AddJobTypes ==
  ASSUME TypeOK, NEW t \in Torrents, AddJob(t)
  PROVE  jobs' \in Seq(Job) /\ torrentView' \in Seq(Clients) /\ fastView' \in Seq(Clients)
<1>1. PICK c \in Clients :
        /\ [client |-> c, torrent |-> t] \in Job
        /\ jobs' = Append(jobs, [client |-> c, torrent |-> t])
        /\ torrentView' = Append(torrentView, c) /\ fastView' = fastView
  BY AddJobFacts
<1> QED
  BY <1>1, AppendProperties DEF TypeOK

LEMMA TypesInit == Init => TypeOK
<1> SUFFICES ASSUME Init PROVE TypeOK
  OBVIOUS
<1>1. settings = <<>> /\ Len(settings) = 0
  BY EmptySeq DEF Init
<1>2. loadSize = 0 /\ loadIndex = 0
  BY <1>1 DEF Init, Fresh
<1>3. saveChanges \in BOOLEAN /\ saveTimers \in Nat
  BY DEF Init
<1>4. /\ jobs \in Seq(Job) /\ torrentView \in Seq(Clients) /\ fastView \in Seq(Clients)
      /\ boxes \in Seq(Box) /\ settings \in Seq(Torrents)
  BY EmptySeq DEF Init
<1> QED
  BY <1>2, <1>3, <1>4 DEF TypeOK

LEMMA ChangedTypes ==
  ASSUME TypeOK, Changed
  PROVE  saveChanges' \in BOOLEAN /\ saveTimers' \in Nat
BY DEF TypeOK, Changed

LEMMA NoticeTypes ==
  ASSUME TypeOK, NEW from \in {"load", "menu", "drop"}, Notice(from)
  PROVE  boxes' \in Seq(Box)
<1>1. [kind |-> from, row |-> 0] \in Box
  BY DEF Box
<1> QED
  BY <1>1, AppendProperties DEF TypeOK, Notice

LEMMA TypesOfLoad ==
  ASSUME TypeOK, LoadNext
  PROVE  TypeOK'
<1>1. loadIndex' \in 0..loadSize' /\ loadSize' \in Nat
  BY DEF LoadNext, NextIndex, TypeOK
<1> DEFINE opens == loadIndex <= Len(settings) /\ Addable(settings[loadIndex])
<1>2. CASE opens
  <2>1. loadIndex \in 1..Len(settings)
    BY <1>2, LenProperties DEF LoadNext, Loading, TypeOK
  <2>2. settings[loadIndex] \in Torrents
    BY <2>1, ElementOfSeq DEF TypeOK
  <2>3. AddJob(settings[loadIndex]) /\ Changed /\ UNCHANGED <<boxes, settings>>
    BY <1>2 DEF LoadNext
  <2> QED
    BY <1>1, <2>2, <2>3, AddJobTypes, ChangedTypes DEF TypeOK
<1>3. CASE ~opens
  <2>1. Notice("load") /\ UNCHANGED <<listVars, saveVars>>
    BY <1>3 DEF LoadNext
  <2> QED
    BY <1>1, <2>1, NoticeTypes DEF TypeOK, listVars, saveVars
<1> QED
  BY <1>2, <1>3

LEMMA TypesOfAdd ==
  ASSUME TypeOK, NEW t \in Torrents, NEW from \in {"menu", "drop"}, UserAdds(t, from)
  PROVE  TypeOK'
<1>1. loadIndex' = loadIndex /\ loadSize' = loadSize
  BY DEF UserAdds, loadVars
<1>2. CASE Addable(t)
  <2>1. AddJob(t) /\ boxes' = boxes
    BY <1>2 DEF UserAdds
  <2>2. CASE from = "menu"
    <3>1. Changed /\ settings' = settings
      BY <1>2, <2>2 DEF UserAdds
    <3> QED
      BY <1>1, <2>1, <3>1, AddJobTypes, ChangedTypes DEF TypeOK
  <2>3. CASE from # "menu"
    <3>1. saveChanges' = FALSE /\ Save(jobs') /\ saveTimers' \in Nat
      BY <1>2, <2>3 DEF UserAdds, FlagAfterSave, TypeOK
    <3>2. jobs' \in Seq(Job)
      BY <2>1, AddJobTypes
    <3>3. settings' \in Seq(Torrents)
      BY <3>1, <3>2, JobLists DEF Save, TorrentsOf
    <3> QED
      BY <1>1, <2>1, <3>1, <3>3, AddJobTypes DEF TypeOK
  <2> QED
    BY <2>2, <2>3
<1>3. CASE ~Addable(t)
  <2>1. Notice(from) /\ UNCHANGED <<listVars, saveVars>>
    BY <1>3 DEF UserAdds
  <2> QED
    BY <1>1, <2>1, NoticeTypes DEF TypeOK, listVars, saveVars
<1> QED
  BY <1>2, <1>3

LEMMA TypesOfRemove ==
  ASSUME TypeOK, NEW row, RemoveTorrent(row)
  PROVE  TypeOK'
<1>1. row \in 1..Len(torrentView) /\ row \in 1..Len(jobs)
  BY LenProperties DEF RemoveTorrent, TypeOK
<1>2. jobs' \in Seq(Job) /\ torrentView' \in Seq(Clients)
  BY <1>1, RemoveAtPoints DEF RemoveTorrent, TypeOK
<1>3. fastView' \in Seq(Clients)
  <2>1. CASE jobs[row].client \in ToSet(fastView)
    <3>1. fastView # <<>>
      BY <2>1 DEF ToSet
    <3> QED
      BY <2>1, <3>1, FrontPoints DEF RemoveTorrent, TypeOK
  <2>2. CASE jobs[row].client \notin ToSet(fastView)
    BY <2>2 DEF RemoveTorrent, TypeOK
  <2> QED
    BY <2>1, <2>2
<1>4. settings' \in Seq(Torrents)
  BY <1>2, JobLists DEF RemoveTorrent, Save, TorrentsOf
<1>5. saveChanges' \in BOOLEAN /\ saveTimers' \in Nat
  BY DEF RemoveTorrent, FlagAfterSave, TypeOK
<1> QED
  BY <1>2, <1>3, <1>4, <1>5 DEF RemoveTorrent, TypeOK, loadVars

LEMMA TypesOfError ==
  ASSUME TypeOK, NEW c \in Clients, TorrentError(c)
  PROVE  TypeOK'
<1>1. Row(clients, c) \in 1..Len(jobs)
  BY RowFacts DEF TorrentError
<1>2. jobs' \in Seq(Job)
  BY <1>1, RemoveAtPoints DEF TorrentError, TypeOK
<1>3. [kind |-> "error", row |-> Row(clients, c), client |-> c] \in Box
  BY <1>1, LenProperties DEF Box, TypeOK
<1>4. boxes' \in Seq(Box)
  BY <1>3, AppendProperties DEF TorrentError, TypeOK
<1> QED
  BY <1>2, <1>4 DEF TorrentError, TypeOK, saveVars, loadVars

LEMMA TypesOfClose ==
  ASSUME TypeOK, CloseBox
  PROVE  TypeOK'
<1> DEFINE box == Last(boxes)
<1>1. boxes' \in Seq(Box) /\ box \in Box
  BY FrontPoints DEF CloseBox, TypeOK
<1>2. loadIndex' = loadIndex /\ loadSize' = loadSize
  BY DEF CloseBox, loadVars
<1>3. CASE box.kind = "error"
  <2>1. /\ torrentView' = IF box.row \in DOMAIN torrentView THEN RemoveAt(torrentView, box.row) ELSE torrentView
        /\ UNCHANGED <<jobs, fastView, saveVars>>
    BY <1>3 DEF CloseBox, TakenRow
  <2>2. torrentView' \in Seq(Clients)
    BY <2>1, RemoveAtPoints, LenProperties DEF TypeOK
  <2> QED
    BY <1>1, <1>2, <2>1, <2>2 DEF TypeOK, saveVars
<1>4. CASE box.kind = "menu"
  <2>1. Changed /\ UNCHANGED <<listVars, settings>>
    BY <1>4 DEF CloseBox
  <2> QED
    BY <1>1, <1>2, <2>1, ChangedTypes DEF TypeOK, listVars
<1>5. CASE box.kind = "drop"
  <2>1. /\ UNCHANGED <<listVars, saveTimers>> /\ saveChanges' = FALSE
        /\ IF saveChanges THEN Save(jobs) ELSE UNCHANGED settings
    BY <1>5 DEF CloseBox, FlagAfterSave
  <2>2. settings' \in Seq(Torrents)
    BY <2>1, JobLists DEF TypeOK, Save, TorrentsOf
  <2> QED
    BY <1>1, <1>2, <2>1, <2>2 DEF TypeOK, listVars
<1>6. CASE box.kind = "load"
  <2>1. UNCHANGED <<listVars, saveVars>>
    BY <1>6 DEF CloseBox
  <2> QED
    BY <1>1, <1>2, <2>1 DEF TypeOK, listVars, saveVars
<1> QED
  BY <1>1, <1>3, <1>4, <1>5, <1>6 DEF Box

\* A swap, in both representations.
LEMMA SwapPoints ==
  ASSUME NEW S, NEW s \in Seq(S), NEW j \in 2..Len(s)
  PROVE  /\ Swap(s, j - 1, j) \in Seq(S) /\ Len(Swap(s, j - 1, j)) = Len(s)
         /\ \A k \in 1..Len(s) : Swap(s, j - 1, j)[k] =
              IF k = j - 1 THEN s[j] ELSE IF k = j THEN s[j - 1] ELSE s[k]
<1>1. Len(s) \in Nat /\ DOMAIN s = 1..Len(s) /\ \A k \in 1..Len(s) : s[k] \in S
  BY ElementOfSeq, LenProperties
<1>2. j - 1 \in 1..Len(s) /\ j \in 1..Len(s) /\ j - 1 # j
  BY <1>1
<1> DEFINE first == [s EXCEPT ![j - 1] = s[j]]
           t == Swap(s, j - 1, j)
<1>3. t = [first EXCEPT ![j] = s[j - 1]]
  BY DEF Swap
<1>4. first \in Seq(S) /\ DOMAIN first = 1..Len(s) /\ Len(first) = Len(s)
  BY <1>1, <1>2, ExceptSeq, LenProperties
<1>6. \A k \in 1..Len(s) : first[k] = IF k = j - 1 THEN s[j] ELSE s[k]
  BY <1>1, <1>2
<1> HIDE DEF first
<1>5. t \in Seq(S) /\ Len(t) = Len(s)
  <2>1. j \in 1..Len(first) /\ s[j - 1] \in S
    BY <1>1, <1>2, <1>4
  <2>2. [first EXCEPT ![j] = s[j - 1]] \in Seq(S)
    BY <1>4, <2>1, ExceptSeq
  <2>3. DOMAIN [first EXCEPT ![j] = s[j - 1]] = 1..Len(s)
    BY <1>4
  <2>4. Len([first EXCEPT ![j] = s[j - 1]]) = Len(s)
    BY <1>1, <2>2, <2>3, LenProperties
  <2> QED
    BY <1>3, <2>2, <2>4
<1>7. \A k \in 1..Len(s) : t[k] = IF k = j THEN s[j - 1] ELSE first[k]
  BY <1>1, <1>3, <1>4
<1> HIDE DEF t
<1>8. \A k \in 1..Len(s) : t[k] = IF k = j - 1 THEN s[j] ELSE IF k = j THEN s[j - 1] ELSE s[k]
  BY <1>2, <1>6, <1>7
<1> QED
  BY <1>5, <1>8 DEF t

LEMMA SwapRowsPoints ==
  ASSUME NEW S, NEW s \in Seq(S), NEW j \in 2..Len(s)
  PROVE  /\ SwapRows(s, j - 1, j) \in Seq(S) /\ Len(SwapRows(s, j - 1, j)) = Len(s)
         /\ \A k \in 1..Len(s) : SwapRows(s, j - 1, j)[k] =
              IF k = j - 1 THEN s[j] ELSE IF k = j THEN s[j - 1] ELSE s[k]
<1>1. Len(s) \in Nat /\ \A k \in 1..Len(s) : s[k] \in S
  BY ElementOfSeq, LenProperties
<1>2. j - 1 \in 1..Len(s) /\ j \in 1..Len(s)
  BY <1>1
<1> DEFINE r == RemoveAt(s, j)
           t == InsertAt(r, j - 1, s[j])
<1>3. /\ r \in Seq(S) /\ Len(r) = Len(s) - 1
      /\ \A k \in 1..(Len(s) - 1) : r[k] = IF k < j THEN s[k] ELSE s[k + 1]
  BY <1>2, RemoveAtPoints
<1> HIDE DEF r
<1>4. j - 1 \in 1..(Len(r) + 1) /\ Len(r) + 1 = Len(s) /\ s[j] \in S
  BY <1>1, <1>2, <1>3
<1>5. /\ t \in Seq(S) /\ Len(t) = Len(s)
      /\ \A k \in 1..Len(s) : t[k] = IF k < j - 1 THEN r[k] ELSE IF k = j - 1 THEN s[j] ELSE r[k - 1]
  <2>1. /\ t \in Seq(S) /\ Len(t) = Len(r) + 1
        /\ \A k \in 1..(Len(r) + 1) :
             t[k] = IF k < j - 1 THEN r[k] ELSE IF k = j - 1 THEN s[j] ELSE r[k - 1]
    <3>1. r \in Seq(S) /\ j - 1 \in 1..(Len(r) + 1) /\ s[j] \in S
      BY <1>3, <1>4
    <3> DEFINE at == j - 1
               e == s[j]
    <3> HIDE DEF at, e
    <3>2. at \in 1..(Len(r) + 1) /\ e \in S /\ r \in Seq(S)
      BY <3>1 DEF at, e
    <3>4. Inserted(r, at, e, S)
      BY <3>2, InsertAtPoints
    <3> QED
      BY <3>4 DEF at, e, Inserted
  <2> HIDE DEF t
  <2> QED
    BY <1>4, <2>1
<1> HIDE DEF t
<1>6. ASSUME NEW k \in 1..Len(s)
      PROVE  t[k] = IF k = j - 1 THEN s[j] ELSE IF k = j THEN s[j - 1] ELSE s[k]
  <2>1. CASE k < j - 1
    <3>1. k \in 1..(Len(s) - 1) /\ k < j /\ k # j - 1 /\ k # j
      BY <1>1, <2>1
    <3> QED
      BY <1>3, <1>5, <2>1, <3>1
  <2>2. CASE k = j - 1
    BY <1>1, <1>5, <2>2
  <2>3. CASE k = j
    BY <1>1, <1>3, <1>5, <2>3
  <2>4. CASE k > j
    BY <1>1, <1>3, <1>5, <2>4
  <2>5. k < j - 1 \/ k = j - 1 \/ k = j \/ k > j
    BY <1>1
  <2> QED
    BY <2>1, <2>2, <2>3, <2>4, <2>5
<1>7. SwapRows(s, j - 1, j) = t
  BY DEF SwapRows, t, r
<1> QED
  BY <1>5, <1>6, <1>7

LEMMA LastBox ==
  ASSUME TypeOK, boxes # <<>>
  PROVE  Last(boxes) \in Box /\ Last(boxes).kind \in {"error", "load", "menu", "drop"}
<1>1. Last(boxes) \in Box
  BY FrontPoints DEF TypeOK
<1> QED
  BY <1>1 DEF Box

LEMMA TypesOfMove ==
  ASSUME TypeOK, NEW row \in Nat, MoveTorrent(row)
  PROVE  TypeOK'
<1>1. row \in 2..Len(jobs) /\ row \in 2..Len(torrentView)
  BY LenProperties DEF MoveTorrent, TypeOK
<1>2. jobs' \in Seq(Job) /\ torrentView' \in Seq(Clients)
  BY <1>1, SwapPoints, SwapRowsPoints DEF MoveTorrent, TypeOK
<1> QED
  BY <1>2 DEF MoveTorrent, TypeOK, saveVars, loadVars

LEMMA TypesOfRest ==
  ASSUME TypeOK,
         RateChanges \/ SaveTimer \/ Restart \/ \E c \in Clients : TorrentStopped(c) \/ Downloads(c)
  PROVE  TypeOK'
<1>1. CASE RateChanges
  BY <1>1, ChangedTypes DEF RateChanges, TypeOK, listVars, loadVars
<1>2. CASE SaveTimer
  <2>1. settings' \in Seq(Torrents)
    BY <1>2, JobLists DEF SaveTimer, TypeOK, Save, TorrentsOf
  <2>2. saveTimers' \in Nat
    BY <1>2 DEF SaveTimer, TypeOK
  <2>3. saveChanges' \in BOOLEAN
    BY <1>2 DEF SaveTimer, FlagAfterSave
  <2> QED
    BY <1>2, <2>1, <2>2, <2>3 DEF SaveTimer, TypeOK, loadVars
<1>3. CASE Restart
  <2>1. Len(settings) \in Nat /\ (settings # <<>> => Len(settings) >= 1)
    BY EmptySeq, LenProperties DEF TypeOK
  <2>2. loadSize' \in Nat /\ loadIndex' \in 0..loadSize'
    BY <1>3, <2>1 DEF Restart
  <2>3. saveChanges' \in BOOLEAN /\ saveTimers' \in Nat /\ settings' = settings
    BY <1>3 DEF Restart
  <2>4. /\ jobs' \in Seq(Job) /\ torrentView' \in Seq(Clients) /\ fastView' \in Seq(Clients)
        /\ boxes' \in Seq(Box)
    BY <1>3, EmptySeq DEF Restart
  <2> QED
    BY <2>2, <2>3, <2>4 DEF TypeOK
<1>4. ASSUME NEW c \in Clients, TorrentStopped(c)
      PROVE  TypeOK'
  BY <1>4 DEF TorrentStopped, TypeOK, saveVars, loadVars
<1>5. ASSUME NEW c \in Clients, Downloads(c)
      PROVE  TypeOK'
  <2>1. torrentView[Row(clients, c)] \in Clients
    BY <1>5, ElementOfSeq, LenProperties DEF Downloads, TypeOK
  <2>2. fastView' \in Seq(Clients)
    BY <1>5, <2>1, AppendProperties DEF Downloads, TypeOK
  <2> QED
    BY <1>5, <2>2 DEF Downloads, TypeOK, saveVars, loadVars
<1> QED
  BY <1>1, <1>2, <1>3, <1>4, <1>5

LEMMA TypesStep ==
  ASSUME TypeOK, [Next]_vars
  PROVE  TypeOK'
<1>1. CASE UNCHANGED vars
  BY <1>1 DEF vars, listVars, saveVars, loadVars, TypeOK
<1>2. ASSUME NEW row \in Nat, RemoveTorrent(row) \/ MoveTorrent(row) PROVE TypeOK'
  BY <1>2, TypesOfRemove, TypesOfMove
<1>3. CASE Next
  BY <1>2, <1>3, TypesOfLoad, TypesOfAdd, TypesOfError, TypesOfClose, TypesOfRest DEF Next
<1> QED
  BY <1>1, <1>3

\* Lists hold jobs and clients, boxes rows of either, and the loop that loads stays within what
\* was saved, whatever happens behind an open message box.
THEOREM TypeCorrect == Spec => []TypeOK
<1>1. Init => TypeOK
  BY TypesInit
<1>2. TypeOK /\ [Next]_vars => TypeOK'
  BY TypesStep
<1> QED
  BY <1>1, <1>2, PTL DEF Spec
-----------------------------------------------------------------------------
(* Timers *)

\* Whoever sets saveChanges finds a timer pending or starts one, and the timer that fires
\* clears it; the saves in between clear it too and leave the timer, which then does nothing.
THEOREM ChangesAreSaved == Spec => []ChangesGetSaved
<1> DEFINE Inv == TypeOK /\ ChangesGetSaved
<1>1. Init => Inv
  BY TypesInit DEF Init, ChangesGetSaved
<1>2. ASSUME Inv, [Next]_vars PROVE Inv'
  <2>1. TypeOK'
    BY <1>2, TypesStep
  <2> USE <1>2 DEF ChangesGetSaved, TypeOK
  <2>2. CASE UNCHANGED <<saveChanges, saveTimers>>
    BY <2>1, <2>2
  <2>3. CASE saveChanges' = FALSE
    BY <2>1, <2>3
  <2>4. CASE Changed
    BY <2>1, <2>4 DEF Changed
  <2>5. CASE UNCHANGED vars \/ LoadNext
    BY <2>2, <2>4, <2>5 DEF vars, saveVars, LoadNext
  <2>6. ASSUME NEW t \in Torrents, NEW from \in {"menu", "drop"}, UserAdds(t, from)
        PROVE  Inv'
    BY <2>2, <2>3, <2>4, <2>6 DEF UserAdds, saveVars, FlagAfterSave
  <2>7. ASSUME NEW row \in Nat, RemoveTorrent(row) \/ MoveTorrent(row)
        PROVE  Inv'
    BY <2>2, <2>3, <2>7 DEF RemoveTorrent, MoveTorrent, saveVars, FlagAfterSave
  <2>8. ASSUME NEW c \in Clients, TorrentStopped(c) \/ TorrentError(c) \/ Downloads(c)
        PROVE  Inv'
    BY <2>2, <2>8 DEF TorrentStopped, TorrentError, Downloads, saveVars
  <2>9. CASE CloseBox
    <3>1. Last(boxes).kind \in {"error", "load", "menu", "drop"}
      BY <1>2, <2>9, LastBox DEF CloseBox
    <3> QED
      BY <2>2, <2>3, <2>4, <2>9, <3>1 DEF CloseBox, saveVars, FlagAfterSave
  <2>10. CASE RateChanges \/ SaveTimer
    BY <2>3, <2>4, <2>10 DEF RateChanges, SaveTimer, FlagAfterSave
  <2>11. CASE Restart
    BY <2>1, <2>11 DEF Restart
  <2> QED
    BY <2>5, <2>6, <2>7, <2>8, <2>9, <2>10, <2>11, <1>2 DEF Next
<1>3. Inv => ChangesGetSaved
  OBVIOUS
<1> QED
  BY <1>1, <1>2, <1>3, PTL DEF Spec
-----------------------------------------------------------------------------
(* Rows *)

IsError(i) == boxes[i].kind = "error"

\* The rows are the jobs, or one error box is open and the rows are the jobs with the row of
\* its client among them.
RowsInv ==
  overlapped \/
    \/ /\ \A i \in DOMAIN boxes : ~IsError(i)
       /\ torrentView = ClientsOf(jobs)
    \/ \E i \in DOMAIN boxes :
         /\ IsError(i) /\ \A j \in DOMAIN boxes : IsError(j) => j = i
         /\ boxes[i].row \in 1..(Len(jobs) + 1) /\ boxes[i].client \in Clients
         /\ torrentView = InsertAt(ClientsOf(jobs), boxes[i].row, boxes[i].client)

\* A sequence is determined by its points.
LEMMA SameSeq ==
  ASSUME NEW S, NEW s \in Seq(S), NEW t \in Seq(S), Len(s) = Len(t),
         \A k \in 1..Len(s) : s[k] = t[k]
  PROVE  s = t
BY SeqEqual

LEMMA ClientsOfAppend ==
  ASSUME NEW list \in Seq(Job), NEW job \in Job
  PROVE  ClientsOf(Append(list, job)) = Append(ClientsOf(list), job.client)
<1> DEFINE longer == Append(list, job)
           left  == ClientsOf(longer)
           right == Append(ClientsOf(list), job.client)
<1>1. /\ Len(list) \in Nat /\ ClientsOf(list) \in Seq(Clients) /\ Len(ClientsOf(list)) = Len(list)
      /\ \A k \in 1..Len(list) : ClientsOf(list)[k] = list[k].client
  BY JobLists
<1>2. /\ longer \in Seq(Job) /\ Len(longer) = Len(list) + 1
      /\ \A k \in 1..Len(list) : longer[k] = list[k]
      /\ longer[Len(list) + 1] = job
  BY AppendProperties
<1> HIDE DEF longer
<1>3. /\ left \in Seq(Clients) /\ Len(left) = Len(longer)
      /\ \A k \in 1..Len(longer) : left[k] = longer[k].client
  BY <1>2, JobLists
<1>4. job.client \in Clients
  BY DEF Job
<1>5. /\ right \in Seq(Clients) /\ Len(right) = Len(list) + 1
      /\ \A k \in 1..Len(list) : right[k] = list[k].client
      /\ right[Len(list) + 1] = job.client
  BY <1>1, <1>4, AppendProperties
<1> HIDE DEF left, right
<1>6. \A k \in 1..Len(left) : left[k] = right[k]
  BY <1>1, <1>2, <1>3, <1>5
<1>7. left = right
  BY <1>2, <1>3, <1>5, <1>6, SameSeq
<1> QED
  BY <1>7 DEF left, right, longer

LEMMA ClientsOfRemove ==
  ASSUME NEW list \in Seq(Job), NEW i \in 1..Len(list)
  PROVE  ClientsOf(RemoveAt(list, i)) = RemoveAt(ClientsOf(list), i)
<1> DEFINE cs    == ClientsOf(list)
           short == RemoveAt(list, i)
           left  == ClientsOf(short)
           right == RemoveAt(cs, i)
<1>1. /\ Len(list) \in Nat /\ cs \in Seq(Clients) /\ Len(cs) = Len(list)
      /\ \A k \in 1..Len(list) : cs[k] = list[k].client
  BY JobLists
<1>2. /\ short \in Seq(Job) /\ Len(short) = Len(list) - 1
      /\ \A k \in 1..(Len(list) - 1) : short[k] = IF k < i THEN list[k] ELSE list[k + 1]
  BY RemoveAtPoints
<1> HIDE DEF cs, short
<1>3. /\ left \in Seq(Clients) /\ Len(left) = Len(short)
      /\ \A k \in 1..Len(short) : left[k] = short[k].client
  BY <1>2, JobLists
<1>4. /\ right \in Seq(Clients) /\ Len(right) = Len(cs) - 1
      /\ \A k \in 1..(Len(cs) - 1) : right[k] = IF k < i THEN cs[k] ELSE cs[k + 1]
  <2>1. i \in 1..Len(cs)
    BY <1>1
  <2> QED
    BY <1>1, <2>1, RemoveAtPoints
<1> HIDE DEF left, right
<1>5. ASSUME NEW k \in 1..Len(left) PROVE left[k] = right[k]
  <2>1. k \in 1..(Len(list) - 1) /\ k \in 1..Len(list) /\ k + 1 \in 1..Len(list)
    BY <1>1, <1>2, <1>3
  <2> QED
    BY <1>1, <1>2, <1>3, <1>4, <2>1
<1>6. left = right
  BY <1>1, <1>2, <1>3, <1>4, <1>5, SameSeq
<1> QED
  BY <1>6 DEF left, right, short, cs

LEMMA ClientsOfSwap ==
  ASSUME NEW list \in Seq(Job), NEW j \in 2..Len(list)
  PROVE  ClientsOf(Swap(list, j - 1, j)) = SwapRows(ClientsOf(list), j - 1, j)
<1> DEFINE cs      == ClientsOf(list)
           swapped == Swap(list, j - 1, j)
           left    == ClientsOf(swapped)
           right   == SwapRows(cs, j - 1, j)
<1>1. /\ Len(list) \in Nat /\ cs \in Seq(Clients) /\ Len(cs) = Len(list)
      /\ \A k \in 1..Len(list) : cs[k] = list[k].client
  BY JobLists
<1>2. /\ swapped \in Seq(Job) /\ Len(swapped) = Len(list)
      /\ \A k \in 1..Len(list) :
           swapped[k] = IF k = j - 1 THEN list[j] ELSE IF k = j THEN list[j - 1] ELSE list[k]
  BY SwapPoints
<1> HIDE DEF cs, swapped
<1>3. /\ left \in Seq(Clients) /\ Len(left) = Len(swapped)
      /\ \A k \in 1..Len(swapped) : left[k] = swapped[k].client
  BY <1>2, JobLists
<1>4. /\ right \in Seq(Clients) /\ Len(right) = Len(cs)
      /\ \A k \in 1..Len(cs) : right[k] = IF k = j - 1 THEN cs[j] ELSE IF k = j THEN cs[j - 1] ELSE cs[k]
  <2>1. j \in 2..Len(cs)
    BY <1>1
  <2> QED
    BY <1>1, <2>1, SwapRowsPoints
<1> HIDE DEF left, right
<1>5. ASSUME NEW k \in 1..Len(left) PROVE left[k] = right[k]
  <2>1. k \in 1..Len(list) /\ j \in 1..Len(list) /\ j - 1 \in 1..Len(list)
    BY <1>1, <1>2, <1>3
  <2> QED
    BY <1>1, <1>2, <1>3, <1>4, <2>1
<1>6. left = right
  BY <1>1, <1>2, <1>3, <1>4, <1>5, SameSeq
<1> QED
  BY <1>6 DEF left, right, swapped, cs

\* An element is inserted and removed, or removed and inserted, at the same place.
LEMMA RemoveInserted ==
  ASSUME NEW S, NEW s \in Seq(S), NEW i \in 1..(Len(s) + 1), NEW e \in S
  PROVE  RemoveAt(InsertAt(s, i, e), i) = s /\ i \in DOMAIN InsertAt(s, i, e)
<1> DEFINE long == InsertAt(s, i, e)
<1>0. Len(s) \in Nat
  BY LenProperties
<1>1. Inserted(s, i, e, S)
  BY InsertAtPoints
<1>2. /\ long \in Seq(S) /\ Len(long) = Len(s) + 1
      /\ \A k \in 1..(Len(s) + 1) : long[k] = IF k < i THEN s[k] ELSE IF k = i THEN e ELSE s[k - 1]
  BY <1>1 DEF Inserted
<1> HIDE DEF long
<1>3. i \in 1..Len(long) /\ i \in DOMAIN long
  BY <1>2, LenProperties
<1> DEFINE back == RemoveAt(long, i)
<1>4. /\ back \in Seq(S) /\ Len(back) = Len(long) - 1
      /\ \A k \in 1..(Len(long) - 1) : back[k] = IF k < i THEN long[k] ELSE long[k + 1]
  BY <1>2, <1>3, RemoveAtPoints
<1> HIDE DEF back
<1>5. Len(back) = Len(s)
  BY <1>0, <1>2, <1>4
<1>6. ASSUME NEW k \in 1..Len(s) PROVE back[k] = s[k]
  <2>1. k \in 1..(Len(long) - 1) /\ k \in 1..(Len(s) + 1) /\ k + 1 \in 1..(Len(s) + 1) /\ (k + 1) - 1 = k
    BY <1>0, <1>2
  <2>2. CASE k < i
    BY <1>2, <1>4, <2>1, <2>2
  <2>3. CASE ~(k < i)
    <3>1. ~(k + 1 < i) /\ k + 1 # i
      BY <1>0, <2>3
    <3> QED
      BY <1>2, <1>4, <2>1, <2>3, <3>1
  <2> QED
    BY <2>2, <2>3
<1>7. back = s
  BY <1>4, <1>5, <1>6, SameSeq
<1> QED
  BY <1>3, <1>7 DEF back, long

LEMMA InsertRemoved ==
  ASSUME NEW S, NEW s \in Seq(S), NEW i \in 1..Len(s)
  PROVE  InsertAt(RemoveAt(s, i), i, s[i]) = s
<1> DEFINE short == RemoveAt(s, i)
<1>0. Len(s) \in Nat /\ s[i] \in S
  BY LenProperties, ElementOfSeq
<1>1. /\ short \in Seq(S) /\ Len(short) = Len(s) - 1
      /\ \A k \in 1..(Len(s) - 1) : short[k] = IF k < i THEN s[k] ELSE s[k + 1]
  BY RemoveAtPoints
<1> HIDE DEF short
<1> DEFINE e == s[i]
           back == InsertAt(short, i, e)
<1>2. e \in S /\ i \in 1..(Len(short) + 1)
  BY <1>0, <1>1
<1> HIDE DEF e
<1>3. Inserted(short, i, e, S)
  BY <1>1, <1>2, InsertAtPoints
<1>4. /\ back \in Seq(S) /\ Len(back) = Len(short) + 1
      /\ \A k \in 1..(Len(short) + 1) :
           back[k] = IF k < i THEN short[k] ELSE IF k = i THEN e ELSE short[k - 1]
  BY <1>3 DEF Inserted
<1> HIDE DEF back
<1>5. Len(back) = Len(s)
  BY <1>0, <1>1, <1>4
<1>6. ASSUME NEW k \in 1..Len(s) PROVE back[k] = s[k]
  <2>1. k \in 1..(Len(short) + 1)
    BY <1>0, <1>1
  <2>2. CASE k < i
    <3>1. k \in 1..(Len(s) - 1)
      BY <1>0, <2>2
    <3> QED
      BY <1>1, <1>4, <2>1, <2>2, <3>1
  <2>3. CASE k = i
    BY <1>0, <1>4, <2>1, <2>3 DEF e
  <2>4. CASE k > i
    <3>1. k - 1 \in 1..(Len(s) - 1) /\ ~(k - 1 < i) /\ (k - 1) + 1 = k /\ ~(k < i) /\ k # i
      BY <1>0, <2>4
    <3> QED
      BY <1>1, <1>4, <2>1, <3>1
  <2>5. k < i \/ k = i \/ k > i
    BY <1>0
  <2> QED
    BY <2>2, <2>3, <2>4, <2>5
<1>7. back = s
  BY <1>4, <1>5, <1>6, SameSeq
<1> QED
  BY <1>7 DEF back, e, short

\* What leaves jobs, rows and boxes alone.
LEMMA RowsSame ==
  ASSUME RowsInv, UNCHANGED <<jobs, torrentView, boxes, overlapped>>
  PROVE  RowsInv'
BY DEF RowsInv, IsError, ClientsOf

\* With no box open, the rows change as the jobs do.
LEMMA RowsTogether ==
  ASSUME RowsInv, boxes = <<>>, overlapped' = overlapped, boxes' = boxes,
         torrentView = ClientsOf(jobs) => torrentView' = ClientsOf(jobs')
  PROVE  RowsInv'
BY DEF RowsInv, IsError

\* A box that says something else opens.
LEMMA RowsOfNotice ==
  ASSUME TypeOK, RowsInv, NEW from \in {"load", "menu", "drop"}, Notice(from), boxes = <<>>,
         UNCHANGED <<jobs, torrentView, overlapped>>
  PROVE  RowsInv'
<1>1. /\ DOMAIN boxes' = 1..1 /\ boxes'[1].kind = from
  BY DEF Notice
<1>2. from # "error"
  OBVIOUS
<1> QED
  BY <1>1, <1>2 DEF RowsInv, IsError

LEMMA RowsOfAddJob ==
  ASSUME TypeOK, RowsInv, NEW t \in Torrents, AddJob(t), boxes = <<>>, boxes' = boxes,
         overlapped' = overlapped
  PROVE  RowsInv'
<1>1. PICK c \in Clients :
        /\ [client |-> c, torrent |-> t] \in Job
        /\ jobs' = Append(jobs, [client |-> c, torrent |-> t])
        /\ torrentView' = Append(torrentView, c)
  BY AddJobFacts
<1> DEFINE job == [client |-> c, torrent |-> t]
<1>2. job.client = c
  OBVIOUS
<1> HIDE DEF job
<1>3. ClientsOf(Append(jobs, job)) = Append(ClientsOf(jobs), c)
  BY <1>1, <1>2, ClientsOfAppend DEF TypeOK, job
<1>4. jobs' = Append(jobs, job)
  BY <1>1 DEF job
<1>5. torrentView = ClientsOf(jobs) => torrentView' = ClientsOf(jobs')
  BY <1>1, <1>3, <1>4
<1> QED
  BY <1>5, RowsTogether

LEMMA RowsOfLoad ==
  ASSUME TypeOK, RowsInv, LoadNext
  PROVE  RowsInv'
<1> DEFINE opens == loadIndex <= Len(settings) /\ Addable(settings[loadIndex])
<1>1. boxes = <<>> /\ overlapped' = overlapped
  BY DEF LoadNext
<1>2. CASE opens
  <2>1. loadIndex \in 1..Len(settings)
    BY <1>2, LenProperties DEF LoadNext, Loading, TypeOK
  <2>2. settings[loadIndex] \in Torrents
    BY <2>1, ElementOfSeq DEF TypeOK
  <2>3. AddJob(settings[loadIndex]) /\ boxes' = boxes
    BY <1>2 DEF LoadNext
  <2> QED
    BY <1>1, <2>2, <2>3, RowsOfAddJob
<1>3. CASE ~opens
  <2>1. Notice("load") /\ UNCHANGED <<jobs, torrentView>>
    BY <1>3 DEF LoadNext, listVars
  <2> QED
    BY <1>1, <2>1, RowsOfNotice
<1> QED
  BY <1>2, <1>3

LEMMA RowsOfAdd ==
  ASSUME TypeOK, RowsInv, NEW t \in Torrents, NEW from \in {"menu", "drop"}, UserAdds(t, from)
  PROVE  RowsInv'
<1>1. boxes = <<>> /\ overlapped' = overlapped
  BY DEF UserAdds, Free, history
<1>2. CASE Addable(t)
  <2>1. AddJob(t) /\ boxes' = boxes
    BY <1>2 DEF UserAdds
  <2> QED
    BY <1>1, <2>1, RowsOfAddJob
<1>3. CASE ~Addable(t)
  <2>1. Notice(from) /\ UNCHANGED <<jobs, torrentView>>
    BY <1>3 DEF UserAdds, listVars
  <2> QED
    BY <1>1, <2>1, RowsOfNotice
<1> QED
  BY <1>2, <1>3

LEMMA RowsOfRemove ==
  ASSUME TypeOK, RowsInv, NEW row \in Nat, RemoveTorrent(row) \/ MoveTorrent(row)
  PROVE  RowsInv'
<1>1. boxes = <<>> /\ overlapped' = overlapped /\ boxes' = boxes /\ row \in 1..Len(jobs)
  BY LenProperties DEF RemoveTorrent, MoveTorrent, Free, TypeOK, history
<1>2. CASE RemoveTorrent(row)
  <2>1. jobs' = RemoveAt(jobs, row) /\ torrentView' = RemoveAt(torrentView, row)
    BY <1>2 DEF RemoveTorrent
  <2>2. ClientsOf(RemoveAt(jobs, row)) = RemoveAt(ClientsOf(jobs), row)
    BY <1>1, ClientsOfRemove DEF TypeOK
  <2> QED
    BY <1>1, <2>1, <2>2, RowsTogether
<1>3. CASE MoveTorrent(row)
  <2>1. jobs' = Swap(jobs, row - 1, row) /\ torrentView' = SwapRows(torrentView, row - 1, row)
    BY <1>3 DEF MoveTorrent
  <2>2. row \in 2..Len(jobs)
    BY <1>1, <1>3 DEF MoveTorrent
  <2>3. ClientsOf(Swap(jobs, row - 1, row)) = SwapRows(ClientsOf(jobs), row - 1, row)
    BY <2>2, ClientsOfSwap DEF TypeOK
  <2> QED
    BY <1>1, <2>1, <2>3, RowsTogether
<1> QED
  BY <1>2, <1>3

LEMMA RowsOfError ==
  ASSUME TypeOK, RowsInv, NEW c \in Clients, TorrentError(c)
  PROVE  RowsInv'
<1> DEFINE row == Row(clients, c)
           box == [kind |-> "error", row |-> row, client |-> c]
           n   == Len(boxes) + 1
<1>1. /\ boxes' = Append(boxes, box) /\ jobs' = RemoveAt(jobs, row) /\ torrentView' = torrentView
      /\ overlapped' = (overlapped \/ Failed # {})
  BY DEF TorrentError
<1>2. row \in 1..Len(jobs) /\ clients[row] = c /\ clients = ClientsOf(jobs)
  BY RowFacts DEF TorrentError, clients, ClientsOf
<1> HIDE DEF row
<1>3. SUFFICES ASSUME ~overlapped, Failed = {} PROVE RowsInv'
  BY <1>1 DEF RowsInv
<1>4. \A i \in DOMAIN boxes : ~IsError(i)
  BY <1>3 DEF Failed, IsError
<1>5. torrentView = ClientsOf(jobs)
  BY <1>3, <1>4 DEF RowsInv
<1>6. box \in Box /\ box.kind = "error" /\ box.row = row /\ box.client = c
  BY <1>2, LenProperties DEF Box, TypeOK
<1> HIDE DEF box
<1>7. /\ Len(boxes) \in Nat /\ DOMAIN boxes = 1..Len(boxes)
      /\ boxes' \in Seq(Box) /\ Len(boxes') = n
      /\ \A i \in 1..Len(boxes) : boxes'[i] = boxes[i]
      /\ boxes'[n] = box
  BY <1>1, <1>6, AppendProperties, LenProperties DEF TypeOK
<1>8. DOMAIN boxes' = 1..n /\ n \in DOMAIN boxes'
  BY <1>7, LenProperties
<1>9. /\ boxes'[n].kind = "error"
      /\ \A j \in DOMAIN boxes' : boxes'[j].kind = "error" => j = n
  BY <1>4, <1>6, <1>7, <1>8 DEF IsError
<1>10. /\ Len(jobs) \in Nat /\ ClientsOf(jobs) \in Seq(Clients) /\ Len(ClientsOf(jobs)) = Len(jobs)
  BY JobLists DEF TypeOK
<1>11. row \in 1..(Len(jobs') + 1)
  BY <1>1, <1>2, <1>10, RemoveAtPoints DEF TypeOK
<1>12. ClientsOf(jobs') = RemoveAt(ClientsOf(jobs), row)
  BY <1>1, <1>2, ClientsOfRemove DEF TypeOK
<1>13. InsertAt(RemoveAt(ClientsOf(jobs), row), row, ClientsOf(jobs)[row]) = ClientsOf(jobs)
  BY <1>2, <1>10, InsertRemoved
<1>14. torrentView' = InsertAt(ClientsOf(jobs'), boxes'[n].row, boxes'[n].client)
  BY <1>1, <1>2, <1>5, <1>6, <1>7, <1>12, <1>13
<1> HIDE DEF n
<1> QED
  BY <1>6, <1>7, <1>8, <1>9, <1>11, <1>14 DEF RowsInv, IsError

LEMMA RowsOfClose ==
  ASSUME TypeOK, RowsInv, CloseBox
  PROVE  RowsInv'
<1> DEFINE n == Len(boxes)
           box == Last(boxes)
<1>1. /\ boxes # <<>> /\ boxes' = Front(boxes) /\ overlapped' = overlapped
  BY DEF CloseBox, history
<1>2. /\ n \in Nat /\ n >= 1 /\ DOMAIN boxes = 1..n /\ box = boxes[n]
      /\ boxes' \in Seq(Box) /\ Len(boxes') = n - 1
      /\ \A i \in 1..(n - 1) : boxes'[i] = boxes[i]
  BY <1>1, FrontPoints, LenProperties DEF TypeOK
<1>3. DOMAIN boxes' = 1..(n - 1)
  BY <1>2, LenProperties
<1>4. SUFFICES ASSUME ~overlapped PROVE RowsInv'
  BY <1>1 DEF RowsInv
<1>5. jobs' = jobs /\ (box.kind # "error" => torrentView' = torrentView)
  BY LastBox DEF CloseBox, listVars
<1> HIDE DEF n
<1>6. CASE \A i \in DOMAIN boxes : ~IsError(i)
  <2>1. box.kind # "error"
    BY <1>2, <1>6 DEF IsError
  <2>2. torrentView' = torrentView
    BY <1>5, <2>1
  <2>3. torrentView = ClientsOf(jobs)
    BY <1>4, <1>6 DEF RowsInv
  <2>4. \A i \in DOMAIN boxes' : boxes'[i].kind # "error"
    BY <1>2, <1>3, <1>6 DEF IsError
  <2> QED
    BY <1>5, <2>2, <2>3, <2>4 DEF RowsInv, IsError
<1>7. CASE \E i \in DOMAIN boxes : IsError(i)
  <2>1. PICK i \in DOMAIN boxes :
          /\ IsError(i) /\ \A j \in DOMAIN boxes : IsError(j) => j = i
          /\ boxes[i].row \in 1..(Len(jobs) + 1) /\ boxes[i].client \in Clients
          /\ torrentView = InsertAt(ClientsOf(jobs), boxes[i].row, boxes[i].client)
    BY <1>4, <1>7 DEF RowsInv
  <2>2. CASE i = n
    <3>1. /\ box.kind = "error" /\ box.row \in 1..(Len(jobs) + 1) /\ box.client \in Clients
          /\ torrentView = InsertAt(ClientsOf(jobs), box.row, box.client)
      BY <1>2, <2>1, <2>2 DEF IsError
    <3>2. /\ ClientsOf(jobs) \in Seq(Clients) /\ Len(ClientsOf(jobs)) = Len(jobs)
      BY JobLists DEF TypeOK
    <3>3. RemoveAt(torrentView, box.row) = ClientsOf(jobs) /\ box.row \in DOMAIN torrentView
      BY <3>1, <3>2, RemoveInserted
    <3>4. torrentView' = ClientsOf(jobs')
      BY <1>5, <3>1, <3>3 DEF CloseBox, TakenRow
    <3>5. \A k \in DOMAIN boxes' : boxes'[k].kind # "error"
      BY <1>2, <1>3, <2>1, <2>2 DEF IsError
    <3> QED
      BY <3>4, <3>5 DEF RowsInv, IsError
  <2>3. CASE i # n
    <3>1. i \in DOMAIN boxes' /\ boxes'[i] = boxes[i]
      BY <1>2, <1>3, <2>3
    <3>2. box.kind # "error"
      BY <1>2, <2>1, <2>3 DEF IsError
    <3>3. \A j \in DOMAIN boxes' : boxes'[j].kind = "error" => j = i
      BY <1>2, <1>3, <2>1 DEF IsError
    <3>4. torrentView' = torrentView /\ jobs' = jobs
      BY <1>5, <3>2
    <3> QED
      BY <2>1, <3>1, <3>3, <3>4 DEF RowsInv, IsError
  <2> QED
    BY <2>2, <2>3
<1> QED
  BY <1>6, <1>7

LEMMA RowsStep ==
  ASSUME TypeOK, RowsInv, [Next]_vars
  PROVE  RowsInv'
<1>1. CASE UNCHANGED vars
  BY <1>1, RowsSame DEF vars, listVars, history
<1>2. CASE RateChanges \/ SaveTimer
  BY <1>2, RowsSame DEF RateChanges, SaveTimer, listVars, history
<1>3. ASSUME NEW c \in Clients, TorrentStopped(c) \/ Downloads(c)
      PROVE  RowsInv'
  BY <1>3, RowsSame DEF TorrentStopped, Downloads, history
<1>4. CASE Restart
  <2>1. jobs' = <<>> /\ torrentView' = <<>> /\ boxes' = <<>>
    BY <1>4 DEF Restart
  <2>2. ClientsOf(jobs') = <<>>
    BY <2>1 DEF ClientsOf
  <2> QED
    BY <2>1, <2>2 DEF RowsInv, IsError
<1>5. ASSUME NEW row \in Nat, RemoveTorrent(row) \/ MoveTorrent(row)
      PROVE  RowsInv'
  BY <1>5, RowsOfRemove
<1>6. CASE Next
  BY <1>2, <1>3, <1>4, <1>5, <1>6, RowsOfLoad, RowsOfAdd, RowsOfError, RowsOfClose DEF Next
<1> QED
  BY <1>1, <1>6

\* As long as errors do not overlap, the rows of the view are the jobs, in the same order.
THEOREM RowsStayJobs == Spec => []RowsAreJobs
<1> DEFINE Inv == TypeOK /\ RowsInv
<1>1. Init => Inv
  <2>1. Init => torrentView = ClientsOf(jobs) /\ DOMAIN boxes = {}
    BY DEF Init, ClientsOf
  <2> QED
    BY <2>1, TypesInit DEF RowsInv
<1>2. Inv /\ [Next]_vars => Inv'
  BY TypesStep, RowsStep
<1>3. Inv => RowsAreJobs
  <2>1. clients = ClientsOf(jobs)
    BY DEF clients, ClientsOf
  <2>2. (\A i \in DOMAIN boxes : ~IsError(i)) => Failed = {}
    BY DEF Failed, IsError
  <2> QED
    BY <2>1, <2>2 DEF RowsInv, RowsAreJobs, IsError
<1> QED
  BY <1>1, <1>2, <1>3, PTL DEF Spec
-----------------------------------------------------------------------------
(* Rows of the downloads *)

OneRow(list) == \A i, j \in DOMAIN list : list[i] = list[j] => i = j

LEMMA FastOfAppend ==
  ASSUME NEW list \in Seq(Clients), OneRow(list), NEW c \in Clients, c \notin ToSet(list)
  PROVE  OneRow(Append(list, c))
<1> DEFINE longer == Append(list, c)
<1>1. /\ longer \in Seq(Clients) /\ Len(longer) = Len(list) + 1 /\ Len(list) \in Nat
      /\ \A i \in 1..Len(list) : longer[i] = list[i]
      /\ longer[Len(list) + 1] = c
      /\ DOMAIN list = 1..Len(list)
  BY AppendProperties, LenProperties
<1> HIDE DEF longer
<1>2. DOMAIN longer = 1..(Len(list) + 1)
  BY <1>1, LenProperties
<1>3. \A i \in 1..Len(list) : list[i] # c
  BY <1>1 DEF ToSet
<1>4. OneRow(longer)
  BY <1>1, <1>2, <1>3 DEF OneRow
<1> QED
  BY <1>4 DEF longer

LEMMA FastOfFront ==
  ASSUME NEW list \in Seq(Clients), OneRow(list), list # <<>>
  PROVE  OneRow(Front(list))
<1> DEFINE shorter == Front(list)
<1>1. /\ shorter \in Seq(Clients) /\ Len(shorter) = Len(list) - 1 /\ Len(list) \in Nat
      /\ \A i \in 1..(Len(list) - 1) : shorter[i] = list[i]
      /\ DOMAIN list = 1..Len(list)
  BY FrontPoints, LenProperties
<1> HIDE DEF shorter
<1>2. DOMAIN shorter = 1..(Len(list) - 1)
  BY <1>1, LenProperties
<1>3. OneRow(shorter)
  BY <1>1, <1>2 DEF OneRow
<1> QED
  BY <1>3 DEF shorter

\* While no error is shown, the row with the number of a client is the row of that client.
LEMMA RowOfClient ==
  ASSUME TypeOK, RowsInv, ~overlapped, Failed = {}, NEW c \in ToSet(clients)
  PROVE  torrentView[Row(clients, c)] = c /\ c \in Clients
<1>1. \A i \in DOMAIN boxes : ~IsError(i)
  BY DEF Failed, IsError
<1>2. torrentView = ClientsOf(jobs)
  BY <1>1 DEF RowsInv
<1>3. clients = ClientsOf(jobs)
  BY DEF clients, ClientsOf
<1> QED
  BY <1>2, <1>3, RowFacts

\* Two rows of one client come about only by a row that is cloned during an error, or by errors
\* that overlap: else what is cloned is the client's own row, and it had none.
LEMMA FastStep ==
  ASSUME TypeOK, RowsInv, OneFastRow, [Next]_vars
  PROVE  OneFastRow'
<1>1. SUFFICES ASSUME ~overlapped', ~cloned' PROVE OneRow(fastView')
  BY DEF OneFastRow, OneRow
<1>2. CASE Restart
  <2>1. fastView' = <<>>
    BY <1>2 DEF Restart
  <2> QED
    BY <2>1 DEF OneRow
<1>3. SUFFICES ASSUME ~Restart PROVE OneRow(fastView')
  BY <1>2
<1>4. ASSUME NEW c \in Clients, Downloads(c)
      PROVE  OneRow(fastView')
  <2>1. ~overlapped /\ ~cloned /\ Failed = {}
    BY <1>1, <1>4 DEF Downloads
  <2>2. c \in ToSet(clients) /\ c \notin ToSet(fastView)
    BY <1>4 DEF Downloads, Shown
  <2>3. fastView' = Append(fastView, c)
    BY <1>4, <2>1, <2>2, RowOfClient DEF Downloads
  <2>4. OneRow(fastView) /\ fastView \in Seq(Clients)
    BY <2>1 DEF OneFastRow, OneRow, TypeOK
  <2> QED
    BY <2>2, <2>3, <2>4, FastOfAppend
<1>5. ASSUME NEW row \in Nat, RemoveTorrent(row)
      PROVE  OneRow(fastView')
  <2>1. OneRow(fastView) /\ fastView \in Seq(Clients)
    BY <1>1, <1>5 DEF RemoveTorrent, OneFastRow, OneRow, TypeOK
  <2>2. CASE jobs[row].client \in ToSet(fastView)
    <3>1. fastView # <<>> /\ fastView' = Front(fastView)
      BY <1>5, <2>2 DEF RemoveTorrent, ToSet
    <3> QED
      BY <2>1, <3>1, FastOfFront
  <2>3. CASE jobs[row].client \notin ToSet(fastView)
    BY <1>5, <2>1, <2>3 DEF RemoveTorrent
  <2> QED
    BY <2>2, <2>3
<1>6. ASSUME fastView' = fastView, overlapped => overlapped', cloned => cloned'
      PROVE  OneRow(fastView')
  BY <1>1, <1>6 DEF OneFastRow, OneRow
<1>7. CASE UNCHANGED vars
  BY <1>6, <1>7 DEF vars, listVars, history
<1>8. CASE LoadNext
  BY <1>6, <1>8 DEF LoadNext, AddJob, listVars
<1>9. ASSUME NEW t \in Torrents, NEW from \in {"menu", "drop"}, UserAdds(t, from)
      PROVE  OneRow(fastView')
  BY <1>6, <1>9 DEF UserAdds, AddJob, listVars, history
<1>10. ASSUME NEW row \in Nat, MoveTorrent(row)
       PROVE  OneRow(fastView')
  BY <1>6, <1>10 DEF MoveTorrent, history
<1>11. ASSUME NEW c \in Clients, TorrentStopped(c) \/ TorrentError(c)
       PROVE  OneRow(fastView')
  BY <1>6, <1>11 DEF TorrentStopped, TorrentError, history
<1>12. CASE CloseBox
  <2>1. Last(boxes).kind \in {"error", "load", "menu", "drop"}
    BY <1>12, LastBox DEF CloseBox
  <2> QED
    BY <1>6, <1>12, <2>1 DEF CloseBox, listVars, history
<1>13. CASE RateChanges \/ SaveTimer
  BY <1>6, <1>13 DEF RateChanges, SaveTimer, listVars, history
<1> QED
  BY <1>3, <1>4, <1>5, <1>7, <1>8, <1>9, <1>10, <1>11, <1>12, <1>13 DEF Next

\* A client has one row in fastView at most, although removals take the row of another and what
\* is cloned is the row that has the client's number: with no error open, that row is the
\* client's own, because the rows of torrentView are the jobs (RowsInv). The two exceptions of
\* OneFastRow are where they are not.
THEOREM FastRowsAreOnce == Spec => []OneFastRow
<1> DEFINE Inv == TypeOK /\ RowsInv /\ OneFastRow
<1>1. Init => Inv
  <2>1. Init => torrentView = ClientsOf(jobs) /\ DOMAIN boxes = {} /\ DOMAIN fastView = {}
    BY DEF Init, ClientsOf
  <2> QED
    BY <2>1, TypesInit DEF RowsInv, OneFastRow
<1>2. Inv /\ [Next]_vars => Inv'
  BY TypesStep, RowsStep, FastStep
<1>3. Inv => OneFastRow
  OBVIOUS
<1> QED
  BY <1>1, <1>2, <1>3, PTL DEF Spec
-----------------------------------------------------------------------------
(* What is saved *)

Named(list) == {list[i].torrent : i \in DOMAIN list}

LEMMA NamedAfterRemove ==
  ASSUME NEW list \in Seq(Job), NEW row \in 1..Len(list)
  PROVE  Named(list) \subseteq Named(RemoveAt(list, row)) \cup {list[row].torrent}
<1> DEFINE short == RemoveAt(list, row)
<1>0. Len(list) \in Nat /\ DOMAIN list = 1..Len(list)
  BY JobLists
<1>1. /\ short \in Seq(Job) /\ Len(short) = Len(list) - 1
      /\ \A k \in 1..(Len(list) - 1) : short[k] = IF k < row THEN list[k] ELSE list[k + 1]
  BY RemoveAtPoints
<1> HIDE DEF short
<1>2. DOMAIN short = 1..(Len(list) - 1)
  BY <1>1, LenProperties
<1>3. ASSUME NEW i \in 1..Len(list), i # row
      PROVE  list[i].torrent \in Named(short)
  <2>1. CASE i < row
    <3>1. i \in 1..(Len(list) - 1) /\ short[i] = list[i]
      BY <1>0, <1>1, <2>1
    <3> QED
      BY <1>2, <3>1 DEF Named
  <2>2. CASE i > row
    <3>1. i - 1 \in 1..(Len(list) - 1) /\ short[i - 1] = list[i]
      <4>1. i - 1 \in 1..(Len(list) - 1) /\ ~(i - 1 < row) /\ (i - 1) + 1 = i
        BY <1>0, <2>2
      <4> QED
        BY <1>1, <4>1
    <3> QED
      BY <1>2, <3>1 DEF Named
  <2>3. i < row \/ i > row
    BY <1>0, <1>3
  <2> QED
    BY <2>1, <2>2, <2>3
<1> QED
  BY <1>0, <1>3 DEF Named, short

LEMMA NamedAfterAppend ==
  ASSUME NEW list \in Seq(Job), NEW job \in Job
  PROVE  Named(Append(list, job)) = Named(list) \cup {job.torrent}
<1> DEFINE long == Append(list, job)
<1>1. /\ long \in Seq(Job) /\ Len(long) = Len(list) + 1 /\ Len(list) \in Nat /\ DOMAIN list = 1..Len(list)
      /\ \A k \in 1..Len(list) : long[k] = list[k]
      /\ long[Len(list) + 1] = job
  BY AppendProperties, LenProperties
<1> HIDE DEF long
<1>2. DOMAIN long = 1..(Len(list) + 1)
  BY <1>1, LenProperties
<1>3. \A k \in DOMAIN long : k \in DOMAIN list \/ k = Len(list) + 1
  BY <1>1, <1>2
<1>4. \A k \in DOMAIN list : k \in DOMAIN long
  BY <1>1, <1>2
<1>5. Len(list) + 1 \in DOMAIN long
  BY <1>1, <1>2
<1>6. Named(long) = Named(list) \cup {job.torrent}
  BY <1>1, <1>3, <1>4, <1>5 DEF Named
<1> QED
  BY <1>6 DEF long

LEMMA NamedAfterSwap ==
  ASSUME NEW list \in Seq(Job), NEW j \in 2..Len(list)
  PROVE  Named(list) \subseteq Named(Swap(list, j - 1, j))
<1> DEFINE t == Swap(list, j - 1, j)
<1>1. /\ t \in Seq(Job) /\ Len(t) = Len(list)
      /\ \A k \in 1..Len(list) : t[k] = IF k = j - 1 THEN list[j] ELSE IF k = j THEN list[j - 1] ELSE list[k]
  BY SwapPoints
<1> HIDE DEF t
<1>2. DOMAIN t = 1..Len(list) /\ DOMAIN list = 1..Len(list) /\ Len(list) \in Nat
  BY <1>1, LenProperties
<1>3. ASSUME NEW i \in 1..Len(list) PROVE \E k \in 1..Len(list) : t[k] = list[i]
  <2>1. j \in 1..Len(list) /\ j - 1 \in 1..Len(list) /\ j # j - 1
    BY <1>2
  <2>2. t[j - 1] = list[j] /\ t[j] = list[j - 1]
    BY <1>1, <2>1
  <2>3. i # j /\ i # j - 1 => t[i] = list[i]
    BY <1>1
  <2> QED
    BY <2>1, <2>2, <2>3
<1>4. ASSUME NEW n \in Named(list) PROVE n \in Named(t)
  <2>1. PICK i \in 1..Len(list) : n = list[i].torrent
    BY <1>2 DEF Named
  <2>2. PICK k \in 1..Len(list) : t[k] = list[i]
    BY <1>3
  <2>3. k \in DOMAIN t /\ n = t[k].torrent
    BY <1>2, <2>1, <2>2
  <2> QED
    BY <2>3 DEF Named
<1> QED
  BY <1>4 DEF t

LEMMA NamedIsSaved ==
  ASSUME NEW list \in Seq(Job), Save(list)
  PROVE  ToSet(settings') = Named(list)
<1>1. settings' = TorrentsOf(list)
  BY DEF Save, TorrentsOf
<1>2. DOMAIN settings' = DOMAIN list /\ \A i \in DOMAIN list : settings'[i] = list[i].torrent
  BY <1>1 DEF TorrentsOf
<1> QED
  BY <1>2 DEF ToSet, Named

\* While the settings are loaded without a box they are not saved, and what the loop has gone
\* through is a job or has failed; afterwards that holds of all that was saved.
SavedInv ==
  interrupted \/
    /\ loadIndex > 0 => /\ boxes = <<>> /\ loadSize = Len(settings) /\ previous \subseteq ToSet(settings)
                        /\ \A i \in 1..(loadIndex - 1) : settings[i] \in Named(jobs) \cup gone
    /\ loadIndex = 0 => previous \subseteq Named(jobs) \cup gone
    /\ previous \subseteq ToSet(settings) \cup gone

LEMMA SavedOfLoad ==
  ASSUME TypeOK, SavedInv, LoadNext
  PROVE  SavedInv'
<1> DEFINE opens == loadIndex <= Len(settings) /\ Addable(settings[loadIndex])
<1>1. loadIndex > 0 /\ boxes = <<>> /\ UNCHANGED <<loadSize, previous, gone>> /\ loadIndex' = NextIndex
  BY DEF LoadNext, Loading
<1>2. CASE ~opens
  BY <1>2 DEF LoadNext, SavedInv
<1>3. CASE opens /\ ~interrupted
  <2>1. loadIndex \in 1..Len(settings) /\ settings \in Seq(Torrents) /\ loadSize = Len(settings)
    BY <1>1, <1>3, LenProperties DEF TypeOK, SavedInv
  <2>2. settings[loadIndex] \in Torrents
    BY <2>1, ElementOfSeq
  <2>3. AddJob(settings[loadIndex]) /\ UNCHANGED <<boxes, settings, interrupted>>
    BY <1>3 DEF LoadNext
  <2> DEFINE t == settings[loadIndex]
  <2>4. PICK c \in Clients : [client |-> c, torrent |-> t] \in Job /\ jobs' = Append(jobs, [client |-> c, torrent |-> t])
    BY <2>2, <2>3, AddJobFacts
  <2> DEFINE job == [client |-> c, torrent |-> t]
  <2>5. job.torrent = t
    OBVIOUS
  <2> HIDE DEF job
  <2>6. Named(jobs') = Named(jobs) \cup {t}
    BY <2>4, <2>5, NamedAfterAppend DEF TypeOK, job
  <2> HIDE DEF t
  <2>7. \A i \in 1..loadIndex : settings[i] \in Named(jobs') \cup gone
    <3>1. \A i \in 1..(loadIndex - 1) : settings[i] \in Named(jobs) \cup gone
      BY <1>1, <1>3 DEF SavedInv
    <3>2. \A i \in 1..loadIndex : i = loadIndex \/ i \in 1..(loadIndex - 1)
      BY <2>1
    <3> QED
      BY <2>6, <3>1, <3>2 DEF t
  <2>8. previous \subseteq ToSet(settings)
    BY <1>1, <1>3 DEF SavedInv
  <2>9. CASE loadIndex < loadSize
    <3>1. loadIndex' = loadIndex + 1 /\ loadIndex' > 0 /\ loadIndex' # 0 /\ loadIndex' - 1 = loadIndex
      BY <1>1, <2>1, <2>9 DEF NextIndex, TypeOK
    <3> QED
      BY <1>1, <2>1, <2>3, <2>7, <2>8, <3>1 DEF SavedInv
  <2>10. CASE ~(loadIndex < loadSize)
    <3>1. loadIndex' = 0 /\ loadIndex = Len(settings)
      BY <1>1, <2>1, <2>10, LenProperties DEF NextIndex, TypeOK
    <3>2. DOMAIN settings = 1..loadIndex
      BY <2>1, <3>1, LenProperties
    <3>3. previous \subseteq Named(jobs') \cup gone
      BY <2>7, <2>8, <3>2 DEF ToSet
    <3> QED
      BY <1>1, <2>3, <2>8, <3>1, <3>3 DEF SavedInv
  <2> QED
    BY <2>9, <2>10
<1>4. CASE opens /\ interrupted
  BY <1>4 DEF LoadNext, SavedInv
<1> QED
  BY <1>2, <1>3, <1>4

\* Without the loop: the jobs still hold what they must, and what is saved is what they hold.
LEMMA SavedOutside ==
  ASSUME TypeOK, SavedInv, loadIndex = 0, loadIndex' = 0, interrupted => interrupted', previous' = previous,
         previous \cap (Named(jobs) \cup gone) \subseteq Named(jobs') \cup gone', gone \subseteq gone',
         settings' = settings \/ ToSet(settings') = Named(jobs')
  PROVE  SavedInv'
<1>1. CASE interrupted
  BY <1>1 DEF SavedInv
<1>2. CASE ~interrupted
  <2>1. previous \subseteq Named(jobs) \cup gone /\ previous \subseteq ToSet(settings) \cup gone
    BY <1>2 DEF SavedInv
  <2>2. previous \subseteq Named(jobs') \cup gone'
    BY <2>1
  <2>3. previous \subseteq ToSet(settings') \cup gone'
    BY <2>1, <2>2
  <2> QED
    BY <2>2, <2>3 DEF SavedInv
<1> QED
  BY <1>1, <1>2

LEMMA SavedOfAdd ==
  ASSUME TypeOK, SavedInv, NEW t \in Torrents, NEW from \in {"menu", "drop"}, UserAdds(t, from)
  PROVE  SavedInv'
<1>1. loadIndex = 0 /\ loadIndex' = 0 /\ UNCHANGED <<interrupted, previous, gone>>
  BY DEF UserAdds, Free, Loading, loadVars, history, TypeOK
<1>2. CASE Addable(t)
  <2>1. AddJob(t)
    BY <1>2 DEF UserAdds
  <2>2. PICK c \in Clients : [client |-> c, torrent |-> t] \in Job /\ jobs' = Append(jobs, [client |-> c, torrent |-> t])
    BY <2>1, AddJobFacts
  <2>3. Named(jobs) \subseteq Named(jobs')
    BY <2>2, NamedAfterAppend DEF TypeOK
  <2>4. jobs' \in Seq(Job)
    BY <2>1, AddJobTypes
  <2>5. settings' = settings \/ Save(jobs')
    BY <1>2 DEF UserAdds
  <2>6. settings' = settings \/ ToSet(settings') = Named(jobs')
    BY <2>4, <2>5, NamedIsSaved
  <2> QED
    BY <1>1, <2>3, <2>6, SavedOutside
<1>3. CASE ~Addable(t)
  <2>1. jobs' = jobs /\ settings' = settings
    BY <1>3 DEF UserAdds, listVars, saveVars
  <2> QED
    BY <1>1, <2>1, SavedOutside
<1> QED
  BY <1>2, <1>3

LEMMA SavedOfRemove ==
  ASSUME TypeOK, SavedInv, NEW row \in Nat, RemoveTorrent(row) \/ MoveTorrent(row)
  PROVE  SavedInv'
<1>1. loadIndex = 0 /\ loadIndex' = 0 /\ UNCHANGED <<interrupted, previous>> /\ row \in 1..Len(jobs)
  BY LenProperties DEF RemoveTorrent, MoveTorrent, Free, Loading, loadVars, history, TypeOK
<1>2. CASE RemoveTorrent(row)
  <2>1. /\ jobs' = RemoveAt(jobs, row) /\ Save(jobs')
        /\ gone' = gone \cup ({jobs[row].torrent} \cap previous)
    BY <1>2 DEF RemoveTorrent
  <2>2. Named(jobs) \subseteq Named(jobs') \cup {jobs[row].torrent}
    BY <1>1, <2>1, NamedAfterRemove DEF TypeOK
  <2>3. ToSet(settings') = Named(jobs')
    BY <1>1, <2>1, RemoveAtPoints, NamedIsSaved DEF TypeOK
  <2>4. previous \cap (Named(jobs) \cup gone) \subseteq Named(jobs') \cup gone'
    BY <2>1, <2>2
  <2>5. gone \subseteq gone'
    BY <2>1
  <2> QED
    BY <1>1, <2>3, <2>4, <2>5, SavedOutside
<1>3. CASE MoveTorrent(row)
  <2>1. row \in 2..Len(jobs)
    BY <1>1, <1>3 DEF MoveTorrent
  <2>2. jobs' = Swap(jobs, row - 1, row) /\ settings' = settings /\ gone' = gone
    BY <1>3 DEF MoveTorrent, saveVars, history
  <2>3. Named(jobs) \subseteq Named(jobs')
    BY <2>1, <2>2, NamedAfterSwap DEF TypeOK
  <2> QED
    BY <1>1, <2>2, <2>3, SavedOutside
<1> QED
  BY <1>2, <1>3

LEMMA SavedOfError ==
  ASSUME TypeOK, SavedInv, NEW c \in Clients, TorrentError(c)
  PROVE  SavedInv'
<1> DEFINE row == Row(clients, c)
<1>1. row \in 1..Len(jobs)
  BY RowFacts DEF TorrentError
<1>2. /\ jobs' = RemoveAt(jobs, row) /\ settings' = settings /\ previous' = previous /\ loadIndex' = loadIndex
      /\ gone' = gone \cup ({jobs[row].torrent} \cap previous)
      /\ interrupted' = (interrupted \/ Loading)
  BY DEF TorrentError, saveVars, loadVars
<1> HIDE DEF row
<1>3. CASE loadIndex > 0
  BY <1>2, <1>3 DEF SavedInv, Loading
<1>4. CASE loadIndex = 0
  <2>1. interrupted => interrupted'
    BY <1>2
  <2>2. Named(jobs) \subseteq Named(jobs') \cup {jobs[row].torrent}
    BY <1>1, <1>2, NamedAfterRemove DEF TypeOK
  <2>3. previous \cap (Named(jobs) \cup gone) \subseteq Named(jobs') \cup gone' /\ gone \subseteq gone'
    BY <1>2, <2>2
  <2> QED
    BY <1>2, <1>4, <2>1, <2>3, SavedOutside
<1> QED
  BY <1>3, <1>4 DEF TypeOK

LEMMA SavedOfClose ==
  ASSUME TypeOK, SavedInv, CloseBox
  PROVE  SavedInv'
<1>1. /\ boxes # <<>> /\ jobs' = jobs /\ UNCHANGED <<loadIndex, interrupted, previous, gone>>
  BY LastBox DEF CloseBox, listVars, loadVars, history
<1>2. settings' = settings \/ Save(jobs)
  BY LastBox DEF CloseBox, saveVars
<1>3. settings' = settings \/ ToSet(settings') = Named(jobs')
  BY <1>1, <1>2, NamedIsSaved DEF TypeOK
<1>4. CASE loadIndex > 0
  BY <1>1, <1>4 DEF SavedInv
<1>5. CASE loadIndex = 0
  BY <1>1, <1>3, <1>5, SavedOutside
<1> QED
  BY <1>4, <1>5 DEF TypeOK

LEMMA SavedOfTimer ==
  ASSUME TypeOK, SavedInv, SaveTimer
  PROVE  SavedInv'
<1>1. UNCHANGED <<jobs, boxes, loadIndex, interrupted, previous, gone>> /\ (boxes = <<>> => ~Loading)
  BY DEF SaveTimer, Idle, loadVars, history
<1>2. settings' = settings \/ Save(jobs)
  BY DEF SaveTimer
<1>3. settings' = settings \/ ToSet(settings') = Named(jobs')
  BY <1>1, <1>2, NamedIsSaved DEF TypeOK
<1>4. CASE loadIndex > 0
  BY <1>1, <1>4 DEF SavedInv, Loading
<1>5. CASE loadIndex = 0
  BY <1>1, <1>3, <1>5, SavedOutside
<1> QED
  BY <1>4, <1>5 DEF TypeOK

LEMMA SavedOfRestart ==
  ASSUME TypeOK, SavedInv, Restart
  PROVE  SavedInv'
<1>1. /\ boxes' = <<>> /\ loadSize' = Len(settings') /\ settings' = settings
      /\ previous' = ToSet(settings') /\ loadIndex' = IF settings = <<>> THEN 0 ELSE 1
  BY DEF Restart
<1>2. loadIndex' = 0 => previous' = {}
  BY <1>1 DEF ToSet
<1>3. loadIndex' > 0 => \A i \in 1..(loadIndex' - 1) : FALSE
  BY <1>1
<1> QED
  BY <1>1, <1>2, <1>3 DEF SavedInv

LEMMA SavedStep ==
  ASSUME TypeOK, SavedInv, [Next]_vars
  PROVE  SavedInv'
<1>1. CASE UNCHANGED <<jobs, boxes, settings, loadIndex, loadSize, interrupted, previous, gone>>
  BY <1>1 DEF SavedInv
<1>2. CASE UNCHANGED vars
  BY <1>1, <1>2 DEF vars, listVars, saveVars, loadVars, history
<1>3. CASE RateChanges
  BY <1>1, <1>3 DEF RateChanges, listVars, loadVars, history
<1>4. ASSUME NEW c \in Clients, TorrentStopped(c) \/ Downloads(c)
      PROVE  SavedInv'
  BY <1>1, <1>4 DEF TorrentStopped, Downloads, saveVars, loadVars, history
<1>5. ASSUME NEW row \in Nat, RemoveTorrent(row) \/ MoveTorrent(row)
      PROVE  SavedInv'
  BY <1>5, SavedOfRemove
<1>6. CASE Next
  BY <1>3, <1>4, <1>5, <1>6, SavedOfLoad, SavedOfAdd, SavedOfError, SavedOfClose, SavedOfTimer,
     SavedOfRestart DEF Next
<1> QED
  BY <1>2, <1>6

\* A torrent that was saved when the program started stays saved until the user removes it or
\* it fails, unless a box has been open while the list was loaded.
THEOREM SavedStays == Spec => []SavedIsKept
<1> DEFINE Inv == TypeOK /\ SavedInv
<1>1. Init => Inv
  <2>1. Init => loadIndex = 0 /\ previous = {}
    BY DEF Init, Fresh, ToSet
  <2> QED
    BY <2>1, TypesInit DEF SavedInv
<1>2. Inv /\ [Next]_vars => Inv'
  BY TypesStep, SavedStep
<1>3. Inv => SavedIsKept
  BY DEF SavedInv, SavedIsKept
<1> QED
  BY <1>1, <1>2, <1>3, PTL DEF Spec
=============================================================================
