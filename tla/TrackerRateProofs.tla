----------------------- MODULE TrackerRateProofs -----------------------
(***************************************************************************)
(* Theorems about two parts that share nothing: TrackerClient, whose names *)
(* begin with TC where both models have them, and RateController.          *)
(* Of the tracker: what is announced, and when the list may delete a       *)
(* torrent, whatever the order of the user's clicks, of verdicts and of    *)
(* the tracker's answers.                                                  *)
(* Of the bandwidth: for any number of connections, limits and width of    *)
(* int the limits are kept, and while data waits a transfer is on its way. *)
(***************************************************************************)
EXTENDS TrackerClient, RateController, FiniteSetTheorems, TLAPS

-----------------------------------------------------------------------------
(* Announces *)

\* What fetchPeerList leaves behind.
LEMMA FetchTypes ==
  ASSUME TCTypeOK, NEW st \in States, NEW firstSeed \in BOOLEAN, NEW last \in BOOLEAN,
         NEW queue \in Seq(Events), FetchPeerList(st, firstSeed, last, queue)
  PROVE  /\ requests' \in Seq(Events) /\ said' \in [Events -> 0..2]
         /\ firstSeeding' \in BOOLEAN /\ firstTrackerRequest' \in BOOLEAN
         /\ keptAlive' \in BOOLEAN
<1> DEFINE event == EventFor(st = "Seeding", firstTrackerRequest, firstSeed, last)
<1>1. event \in Events
  BY DEF EventFor, Events
<1>2. requests' \in Seq(Events)
  BY <1>1 DEF FetchPeerList
<1>3. said' \in [Events -> 0..2]
  BY <1>1 DEF FetchPeerList, TCTypeOK
<1>4. firstSeeding' \in BOOLEAN /\ firstTrackerRequest' \in BOOLEAN /\ keptAlive' \in BOOLEAN
  BY DEF FetchPeerList, TCTypeOK, NotedFirst
<1> QED
  BY <1>2, <1>3, <1>4

LEMMA EmitTypes ==
  ASSUME TCTypeOK, EmitStopped
  PROVE  stopped' \in 0..MaxStopped /\ owner' \in {"has", "doomed", "gone"}
BY MaxStoppedAssumption DEF EmitStopped, TCTypeOK

LEMMA TCTypeInit == TCInit => TCTypeOK
<1> SUFFICES ASSUME TCInit PROVE TCTypeOK
  OBVIOUS
<1>1. requests \in Seq(Events) /\ said \in [Events -> 0..2] /\ stopped \in 0..MaxStopped
  BY MaxStoppedAssumption DEF TCInit
<1>2. state \in States /\ progress \in {"none", "some", "all"} /\ owner \in {"has", "doomed", "gone"}
  BY DEF TCInit, States
<1> QED
  BY <1>1, <1>2 DEF TCInit, TCTypeOK

LEMMA TypeOfClient ==
  ASSUME TCTypeOK,
         VerificationDone \/ FirstPieceVerified \/ BlockReceived \/ Pause \/ Resume
           \/ FileError \/ TrackerHangsUp \/ Delete
  PROVE  TCTypeOK'
BY DEF TCTypeOK, VerificationDone, FirstPieceVerified, BlockReceived, Pause, Resume, FileError,
       TrackerHangsUp, Delete, tcClientVars, tcFlagVars, tcHttpVars, tcHistoryVars, States

LEMMA TypeOfFetches ==
  ASSUME TCTypeOK, FirstFetch \/ LastPieceVerified \/ IntervalElapsed
  PROVE  TCTypeOK'
<1>1. CASE FirstFetch
  <2>1. FetchPeerList(state, firstSeeding, lastTrackerRequest, requests)
    BY <1>1 DEF FirstFetch
  <2> QED
    BY <1>1, <2>1, FetchTypes DEF FirstFetch, TCTypeOK, tcClientVars, tcHistoryVars
<1>2. CASE LastPieceVerified
  <2>1. CASE state # "Seeding"
    <3>1. FetchPeerList("Seeding", TRUE, lastTrackerRequest, requests)
      BY <1>2, <2>1 DEF LastPieceVerified
    <3> QED
      BY <1>2, <2>1, <3>1, FetchTypes DEF LastPieceVerified, TCTypeOK, tcHistoryVars, States
  <2> QED
    BY <1>2, <2>1 DEF LastPieceVerified, TCTypeOK, tcHistoryVars
<1>3. CASE IntervalElapsed
  <2>1. FetchPeerList(state, firstSeeding, lastTrackerRequest, requests)
    BY <1>3 DEF IntervalElapsed
  <2> QED
    BY <1>3, <2>1, FetchTypes DEF IntervalElapsed, TCTypeOK, tcClientVars, tcHistoryVars
<1> QED
  BY <1>1, <1>2, <1>3

LEMMA TypeOfAnswers ==
  ASSUME TCTypeOK, RequestDone \/ RequestFailed
  PROVE  TCTypeOK'
<1>1. CASE RequestDone
  <2>1. requests' \in Seq(Events)
    BY <1>1 DEF RequestDone, TCTypeOK, CanAnswer
  <2>2. stopped' \in 0..MaxStopped /\ owner' \in {"has", "doomed", "gone"}
    BY <1>1, EmitTypes DEF RequestDone, TCTypeOK
  <2>3. timer' \in BOOLEAN /\ unanswered' \in BOOLEAN /\ keptAlive' \in BOOLEAN
    BY <1>1 DEF RequestDone, TCTypeOK, TimerAfter
  <2> QED
    BY <1>1, <2>1, <2>2, <2>3 DEF RequestDone, TCTypeOK
<1>2. CASE RequestFailed
  <2>1. stopped' \in 0..MaxStopped /\ owner' \in {"has", "doomed", "gone"}
    BY <1>2, EmitTypes DEF RequestFailed, TCTypeOK
  <2>2. unanswered' \in BOOLEAN
    BY <1>2 DEF RequestFailed, TCTypeOK
  <2>3. requests' \in Seq(Events)
    BY <1>2 DEF RequestFailed
  <2>4. heard' \in BOOLEAN /\ keptAlive' \in BOOLEAN
    BY <1>2 DEF RequestFailed, TCTypeOK
  <2> QED
    BY <1>2, <2>1, <2>2, <2>3, <2>4 DEF RequestFailed, TCTypeOK, tcFlagVars
<1> QED
  BY <1>1, <1>2

LEMMA TypeOfStop ==
  ASSUME TCTypeOK, Stop
  PROVE  TCTypeOK'
<1>1. CASE state \in Running
  <2>1. FetchPeerList("Stopping", firstSeeding, TRUE, <<>>)
    BY <1>1 DEF Stop
  <2>2. stopped' \in 0..MaxStopped /\ owner' \in {"has", "doomed", "gone"}
    BY <1>1, EmitTypes DEF Stop, TCTypeOK
  <2>3. interrupted' \in BOOLEAN /\ lastTrackerRequest' \in BOOLEAN /\ state' \in States
    BY <1>1 DEF Stop, States
  <2>4. <<>> \in Seq(Events)
    OBVIOUS
  <2>5. "Stopping" \in States
    BY DEF States
  <2> QED
    BY <1>1, <2>1, <2>2, <2>3, <2>4, <2>5, FetchTypes DEF Stop, TCTypeOK
<1>2. CASE state \notin Running
  <2>1. stopped' \in 0..MaxStopped /\ owner' \in {"has", "doomed", "gone"}
    BY <1>2, EmitTypes DEF Stop, TCTypeOK
  <2> QED
    BY <1>2, <2>1 DEF Stop, TCTypeOK, States
<1> QED
  BY <1>1, <1>2

LEMMA TCTypeStep == TCTypeOK /\ [TCNext]_tcVars => TCTypeOK'
<1> SUFFICES ASSUME TCTypeOK, [TCNext]_tcVars PROVE TCTypeOK'
  OBVIOUS
<1>1. CASE UNCHANGED tcVars
  BY <1>1 DEF tcVars, tcClientVars, tcFlagVars, tcHttpVars, tcHistoryVars, TCTypeOK
<1>2. CASE TCNext
  BY <1>2, TypeOfClient, TypeOfFetches, TypeOfAnswers, TypeOfStop DEF TCNext
<1> QED
  BY <1>1, <1>2

\* The types of the variables, for every bound on the counter of stopped().
THEOREM AnnounceTypesHold == TCSpec => []TCTypeOK
BY TCTypeInit, TCTypeStep, PTL DEF TCSpec
-----------------------------------------------------------------------------
\* "started" is outstanding as long as firstTrackerRequest says so; "completed" has been
\* said only by a torrent that has all pieces, and it has every piece when it is Seeding.
AnnouncedOnce ==
  /\ firstTrackerRequest => said["started"] = 0
  /\ said["started"] <= 1
  /\ firstSeeding \/ progress # "all" => said["completed"] = 0
  /\ said["completed"] <= 1
  /\ state = "Seeding" => progress = "all"

\* Until the files are verified the torrent is Preparing or given up, and afterwards the
\* first fetch is posted or done; a torrent that was complete by then is noted.
\* The stop's own fetch leaves no start outstanding.
StopIsSaid ==
  /\ verifying => ~lastTrackerRequest /\ ~fetchPosted /\ (owner = "has" => state = "Preparing")
  /\ firstTrackerRequest => verifying \/ fetchPosted \/ foundComplete
  /\ fetchPosted /\ progress = "all" => foundComplete
  /\ lastTrackerRequest => ~firstTrackerRequest
  /\ SaysStopped

\* The list gives up a torrent it has stopped when its last request ends, or at once
\* if the stop has aborted one.
GivenUpLate == owner # "has" /\ lastTrackerRequest => heard \/ interrupted

IInv == TCTypeOK /\ AnnouncedOnce /\ StopIsSaid /\ GivenUpLate

LEMMA IInvInit == TCInit => IInv
<1> SUFFICES ASSUME TCInit PROVE IInv
  OBVIOUS
<1>1. TCTypeOK
  BY TCTypeInit
<1>2. said["started"] = 0 /\ said["completed"] = 0
  BY DEF TCInit, Events
<1> QED
  BY <1>1, <1>2 DEF IInv, TCInit, AnnouncedOnce, StopIsSaid, GivenUpLate, SaysStopped

\* The event that is chosen, and what is noted of it.
LEMMA FetchSays ==
  ASSUME TCTypeOK, NEW st \in States, NEW firstSeed \in BOOLEAN, NEW last \in BOOLEAN,
         NEW queue, FetchPeerList(st, firstSeed, last, queue)
  PROVE  \E event \in Events :
           /\ event = EventFor(st = "Seeding", firstTrackerRequest, firstSeed, last)
           /\ said'[event] = IF event = "none" \/ said[event] = 2 THEN said[event] ELSE said[event] + 1
           /\ \A e \in Events \ {event} : said'[e] = said[e]
           /\ firstSeeding' <=> firstSeed /\ event # "completed"
           /\ firstTrackerRequest' <=> firstTrackerRequest /\ event # "started"
<1> DEFINE event == EventFor(st = "Seeding", firstTrackerRequest, firstSeed, last)
<1>1. event \in Events
  BY DEF EventFor, Events
<1>2. said' = [said EXCEPT ![event] = IF event = "none" \/ @ = 2 THEN @ ELSE @ + 1]
  BY DEF FetchPeerList
<1>3. /\ said'[event] = IF event = "none" \/ said[event] = 2 THEN said[event] ELSE said[event] + 1
      /\ \A e \in Events \ {event} : said'[e] = said[e]
  BY <1>1, <1>2 DEF TCTypeOK
<1>4. /\ firstSeeding' <=> firstSeed /\ event # "completed"
      /\ firstTrackerRequest' <=> firstTrackerRequest /\ event # "started"
  BY DEF FetchPeerList, NotedFirst
<1> QED
  BY <1>1, <1>3, <1>4

\* The same, event by event.
LEMMA FetchCases ==
  ASSUME TCTypeOK, NEW st \in States, NEW firstSeed \in BOOLEAN, NEW last \in BOOLEAN,
         NEW queue, FetchPeerList(st, firstSeed, last, queue)
  PROVE  /\ st = "Seeding" /\ firstSeed
              => /\ said["completed"] = 0 => said'["completed"] = 1
                 /\ said'["started"] = said["started"] /\ said'["stopped"] = said["stopped"]
                 /\ ~firstSeeding' /\ (firstTrackerRequest' <=> firstTrackerRequest)
         /\ ~(st = "Seeding" /\ firstSeed)
              => /\ said'["completed"] = said["completed"] /\ (firstSeeding' <=> firstSeed)
                 /\ ~firstTrackerRequest'
                 /\ firstTrackerRequest
                      => /\ said["started"] = 0 => said'["started"] = 1
                         /\ said'["stopped"] = said["stopped"]
                 /\ ~firstTrackerRequest => said'["started"] = said["started"]
                 /\ ~firstTrackerRequest /\ last => said'["stopped"] > 0
                 /\ ~firstTrackerRequest /\ ~last => said'["stopped"] = said["stopped"]
<1>1. PICK event \in Events :
           /\ event = EventFor(st = "Seeding", firstTrackerRequest, firstSeed, last)
           /\ said'[event] = IF event = "none" \/ said[event] = 2 THEN said[event] ELSE said[event] + 1
           /\ \A e \in Events \ {event} : said'[e] = said[e]
           /\ firstSeeding' <=> firstSeed /\ event # "completed"
           /\ firstTrackerRequest' <=> firstTrackerRequest /\ event # "started"
  BY FetchSays
<1>2. \A e \in Events : said[e] \in 0..2
  BY DEF TCTypeOK
<1>3. firstTrackerRequest \in BOOLEAN
  BY DEF TCTypeOK
<1>4. "started" \in Events /\ "completed" \in Events /\ "stopped" \in Events
  BY DEF Events
<1>5. CASE st = "Seeding" /\ firstSeed
  <2>1. event = "completed"
    BY <1>1, <1>5 DEF EventFor
  <2>2. /\ said'["started"] = said["started"] /\ said'["stopped"] = said["stopped"]
        /\ said'["completed"] = IF said["completed"] = 2 THEN said["completed"] ELSE said["completed"] + 1
    BY <1>1, <1>4, <2>1
  <2>3. ~firstSeeding' /\ (firstTrackerRequest' <=> firstTrackerRequest)
    BY <1>1, <2>1
  <2> QED
    BY <1>5, <2>2, <2>3
<1>6. CASE ~(st = "Seeding" /\ firstSeed) /\ firstTrackerRequest
  <2>1. event = "started"
    BY <1>1, <1>6 DEF EventFor
  <2>2. /\ said'["completed"] = said["completed"] /\ said'["stopped"] = said["stopped"]
        /\ said'["started"] = IF said["started"] = 2 THEN said["started"] ELSE said["started"] + 1
    BY <1>1, <1>4, <2>1
  <2>3. (firstSeeding' <=> firstSeed) /\ ~firstTrackerRequest'
    BY <1>1, <2>1
  <2> QED
    BY <1>6, <2>2, <2>3
<1>7. CASE ~(st = "Seeding" /\ firstSeed) /\ ~firstTrackerRequest /\ last
  <2>1. event = "stopped"
    BY <1>1, <1>7 DEF EventFor
  <2>2. /\ said'["completed"] = said["completed"] /\ said'["started"] = said["started"]
        /\ said'["stopped"] = IF said["stopped"] = 2 THEN said["stopped"] ELSE said["stopped"] + 1
    BY <1>1, <1>4, <2>1
  <2>3. said'["stopped"] > 0
    BY <1>2, <1>4, <2>2
  <2>4. (firstSeeding' <=> firstSeed) /\ ~firstTrackerRequest'
    BY <1>1, <1>7, <2>1
  <2> QED
    BY <1>7, <2>2, <2>3, <2>4
<1>8. CASE ~(st = "Seeding" /\ firstSeed) /\ ~firstTrackerRequest /\ ~last
  <2>1. event = "none"
    BY <1>1, <1>8 DEF EventFor
  <2>2. /\ said'["completed"] = said["completed"] /\ said'["started"] = said["started"]
        /\ said'["stopped"] = said["stopped"]
    BY <1>1, <1>4, <2>1
  <2>3. (firstSeeding' <=> firstSeed) /\ ~firstTrackerRequest'
    BY <1>1, <1>8, <2>1
  <2> QED
    BY <1>8, <2>2, <2>3
<1> QED
  BY <1>3, <1>5, <1>6, <1>7, <1>8

LEMMA InvOfClient ==
  ASSUME IInv,
         VerificationDone \/ FirstPieceVerified \/ BlockReceived \/ Pause \/ Resume
           \/ FileError \/ TrackerHangsUp \/ Delete
  PROVE  AnnouncedOnce' /\ StopIsSaid' /\ GivenUpLate'
BY DEF IInv, AnnouncedOnce, StopIsSaid, GivenUpLate, SaysStopped, TCTypeOK,
       VerificationDone, FirstPieceVerified, BlockReceived, Pause, Resume, FileError,
       TrackerHangsUp, Delete, tcClientVars, tcFlagVars, tcHttpVars, tcHistoryVars,
       Running, Listed, CanVerify, Exists

LEMMA InvOfAnswers ==
  ASSUME IInv, RequestDone \/ RequestFailed
  PROVE  AnnouncedOnce' /\ StopIsSaid' /\ GivenUpLate'
<1>1. /\ heard' = (heard \/ lastTrackerRequest)
      /\ owner' # "has" => owner # "has" \/ heard'
      /\ owner # "has" => owner' # "has"
      /\ UNCHANGED <<state, verifying, progress, foundComplete, fetchPosted, firstTrackerRequest,
                     lastTrackerRequest, firstSeeding, said, interrupted>>
  BY DEF RequestDone, RequestFailed, EmitStopped, LastAnswered, tcFlagVars
<1> QED
  BY <1>1 DEF IInv, AnnouncedOnce, StopIsSaid, GivenUpLate, SaysStopped

LEMMA InvOfFetches ==
  ASSUME IInv, FirstFetch \/ IntervalElapsed
  PROVE  AnnouncedOnce' /\ StopIsSaid' /\ GivenUpLate'
<1>1. FetchPeerList(state, firstSeeding, lastTrackerRequest, requests)
  BY DEF FirstFetch, IntervalElapsed
<1>2. UNCHANGED <<state, verifying, progress, owner, foundComplete, lastTrackerRequest, heard, interrupted>>
  BY DEF FirstFetch, IntervalElapsed, tcClientVars, tcHistoryVars
<1>3. (fetchPosted /\ ~fetchPosted') \/ fetchPosted' = fetchPosted
  BY DEF FirstFetch, IntervalElapsed
<1>0. TCTypeOK /\ state \in States /\ firstSeeding \in BOOLEAN /\ lastTrackerRequest \in BOOLEAN
      /\ requests \in Seq(Events)
  BY DEF IInv, TCTypeOK
<1>4. AnnouncedOnce'
  BY <1>0, <1>1, <1>2, FetchCases DEF IInv, AnnouncedOnce
<1>5. StopIsSaid'
  BY <1>0, <1>1, <1>2, <1>3, FetchCases DEF IInv, StopIsSaid, SaysStopped, AnnouncedOnce
<1>6. GivenUpLate'
  BY <1>2 DEF IInv, GivenUpLate
<1> QED
  BY <1>4, <1>5, <1>6

LEMMA InvOfLastPiece ==
  ASSUME IInv, LastPieceVerified
  PROVE  AnnouncedOnce' /\ StopIsSaid' /\ GivenUpLate'
<1>1. CASE state = "Seeding"
  BY <1>1 DEF IInv, AnnouncedOnce, LastPieceVerified
<1>2. CASE state # "Seeding"
  <2>1. FetchPeerList("Seeding", TRUE, lastTrackerRequest, requests)
    BY <1>2 DEF LastPieceVerified
  <2>2. "Seeding" \in States
    BY DEF States
  <2>3. /\ said["completed"] = 0 => said'["completed"] = 1
        /\ said'["started"] = said["started"] /\ said'["stopped"] = said["stopped"]
        /\ ~firstSeeding' /\ (firstTrackerRequest' <=> firstTrackerRequest)
    BY <2>1, <2>2, FetchCases DEF IInv, TCTypeOK
  <2>4. ~verifying /\ ~fetchPosted /\ progress # "all"
    BY DEF LastPieceVerified, CanVerify
  <2> QED
    BY <1>2, <2>3, <2>4
    DEF IInv, AnnouncedOnce, StopIsSaid, GivenUpLate, SaysStopped, LastPieceVerified, tcHistoryVars
<1> QED
  BY <1>1, <1>2

LEMMA InvOfStop ==
  ASSUME IInv, Stop
  PROVE  AnnouncedOnce' /\ StopIsSaid' /\ GivenUpLate'
<1>1. CASE state \in Running
  <2>1. FetchPeerList("Stopping", firstSeeding, TRUE, <<>>)
    BY <1>1 DEF Stop
  <2>2. "Stopping" \in States /\ TCTypeOK
    BY DEF States, IInv
  <2>3. /\ said'["completed"] = said["completed"] /\ (firstSeeding' <=> firstSeeding)
        /\ ~firstTrackerRequest'
        /\ firstTrackerRequest
             => /\ said["started"] = 0 => said'["started"] = 1
                /\ said'["stopped"] = said["stopped"]
        /\ ~firstTrackerRequest => said'["started"] = said["started"] /\ said'["stopped"] > 0
    BY <2>1, <2>2, FetchCases DEF TCTypeOK
  <2>4. ~verifying
    BY <1>1 DEF Stop, Listed, IInv, StopIsSaid, Running
  <2>5. owner' # "has" => interrupted'
    BY <1>1 DEF Stop, Listed, AnswersStop
  <2> QED
    BY <1>1, <2>3, <2>4, <2>5
    DEF IInv, AnnouncedOnce, StopIsSaid, GivenUpLate, SaysStopped, Stop
<1>2. CASE state \notin Running
  BY <1>2 DEF IInv, AnnouncedOnce, StopIsSaid, GivenUpLate, SaysStopped, Stop, Listed, EmitStopped
<1> QED
  BY <1>1, <1>2

LEMMA IInvStep == IInv /\ [TCNext]_tcVars => IInv'
<1> SUFFICES ASSUME IInv, [TCNext]_tcVars PROVE IInv'
  OBVIOUS
<1>1. TCTypeOK'
  BY TCTypeStep DEF IInv
<1>2. CASE UNCHANGED tcVars
  BY <1>1, <1>2 DEF tcVars, tcClientVars, tcFlagVars, tcHttpVars, tcHistoryVars, IInv, AnnouncedOnce,
                    StopIsSaid, GivenUpLate, SaysStopped
<1>3. CASE TCNext
  BY <1>1, <1>3, InvOfClient, InvOfAnswers, InvOfFetches, InvOfLastPiece, InvOfStop DEF TCNext, IInv
<1> QED
  BY <1>2, <1>3

\* The start and the completion are announced at most once each.
THEOREM AnnouncesOnce == TCSpec => []OnceEach
<1>1. IInv => OnceEach
  BY DEF IInv, AnnouncedOnce, OnceEach
<1> QED
  BY <1>1, IInvInit, IInvStep, PTL DEF TCSpec

\* A stopped torrent says so, but for the two cases the property names.
THEOREM StopIsAnnounced == TCSpec => []SaysStopped
<1>1. IInv => SaysStopped
  BY DEF IInv, StopIsSaid
<1> QED
  BY <1>1, IInvInit, IInvStep, PTL DEF TCSpec

\* A torrent that is gone from the list has heard the end of its last request,
\* unless its stop had aborted one.
THEOREM GoodbyeIsHeard == TCSpec => []GoodbyeHeard
<1>1. IInv => GoodbyeHeard
  BY DEF IInv, GivenUpLate, GoodbyeHeard
<1> QED
  BY <1>1, IInvInit, IInvStep, PTL DEF TCSpec

-----------------------------------------------------------------------------
(* Bandwidth *)


LEMMA ProductIsNat ==
  ASSUME NEW a \in Nat, NEW b \in Nat
  PROVE  a * b \in Nat
OBVIOUS

LEMMA ProductGrows ==
  ASSUME NEW a \in Nat, NEW b \in Int, NEW c \in Int, b <= c
  PROVE  b * a <= c * a
OBVIOUS

LEMMA QuotientType ==
  ASSUME NEW x \in Int, NEW y \in Nat \ {0}
  PROVE  /\ Quotient(x, y) \in Int
         /\ x >= 0 => Quotient(x, y) >= 0 /\ Quotient(x, y) * y <= x
         /\ x <= 0 => Quotient(x, y) <= 0
BY DEF Quotient

\* A product that does not fit becomes smaller, never larger.
LEMMA WrappedType ==
  ASSUME NEW x \in Nat
  PROVE  /\ Wrapped(x) \in Int
         /\ Wrapped(x) <= x
         /\ x <= IntMax => Wrapped(x) = x
BY RateAssumption DEF Wrapped

LEMMA BudgetType ==
  ASSUME NEW limit \in Limits, NEW ticks \in 0..Second
  PROVE  /\ Budget(limit, ticks) \in Int
         /\ Budget(limit, ticks) * Second <= limit * ticks
         /\ limit = 0 => Budget(limit, ticks) = 0
         /\ ~Overflows(limit, ticks) => Budget(limit, ticks) >= 0
<1> DEFINE product == limit * ticks
<1>1. limit \in Nat /\ ticks \in Nat /\ Second \in Nat \ {0} /\ Second \in Nat
  BY RateAssumption
<1>2. product \in Nat
  BY <1>1, ProductIsNat
<1>3. limit = 0 => product = 0
  BY <1>1
<1> HIDE DEF product
<1>4. Wrapped(product) \in Int /\ Wrapped(product) <= product /\ (product <= IntMax => Wrapped(product) = product)
  BY <1>2, WrappedType
<1> DEFINE wrapped == Wrapped(product)
           budget == Quotient(wrapped, Second)
<1> HIDE DEF wrapped
<1>5. wrapped \in Int /\ wrapped <= product /\ (product <= IntMax => wrapped = product)
  BY <1>4 DEF wrapped
<1>6. /\ budget \in Int
      /\ wrapped >= 0 => budget >= 0 /\ budget * Second <= wrapped
      /\ wrapped <= 0 => budget <= 0
  BY <1>1, <1>5, QuotientType
<1> HIDE DEF budget
<1>7. budget <= 0 => budget * Second <= 0 * Second
  BY <1>1, <1>6, ProductGrows
<1>8. budget * Second \in Int /\ 0 * Second = 0
  BY <1>1, <1>6
<1>9. budget * Second <= product
  BY <1>2, <1>5, <1>6, <1>7, <1>8
<1>10. Budget(limit, ticks) = budget
  BY DEF Budget, budget, wrapped, product
<1>11. product = 0 => budget = 0
  BY <1>2, <1>5, <1>6, RateAssumption
<1>12. product <= IntMax => budget >= 0
  BY <1>2, <1>5, <1>6, RateAssumption
<1> QED
  BY <1>2, <1>3, <1>6, <1>9, <1>10, <1>11, <1>12, RateAssumption DEF product, Overflows

LEMMA ChunkType ==
  ASSUME NEW budget \in Int, NEW pending \in SUBSET Clients, pending # {}
  PROVE  Chunk(budget, pending) \in Nat /\ Chunk(budget, pending) >= 1
<1>1. IsFiniteSet(pending)
  BY RateAssumption, FS_Subset
<1>2. Cardinality(pending) \in Nat \ {0}
  BY <1>1, FS_CardinalityType, FS_EmptySet
<1>3. Quotient(budget, Cardinality(pending)) \in Int
  BY <1>2, QuotientType
<1> QED
  BY <1>3 DEF Chunk, Most
-----------------------------------------------------------------------------
(* Types *)

LEMMA TypeInit == Init => TypeOK
<1> SUFFICES ASSUME Init PROVE TypeOK
  OBVIOUS
<1>1. available \in [Clients -> 0..MaxData] /\ outgoing \in [Clients -> 0..MaxData]
  BY RateAssumption DEF Init
<1>2. upAllowance \in Int /\ downAllowance \in Int
  BY RateAssumption DEF Init
<1>3. stopWatch \in 0..Second /\ transferScheduled \in {"no", "waiting", "due"}
  BY RateAssumption DEF Init
<1> QED
  <2>1. bytesToWrite \in Int /\ bytesToRead \in Int /\ writeChunk \in Nat /\ readChunk \in Nat
    BY DEF Init
  <2>2. /\ upLimit \in Limits /\ downLimit \in Limits /\ sockets \subseteq Clients /\ open \subseteq Clients
        /\ partial \subseteq Clients /\ pendingSockets \subseteq Clients /\ turns \subseteq Clients
    BY DEF Init
  <2>3. transferring \in BOOLEAN /\ overflowed \in BOOLEAN /\ canTransferMore \in BOOLEAN
    BY DEF Init
  <2> QED
    BY <1>1, <1>2, <1>3, <2>1, <2>2, <2>3 DEF TypeOK

LEMMA TypeOfConnections ==
  ASSUME TypeOK, NEW c \in Clients,
         AddSocket(c) \/ RemoveSocket(c) \/ DeleteSocket(c) \/ PeerSends(c) \/ ClientWrites(c)
  PROVE  TypeOK'
<1> USE DEF TypeOK, limitVars, localVars, clientVars, allowances, Scheduled, scheduleTransfer
<1>1. CASE AddSocket(c) \/ RemoveSocket(c)
  BY <1>1 DEF AddSocket, RemoveSocket
<1>2. CASE DeleteSocket(c)
  BY <1>2, RateAssumption DEF DeleteSocket
<1>3. CASE PeerSends(c)
  BY <1>3, RateAssumption DEF PeerSends
<1>4. CASE ClientWrites(c)
  BY <1>4, RateAssumption DEF ClientWrites
<1> QED
  BY <1>1, <1>2, <1>3, <1>4

LEMMA TypeOfTime ==
  ASSUME TypeOK, Tick \/ \E up, down \in Limits : SetLimits(up, down)
  PROVE  TypeOK'
<1>0. \A limit \in Limits : limit \in Nat /\ limit * Second \in Nat
  BY RateAssumption, ProductIsNat
<1>1. CASE Tick
  <2>1. stopWatch' \in 0..Second /\ transferScheduled' \in {"no", "waiting", "due"}
    BY <1>1, RateAssumption DEF Tick, TypeOK, Least
  <2>2. upAllowance' \in Int /\ downAllowance' \in Int
    BY <1>0, <1>1 DEF Tick, TypeOK, Least
  <2> QED
    BY <1>1, <2>1, <2>2 DEF Tick, TypeOK, limitVars, localVars, clientVars
<1>2. ASSUME NEW up \in Limits, NEW down \in Limits, SetLimits(up, down)
      PROVE  TypeOK'
  BY <1>0, <1>2 DEF SetLimits, TypeOK, localVars, clientVars
<1> QED
  BY <1>1, <1>2

LEMMA TypeOfTransfer ==
  ASSUME TypeOK, TransferNothing \/ BeginTransfer \/ NextRound \/ EndTransfer
  PROVE  TypeOK'
<1>1. CASE TransferNothing
  BY <1>1 DEF TransferNothing, TypeOK, limitVars, localVars, clientVars, allowances
<1>2. CASE BeginTransfer
  <2> DEFINE toWrite == Budget(upLimit, stopWatch)
             toRead  == Budget(downLimit, stopWatch)
             pending == {c \in sockets : HasMore(c)}
  <2>1. toWrite \in Int /\ toRead \in Int
    BY BudgetType DEF TypeOK
  <2>2. pending \in SUBSET Clients /\ pending # {}
    BY <1>2 DEF BeginTransfer, TypeOK
  <2>3. Chunk(toWrite, pending) \in Nat /\ Chunk(toRead, pending) \in Nat
    BY <2>1, <2>2, ChunkType
  <2>4. /\ bytesToWrite' = toWrite /\ bytesToRead' = toRead /\ pendingSockets' = pending
        /\ turns' = pending /\ writeChunk' = Chunk(toWrite, pending) /\ readChunk' = Chunk(toRead, pending)
        /\ canTransferMore' = FALSE
    BY <1>2 DEF BeginTransfer, StartRound
  <2>5. stopWatch' \in 0..Second /\ transferScheduled' = "no" /\ transferring' = TRUE /\ overflowed' \in BOOLEAN
    BY <1>2, RateAssumption DEF BeginTransfer, WatchRestarted
  <2> HIDE DEF toWrite, toRead, pending
  <2> QED
    BY <1>2, <2>1, <2>2, <2>3, <2>4, <2>5 DEF BeginTransfer, TypeOK, limitVars, clientVars, allowances
<1>3. CASE NextRound
  <2>1. pendingSockets # {}
    BY <1>3 DEF NextRound, AnotherRound
  <2>2. Chunk(bytesToWrite, pendingSockets) \in Nat /\ Chunk(bytesToRead, pendingSockets) \in Nat
    BY <2>1, ChunkType DEF TypeOK
  <2> QED
    BY <1>3, <2>2 DEF NextRound, StartRound, TypeOK, limitVars, clientVars, allowances
<1>4. CASE EndTransfer
  <2>1. transferScheduled' \in {"no", "waiting", "due"} /\ transferring' \in BOOLEAN
    BY <1>4 DEF EndTransfer, TypeOK, Scheduled
  <2>2. bytesToWrite' \in Int /\ bytesToRead' \in Int /\ writeChunk' \in Nat /\ readChunk' \in Nat
    BY <1>4 DEF EndTransfer
  <2>3. pendingSockets' \subseteq Clients /\ turns' \subseteq Clients
    BY <1>4 DEF EndTransfer
  <2>4. canTransferMore' \in BOOLEAN
    BY <1>4 DEF EndTransfer
  <2> QED
    BY <1>4, <2>1, <2>2, <2>3, <2>4 DEF EndTransfer, TypeOK, limitVars, clientVars, allowances
<1> QED
  BY <1>1, <1>2, <1>3, <1>4

\* What a turn reads and writes.
LEMMA TurnBounds ==
  ASSUME TypeOK, NEW c \in Clients
  PROVE  /\ Readable(c) \in 0..available[c]
         /\ Readable(c) > 0 => Readable(c) <= bytesToRead
         /\ readChunk >= 1 /\ available[c] > 0 /\ bytesToRead > 0 => Readable(c) > 0
         /\ Writable(c) \in Nat
         /\ Writable(c) > 0 => Writable(c) <= bytesToWrite
         /\ writeChunk >= 1 /\ upLimit > 0 /\ bytesToWrite > 0 => Writable(c) > 0
BY RateAssumption DEF TypeOK, Readable, Writable, Most, Least

\* ServeSocket without its LET: what is read and written, and what becomes of the rest.
Turn(c, answer, rest, aborts, read, written) ==
  /\ answer \in 0..1 /\ rest \in BOOLEAN /\ aborts \in BOOLEAN
  /\ read = Readable(c) /\ written = Least(outgoing[c] + answer, Writable(c))
  /\ answer = 1 => read > 0 /\ outgoing[c] < MaxData
  /\ bytesToRead' = bytesToRead - read /\ downAllowance' = downAllowance - read * Second
  /\ bytesToWrite' = bytesToWrite - written /\ upAllowance' = upAllowance - written * Second
  /\ available' = [available EXCEPT ![c] = @ - read]
  /\ outgoing' = [outgoing EXCEPT ![c] = (outgoing[c] + answer) - written]
  /\ partial' = IF rest THEN partial \cup {c} ELSE partial \ {c}
  /\ transferScheduled' = IF answer = 1 THEN Scheduled(transferScheduled) ELSE transferScheduled
  /\ open' = IF aborts THEN open \ {c} ELSE open
  /\ sockets' \in IF aborts THEN {sockets, sockets \ {c}} ELSE {sockets}
  /\ IF /\ read > 0 \/ written > 0
        /\ rest \/ available[c] > read \/ outgoing[c] + answer > written
       THEN canTransferMore' = TRUE /\ UNCHANGED pendingSockets
       ELSE pendingSockets' = pendingSockets \ {c} /\ UNCHANGED canTransferMore

LEMMA ServeIsTurn ==
  ASSUME NEW c \in Clients, ServeSocket(c)
  PROVE  \E answer \in 0..1, rest \in BOOLEAN, aborts \in BOOLEAN :
           Turn(c, answer, rest, aborts, Readable(c), Least(outgoing[c] + answer, Writable(c)))
<1>1. PICK answer \in 0..1, rest \in BOOLEAN, aborts \in BOOLEAN :
           LET read    == Readable(c)
               toSend  == outgoing[c] + answer
               written == Least(toSend, Writable(c))
               moved   == read > 0 \/ written > 0
               more    == rest \/ available[c] > read \/ toSend > written
           IN /\ answer = 1 => read > 0 /\ outgoing[c] < MaxData
              /\ bytesToRead' = bytesToRead - read /\ downAllowance' = downAllowance - read * Second
              /\ bytesToWrite' = bytesToWrite - written /\ upAllowance' = upAllowance - written * Second
              /\ available' = [available EXCEPT ![c] = @ - read]
              /\ outgoing' = [outgoing EXCEPT ![c] = toSend - written]
              /\ partial' = IF rest THEN partial \cup {c} ELSE partial \ {c}
              /\ transferScheduled' = IF answer = 1 THEN Scheduled(transferScheduled) ELSE transferScheduled
              /\ open' = IF aborts THEN open \ {c} ELSE open
              /\ sockets' \in IF aborts THEN {sockets, sockets \ {c}} ELSE {sockets}
              /\ IF moved /\ more
                   THEN canTransferMore' = TRUE /\ UNCHANGED pendingSockets
                   ELSE pendingSockets' = pendingSockets \ {c} /\ UNCHANGED canTransferMore
  BY Zenon DEF ServeSocket
<1>2. Turn(c, answer, rest, aborts, Readable(c), Least(outgoing[c] + answer, Writable(c)))
  BY <1>1, Zenon DEF Turn
<1> QED
  BY <1>2

LEMMA TurnTypes ==
  ASSUME TypeOK, NEW c \in Clients, NEW answer, NEW rest, NEW aborts, NEW read, NEW written,
         Turn(c, answer, rest, aborts, read, written)
  PROVE  /\ read \in 0..available[c] /\ written \in 0..(outgoing[c] + answer)
         /\ read > 0 => read <= bytesToRead
         /\ written > 0 => written <= bytesToWrite
         /\ available[c] \in 0..MaxData /\ outgoing[c] + answer \in 0..MaxData
         /\ read * Second \in Int /\ written * Second \in Int
<1>1. available[c] \in 0..MaxData /\ outgoing[c] \in 0..MaxData /\ MaxData \in Nat
  BY RateAssumption DEF TypeOK
<1>2. /\ read \in 0..available[c] /\ (read > 0 => read <= bytesToRead)
      /\ Writable(c) \in Nat /\ (Writable(c) > 0 => Writable(c) <= bytesToWrite)
  BY TurnBounds DEF Turn
<1>3. answer \in 0..1 /\ outgoing[c] + answer \in 0..MaxData
  BY <1>1 DEF Turn
<1>4. written \in 0..(outgoing[c] + answer) /\ (written > 0 => written <= bytesToWrite)
  <2>1. written = Least(outgoing[c] + answer, Writable(c)) /\ bytesToWrite \in Int
    BY DEF Turn, TypeOK
  <2> QED
    BY <1>1, <1>2, <1>3, <2>1 DEF Least
<1>5. read \in Nat /\ written \in Nat /\ Second \in Nat
  BY <1>1, <1>2, <1>3, <1>4, RateAssumption
<1>6. read * Second \in Int /\ written * Second \in Int
  BY <1>5
<1> QED
  BY <1>1, <1>2, <1>3, <1>4, <1>6

LEMMA TypeOfTurns ==
  ASSUME TypeOK, NEW c \in Clients, SkipSocket(c) \/ ServeSocket(c)
  PROVE  TypeOK'
<1>1. CASE SkipSocket(c)
  BY <1>1 DEF SkipSocket, TypeOK, limitVars, clientVars, allowances
<1>2. CASE ServeSocket(c)
  <2>1. PICK answer \in 0..1, rest \in BOOLEAN, aborts \in BOOLEAN :
           Turn(c, answer, rest, aborts, Readable(c), Least(outgoing[c] + answer, Writable(c)))
    BY <1>2, ServeIsTurn
  <2> DEFINE read == Readable(c)
             written == Least(outgoing[c] + answer, Writable(c))
  <2> HIDE DEF read, written
  <2>2. Turn(c, answer, rest, aborts, read, written)
    BY <2>1 DEF read, written
  <2>3. /\ read \in 0..available[c] /\ written \in 0..(outgoing[c] + answer)
        /\ available[c] \in 0..MaxData /\ outgoing[c] + answer \in 0..MaxData
        /\ read * Second \in Int /\ written * Second \in Int
    BY <2>2, TurnTypes
  <2>4. available[c] - read \in 0..MaxData /\ (outgoing[c] + answer) - written \in 0..MaxData
    <3>1. answer \in Int /\ outgoing[c] \in Int /\ available[c] \in Int
      BY <2>3, RateAssumption DEF TypeOK
    <3> QED
      BY <2>3, <3>1, RateAssumption
  <2>5. available' \in [Clients -> 0..MaxData] /\ outgoing' \in [Clients -> 0..MaxData]
    BY <2>2, <2>4 DEF Turn, TypeOK
  <2>6. bytesToRead' \in Int /\ bytesToWrite' \in Int /\ upAllowance' \in Int /\ downAllowance' \in Int
    BY <2>2, <2>3, RateAssumption DEF Turn, TypeOK
  <2>7. /\ sockets' \subseteq Clients /\ open' \subseteq Clients /\ partial' \subseteq Clients
        /\ pendingSockets' \subseteq Clients /\ canTransferMore' \in BOOLEAN
        /\ transferScheduled' \in {"no", "waiting", "due"}
    BY <2>2 DEF Turn, TypeOK, Scheduled
  <2> QED
    BY <1>2, <2>5, <2>6, <2>7 DEF ServeSocket, TypeOK, limitVars
<1> QED
  BY <1>1, <1>2

LEMMA TypeStep == TypeOK /\ [Next]_vars => TypeOK'
<1> SUFFICES ASSUME TypeOK, [Next]_vars PROVE TypeOK'
  OBVIOUS
<1>1. CASE UNCHANGED vars
  BY <1>1 DEF vars, limitVars, localVars, clientVars, allowances, TypeOK
<1>2. CASE Next
  BY <1>2, TypeOfConnections, TypeOfTime, TypeOfTransfer, TypeOfTurns DEF Next, Transfer
<1> QED
  BY <1>1, <1>2

\* The types of the variables: chunks and budgets are numbers because nothing is divided by
\* the number of no sockets.
THEOREM RateTypesHold == Spec => []TypeOK
BY TypeInit, TypeStep, PTL DEF Spec
-----------------------------------------------------------------------------
(* The limits *)

\* What one direction may still move: what is handed out to a transfer, and what the time
\* since the last one adds. The watch stands still while transfer() runs.
Covered(allowance, limit, budget) ==
  /\ allowance >= 0
  /\ allowance >= budget * Second
  /\ allowance >= limit * stopWatch

KeptInv ==
  /\ TypeOK
  /\ Covered(upAllowance, upLimit, bytesToWrite)
  /\ Covered(downAllowance, downLimit, bytesToRead)
  /\ transferring => stopWatch = 0
  /\ ~transferring => bytesToWrite = 0 /\ bytesToRead = 0

LEMMA KeptInit == Init => KeptInv
<1> SUFFICES ASSUME Init PROVE KeptInv
  OBVIOUS
<1>1. upLimit \in Nat /\ downLimit \in Nat /\ Second \in Nat
  BY RateAssumption DEF Init
<1>2. upLimit * Second \in Nat /\ downLimit * Second \in Nat
  BY <1>1, ProductIsNat
<1>3. Covered(upAllowance, upLimit, bytesToWrite) /\ Covered(downAllowance, downLimit, bytesToRead)
  BY <1>1, <1>2 DEF Init, Covered
<1> QED
  BY <1>3, TypeInit DEF Init, KeptInv

\* Time passes.
LEMMA CoveredLonger ==
  ASSUME NEW limit \in 0..IntMax, NEW allowance \in Int, stopWatch \in 0..Second,
         allowance >= 0, allowance >= limit * stopWatch
  PROVE  LET later == Least(stopWatch + 1, Second)
             more == Least(allowance + limit, limit * Second)
         IN more >= 0 /\ more >= limit * later
<1>1. limit \in Nat /\ stopWatch \in Nat /\ Second \in Nat
  BY RateAssumption
<1>2. limit * (stopWatch + 1) = limit * stopWatch + limit /\ limit * Second \in Nat /\ limit * stopWatch \in Nat
  BY <1>1
<1>3. CASE stopWatch + 1 > Second
  <2>1. stopWatch = Second
    BY <1>1, <1>3
  <2> QED
    BY <1>1, <1>2, <2>1 DEF Least
<1>4. CASE stopWatch + 1 <= Second
  <2>1. (stopWatch + 1) * limit <= Second * limit
    BY <1>1, <1>4, ProductGrows
  <2>2. limit * (stopWatch + 1) <= limit * Second
    BY <1>1, <2>1
  <2> QED
    BY <1>1, <1>2, <1>4, <2>2 DEF Least
<1> QED
  BY <1>1, <1>3, <1>4

LEMMA KeptByTime ==
  ASSUME KeptInv, TypeOK', Tick \/ \E up, down \in Limits : SetLimits(up, down)
  PROVE  KeptInv'
<1>0. upLimit \in 0..IntMax /\ downLimit \in 0..IntMax /\ Second \in Nat /\ stopWatch \in 0..Second
  BY RateAssumption DEF KeptInv, TypeOK
<1>1. CASE Tick
  <2>1. bytesToWrite = 0 /\ bytesToRead = 0 /\ UNCHANGED <<upLimit, downLimit, bytesToWrite, bytesToRead, transferring>>
    BY <1>1 DEF Tick, KeptInv, limitVars, localVars
  <2>2. upAllowance' >= 0 /\ upAllowance' >= upLimit * stopWatch'
    BY <1>0, <1>1, CoveredLonger DEF Tick, KeptInv, Covered, TypeOK
  <2>3. downAllowance' >= 0 /\ downAllowance' >= downLimit * stopWatch'
    BY <1>0, <1>1, CoveredLonger DEF Tick, KeptInv, Covered, TypeOK
  <2>4. 0 * Second = 0
    BY <1>0
  <2> QED
    BY <1>1, <2>1, <2>2, <2>3, <2>4 DEF Tick, KeptInv, Covered
<1>2. ASSUME NEW up \in Limits, NEW down \in Limits, SetLimits(up, down)
      PROVE  KeptInv'
  <2>1. up \in Nat /\ down \in Nat /\ stopWatch \in Nat /\ stopWatch <= Second
    BY <1>0, RateAssumption
  <2>2. stopWatch * up <= Second * up /\ stopWatch * down <= Second * down
    BY <1>0, <2>1, ProductGrows
  <2>3. up * stopWatch <= up * Second /\ down * stopWatch <= down * Second /\ 0 * Second = 0
    BY <1>0, <2>1, <2>2
  <2>4. up * Second >= 0 /\ down * Second >= 0
    BY <1>0, <2>1, ProductIsNat
  <2> QED
    BY <1>2, <2>3, <2>4 DEF SetLimits, KeptInv, Covered, localVars
<1> QED
  BY <1>1, <1>2

LEMMA KeptByTransfer ==
  ASSUME KeptInv, TypeOK', BeginTransfer \/ EndTransfer
  PROVE  KeptInv'
<1>0. upLimit \in Limits /\ downLimit \in Limits /\ Second \in Nat /\ stopWatch \in 0..Second
  BY RateAssumption DEF KeptInv, TypeOK
<1>1. upLimit \in Nat /\ downLimit \in Nat /\ upLimit * 0 = 0 /\ downLimit * 0 = 0 /\ 0 * Second = 0
  BY <1>0, RateAssumption
<1>2. CASE BeginTransfer
  <2>1. bytesToWrite' = Budget(upLimit, stopWatch) /\ bytesToRead' = Budget(downLimit, stopWatch)
        /\ stopWatch' = 0 /\ transferring'
        /\ UNCHANGED <<upLimit, downLimit, upAllowance, downAllowance>>
    BY <1>2 DEF BeginTransfer, WatchRestarted, limitVars, allowances
  <2>2. /\ Budget(upLimit, stopWatch) * Second <= upLimit * stopWatch
        /\ Budget(downLimit, stopWatch) * Second <= downLimit * stopWatch
        /\ Budget(upLimit, stopWatch) \in Int /\ Budget(downLimit, stopWatch) \in Int
    BY <1>0, BudgetType
  <2>3. upAllowance >= bytesToWrite' * Second /\ downAllowance >= bytesToRead' * Second
    <3>1. upLimit * stopWatch \in Int /\ downLimit * stopWatch \in Int
      BY <1>0, <1>1
    <3>2. bytesToWrite' * Second \in Int /\ bytesToRead' * Second \in Int
      BY <1>0, <2>1, <2>2
    <3> QED
      BY <2>1, <2>2, <3>1, <3>2 DEF KeptInv, TypeOK, Covered
  <2> QED
    BY <1>1, <2>1, <2>3 DEF KeptInv, Covered
<1>3. CASE EndTransfer
  BY <1>1, <1>3 DEF EndTransfer, KeptInv, Covered, limitVars, allowances
<1> QED
  BY <1>2, <1>3

\* A turn takes as much from the allowance as from the budget.
LEMMA CoveredAfter ==
  ASSUME NEW allowance \in Int, NEW limit \in Nat, NEW budget \in Int, NEW moved \in Nat,
         moved > 0 => moved <= budget, stopWatch = 0,
         Covered(allowance, limit, budget)
  PROVE  Covered(allowance - moved * Second, limit, budget - moved)
<1>1. Second \in Nat /\ limit * stopWatch = 0
  BY RateAssumption
<1>2. (budget - moved) * Second = budget * Second - moved * Second
  BY <1>1
<1>3. budget * Second \in Int /\ moved * Second \in Int
  BY <1>1
<1>4. CASE moved = 0
  BY <1>1, <1>4 DEF Covered
<1>5. CASE moved > 0
  <2>1. budget - moved >= 0 /\ budget - moved \in Nat
    BY <1>5
  <2>2. (budget - moved) * Second >= 0
    BY <1>1, <2>1, ProductIsNat
  <2> QED
    BY <1>1, <1>2, <1>3, <2>2 DEF Covered
<1> QED
  BY <1>4, <1>5

LEMMA KeptByTurn ==
  ASSUME KeptInv, TypeOK', NEW c \in Clients, ServeSocket(c)
  PROVE  KeptInv'
<1>1. PICK answer \in 0..1, rest \in BOOLEAN, aborts \in BOOLEAN :
        Turn(c, answer, rest, aborts, Readable(c), Least(outgoing[c] + answer, Writable(c)))
  BY ServeIsTurn
<1> DEFINE read == Readable(c)
           written == Least(outgoing[c] + answer, Writable(c))
<1> HIDE DEF read, written
<1>2. Turn(c, answer, rest, aborts, read, written)
  BY <1>1 DEF read, written
<1>3. /\ read \in Nat /\ (read > 0 => read <= bytesToRead)
      /\ written \in Nat /\ (written > 0 => written <= bytesToWrite)
  <2>1. /\ read \in 0..available[c] /\ written \in 0..(outgoing[c] + answer)
        /\ available[c] \in 0..MaxData /\ outgoing[c] + answer \in 0..MaxData
        /\ (read > 0 => read <= bytesToRead) /\ (written > 0 => written <= bytesToWrite)
    BY <1>2, TurnTypes DEF KeptInv
  <2> QED
    BY <2>1, RateAssumption
<1>4. stopWatch = 0 /\ transferring /\ UNCHANGED <<upLimit, downLimit, stopWatch, transferring>>
  BY DEF ServeSocket, KeptInv, limitVars
<1>5. upLimit \in Nat /\ downLimit \in Nat
  BY RateAssumption DEF KeptInv, TypeOK
<1>6. /\ Covered(upAllowance - written * Second, upLimit, bytesToWrite - written)
      /\ Covered(downAllowance - read * Second, downLimit, bytesToRead - read)
  BY <1>3, <1>4, <1>5, CoveredAfter DEF KeptInv, TypeOK
<1>7. /\ bytesToRead' = bytesToRead - read /\ downAllowance' = downAllowance - read * Second
      /\ bytesToWrite' = bytesToWrite - written /\ upAllowance' = upAllowance - written * Second
  BY <1>2 DEF Turn
<1> QED
  BY <1>4, <1>6, <1>7 DEF KeptInv, Covered

LEMMA KeptStep == KeptInv /\ [Next]_vars => KeptInv'
<1> SUFFICES ASSUME KeptInv, [Next]_vars PROVE KeptInv'
  OBVIOUS
<1>1. TypeOK'
  BY TypeStep DEF KeptInv
<1>2. CASE UNCHANGED <<upAllowance, downAllowance, upLimit, downLimit, bytesToWrite, bytesToRead,
                       stopWatch, transferring>>
  BY <1>1, <1>2 DEF KeptInv, Covered
<1>3. CASE UNCHANGED vars
  BY <1>2, <1>3 DEF vars, limitVars, localVars, allowances
<1>4. ASSUME NEW c \in Clients,
             AddSocket(c) \/ RemoveSocket(c) \/ DeleteSocket(c) \/ PeerSends(c) \/ ClientWrites(c)
               \/ SkipSocket(c)
      PROVE  KeptInv'
  BY <1>2, <1>4 DEF AddSocket, RemoveSocket, DeleteSocket, PeerSends, ClientWrites, SkipSocket,
                    limitVars, localVars, allowances
<1>5. CASE TransferNothing \/ NextRound
  BY <1>2, <1>5 DEF TransferNothing, NextRound, limitVars, localVars, allowances
<1>6. CASE Tick \/ \E up, down \in Limits : SetLimits(up, down)
  BY <1>1, <1>6, KeptByTime
<1>7. CASE BeginTransfer \/ EndTransfer
  BY <1>1, <1>7, KeptByTransfer
<1>8. ASSUME NEW c \in Clients, ServeSocket(c)
      PROVE  KeptInv'
  BY <1>1, <1>8, KeptByTurn
<1> QED
  BY <1>3, <1>4, <1>5, <1>6, <1>7, <1>8 DEF Next, Transfer

\* Over any time no more is moved than the limits allow for that time and a second more,
\* whatever the width of an int: a product that does not fit gives too little, never too much.
THEOREM LimitsHold == Spec => []LimitsKept
<1>1. KeptInv => LimitsKept
  BY DEF KeptInv, Covered, LimitsKept
<1> QED
  BY <1>1, KeptInit, KeptStep, PTL DEF Spec
-----------------------------------------------------------------------------
(* A transfer is on its way *)

Data(c) == available[c] > 0 \/ outgoing[c] > 0

\* The connections that data can be moved for.
Live == sockets \cap open

\* Within the loop, while nothing is scheduled: data that waits is waiting for its turn in
\* this round or the next, or a budget is used up, which schedules another transfer; a
\* socket that has had its turn and stays pending makes another round possible.
LoopInv ==
  /\ writeChunk >= 1 /\ readChunk >= 1
  /\ turns \subseteq pendingSockets
  /\ pendingSockets # turns => canTransferMore
  /\ upLimit = 0 => bytesToWrite <= 0
  /\ ~overflowed => bytesToWrite >= 0 /\ bytesToRead >= 0
  /\ ~overflowed /\ transferScheduled = "no" =>
       \A c \in Live : Data(c) => c \in pendingSockets \/ bytesToWrite = 0 \/ bytesToRead = 0

WayInv ==
  /\ TypeOK
  /\ transferring => LoopInv
  /\ TransferOnItsWay

LEMMA WayInit == Init => WayInv
BY TypeInit DEF Init, WayInv, TransferOnItsWay

LEMMA WayOutside ==
  ASSUME WayInv, TypeOK', ~transferring, ~transferring',
         transferScheduled # "no" => transferScheduled' # "no", overflowed' = overflowed,
         transferScheduled' # "no" \/ \A c \in Live' : c \in Live /\ (Data(c)' => Data(c))
  PROVE  WayInv'
BY DEF WayInv, TransferOnItsWay, Data, Live

LEMMA WayOfConnections ==
  ASSUME WayInv, TypeOK', NEW c \in Clients,
         AddSocket(c) \/ RemoveSocket(c) \/ DeleteSocket(c) \/ PeerSends(c) \/ ClientWrites(c)
  PROVE  WayInv'
<1> USE DEF WayInv, TypeOK, limitVars, localVars, clientVars, allowances, Scheduled, scheduleTransfer, Data, Live
<1>1. CASE AddSocket(c) \/ ClientWrites(c)
  BY <1>1, WayOutside DEF AddSocket, ClientWrites
<1>2. CASE RemoveSocket(c)
  BY <1>2, WayOutside DEF RemoveSocket
<1>3. CASE DeleteSocket(c)
  BY <1>3, WayOutside DEF DeleteSocket
<1>4. CASE PeerSends(c)
  BY <1>4, WayOutside, RateAssumption DEF PeerSends
<1> QED
  BY <1>1, <1>2, <1>3, <1>4

LEMMA WayOfTime ==
  ASSUME WayInv, TypeOK', Tick \/ \E up, down \in Limits : SetLimits(up, down)
  PROVE  WayInv'
<1>1. ~transferring /\ ~transferring' /\ UNCHANGED <<sockets, open, available, outgoing, overflowed>>
  BY DEF Tick, SetLimits, clientVars
<1>2. transferScheduled # "no" => transferScheduled' # "no"
  BY DEF Tick, SetLimits
<1> QED
  BY <1>1, <1>2, WayOutside DEF WayInv, Data, Live

LEMMA WayOfTransferNothing ==
  ASSUME WayInv, TypeOK', TransferNothing
  PROVE  WayInv'
<1>1. UNCHANGED <<sockets, open, available, outgoing, partial, overflowed, transferring>> /\ ~transferring
  BY DEF TransferNothing, clientVars
<1>2. transferScheduled' # "no" \/ \A c \in sockets : ~HasMore(c)
  BY DEF TransferNothing
<1> QED
  BY <1>1, <1>2 DEF WayInv, TransferOnItsWay, HasMore

LEMMA WayOfBeginTransfer ==
  ASSUME WayInv, TypeOK', BeginTransfer
  PROVE  WayInv'
<1> DEFINE toWrite == Budget(upLimit, stopWatch)
           toRead  == Budget(downLimit, stopWatch)
           pending == {c \in sockets : HasMore(c)}
<1>1. /\ bytesToWrite' = toWrite /\ bytesToRead' = toRead /\ pendingSockets' = pending
      /\ turns' = pending /\ writeChunk' = Chunk(toWrite, pending) /\ readChunk' = Chunk(toRead, pending)
      /\ overflowed' = (Overflows(upLimit, stopWatch) \/ Overflows(downLimit, stopWatch))
      /\ transferring' /\ UNCHANGED <<upLimit, sockets, open, available, outgoing, partial>>
  BY DEF BeginTransfer, StartRound, limitVars, clientVars
<1>2. /\ toWrite \in Int /\ toRead \in Int /\ (upLimit = 0 => toWrite = 0)
      /\ ~Overflows(upLimit, stopWatch) => toWrite >= 0
      /\ ~Overflows(downLimit, stopWatch) => toRead >= 0
  BY BudgetType DEF WayInv, TypeOK
<1>3. pending \in SUBSET Clients /\ pending # {}
  BY DEF BeginTransfer, WayInv, TypeOK
<1>4. Chunk(toWrite, pending) >= 1 /\ Chunk(toRead, pending) >= 1
  BY <1>2, <1>3, ChunkType
<1>5. \A c \in sockets : Data(c)' => c \in pending
  BY <1>1 DEF Data, HasMore
<1> HIDE DEF toWrite, toRead, pending
<1>6. /\ writeChunk' >= 1 /\ readChunk' >= 1 /\ turns' = pendingSockets'
      /\ upLimit' = 0 => bytesToWrite' <= 0
  BY <1>1, <1>2, <1>4
<1>7. ~overflowed' => bytesToWrite' >= 0 /\ bytesToRead' >= 0
  BY <1>1, <1>2
<1>8. \A c \in Live' : Data(c)' => c \in pendingSockets'
  BY <1>1, <1>5 DEF Live
<1>9. LoopInv'
  BY <1>6, <1>7, <1>8 DEF LoopInv
<1> QED
  BY <1>1, <1>9 DEF WayInv, TransferOnItsWay

LEMMA WayOfNextRound ==
  ASSUME WayInv, TypeOK', NextRound
  PROVE  WayInv'
<1>1. pendingSockets # {} /\ transferring
  BY DEF NextRound, AnotherRound, RoundOver
<1>2. Chunk(bytesToWrite, pendingSockets) >= 1 /\ Chunk(bytesToRead, pendingSockets) >= 1
  BY <1>1, ChunkType DEF WayInv, TypeOK
<1> QED
  BY <1>1, <1>2 DEF NextRound, StartRound, WayInv, LoopInv, TransferOnItsWay, Data, Live, limitVars, clientVars

\* The end of the loop: with budget left on both sides and no further round, everything
\* pending has been served to the end.
LEMMA WayOfEndTransfer ==
  ASSUME WayInv, TypeOK', EndTransfer
  PROVE  WayInv'
<1>1. /\ transferring /\ ~transferring' /\ LoopInv
      /\ UNCHANGED <<sockets, open, available, outgoing, overflowed>>
      /\ transferScheduled' = IF ScheduleAgain THEN Scheduled(transferScheduled) ELSE transferScheduled
  BY DEF EndTransfer, RoundOver, WayInv, clientVars
<1>2. CASE transferScheduled' # "no" \/ overflowed
  BY <1>1, <1>2 DEF WayInv, TransferOnItsWay
<1>3. CASE transferScheduled' = "no" /\ ~overflowed
  <2>1. transferScheduled = "no" /\ ~ScheduleAgain
    BY <1>1, <1>3 DEF Scheduled
  <2>2. ~canTransferMore /\ bytesToWrite > 0 /\ bytesToRead > 0
    BY <1>1, <1>3, <2>1 DEF ScheduleAgain, LoopInv, WayInv, TypeOK
  <2>3. pendingSockets = {}
    BY <1>1, <2>2 DEF EndTransfer, RoundOver, BudgetLeft, LoopInv
  <2>4. \A c \in Live : ~Data(c)
    BY <1>1, <1>3, <2>1, <2>2, <2>3 DEF LoopInv
  <2> QED
    BY <1>1, <2>4 DEF WayInv, TransferOnItsWay, Data, Live
<1> QED
  BY <1>2, <1>3

LEMMA WayOfSkip ==
  ASSUME WayInv, TypeOK', NEW c \in Clients, SkipSocket(c)
  PROVE  WayInv'
<1>1. c \notin Live
  BY DEF SkipSocket, Live
<1> QED
  BY <1>1 DEF SkipSocket, WayInv, LoopInv, TransferOnItsWay, Data, Live, TypeOK, limitVars, clientVars

LEMMA WayOfTurn ==
  ASSUME WayInv, TypeOK', NEW c \in Clients, ServeSocket(c)
  PROVE  WayInv'
<1>1. PICK answer \in 0..1, rest \in BOOLEAN, aborts \in BOOLEAN :
        Turn(c, answer, rest, aborts, Readable(c), Least(outgoing[c] + answer, Writable(c)))
  BY ServeIsTurn
<1> DEFINE read == Readable(c)
           written == Least(outgoing[c] + answer, Writable(c))
<1>2. /\ read \in 0..available[c] /\ written \in 0..(outgoing[c] + answer)
      /\ (read > 0 => read <= bytesToRead) /\ (written > 0 => written <= bytesToWrite)
      /\ available[c] \in 0..MaxData /\ outgoing[c] + answer \in 0..MaxData
  BY <1>1, TurnTypes DEF WayInv
<1>3. available[c] \in Int /\ outgoing[c] \in Int /\ bytesToRead \in Int /\ bytesToWrite \in Int /\ upLimit \in Nat
  BY <1>2, RateAssumption DEF WayInv, TypeOK
<1>4. transferring /\ transferring' /\ LoopInv
      /\ UNCHANGED <<upLimit, writeChunk, readChunk, overflowed>> /\ turns' = turns \ {c}
  BY DEF ServeSocket, WayInv, limitVars
\* Nothing is read from a socket with data, or written to it, only for want of budget.
<1>5. /\ available[c] > 0 /\ read = 0 => bytesToRead <= 0
      /\ outgoing[c] + answer > 0 /\ written = 0 => bytesToWrite <= 0
  <2>1. /\ readChunk >= 1 /\ available[c] > 0 /\ bytesToRead > 0 => read > 0
        /\ writeChunk >= 1 /\ upLimit > 0 /\ bytesToWrite > 0 => Writable(c) > 0
        /\ Writable(c) \in Nat
    BY TurnBounds DEF WayInv
  <2>2. read \in Nat /\ outgoing[c] + answer \in Nat
    BY <1>2, RateAssumption
  <2> HIDE DEF read
  <2> QED
    BY <1>3, <1>4, <2>1, <2>2, RateAssumption DEF LoopInv, Least
<1>6. sockets' \cap open' \subseteq sockets \cap open
  BY <1>1 DEF Turn
<1> HIDE DEF read, written
<1>7. Turn(c, answer, rest, aborts, read, written)
  BY <1>1 DEF read, written
<1>8. /\ bytesToRead' = bytesToRead - read /\ bytesToWrite' = bytesToWrite - written
      /\ read \in Nat /\ written \in Nat
  BY <1>2, <1>3, <1>7, RateAssumption DEF Turn
<1>9. /\ upLimit' = 0 => bytesToWrite' <= 0
      /\ ~overflowed' => bytesToWrite' >= 0 /\ bytesToRead' >= 0
  BY <1>2, <1>3, <1>4, <1>8 DEF LoopInv
<1>10. /\ turns' \subseteq pendingSockets' /\ (pendingSockets' # turns' => canTransferMore')
  BY <1>4, <1>7 DEF Turn, LoopInv
<1>11. ASSUME ~overflowed', transferScheduled' = "no", NEW d \in Live', Data(d)'
       PROVE  d \in pendingSockets' \/ bytesToWrite' = 0 \/ bytesToRead' = 0
  <2>1. transferScheduled = "no" /\ ~overflowed /\ d \in Live /\ d \in Clients
    BY <1>4, <1>6, <1>7, <1>11 DEF Turn, Scheduled, Live, WayInv, TypeOK
  <2>2. bytesToWrite >= 0 /\ bytesToRead >= 0
    BY <1>4, <2>1 DEF LoopInv
  <2>3. CASE d # c
    <3>1. Data(d)
      BY <1>7, <1>11, <2>1, <2>3 DEF Turn, Data, WayInv, TypeOK
    <3>2. d \in pendingSockets \/ bytesToWrite = 0 \/ bytesToRead = 0
      BY <1>4, <2>1, <3>1 DEF LoopInv
    <3>3. d \in pendingSockets => d \in pendingSockets'
      BY <1>7, <2>3 DEF Turn
    <3>4. (bytesToWrite = 0 => bytesToWrite' = 0) /\ (bytesToRead = 0 => bytesToRead' = 0)
      BY <1>2, <1>3, <1>8
    <3> QED
      BY <3>2, <3>3, <3>4
  <2>4. CASE d = c
    <3>1. c \in pendingSockets
      BY <1>4 DEF ServeSocket, LoopInv
    <3>2. available'[c] = available[c] - read /\ outgoing'[c] = (outgoing[c] + answer) - written
      BY <1>7 DEF Turn, WayInv, TypeOK
    <3>3. available[c] > read \/ outgoing[c] + answer > written
      BY <1>2, <1>3, <1>8, <1>11, <2>4, <3>2 DEF Data
    <3>4. CASE read > 0 \/ written > 0
      BY <1>7, <2>4, <3>1, <3>3, <3>4 DEF Turn
    <3>5. CASE read = 0 /\ written = 0
      BY <1>2, <1>3, <1>5, <1>8, <2>2, <3>3, <3>5
    <3> QED
      BY <1>8, <3>4, <3>5
  <2> QED
    BY <2>3, <2>4
<1>12. LoopInv'
  BY <1>4, <1>9, <1>10, <1>11 DEF LoopInv
<1> QED
  BY <1>4, <1>12 DEF WayInv, TransferOnItsWay

LEMMA WayStep == WayInv /\ [Next]_vars => WayInv'
<1> SUFFICES ASSUME WayInv, [Next]_vars PROVE WayInv'
  OBVIOUS
<1>1. TypeOK'
  BY TypeStep DEF WayInv
<1>2. CASE UNCHANGED vars
  BY <1>1, <1>2 DEF vars, limitVars, localVars, clientVars, WayInv, LoopInv, Data, Live, TransferOnItsWay
<1>3. CASE Next
  BY <1>1, <1>3, WayOfConnections, WayOfTime, WayOfTransferNothing, WayOfBeginTransfer, WayOfNextRound,
     WayOfEndTransfer, WayOfSkip, WayOfTurn DEF Next, Transfer
<1> QED
  BY <1>2, <1>3

\* As long as no product has overflowed, data that waits on some connection has a transfer
\* coming: none of the ways out of transfer() forgets it.
THEOREM WayHolds == Spec => []TransferOnItsWay
<1>1. WayInv => TransferOnItsWay
  BY DEF WayInv
<1> QED
  BY <1>1, WayInit, WayStep, PTL DEF Spec
=============================================================================
