--------------------------- MODULE TrackerClient ---------------------------
(***************************************************************************)
(* The announces of one torrent: src/src/trackerclient.cpp together with   *)
(* the handlers of src/src/torrentclient.cpp that start it, tell it that   *)
(* the torrent is complete and stop it, and with the torrent list, which   *)
(* deletes the torrent when it reports stopped() or an error.              *)
(*                                                                         *)
(* QHttp is used by its contract: requests are served in order, done() is  *)
(* emitted when none is left, and an abort() with a request under way      *)
(* emits done(true) before it returns.                                     *)
(*                                                                         *)
(* The names every model has (Init, Next, Spec, ...) begin with TC here, so*)
(* that the module can be extended beside another.                         *)
(***************************************************************************)
EXTENDS Naturals, Sequences

CONSTANT MaxStopped    \* stopped() is counted up to this number

ASSUME MaxStoppedAssumption == MaxStopped \in Nat \ {0}

VARIABLES
  state,                \* TorrentClient::state; Searching to Endgame are "Downloading"
  verifying,            \* the initial verification of the files is under way
  progress,             \* how many pieces are complete: "none", "some" or "all"
  fetchPosted,          \* the fetchPeerList() that start() has posted
  firstTrackerRequest, lastTrackerRequest, firstSeeding,
  timer,                \* requestIntervalTimer runs
  requests,             \* the events of the requests QHttp has not finished
  keptAlive,            \* QHttp is idle and still connected to the tracker
  owner,                \* "has": in the list; "doomed": deleteLater(); "gone"
  said,                 \* history: how often each event was announced, up to 2
  stopped,              \* history: how often stopped() was emitted
  foundComplete,        \* history: the files were complete from the start
  unanswered,           \* history: a request failed or brought no interval, no timer runs
  interrupted,          \* history: the stop aborted a request
  heard                 \* history: QHttp has finished a request of the stop or a later one

tcClientVars == <<state, verifying, progress, owner, foundComplete>>
tcFlagVars   == <<fetchPosted, firstTrackerRequest, lastTrackerRequest, firstSeeding, timer>>
tcHttpVars   == <<requests, keptAlive, said, stopped>>
tcHistoryVars == <<unanswered, interrupted, heard>>
tcVars == <<tcClientVars, tcFlagVars, tcHttpVars, tcHistoryVars>>

States == {"Idle", "Paused", "Stopping", "Preparing", "Downloading", "Seeding"}
Running == {"Downloading", "Seeding"}          \* the states above Preparing
Events == {"started", "completed", "stopped", "none"}

TCTypeOK ==
  /\ state \in States
  /\ progress \in {"none", "some", "all"}
  /\ owner \in {"has", "doomed", "gone"}
  /\ <<verifying, fetchPosted, firstTrackerRequest, lastTrackerRequest>>
        \in BOOLEAN \X BOOLEAN \X BOOLEAN \X BOOLEAN
  /\ <<firstSeeding, timer, keptAlive, foundComplete, unanswered>>
        \in BOOLEAN \X BOOLEAN \X BOOLEAN \X BOOLEAN \X BOOLEAN
  /\ <<interrupted, heard>> \in BOOLEAN \X BOOLEAN
  /\ requests \in Seq(Events)
  /\ said \in [Events -> 0..2]
  /\ stopped \in 0..MaxStopped

-----------------------------------------------------------------------------
\* The torrent has been added to the list, which calls TorrentClient::start.
TCInit ==
  /\ state = "Preparing" /\ verifying = TRUE /\ progress \in {"none", "some", "all"}
  /\ owner = "has" /\ foundComplete = FALSE
  /\ fetchPosted = FALSE /\ timer = FALSE
  /\ firstTrackerRequest = TRUE /\ lastTrackerRequest = FALSE /\ firstSeeding = TRUE
  /\ requests = <<>> /\ keptAlive = FALSE
  /\ said = [e \in Events |-> 0] /\ stopped = 0
  /\ unanswered = FALSE /\ interrupted = FALSE /\ heard = FALSE

Exists == owner # "gone"
Listed == owner = "has" /\ ~lastTrackerRequest     \* the list stops a torrent once

\* Mutant: the last request is announced like any other.
EventForNoLast(seeding, first, firstSeed, last) ==
  IF seeding /\ firstSeed THEN "completed" ELSE IF first THEN "started" ELSE "none"

\* Which event fetchPeerList announces.
EventFor(seeding, first, firstSeed, last) ==
  IF seeding /\ firstSeed THEN "completed"
  ELSE IF first THEN "started"
  ELSE IF last THEN "stopped"
  ELSE "none"

\* Mutant: the start is not noted.
NotedStillFirst(event) == firstTrackerRequest

\* firstTrackerRequest after event has been announced.
NotedFirst(event) == firstTrackerRequest /\ event # "started"

\* fetchPeerList in state st, with the flags firstSeeding and lastTrackerRequest
\* as given, behind the requests of queue.
FetchPeerList(st, firstSeed, last, queue) ==
  LET event == EventFor(st = "Seeding", firstTrackerRequest, firstSeed, last)
  IN /\ requests' = Append(queue, event)
     /\ said' = [said EXCEPT ![event] = IF event = "none" \/ @ = 2 THEN @ ELSE @ + 1]
     /\ firstSeeding' = (firstSeed /\ event # "completed")
     /\ firstTrackerRequest' = NotedFirst(event)
     /\ keptAlive' = FALSE

\* stopped() is emitted: the list deletes the torrent later.
EmitStopped ==
  /\ stopped' = IF stopped < MaxStopped THEN stopped + 1 ELSE stopped
  /\ owner' = "doomed"

-----------------------------------------------------------------------------
\* fullVerificationDone: it starts the tracker client whatever the state was.
VerificationDone ==
  /\ Exists /\ verifying
  /\ verifying' = FALSE
  /\ state' = IF progress = "all" THEN "Seeding" ELSE "Downloading"
  /\ foundComplete' = (progress = "all")
  /\ fetchPosted' = TRUE
  /\ UNCHANGED <<progress, owner, firstTrackerRequest, lastTrackerRequest, firstSeeding, timer,
                 tcHttpVars, tcHistoryVars>>

\* The posted fetchPeerList is called.
FirstFetch ==
  /\ Exists /\ fetchPosted
  /\ fetchPosted' = FALSE
  /\ FetchPeerList(state, firstSeeding, lastTrackerRequest, requests)
  /\ UNCHANGED <<tcClientVars, lastTrackerRequest, timer, stopped, tcHistoryVars>>

\* No block can come before the first fetch: it is posted without delay.
CanVerify == Exists /\ ~verifying /\ ~fetchPosted

\* pieceVerified for the last piece: the state becomes Seeding, startSeeding.
LastPieceVerified ==
  /\ CanVerify /\ progress # "all"
  /\ progress' = "all"
  /\ IF state # "Seeding"
       THEN /\ state' = "Seeding"
            /\ FetchPeerList("Seeding", TRUE, lastTrackerRequest, requests)
       ELSE UNCHANGED <<state, requests, said, firstSeeding, firstTrackerRequest, keptAlive>>
  /\ UNCHANGED <<verifying, owner, foundComplete, fetchPosted, lastTrackerRequest, timer,
                 stopped, tcHistoryVars>>

\* pieceVerified for the first of several pieces.
FirstPieceVerified ==
  /\ CanVerify /\ progress = "none"
  /\ progress' = "some"
  /\ state' = "Downloading"
  /\ UNCHANGED <<verifying, owner, foundComplete, tcFlagVars, tcHttpVars, tcHistoryVars>>

\* blockReceived, from a connection that a pause or stop did not end: one piece is
\* complete, so the torrent counts as downloading.
BlockReceived ==
  /\ CanVerify /\ progress = "some"
  /\ state' = "Downloading"
  /\ UNCHANGED <<verifying, progress, owner, foundComplete, tcFlagVars, tcHttpVars, tcHistoryVars>>

\* setPaused, from the list.
Pause ==
  /\ Listed /\ state \in Running
  /\ state' = "Paused"
  /\ UNCHANGED <<verifying, progress, owner, foundComplete, tcFlagVars, tcHttpVars, tcHistoryVars>>

Resume ==
  /\ Listed /\ state = "Paused"
  /\ state' = IF progress = "all" THEN "Seeding" ELSE "Downloading"
  /\ UNCHANGED <<verifying, progress, owner, foundComplete, tcFlagVars, tcHttpVars, tcHistoryVars>>

\* handleFileError: a pause, and the list deletes the torrent, unless it has
\* stopped it and no longer listens to its errors.
FileError ==
  /\ Exists /\ state # "Paused"
  /\ state' = "Paused"
  /\ owner' = IF Listed THEN "doomed" ELSE owner
  /\ UNCHANGED <<verifying, progress, foundComplete, tcFlagVars, tcHttpVars, tcHistoryVars>>

\* Mutant: stop() reports at once.
AnswersStopEarly == TRUE

\* http.abort() reports the end of a request under way, before the last is made.
AnswersStop == requests # <<>>

\* TorrentClient::stop, and TrackerClient::stop for a torrent that is running.
\* The abort() ends a request under way, which is answered by stopped().
Stop ==
  /\ Listed
  /\ interrupted' = (state \in Running /\ requests # <<>>)
  /\ IF state \in Running
       THEN /\ state' = "Stopping"
            /\ lastTrackerRequest' = TRUE
            /\ FetchPeerList("Stopping", firstSeeding, TRUE, <<>>)
            /\ IF AnswersStop THEN EmitStopped ELSE UNCHANGED <<stopped, owner>>
       ELSE /\ state' = "Idle"
            /\ EmitStopped
            /\ UNCHANGED <<requests, said, firstSeeding, firstTrackerRequest, lastTrackerRequest,
                           keptAlive>>
  /\ UNCHANGED <<verifying, progress, foundComplete, fetchPosted, timer, unanswered, heard>>

\* A call posted without delay comes before any answer of the network.
CanAnswer == Exists /\ requests # <<>> /\ ~fetchPosted

\* Mutant: an answer to the last request is handled like any other.
LastAnsweredNever == FALSE

\* httpRequestDone's first test: this is the end of the last request.
LastAnswered == lastTrackerRequest

\* Mutant: the timer is killed for an answer with an interval and not started again.
TimerKilled(hasInterval) == timer /\ ~hasInterval

\* The timer after an answer: an interval (re)starts it.
TimerAfter(hasInterval) == timer \/ hasInterval

\* QHttp finishes a request; httpRequestDone when no other is left. The answer
\* may be worth nothing (not bencoded, or a failure reason), and the connection may stay open.
RequestDone ==
  /\ CanAnswer
  /\ requests' = Tail(requests)
  /\ heard' = (heard \/ lastTrackerRequest)
  /\ IF Tail(requests) # <<>>
       THEN UNCHANGED <<timer, keptAlive, stopped, owner, unanswered>>
       ELSE /\ keptAlive' \in BOOLEAN
            /\ IF LastAnswered
                 THEN EmitStopped /\ UNCHANGED <<timer, unanswered>>
                 ELSE /\ \E hasInterval \in BOOLEAN :
                           /\ timer' = TimerAfter(hasInterval)
                           /\ unanswered' = ~(timer \/ hasInterval)
                      /\ UNCHANGED <<stopped, owner>>
  /\ UNCHANGED <<state, verifying, progress, foundComplete, fetchPosted, firstTrackerRequest,
                 lastTrackerRequest, firstSeeding, said, interrupted>>

\* QHttp fails: every request is dropped, done(true).
RequestFailed ==
  /\ CanAnswer
  /\ requests' = <<>> /\ keptAlive' = FALSE
  /\ heard' = (heard \/ lastTrackerRequest)
  /\ IF LastAnswered
       THEN EmitStopped /\ UNCHANGED unanswered
       ELSE unanswered' = ~timer /\ UNCHANGED <<stopped, owner>>
  /\ UNCHANGED <<state, verifying, progress, foundComplete, tcFlagVars, said, interrupted>>

\* timerEvent, while QHttp is not connected.
IntervalElapsed ==
  /\ Exists /\ timer
  /\ requests = <<>> /\ ~keptAlive
  /\ FetchPeerList(state, firstSeeding, lastTrackerRequest, requests)
  /\ UNCHANGED <<tcClientVars, fetchPosted, lastTrackerRequest, timer, stopped, tcHistoryVars>>

\* The tracker closes an idle connection.
TrackerHangsUp ==
  /\ Exists /\ keptAlive
  /\ keptAlive' = FALSE
  /\ UNCHANGED <<tcClientVars, tcFlagVars, requests, said, stopped, tcHistoryVars>>

\* The event loop deletes the torrent, and its requests with it.
Delete ==
  /\ owner = "doomed"
  /\ owner' = "gone"
  /\ UNCHANGED <<state, verifying, progress, foundComplete, tcFlagVars, tcHttpVars, tcHistoryVars>>

TCNext ==
  \/ VerificationDone \/ FirstFetch \/ LastPieceVerified \/ FirstPieceVerified \/ BlockReceived
  \/ Pause \/ Resume \/ FileError \/ Stop
  \/ RequestDone \/ RequestFailed \/ IntervalElapsed \/ TrackerHangsUp
  \/ Delete

TCSpec == TCInit /\ [][TCNext]_tcVars

\* Posted calls, timers and deletions happen; QHttp finishes or fails (TCP does);
\* a tracker closes idle connections.
TCFairSpec ==
  /\ TCSpec
  /\ WF_tcVars(FirstFetch) /\ WF_tcVars(IntervalElapsed) /\ WF_tcVars(Delete)
  /\ WF_tcVars(RequestDone \/ RequestFailed) /\ WF_tcVars(TrackerHangsUp)

-----------------------------------------------------------------------------
\* fetchPeerList chooses the event by three flags that answers, aborts and posted
\* calls change in between: a torrent still announces its start once and its
\* completion once, whatever is paused, stopped, aborted or fails.
OnceEach == said["started"] <= 1 /\ said["completed"] <= 1

\* A stop says "stopped" to the tracker. The exception: a torrent found complete
\* has announced "completed" in the place of "started", and fetchPeerList then
\* prefers the outstanding "started"; and a stop that overtakes the posted first fetch
\* says "started", and "stopped" when the fetch comes.
SaysStopped ==
  lastTrackerRequest /\ said["stopped"] = 0 => foundComplete \/ fetchPosted

\* The list deletes a torrent when stopped() comes, which should be when the
\* tracker has been told. It comes too early exactly if the stop has aborted a request:
\* httpRequestDone takes the end of that request for the end of the last one.
GoodbyeHeard == owner = "gone" /\ lastTrackerRequest => heard \/ interrupted

\* Whoever waits for stopped() after stop() does not wait for ever, also when
\* verdicts move the state out of Stopping meanwhile.
StopAnswered == lastTrackerRequest ~> stopped > 0

\* A torrent that runs goes on announcing itself, until an answer is lost or
\* brings no interval when no timer runs: then nothing asks the tracker again.
KeepsAnnouncing ==
  (Listed /\ state \in Running)
    ~> (requests # <<>> \/ unanswered \/ ~Listed \/ state \notin Running)
=============================================================================
