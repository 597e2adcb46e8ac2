---------------------------- MODULE FileManager ----------------------------
(***************************************************************************)
(* The file manager of one torrent (src/filemanager.cpp): a thread that    *)
(* owns the files of the torrent, and the calls the torrent client makes   *)
(* to it from the GUI thread.  Both threads share three request queues, a  *)
(* flag startVerification, a mutex and a condition variable.  A request    *)
(* does not signal the condition itself: it posts the slot wakeUp to the   *)
(* GUI thread's event queue, unless one is already posted (wokeUp).        *)
(*                                                                         *)
(* A call that holds the mutex from its first to its last access is one    *)
(* action, enabled when the file thread does not hold the mutex.  What the *)
(* code does without the mutex (setting and testing quit, the destructor's *)
(* wakeOne) is an action, or part of one, that ignores it.                 *)
(***************************************************************************)
EXTENDS Naturals, Sequences

CONSTANTS
  NumPieces,   \* pieces of the torrent, numbered from 0
  Blocks,      \* blocks of a piece
  MaxRequests  \* bound: calls of read, write and verifyPiece in one run

ASSUME NumPiecesAssumption == NumPieces \in Nat \ {0}
ASSUME BlocksAssumption == Blocks # {}
ASSUME MaxRequestsAssumption == MaxRequests \in Nat

Pieces  == 0 .. NumPieces - 1
Content == {"good", "bad"}  \* a block holds the torrent's data, or anything else

VARIABLES
  \* the GUI thread and the state it shares with the file thread
  gui,                 \* where the owner of the file manager stands
  quit,
  wokeUp,              \* TRUE exactly when a wakeUp call is posted
  startVerification,
  readRequests,
  writeRequests,
  pendingVerificationRequests,
  verifiedPieces,
  readId,
  issued,              \* number of requests so far
  events,              \* signals posted by the file thread to the GUI thread
  \* the file thread
  pc,
  newReadRequests,
  newWriteRequests,
  newPendingVerificationRequests,
  newFile,             \* some file had to be created or resized
  scan,                \* next piece of the initial verification
  scanned,             \* history: the initial verification is over
  disk                 \* disk[p][b]: the content of every block

queueVars == <<readRequests, writeRequests, pendingVerificationRequests>>
localVars == <<newReadRequests, newWriteRequests, newPendingVerificationRequests>>
scanVars  == <<newFile, scan, scanned>>
guiVars   == <<gui, quit, wokeUp, readId, issued>>

vars == <<guiVars, startVerification, queueVars, verifiedPieces, events,
          pc, localVars, scanVars, disk>>

ReadRequest  == [id : Nat, piece : Pieces, block : Blocks]
WriteRequest == [piece : Pieces, block : Blocks, data : Content]

DataRead(id, data)   == [type |-> "dataRead", id |-> id, data |-> data]
PieceVerified(p, ok) == [type |-> "pieceVerified", piece |-> p, ok |-> ok]
VerificationDone     == [type |-> "verificationDone"]
ErrorSignal          == [type |-> "error"]

Event ==
  [type : {"dataRead"}, id : Nat, data : Content]
    \cup [type : {"pieceVerified"}, piece : Pieces, ok : BOOLEAN]
    \cup {VerificationDone, ErrorSignal}

GuiStates == {"new", "starting", "running", "quitSet", "joining", "gone"}

PcValues ==
  {"notStarted", "generate", "check", "presleep", "asleep", "takeReads", "reading",
   "writing", "writeBlock", "verifying", "scanning", "loopEnd", "flush", "done"}

\* Mutant: the mutex is released before the writes, as it is before the reads.
MutexNotHeldForWrites == pc \in {"presleep", "verifying", "scanning"}

\* The file thread is between locking and unlocking the mutex.
MutexHeld == pc \in {"presleep", "writing", "writeBlock", "verifying", "scanning"}

Init ==
  /\ gui = "new"
  /\ quit = FALSE
  /\ wokeUp = FALSE
  /\ startVerification = FALSE
  /\ readRequests = <<>>
  /\ writeRequests = <<>>
  /\ pendingVerificationRequests = <<>>
  /\ verifiedPieces \in SUBSET Pieces   \* setCompletedPieces: from the saved state
  /\ readId = 0
  /\ issued = 0
  /\ events = <<>>
  /\ pc = "notStarted"
  /\ newReadRequests = <<>>
  /\ newWriteRequests = <<>>
  /\ newPendingVerificationRequests = <<>>
  /\ newFile = FALSE
  /\ scan = 0
  /\ scanned = FALSE
  /\ disk \in [Pieces -> [Blocks -> Content]]

-----------------------------------------------------------------------------
(* The GUI thread.                                                         *)

\* cond.wakeOne(): the only thread that ever waits on cond is the file thread.
WakeOne == pc' = IF pc = "asleep" THEN "takeReads" ELSE pc

\* TorrentClient::start: fileManager.start(), then startDataVerification().
Start ==
  /\ gui = "new"
  /\ gui' = "starting"
  /\ pc' = "generate"
  /\ UNCHANGED <<quit, wokeUp, readId, issued, startVerification, queueVars,
                 verifiedPieces, events, localVars, scanVars, disk>>

StartDataVerification ==
  /\ gui = "starting" /\ ~MutexHeld
  /\ gui' = "running"
  /\ startVerification' = TRUE
  /\ WakeOne
  /\ UNCHANGED <<quit, wokeUp, readId, issued, queueVars, verifiedPieces, events,
                 localVars, scanVars, disk>>

\* What read, write and verifyPiece share: the mutex, and one wakeUp posted unless one
\* is posted already.  They serve peers, which are let in after the initial verification
\* or, if the user resumes the torrent then, after an error has paused it: an error of
\* generateFiles ends the thread, one of the verification holds the mutex to its end.
Request ==
  /\ gui = "running" /\ ~MutexHeld
  /\ scanned \/ pc = "done"
  /\ issued < MaxRequests /\ issued' = issued + 1
  /\ wokeUp' = TRUE
  /\ UNCHANGED <<gui, quit, verifiedPieces, events, pc, localVars, scanVars, disk>>

Read(p, b) ==
  /\ Request
  /\ readRequests' = Append(readRequests, [id |-> readId, piece |-> p, block |-> b])
  /\ readId' = readId + 1
  /\ UNCHANGED <<writeRequests, pendingVerificationRequests, startVerification>>

Write(p, b, data) ==
  /\ Request
  /\ writeRequests' = Append(writeRequests, [piece |-> p, block |-> b, data |-> data])
  /\ UNCHANGED <<readRequests, pendingVerificationRequests, startVerification, readId>>

\* Mutant: the verifications are served latest first.
VerifyPieceFirst(p) ==
  /\ Request
  /\ pendingVerificationRequests' = <<p>> \o pendingVerificationRequests
  /\ startVerification' = TRUE
  /\ UNCHANGED <<readRequests, writeRequests, readId>>

VerifyPiece(p) ==
  /\ Request
  /\ pendingVerificationRequests' = Append(pendingVerificationRequests, p)
  /\ startVerification' = TRUE
  /\ UNCHANGED <<readRequests, writeRequests, readId>>

\* Mutant: wakeUp resets the flag without signalling the condition.
WakeUpNobody ==
  /\ gui = "running" /\ ~MutexHeld
  /\ wokeUp /\ wokeUp' = FALSE
  /\ UNCHANGED <<gui, quit, readId, issued, startVerification, queueVars, verifiedPieces,
                 events, pc, localVars, scanVars, disk>>

\* The GUI thread's event loop runs the posted wakeUp.
WakeUp ==
  /\ gui = "running" /\ ~MutexHeld
  /\ wokeUp /\ wokeUp' = FALSE
  /\ WakeOne
  /\ UNCHANGED <<gui, quit, readId, issued, startVerification, queueVars, verifiedPieces,
                 events, localVars, scanVars, disk>>

\* The event loop delivers the oldest signal to the torrent client.
Receive ==
  /\ gui = "running"
  /\ events # <<>> /\ events' = Tail(events)
  /\ UNCHANGED <<guiVars, startVerification, queueVars, verifiedPieces, pc, localVars,
                 scanVars, disk>>

\* ~FileManager, which takes no lock: quit = true; cond.wakeOne(); wait().
SetQuit ==
  /\ gui \in {"new", "running"}
  /\ gui' = "quitSet"
  /\ quit' = TRUE
  /\ UNCHANGED <<wokeUp, readId, issued, startVerification, queueVars, verifiedPieces,
                 events, pc, localVars, scanVars, disk>>

WakeForQuit ==
  /\ gui = "quitSet"
  /\ gui' = "joining"
  /\ WakeOne
  /\ UNCHANGED <<quit, wokeUp, readId, issued, startVerification, queueVars,
                 verifiedPieces, events, localVars, scanVars, disk>>

Join ==
  /\ gui = "joining" /\ pc \in {"notStarted", "done"}
  /\ gui' = "gone"
  /\ UNCHANGED <<quit, wokeUp, readId, issued, startVerification, queueVars,
                 verifiedPieces, events, pc, localVars, scanVars, disk>>

-----------------------------------------------------------------------------
(* The file thread: run().                                                 *)

GenerateFiles ==
  /\ pc = "generate"
  /\ \/ pc' = "check" /\ newFile' \in BOOLEAN /\ UNCHANGED events
     \/ pc' = "done" /\ newFile' \in BOOLEAN /\ events' = Append(events, ErrorSignal)
  /\ UNCHANGED <<guiVars, startVerification, queueVars, verifiedPieces, localVars,
                 scan, scanned, disk>>

NothingToDo ==
  ~quit /\ readRequests = <<>> /\ writeRequests = <<>> /\ ~startVerification

\* The mutex is locked and the condition of the sleep evaluated.
Check ==
  /\ pc = "check"
  /\ pc' = IF NothingToDo THEN "presleep" ELSE "takeReads"
  /\ UNCHANGED <<guiVars, startVerification, queueVars, verifiedPieces, events,
                 localVars, scanVars, disk>>

\* cond.wait releases the mutex and starts waiting in one step.
Sleep ==
  /\ pc = "presleep" /\ pc' = "asleep"
  /\ UNCHANGED <<guiVars, startVerification, queueVars, verifiedPieces, events,
                 localVars, scanVars, disk>>

\* Mutant: the queue of reads is copied and not cleared.
CopyReads ==
  /\ pc = "takeReads" /\ pc' = "reading"
  /\ newReadRequests' = readRequests
  /\ UNCHANGED <<guiVars, startVerification, queueVars, verifiedPieces, events,
                 newWriteRequests, newPendingVerificationRequests, scanVars, disk>>

TakeReads ==
  /\ pc = "takeReads" /\ pc' = "reading"
  /\ newReadRequests' = readRequests
  /\ readRequests' = <<>>
  /\ UNCHANGED <<guiVars, startVerification, writeRequests, pendingVerificationRequests,
                 verifiedPieces, events, newWriteRequests, newPendingVerificationRequests,
                 scanVars, disk>>

\* One turn of the read loop, readBlock included: a block comes back short when a file
\* cannot be opened, which is an error, when it cannot be read, which is none, and when
\* quit is set.
ReadBlock ==
  /\ pc = "reading" /\ newReadRequests # <<>>
  /\ LET r == Head(newReadRequests) IN
       \/ ~quit /\ events' = Append(events, DataRead(r.id, disk[r.piece][r.block]))
       \/ ~quit /\ events' = events \o <<ErrorSignal, DataRead(r.id, "bad")>>
       \/ events' = Append(events, DataRead(r.id, "bad"))
  /\ newReadRequests' = Tail(newReadRequests)
  /\ UNCHANGED <<guiVars, startVerification, queueVars, verifiedPieces, pc,
                 newWriteRequests, newPendingVerificationRequests, scanVars, disk>>

\* The mutex is locked until the verification requests are processed too.
TakeWrites ==
  /\ pc = "reading" /\ newReadRequests = <<>> /\ pc' = "writing"
  /\ newWriteRequests' = writeRequests
  /\ writeRequests' = <<>>
  /\ UNCHANGED <<guiVars, startVerification, readRequests, pendingVerificationRequests,
                 verifiedPieces, events, newReadRequests, newPendingVerificationRequests,
                 scanVars, disk>>

\* The head of the write loop takes one request.
TakeWrite ==
  /\ pc = "writing" /\ ~quit /\ newWriteRequests # <<>>
  /\ pc' = "writeBlock"
  /\ UNCHANGED <<guiVars, startVerification, queueVars, verifiedPieces, events,
                 localVars, scanVars, disk>>

\* writeBlock: tests quit before every file the block reaches into, so that a quit
\* that arrives meanwhile leaves the block unwritten or half written.
WriteBlock ==
  /\ pc = "writeBlock" /\ pc' = "writing"
  /\ LET w == Head(newWriteRequests)
         unwritten == {disk, [disk EXCEPT ![w.piece][w.block] = "bad"]} IN
       \/ /\ ~quit
          /\ disk' = [disk EXCEPT ![w.piece][w.block] = w.data]
          /\ UNCHANGED events
       \/ disk' \in unwritten /\ events' = Append(events, ErrorSignal)
       \/ quit /\ disk' \in unwritten /\ UNCHANGED events
  /\ newWriteRequests' = Tail(newWriteRequests)
  /\ UNCHANGED <<guiVars, startVerification, queueVars, verifiedPieces, newReadRequests,
                 newPendingVerificationRequests, scanVars>>

\* The write loop ends; under quit what is left of its list is forgotten.
\* verifyFileContents then verifies the requested pieces or, when there are none
\* and no piece was known to be complete, starts the initial verification.
EndWrites ==
  /\ pc = "writing" /\ (quit \/ newWriteRequests = <<>>)
  /\ newWriteRequests' = <<>>
  /\ IF startVerification
       THEN /\ newPendingVerificationRequests' = pendingVerificationRequests
            /\ pendingVerificationRequests' = <<>>
            /\ IF pendingVerificationRequests # <<>>
                 THEN pc' = "verifying" /\ UNCHANGED scan
                 ELSE /\ pc' = "scanning"
                      /\ scan' = IF verifiedPieces = {} /\ ~newFile THEN 0 ELSE NumPieces
       ELSE /\ pc' = "loopEnd"
            /\ UNCHANGED <<newPendingVerificationRequests, pendingVerificationRequests, scan>>
  /\ UNCHANGED <<guiVars, startVerification, readRequests, writeRequests, verifiedPieces,
                 events, newReadRequests, newFile, scanned, disk>>

ChecksumMatches(store, p) == \A b \in Blocks : store[p][b] = "good"

\* verifySinglePiece(p), and the signals that report each verdict.
VerifySinglePiece(p, report) ==
  LET ok == ChecksumMatches(disk, p) IN
  \/ /\ ~quit
     /\ events' = events \o report[ok]
     /\ verifiedPieces' = IF ok THEN verifiedPieces \cup {p} ELSE verifiedPieces
  \/ /\ ~quit
     /\ events' = Append(events, ErrorSignal) \o report[FALSE]
     /\ UNCHANGED verifiedPieces
  \/ quit /\ events' = events \o report[FALSE] /\ UNCHANGED verifiedPieces

\* One piece of the requested verifications.
VerifyRequested ==
  /\ pc = "verifying" /\ newPendingVerificationRequests # <<>>
  /\ LET p == Head(newPendingVerificationRequests) IN
       VerifySinglePiece(p, [ok \in BOOLEAN |-> <<PieceVerified(p, ok)>>])
  /\ newPendingVerificationRequests' = Tail(newPendingVerificationRequests)
  /\ UNCHANGED <<guiVars, startVerification, queueVars, pc, newReadRequests,
                 newWriteRequests, scanVars, disk>>

EndVerify ==
  /\ pc = "verifying" /\ newPendingVerificationRequests = <<>>
  /\ pc' = "loopEnd"
  /\ startVerification' = FALSE
  /\ UNCHANGED <<guiVars, queueVars, verifiedPieces, events, localVars, scanVars, disk>>

\* One piece of the initial verification, which reports nothing about single pieces.
ScanPiece ==
  /\ pc = "scanning" /\ scan < NumPieces
  /\ VerifySinglePiece(scan, [ok \in BOOLEAN |-> <<>>])
  /\ scan' = scan + 1
  /\ UNCHANGED <<guiVars, startVerification, queueVars, pc, localVars, newFile, scanned, disk>>

EndScan ==
  /\ pc = "scanning" /\ scan = NumPieces
  /\ pc' = "loopEnd"
  /\ events' = Append(events, VerificationDone)
  /\ startVerification' = FALSE
  /\ scanned' = TRUE
  /\ UNCHANGED <<guiVars, queueVars, verifiedPieces, localVars, newFile, scan, disk>>

\* while (!quit); after it, the remaining writes are taken for a last time.
LoopEnd ==
  /\ pc = "loopEnd"
  /\ IF quit
       THEN /\ pc' = "flush"
            /\ newWriteRequests' = writeRequests
            /\ writeRequests' = <<>>
       ELSE pc' = "check" /\ UNCHANGED <<newWriteRequests, writeRequests>>
  /\ UNCHANGED <<guiVars, startVerification, readRequests, pendingVerificationRequests,
                 verifiedPieces, events, newReadRequests, newPendingVerificationRequests,
                 scanVars, disk>>

\* The last writes go through writeBlock, which writes nothing once quit is set.
Flush ==
  /\ pc = "flush"
  /\ IF newWriteRequests = <<>>
       THEN pc' = "done" /\ UNCHANGED newWriteRequests
       ELSE newWriteRequests' = Tail(newWriteRequests) /\ UNCHANGED pc
  /\ UNCHANGED <<guiVars, startVerification, queueVars, verifiedPieces, events,
                 newReadRequests, newPendingVerificationRequests, scanVars, disk>>

-----------------------------------------------------------------------------

\* Steps the event loop of the GUI thread takes by itself.
EventLoop == WakeUp \/ Receive

\* The rest of a call that has begun.
Call == StartDataVerification \/ WakeForQuit \/ Join

Run ==
  \/ GenerateFiles \/ Check \/ Sleep \/ TakeReads \/ ReadBlock \/ TakeWrites
  \/ TakeWrite \/ WriteBlock \/ EndWrites \/ VerifyRequested \/ EndVerify
  \/ ScanPiece \/ EndScan \/ LoopEnd \/ Flush

Next ==
  \/ Start \/ SetQuit \/ Call \/ EventLoop \/ Run
  \/ \E p \in Pieces, b \in Blocks : Read(p, b)
  \/ \E p \in Pieces, b \in Blocks, data \in Content : Write(p, b, data)
  \/ \E p \in Pieces : VerifyPiece(p)

Spec == Init /\ [][Next]_vars

\* The operating system runs the file thread, a GUI call that has begun returns, and
\* the GUI thread's event loop delivers what is posted to it.
Fairness == WF_vars(Run) /\ WF_vars(Call) /\ WF_vars(WakeUp) /\ WF_vars(Receive)

FairSpec == Spec /\ Fairness

-----------------------------------------------------------------------------
(* Properties.                                                             *)

TypeOK ==
  /\ gui \in GuiStates
  /\ quit \in BOOLEAN
  /\ wokeUp \in BOOLEAN
  /\ startVerification \in BOOLEAN
  /\ readRequests \in Seq(ReadRequest)
  /\ writeRequests \in Seq(WriteRequest)
  /\ pendingVerificationRequests \in Seq(Pieces)
  /\ verifiedPieces \in SUBSET Pieces
  /\ readId \in Nat
  /\ issued \in 0 .. MaxRequests
  /\ events \in Seq(Event)
  /\ pc \in PcValues
  /\ newReadRequests \in Seq(ReadRequest)
  /\ newWriteRequests \in Seq(WriteRequest)
  /\ newPendingVerificationRequests \in Seq(Pieces)
  /\ newFile \in BOOLEAN
  /\ scan \in 0 .. NumPieces
  /\ scanned \in BOOLEAN
  /\ disk \in [Pieces -> [Blocks -> Content]]

WorkPending == readRequests # <<>> \/ writeRequests # <<>> \/ startVerification

\* A request never sleeps in its queue: whenever the file thread waits on the
\* condition, or holds the mutex and is about to, with work to do, a wakeUp is still
\* posted to the GUI thread (read, write, verifyPiece against run's sleep).
NoLostWakeup == pc \in {"presleep", "asleep"} /\ WorkPending => wokeUp

\* A checksum is computed only when no write accepted before it is still in memory:
\* run writes and verifies under one lock of the mutex.
VerifySeesWrites ==
  pc \in {"verifying", "scanning"} => writeRequests = <<>> /\ newWriteRequests = <<>>

\* verificationDone, on which the client starts the tracker and counts its pieces,
\* is not signalled a second time: startVerification set by verifyPiece never makes
\* verifyFileContents take its first-time branch again.
VerifiedOnce == scanned => pc # "scanning"

\* Every read is answered at most once, in the order of the calls, and under the
\* identifier its caller was given (sendToPeer looks the peer up by it): the identifiers
\* of the answers on their way, of the reads that are waiting and of the next read ascend.
ReadsAnsweredInOrder ==
  LET waiting == newReadRequests \o readRequests
      answers == {i \in DOMAIN events : events[i].type = "dataRead"}
  IN  /\ \A i, j \in answers : i < j => events[i].id < events[j].id
      /\ \A i, j \in DOMAIN waiting : i < j => waiting[i].id < waiting[j].id
      /\ \A i \in answers, j \in DOMAIN waiting : events[i].id < waiting[j].id
      /\ \A i \in answers : events[i].id < readId
      /\ \A j \in DOMAIN waiting : waiting[j].id < readId

\* What the thread promises its owner, with queues merged and the lock hidden.
FS == INSTANCE FileService WITH
  phase    <- IF pc = "notStarted" THEN "new"
              ELSE IF pc = "generate" THEN "opening"
              ELSE IF scanned THEN "serving"
              ELSE IF pc = "done" THEN "failed" ELSE "scanning",
  closing  <- quit,
  verified <- verifiedPieces,
  reads    <- newReadRequests \o readRequests,
  writes   <- newWriteRequests \o writeRequests,
  verifies <- newPendingVerificationRequests \o pendingVerificationRequests

\* The two threads, their lock and their wake-ups implement the file service.
ImplementsFileService == FS!Spec

\* Every accepted request is served while the manager is open (wake-ups included).
RequestsServed == FS!Served
=============================================================================
