------------------------- MODULE FileManagerProofs -------------------------
(***************************************************************************)
(* The invariants of FileManager for every number of pieces, every set of  *)
(* blocks and every number of requests.                                    *)
(***************************************************************************)
EXTENDS FileManager, SequenceTheorems, TLAPS

\* The sequence operators of the queues keep their element types.
LEMMA AppendType ==
  ASSUME NEW S, NEW s \in Seq(S), NEW e \in S
  PROVE  Append(s, e) \in Seq(S) /\ s \o <<e>> \in Seq(S) /\ Append(s, e) # <<>>
<1>1. Append(s, e) \in Seq(S) /\ s \o <<e>> \in Seq(S)
  OBVIOUS
<1>2. Len(Append(s, e)) = Len(s) + 1 /\ Len(s) \in Nat /\ Len(<<>>) = 0
  OBVIOUS
<1>3. Append(s, e) # <<>>
  BY <1>2
<1> QED
  BY <1>1, <1>3

LEMMA AppendPairType ==
  ASSUME NEW S, NEW s \in Seq(S), NEW e \in S, NEW f \in S
  PROVE  s \o <<e, f>> \in Seq(S)
<1>1. <<e, f>> \in Seq(S)
  OBVIOUS
<1> QED
  BY <1>1

LEMMA HeadTailType ==
  ASSUME NEW S, NEW s \in Seq(S), s # <<>>
  PROVE  Head(s) \in S /\ Tail(s) \in Seq(S)
  OBVIOUS

LEMMA AppendEmpty ==
  ASSUME NEW S, NEW s \in Seq(S)
  PROVE  s \o <<>> = s
  OBVIOUS

\* The signals of the file thread are events.
LEMMA SignalTypes ==
  /\ ErrorSignal \in Event /\ VerificationDone \in Event
  /\ \A id \in Nat, data \in Content : DataRead(id, data) \in Event
  /\ \A p \in Pieces, ok \in BOOLEAN : PieceVerified(p, ok) \in Event
  BY DEF Event, DataRead, PieceVerified

LEMMA TypeInit == Init => TypeOK
<1> SUFFICES ASSUME Init PROVE TypeOK
  OBVIOUS
<1>1. \A S : <<>> \in Seq(S)
  OBVIOUS
<1>2. 0 \in 0 .. NumPieces /\ 0 \in 0 .. MaxRequests
  BY NumPiecesAssumption, MaxRequestsAssumption
<1> QED
  BY <1>1, <1>2 DEF Init, TypeOK, GuiStates, PcValues

\* What the file thread may append to its signals keeps them a sequence of events.
LEMMA EventsTypes ==
  ASSUME events \in Seq(Event)
  PROVE  /\ \A e \in Event : Append(events, e) \in Seq(Event)
         /\ \A e \in Event : events \o <<e>> \in Seq(Event)
         /\ \A e, f \in Event : events \o <<e, f>> \in Seq(Event)
         /\ \A e, f \in Event : Append(events, e) \o <<f>> \in Seq(Event)
         /\ events \o <<>> \in Seq(Event)
         /\ \A e \in Event : Append(events, e) \o <<>> \in Seq(Event)
<1>1. \A e \in Event : Append(events, e) \in Seq(Event) /\ events \o <<e>> \in Seq(Event)
  BY AppendType
<1>2. \A e, f \in Event : events \o <<e, f>> \in Seq(Event)
  BY AppendPairType
<1>3. \A e, f \in Event : Append(events, e) \o <<f>> \in Seq(Event)
  BY <1>1, AppendType
<1>4. events \o <<>> \in Seq(Event) /\ \A e \in Event : Append(events, e) \o <<>> \in Seq(Event)
  BY <1>1, AppendEmpty
<1> QED
  BY <1>1, <1>2, <1>3, <1>4

\* In writeBlock the file thread has a request at hand.
BlockTaken == pc = "writeBlock" => newWriteRequests # <<>>

LEMMA BlockTakenNext == BlockTaken /\ [Next]_vars => BlockTaken'
<1> SUFFICES ASSUME BlockTaken, [Next]_vars PROVE BlockTaken'
  OBVIOUS
<1>1. CASE Run
  BY <1>1 DEF Run, GenerateFiles, Check, Sleep, TakeReads, ReadBlock, TakeWrites, TakeWrite,
    WriteBlock, EndWrites, VerifyRequested, EndVerify, ScanPiece, EndScan, LoopEnd, Flush,
    BlockTaken, localVars
<1>2. CASE UNCHANGED newWriteRequests /\ (pc' = pc \/ pc' \in {"generate", "takeReads"})
  BY <1>2 DEF BlockTaken
<1>3. CASE Start \/ SetQuit \/ Call \/ EventLoop
  BY <1>2, <1>3 DEF Start, SetQuit, Call, StartDataVerification, WakeForQuit, Join, EventLoop,
    WakeUp, Receive, WakeOne, localVars
<1>4. CASE \/ \E p \in Pieces, b \in Blocks : Read(p, b)
           \/ \E p \in Pieces, b \in Blocks, data \in Content : Write(p, b, data)
           \/ \E p \in Pieces : VerifyPiece(p)
  BY <1>2, <1>4 DEF Read, Write, VerifyPiece, Request, localVars
<1>5. CASE UNCHANGED vars
  BY <1>2, <1>5 DEF vars, localVars
<1> QED
  BY <1>1, <1>3, <1>4, <1>5 DEF Next

LEMMA TypeNext == TypeOK /\ BlockTaken /\ [Next]_vars => TypeOK'
<1> SUFFICES ASSUME TypeOK, BlockTaken, [Next]_vars PROVE TypeOK'
  OBVIOUS
<1> USE NumPiecesAssumption, BlocksAssumption, MaxRequestsAssumption
<1>1. CASE Start
  BY <1>1 DEF Start, TypeOK, guiVars, queueVars, localVars, scanVars, GuiStates, PcValues
<1>2. CASE StartDataVerification
  BY <1>2 DEF StartDataVerification, WakeOne, MutexHeld, TypeOK, guiVars, queueVars, localVars, scanVars, GuiStates, PcValues
<1>3. CASE WakeUp
  BY <1>3 DEF WakeUp, WakeOne, MutexHeld, TypeOK, guiVars, queueVars, localVars, scanVars, GuiStates, PcValues
<1>4. CASE Receive
  BY <1>4 DEF Receive, TypeOK, guiVars, queueVars, localVars, scanVars, GuiStates, PcValues
<1>5. CASE SetQuit
  BY <1>5 DEF SetQuit, TypeOK, guiVars, queueVars, localVars, scanVars, GuiStates, PcValues
<1>6. CASE WakeForQuit
  BY <1>6 DEF WakeForQuit, WakeOne, TypeOK, guiVars, queueVars, localVars, scanVars, GuiStates, PcValues
<1>7. CASE Join
  BY <1>7 DEF Join, TypeOK, guiVars, queueVars, localVars, scanVars, GuiStates, PcValues
<1>8. CASE GenerateFiles
  <2>1. events' \in Seq(Event)
    BY <1>8, EventsTypes, SignalTypes DEF TypeOK, GenerateFiles
  <2> QED
    BY <1>8, <2>1 DEF GenerateFiles, TypeOK, guiVars, queueVars, localVars, scanVars, GuiStates, PcValues
<1>9. CASE Check
  BY <1>9 DEF Check, NothingToDo, TypeOK, guiVars, queueVars, localVars, scanVars, GuiStates, PcValues
<1>10. CASE Sleep
  BY <1>10 DEF Sleep, TypeOK, guiVars, queueVars, localVars, scanVars, GuiStates, PcValues
<1>11. CASE TakeReads
  BY <1>11 DEF TakeReads, TypeOK, guiVars, queueVars, localVars, scanVars, GuiStates, PcValues
<1>12. CASE ReadBlock
  <2> DEFINE r == Head(newReadRequests)
  <2>1. r \in ReadRequest /\ newReadRequests' \in Seq(ReadRequest)
    BY <1>12, HeadTailType DEF TypeOK, ReadBlock
  <2>2. r.id \in Nat /\ disk[r.piece][r.block] \in Content /\ "bad" \in Content
    BY <2>1 DEF TypeOK, ReadRequest, Content
  <2> HIDE DEF r
  <2>3. \/ events' = Append(events, DataRead(r.id, disk[r.piece][r.block]))
        \/ events' = events \o <<ErrorSignal, DataRead(r.id, "bad")>>
        \/ events' = Append(events, DataRead(r.id, "bad"))
    BY <1>12 DEF TypeOK, ReadBlock, r
  <2>4. events' \in Seq(Event)
    BY <2>2, <2>3, SignalTypes, EventsTypes DEF TypeOK
  <2> QED
    BY <1>12, <2>1, <2>4 DEF ReadBlock, TypeOK, guiVars, queueVars, localVars, scanVars, GuiStates, PcValues
<1>13. CASE TakeWrites
  BY <1>13 DEF TakeWrites, TypeOK, guiVars, queueVars, localVars, scanVars, GuiStates, PcValues
<1>14. CASE TakeWrite
  BY <1>14 DEF TakeWrite, TypeOK, guiVars, queueVars, localVars, scanVars, GuiStates, PcValues
<1>15. CASE WriteBlock
  <2> DEFINE w == Head(newWriteRequests)
  <2>1. events' \in Seq(Event)
    BY <1>15, EventsTypes, SignalTypes DEF TypeOK, WriteBlock
  <2>2. w \in WriteRequest /\ newWriteRequests' \in Seq(WriteRequest)
    BY <1>15, HeadTailType DEF TypeOK, WriteBlock, BlockTaken
  <2>3. w.data \in Content /\ "bad" \in Content
    BY <2>2 DEF WriteRequest, Content
  <2>4. \A c \in Content : [disk EXCEPT ![w.piece][w.block] = c] \in [Pieces -> [Blocks -> Content]]
    BY <2>2 DEF TypeOK, WriteRequest
  <2>5. disk' \in [Pieces -> [Blocks -> Content]]
    BY <1>15, <2>3, <2>4 DEF TypeOK, WriteBlock
  <2> QED
    BY <1>15, <2>1, <2>2, <2>5 DEF WriteBlock, TypeOK, guiVars, queueVars, localVars, scanVars, GuiStates, PcValues
<1>16. CASE EndWrites
  <2>0. \A S : <<>> \in Seq(S)
    OBVIOUS
  <2>1. /\ newPendingVerificationRequests' \in Seq(Pieces)
        /\ pendingVerificationRequests' \in Seq(Pieces)
        /\ newWriteRequests' \in Seq(WriteRequest)
    BY <1>16, <2>0 DEF TypeOK, EndWrites
  <2>2. scan' \in 0 .. NumPieces /\ pc' \in PcValues
    BY <1>16 DEF TypeOK, EndWrites, PcValues
  <2> QED
    BY <1>16, <2>1, <2>2 DEF TypeOK, EndWrites, guiVars, GuiStates
<1>17. CASE VerifyRequested
  <2> DEFINE p == Head(newPendingVerificationRequests)
  <2>1. p \in Pieces /\ newPendingVerificationRequests' \in Seq(Pieces)
    BY <1>17, HeadTailType DEF TypeOK, VerifyRequested
  <2>2. verifiedPieces' \in SUBSET Pieces
    BY <1>17, <2>1 DEF TypeOK, VerifyRequested, VerifySinglePiece
  <2> HIDE DEF p
  <2>3. \E ok \in BOOLEAN : \/ events' = events \o <<PieceVerified(p, ok)>>
                           \/ events' = Append(events, ErrorSignal) \o <<PieceVerified(p, ok)>>
    BY <1>17 DEF TypeOK, VerifyRequested, VerifySinglePiece, ChecksumMatches, p
  <2>4. events' \in Seq(Event)
    BY <2>1, <2>3, SignalTypes, EventsTypes DEF TypeOK
  <2> QED
    BY <1>17, <2>1, <2>2, <2>4 DEF VerifyRequested, TypeOK, guiVars, queueVars, localVars, scanVars, GuiStates, PcValues
<1>18. CASE EndVerify
  BY <1>18 DEF EndVerify, TypeOK, guiVars, queueVars, localVars, scanVars, GuiStates, PcValues
<1>19. CASE ScanPiece
  <2>1. scan \in Pieces /\ scan' \in 0 .. NumPieces
    <3>1. scan \in 0 .. NumPieces /\ scan < NumPieces /\ scan' = scan + 1
      BY <1>19 DEF TypeOK, ScanPiece
    <3> QED
      BY <3>1 DEF Pieces
  <2>2. verifiedPieces' \in SUBSET Pieces
    BY <1>19, <2>1 DEF TypeOK, ScanPiece, VerifySinglePiece
  <2>3. events' = events \o <<>> \/ events' = Append(events, ErrorSignal) \o <<>>
    BY <1>19 DEF TypeOK, ScanPiece, VerifySinglePiece, ChecksumMatches
  <2>4. events' \in Seq(Event)
    BY <2>3, SignalTypes, EventsTypes DEF TypeOK
  <2> QED
    BY <1>19, <2>1, <2>2, <2>4 DEF ScanPiece, TypeOK, guiVars, queueVars, localVars, scanVars, GuiStates, PcValues
<1>20. CASE EndScan
  <2>1. events' \in Seq(Event)
    BY <1>20, EventsTypes, SignalTypes DEF TypeOK, EndScan
  <2> QED
    BY <1>20, <2>1 DEF EndScan, TypeOK, guiVars, queueVars, localVars, scanVars, GuiStates, PcValues
<1>21. CASE LoopEnd
  <2>0. \A S : <<>> \in Seq(S)
    OBVIOUS
  <2>1. writeRequests' \in Seq(WriteRequest) /\ newWriteRequests' \in Seq(WriteRequest)
    BY <1>21, <2>0 DEF TypeOK, LoopEnd
  <2> QED
    BY <1>21, <2>1 DEF TypeOK, LoopEnd, guiVars, scanVars, PcValues
<1>22. CASE Flush
  <2>1. newWriteRequests' \in Seq(WriteRequest)
    BY <1>22, HeadTailType DEF TypeOK, Flush
  <2> QED
    BY <1>22, <2>1 DEF Flush, TypeOK, guiVars, queueVars, localVars, scanVars, GuiStates, PcValues
<1>23. CASE \E p \in Pieces, b \in Blocks : Read(p, b)
  <2> PICK p \in Pieces, b \in Blocks : Read(p, b)
    BY <1>23
  <2>1. [id |-> readId, piece |-> p, block |-> b] \in ReadRequest
    BY DEF TypeOK, ReadRequest
  <2>2. readRequests' \in Seq(ReadRequest)
    BY <2>1, AppendType DEF TypeOK, Read
  <2> QED
    BY <2>2 DEF Read, Request, TypeOK, guiVars, queueVars, localVars, scanVars, GuiStates, PcValues
<1>24. CASE \E p \in Pieces, b \in Blocks, data \in Content : Write(p, b, data)
  <2> PICK p \in Pieces, b \in Blocks, data \in Content : Write(p, b, data)
    BY <1>24
  <2>1. [piece |-> p, block |-> b, data |-> data] \in WriteRequest
    BY DEF WriteRequest
  <2>2. writeRequests' \in Seq(WriteRequest)
    BY <2>1, AppendType DEF TypeOK, Write
  <2> QED
    BY <2>2 DEF Write, Request, TypeOK, guiVars, queueVars, localVars, scanVars, GuiStates, PcValues
<1>25. CASE \E p \in Pieces : VerifyPiece(p)
  BY <1>25 DEF VerifyPiece, Request, MutexHeld, TypeOK, guiVars, queueVars, localVars, scanVars, GuiStates, PcValues
<1>26. CASE UNCHANGED vars
  BY <1>26 DEF vars, TypeOK, guiVars, queueVars, localVars, scanVars, GuiStates, PcValues
<1> QED
  BY <1>1, <1>2, <1>3, <1>4, <1>5, <1>6, <1>7, <1>8, <1>9, <1>10, <1>11, <1>12, <1>13, <1>14, <1>15, <1>16, <1>17, <1>18, <1>19, <1>20, <1>21, <1>22, <1>23, <1>24, <1>25, <1>26 DEF Next, Call, EventLoop, Run

-----------------------------------------------------------------------------

\* What the mutex protects (and the thread not running before start): nothing is
\* queued between the test for work and the sleep, no write arrives while the thread
\* writes and verifies, and its private list of writes is empty elsewhere.
MutexInv ==
  /\ gui = "new" => pc = "notStarted"
  /\ pc = "presleep" => ~WorkPending
  /\ pc \in {"writing", "writeBlock", "verifying", "scanning"} => writeRequests = <<>>
  /\ pc \notin {"writing", "writeBlock", "flush"} => newWriteRequests = <<>>

\* After the initial verification startVerification is always about a queued piece.
VerificationInv ==
  /\ gui \in {"new", "starting"} => ~startVerification /\ ~scanned /\ pc # "scanning"
  /\ scanned /\ startVerification /\ pc # "verifying" => pendingVerificationRequests # <<>>

IInv == TypeOK /\ BlockTaken /\ MutexInv /\ NoLostWakeup /\ VerificationInv /\ VerifiedOnce

LEMMA InvInit == Init => IInv
  BY TypeInit DEF Init, IInv, BlockTaken, MutexInv, WorkPending, NoLostWakeup, VerificationInv,
    VerifiedOnce

LEMMA MutexNext == TypeOK /\ MutexInv /\ [Next]_vars => MutexInv'
<1> SUFFICES ASSUME TypeOK, MutexInv, [Next]_vars PROVE MutexInv'
  OBVIOUS
<1> USE DEF MutexInv, WorkPending
<1>1. CASE Start \/ SetQuit \/ Call \/ EventLoop
  BY <1>1 DEF Start, SetQuit, Call, StartDataVerification, WakeForQuit, Join, EventLoop, WakeUp,
    Receive, WakeOne, MutexHeld, queueVars, localVars, guiVars
<1>2. CASE \/ \E p \in Pieces, b \in Blocks : Read(p, b)
           \/ \E p \in Pieces, b \in Blocks, data \in Content : Write(p, b, data)
           \/ \E p \in Pieces : VerifyPiece(p)
  BY <1>2 DEF Read, Write, VerifyPiece, Request, MutexHeld, localVars
<1>3. CASE GenerateFiles \/ Check \/ Sleep \/ TakeReads \/ ReadBlock
  BY <1>3 DEF GenerateFiles, Check, NothingToDo, Sleep, TakeReads, ReadBlock, queueVars, localVars, guiVars
<1>4. CASE TakeWrites \/ TakeWrite \/ WriteBlock \/ EndWrites
  BY <1>4 DEF TakeWrites, TakeWrite, WriteBlock, EndWrites, queueVars, localVars, guiVars
<1>5. CASE VerifyRequested \/ EndVerify \/ ScanPiece \/ EndScan
  BY <1>5 DEF VerifyRequested, EndVerify, ScanPiece, EndScan, queueVars, localVars, guiVars
<1>6. CASE LoopEnd \/ Flush
  BY <1>6 DEF LoopEnd, Flush, queueVars, localVars, guiVars
<1>7. CASE UNCHANGED vars
  BY <1>7 DEF vars, queueVars, localVars, guiVars
<1> QED
  BY <1>1, <1>2, <1>3, <1>4, <1>5, <1>6, <1>7 DEF Next, Run

LEMMA WakeupNext == MutexInv /\ NoLostWakeup /\ [Next]_vars => NoLostWakeup'
<1> SUFFICES ASSUME MutexInv, NoLostWakeup, [Next]_vars PROVE NoLostWakeup'
  OBVIOUS
<1> USE DEF NoLostWakeup, WorkPending
<1>1. CASE Start \/ SetQuit \/ Call \/ EventLoop
  BY <1>1 DEF Start, SetQuit, Call, StartDataVerification, WakeForQuit, Join, EventLoop, WakeUp,
    Receive, WakeOne, MutexHeld, queueVars, guiVars
<1>2. CASE \/ \E p \in Pieces, b \in Blocks : Read(p, b)
           \/ \E p \in Pieces, b \in Blocks, data \in Content : Write(p, b, data)
           \/ \E p \in Pieces : VerifyPiece(p)
  BY <1>2 DEF Read, Write, VerifyPiece, Request
<1>3. CASE Check
  BY <1>3 DEF Check, NothingToDo, queueVars, guiVars
<1>4. CASE Sleep
  BY <1>4 DEF Sleep, queueVars, guiVars
<1>5. CASE Run /\ pc' \notin {"presleep", "asleep"}
  BY <1>5
<1>6. CASE Run /\ ~Check /\ ~Sleep
  BY <1>5, <1>6 DEF Run, GenerateFiles, TakeReads, ReadBlock, TakeWrites, TakeWrite, WriteBlock,
    EndWrites, VerifyRequested, EndVerify, ScanPiece, EndScan, LoopEnd, Flush
<1>7. CASE UNCHANGED vars
  BY <1>7 DEF vars, queueVars, guiVars
<1> QED
  BY <1>1, <1>2, <1>3, <1>4, <1>6, <1>7 DEF Next

LEMMA VerificationNext ==
  TypeOK /\ VerificationInv /\ VerifiedOnce /\ [Next]_vars => VerificationInv' /\ VerifiedOnce'
<1> SUFFICES ASSUME TypeOK, VerificationInv, VerifiedOnce, [Next]_vars
             PROVE  VerificationInv' /\ VerifiedOnce'
  OBVIOUS
<1> USE DEF VerificationInv, VerifiedOnce
<1>1. CASE Start \/ SetQuit \/ Call \/ EventLoop
  BY <1>1 DEF Start, SetQuit, Call, StartDataVerification, WakeForQuit, Join, EventLoop, WakeUp,
    Receive, WakeOne, MutexHeld, queueVars, guiVars, scanVars
<1>2. CASE \/ \E p \in Pieces, b \in Blocks : Read(p, b)
           \/ \E p \in Pieces, b \in Blocks, data \in Content : Write(p, b, data)
  <2>1. UNCHANGED <<gui, pc, startVerification, pendingVerificationRequests, scanned>>
    BY <1>2 DEF Read, Write, Request, scanVars
  <2> QED
    BY <2>1
<1>3. CASE \E p \in Pieces : VerifyPiece(p)
  <2>1. pendingVerificationRequests' # <<>>
    <3>1. PICK p \in Pieces : VerifyPiece(p)
      BY <1>3
    <3> QED
      BY <3>1, AppendType DEF VerifyPiece, TypeOK
  <2> QED
    BY <1>3, <2>1 DEF VerifyPiece, Request, MutexHeld, scanVars
<1>4. CASE EndWrites
  BY <1>4 DEF EndWrites, guiVars
<1>5. CASE GenerateFiles \/ Check \/ Sleep \/ TakeReads \/ ReadBlock \/ TakeWrites
  BY <1>5 DEF GenerateFiles, Check, Sleep, TakeReads, ReadBlock, TakeWrites, guiVars,
    queueVars, scanVars
<1>6. CASE TakeWrite \/ WriteBlock \/ VerifyRequested \/ ScanPiece
  BY <1>6 DEF TakeWrite, WriteBlock, VerifyRequested, VerifySinglePiece, ScanPiece, guiVars,
    queueVars, localVars, scanVars
<1>7. CASE EndVerify \/ EndScan
  <2>1. startVerification' = FALSE /\ pc' = "loopEnd" /\ gui' = gui
    BY <1>7 DEF EndVerify, EndScan, guiVars
  <2>2. gui \in {"new", "starting"} => scanned' = FALSE
    BY <1>7 DEF EndVerify, EndScan, scanVars, TypeOK
  <2> QED
    BY <2>1, <2>2
<1>8. CASE LoopEnd \/ Flush
  BY <1>8 DEF LoopEnd, Flush, guiVars, queueVars, scanVars
<1>9. CASE UNCHANGED vars
  BY <1>9 DEF vars, queueVars, guiVars, scanVars
<1> QED
  BY <1>1, <1>2, <1>3, <1>4, <1>5, <1>6, <1>7, <1>8, <1>9 DEF Next, Run

\* The conjunction of the parts is inductive.
THEOREM Invariance == Spec => []IInv
<1>1. Init => IInv
  BY InvInit
<1>2. IInv /\ [Next]_vars => IInv'
  BY TypeNext, BlockTakenNext, MutexNext, WakeupNext, VerificationNext DEF IInv
<1> QED
  BY <1>1, <1>2, PTL DEF Spec

\* Type correctness of both threads' state.
THEOREM TypeCorrect == Spec => []TypeOK
  BY Invariance, PTL DEF IInv

\* No interleaving of requests, posted wake-ups and the file thread's test-and-sleep
\* leaves the thread asleep over work with no wake-up on its way.
THEOREM WakeupNeverLost == Spec => []NoLostWakeup
  BY Invariance, PTL DEF IInv

\* No piece is hashed while a write accepted earlier is still queued.
THEOREM VerificationAfterWrites == Spec => []VerifySeesWrites
<1>1. IInv => VerifySeesWrites
  BY DEF IInv, MutexInv, VerifySeesWrites
<1> QED
  BY <1>1, Invariance, PTL

\* The initial verification, and with it verificationDone, happens once.
THEOREM InitialVerificationOnce == Spec => []VerifiedOnce
  BY Invariance, PTL DEF IInv

-----------------------------------------------------------------------------
(* The refinement: the queues of the abstract service are what the thread  *)
(* has taken followed by what it has still to take.                        *)

LEMMA FirstOfConcat ==
  ASSUME NEW S, NEW a \in Seq(S), a # <<>>, NEW b \in Seq(S)
  PROVE  a \o b # <<>> /\ Head(a \o b) = Head(a) /\ Tail(a \o b) = Tail(a) \o b
<1>1. a \o b # <<>>
  BY ConcatEqualIffEmpty
<1>2. Len(a) \in Nat \ {0} /\ Len(b) \in Nat
  BY EmptySeq, LenProperties
<1>3. /\ a \o b \in Seq(S) /\ Len(a \o b) = Len(a) + Len(b)
      /\ \A i \in 1..(Len(a) + Len(b)) : (a \o b)[i] = IF i <= Len(a) THEN a[i] ELSE b[i - Len(a)]
  BY ConcatProperties
<1>4. Head(a \o b) = Head(a)
  BY <1>1, <1>2, <1>3
<1>5. Tail(a \o b) = Tail(a) \o b
  <2>1. /\ Tail(a) \in Seq(S) /\ Len(Tail(a)) = Len(a) - 1
        /\ \A i \in 1..Len(Tail(a)) : Tail(a)[i] = a[i + 1]
    BY HeadTailProperties
  <2>2. /\ Tail(a \o b) \in Seq(S) /\ Len(Tail(a \o b)) = Len(a) + Len(b) - 1
        /\ \A i \in 1..(Len(a) + Len(b) - 1) : Tail(a \o b)[i] = (a \o b)[i + 1]
    BY <1>1, <1>3, HeadTailProperties
  <2>3. /\ Tail(a) \o b \in Seq(S) /\ Len(Tail(a) \o b) = (Len(a) - 1) + Len(b)
        /\ \A i \in 1..((Len(a) - 1) + Len(b)) :
             (Tail(a) \o b)[i] = IF i <= Len(a) - 1 THEN Tail(a)[i] ELSE b[i - (Len(a) - 1)]
    BY <2>1, ConcatProperties
  <2>4. ASSUME NEW i \in 1..(Len(a) + Len(b) - 1) PROVE Tail(a \o b)[i] = (Tail(a) \o b)[i]
    <3>1. CASE i <= Len(a) - 1
      <4>1. i \in 1..Len(Tail(a)) /\ i + 1 <= Len(a) /\ i + 1 \in 1..(Len(a) + Len(b))
        BY <1>2, <2>1, <3>1
      <4> QED
        BY <1>2, <1>3, <2>1, <2>2, <2>3, <3>1, <4>1
    <3>2. CASE ~(i <= Len(a) - 1)
      <4>1. ~(i + 1 <= Len(a)) /\ i + 1 \in 1..(Len(a) + Len(b)) /\ (i + 1) - Len(a) = i - (Len(a) - 1)
        BY <1>2, <3>2
      <4> QED
        BY <1>2, <1>3, <2>2, <2>3, <3>2, <4>1
    <3> QED
      BY <3>1, <3>2
  <2>5. Len(Tail(a \o b)) = Len(Tail(a) \o b)
    BY <1>2, <2>2, <2>3
  <2> QED
    BY <1>2, <2>2, <2>3, <2>4, <2>5, SeqEqual
<1> QED
  BY <1>1, <1>4, <1>5

LEMMA PairOfTwo ==
  ASSUME NEW S, NEW e \in S, NEW f \in S
  PROVE  <<e>> \o <<f>> = <<e, f>>
<1>1. <<e>> \in Seq(S) /\ <<f>> \in Seq(S) /\ <<e, f>> \in Seq(S)
  OBVIOUS
<1>2. Len(<<e>>) = 1 /\ Len(<<f>>) = 1 /\ Len(<<e, f>>) = 2
  OBVIOUS
<1>3. /\ <<e>> \o <<f>> \in Seq(S) /\ Len(<<e>> \o <<f>>) = 1 + 1
      /\ \A i \in 1..(1 + 1) : (<<e>> \o <<f>>)[i] = IF i <= 1 THEN <<e>>[i] ELSE <<f>>[i - 1]
  BY <1>1, <1>2, ConcatProperties
<1>4. \A i \in 1..2 : (<<e>> \o <<f>>)[i] = <<e, f>>[i]
  <2>1. (<<e>> \o <<f>>)[1] = e /\ (<<e>> \o <<f>>)[2] = f
    BY <1>3
  <2> QED
    BY <2>1
<1> DEFINE s == <<e>> \o <<f>>
           t == <<e, f>>
<1>5. s \in Seq(S) /\ t \in Seq(S) /\ Len(s) = 2 /\ Len(t) = 2 /\ \A i \in 1..2 : s[i] = t[i]
  BY <1>1, <1>2, <1>3, <1>4
<1> HIDE DEF s, t
<1>6. s = t
  BY <1>5, SeqEqual
<1> QED
  BY <1>6 DEF s, t

LEMMA LastOfConcat ==
  ASSUME NEW S, NEW a \in Seq(S), NEW b \in Seq(S), NEW e \in S
  PROVE  a \o Append(b, e) = Append(a \o b, e)
<1>1. Append(b, e) = b \o <<e>> /\ a \o b \in Seq(S) /\ <<e>> \in Seq(S)
  BY AppendIsConcat, ConcatProperties
<1>2. Append(a \o b, e) = (a \o b) \o <<e>>
  BY <1>1, AppendIsConcat
<1> QED
  BY <1>1, <1>2, ConcatAssociative

\* What quit and the phases depend on.
ClosingInv ==
  /\ quit <=> gui \in {"quitSet", "joining", "gone"}
  /\ pc \in {"notStarted", "generate"} => ~scanned
  /\ pc \notin {"reading"} => newReadRequests = <<>>
  /\ pc \notin {"verifying"} => newPendingVerificationRequests = <<>>
  /\ pc = "flush" => quit

\* Before the initial verification is over nothing is requested, and the thread cannot
\* go round its loop without it.
ScanInv ==
  /\ ~scanned /\ pc # "done" =>
       /\ readRequests = <<>> /\ writeRequests = <<>> /\ pendingVerificationRequests = <<>>
       /\ newReadRequests = <<>> /\ newWriteRequests = <<>>
  /\ ~scanned => pc \notin {"loopEnd", "flush", "verifying", "writeBlock"}
  /\ ~scanned /\ pc \in {"takeReads", "reading", "writing", "scanning"} => startVerification
  /\ ~scanned /\ gui \notin {"new", "starting"} /\ pc \notin {"notStarted", "done"} => startVerification
  /\ gui \in {"starting", "running"} => pc # "notStarted"

LEMMA ClosingInit == Init => ClosingInv /\ ScanInv
BY DEF Init, ClosingInv, ScanInv

LEMMA ClosingNext == TypeOK /\ MutexInv /\ ClosingInv /\ [Next]_vars => ClosingInv'
<1> SUFFICES ASSUME TypeOK, MutexInv, ClosingInv, [Next]_vars PROVE ClosingInv'
  OBVIOUS
<1> USE DEF ClosingInv
<1>1. CASE Start \/ SetQuit \/ Call \/ EventLoop
  BY <1>1 DEF Start, SetQuit, Call, StartDataVerification, WakeForQuit, Join, EventLoop, WakeUp,
    Receive, WakeOne, MutexInv, localVars, guiVars, scanVars
<1>2. CASE \/ \E p \in Pieces, b \in Blocks : Read(p, b)
           \/ \E p \in Pieces, b \in Blocks, data \in Content : Write(p, b, data)
           \/ \E p \in Pieces : VerifyPiece(p)
  <2>1. UNCHANGED <<gui, quit, pc, scanned, newReadRequests, newPendingVerificationRequests>>
    BY <1>2 DEF Read, Write, VerifyPiece, Request, localVars, scanVars
  <2> QED
    BY <2>1
<1>3. CASE GenerateFiles \/ Check \/ Sleep \/ TakeReads \/ ReadBlock
  BY <1>3 DEF GenerateFiles, Check, Sleep, TakeReads, ReadBlock, localVars, guiVars, scanVars
<1>4. CASE TakeWrites \/ TakeWrite \/ WriteBlock \/ EndWrites
  BY <1>4 DEF TakeWrites, TakeWrite, WriteBlock, EndWrites, localVars, guiVars, scanVars
<1>5. CASE VerifyRequested \/ EndVerify \/ ScanPiece \/ EndScan
  BY <1>5 DEF VerifyRequested, EndVerify, ScanPiece, EndScan, localVars, guiVars, scanVars
<1>6. CASE LoopEnd \/ Flush
  BY <1>6 DEF LoopEnd, Flush, localVars, guiVars, scanVars
<1>7. CASE UNCHANGED vars
  BY <1>7 DEF vars, localVars, guiVars, scanVars
<1> QED
  BY <1>1, <1>2, <1>3, <1>4, <1>5, <1>6, <1>7 DEF Next, Run

LEMMA ScanNext == TypeOK /\ MutexInv /\ ClosingInv /\ ScanInv /\ [Next]_vars => ScanInv'
<1> SUFFICES ASSUME TypeOK, MutexInv, ClosingInv, ScanInv, [Next]_vars PROVE ScanInv'
  OBVIOUS
<1> USE DEF ScanInv
<1>1. CASE Start \/ SetQuit
  BY <1>1 DEF Start, SetQuit, MutexInv, ClosingInv, queueVars, localVars, scanVars
<1>2. CASE Call \/ EventLoop
  BY <1>2 DEF Call, StartDataVerification, WakeForQuit, Join, EventLoop, WakeUp,
    Receive, WakeOne, ClosingInv, queueVars, localVars, guiVars, scanVars
<1>3. CASE \/ \E p \in Pieces, b \in Blocks : Read(p, b)
           \/ \E p \in Pieces, b \in Blocks, data \in Content : Write(p, b, data)
           \/ \E p \in Pieces : VerifyPiece(p)
  <2>1. (scanned \/ pc = "done") /\ UNCHANGED <<scanned, pc, gui>>
    BY <1>3 DEF Read, Write, VerifyPiece, Request, scanVars
  <2> QED
    BY <2>1
<1>4. CASE GenerateFiles \/ Sleep \/ TakeReads \/ ReadBlock
  BY <1>4 DEF GenerateFiles, Sleep, TakeReads, ReadBlock, queueVars, localVars, guiVars, scanVars
<1>5. CASE Check
  BY <1>5 DEF Check, NothingToDo, ClosingInv, queueVars, localVars, guiVars, scanVars, TypeOK
<1>6. CASE TakeWrites \/ TakeWrite \/ WriteBlock \/ EndWrites
  BY <1>6 DEF TakeWrites, TakeWrite, WriteBlock, EndWrites, queueVars, localVars, guiVars, scanVars
<1>7. CASE VerifyRequested \/ EndVerify \/ ScanPiece \/ EndScan
  BY <1>7 DEF VerifyRequested, EndVerify, ScanPiece, EndScan, queueVars, localVars, guiVars, scanVars
<1>8. CASE LoopEnd \/ Flush
  BY <1>8 DEF LoopEnd, Flush, queueVars, localVars, guiVars, scanVars
<1>9. CASE UNCHANGED vars
  BY <1>9 DEF vars, queueVars, localVars, guiVars, scanVars
<1> QED
  BY <1>1, <1>2, <1>3, <1>4, <1>5, <1>6, <1>7, <1>8, <1>9 DEF Next, Run

LEMMA InitRefines == Init => FS!Init
<1> SUFFICES ASSUME Init PROVE FS!Init
  OBVIOUS
<1>1. <<>> \o <<>> = <<>>
  OBVIOUS
<1> QED
  BY <1>1 DEF Init, FS!Init, Pieces, Content, FS!Pieces, FS!Content

\* The state of the abstract service.
Phase ==
  IF pc = "notStarted" THEN "new"
  ELSE IF pc = "generate" THEN "opening"
  ELSE IF scanned THEN "serving"
  ELSE IF pc = "done" THEN "failed" ELSE "scanning"
Reads    == newReadRequests \o readRequests
Writes   == newWriteRequests \o writeRequests
Verifies == newPendingVerificationRequests \o pendingVerificationRequests

Refined == [FS!Next]_(FS!vars)

RefInv == IInv /\ ClosingInv /\ ScanInv

LEMMA Stutters ==
  ASSUME UNCHANGED <<Phase, quit, disk, verifiedPieces, Reads, Writes, Verifies, events, readId, issued>>
  PROVE  Refined
BY DEF Refined, FS!vars, Phase, Reads, Writes, Verifies

\* A queue that is empty on one side.
LEMMA OneSided == \A S : \A q \in Seq(S) : <<>> \o q = q /\ q \o <<>> = q
BY ConcatEmptySeq

LEMMA StartRefines == RefInv /\ Start => Refined
<1> SUFFICES ASSUME RefInv, Start PROVE FS!Start
  BY DEF Refined, FS!Next
<1>1. pc = "notStarted" /\ pc' = "generate"
  BY DEF RefInv, IInv, MutexInv, Start
<1> QED
  BY <1>1 DEF Start, FS!Start, queueVars, localVars, scanVars

LEMMA QuitRefines == RefInv /\ SetQuit => Refined
<1> SUFFICES ASSUME RefInv, SetQuit PROVE FS!Close
  BY DEF Refined, FS!Next
<1>1. ~quit /\ quit' = TRUE
  BY DEF RefInv, ClosingInv, SetQuit
<1> QED
  BY <1>1 DEF SetQuit, FS!Close, queueVars, localVars, scanVars

LEMMA CallRefines == RefInv /\ (Call \/ WakeUp) => Refined
<1> SUFFICES ASSUME RefInv, Call \/ WakeUp PROVE Refined
  OBVIOUS
<1>1. UNCHANGED <<quit, disk, verifiedPieces, queueVars, localVars, events, readId, issued, scanned>>
  BY DEF Call, StartDataVerification, WakeForQuit, Join, WakeUp, guiVars, scanVars
<1>2. pc' = pc \/ (pc = "asleep" /\ pc' = "takeReads")
  BY DEF Call, StartDataVerification, WakeForQuit, Join, WakeUp, WakeOne
<1>3. Phase' = Phase
  BY <1>1, <1>2 DEF Phase
<1> QED
  BY <1>1, <1>3, Stutters DEF queueVars, localVars, Reads, Writes, Verifies

LEMMA ReceiveRefines == RefInv /\ Receive => Refined
<1> SUFFICES ASSUME RefInv, Receive PROVE FS!Receive
  BY DEF Refined, FS!Next
<1> QED
  BY DEF Receive, FS!Receive, guiVars, queueVars, localVars, scanVars

\* A request is accepted while the abstract service is serving, or has failed.
LEMMA RequestFacts ==
  ASSUME RefInv, Request
  PROVE  /\ ~quit /\ quit' = quit /\ Phase \in {"serving", "failed"} /\ Phase' = Phase
         /\ issued < MaxRequests /\ issued' = issued + 1
         /\ UNCHANGED <<disk, verifiedPieces, localVars, events>>
<1>1. ~quit /\ quit' = quit
  BY DEF RefInv, ClosingInv, Request
<1>2. pc \notin {"notStarted", "generate"}
  BY DEF RefInv, ClosingInv, Request
<1>3. pc' = pc /\ scanned' = scanned /\ (scanned \/ pc = "done")
  BY DEF Request, scanVars
<1>4. Phase \in {"serving", "failed"} /\ Phase' = Phase
  BY <1>2, <1>3 DEF Phase
<1> QED
  BY <1>1, <1>4 DEF Request

LEMMA ReadRefines ==
  ASSUME RefInv, NEW p \in Pieces, NEW b \in Blocks, Read(p, b)
  PROVE  Refined
<1> SUFFICES FS!Read(p, b)
  BY DEF Refined, FS!Next, Pieces, FS!Pieces
<1> DEFINE r == [id |-> readId, piece |-> p, block |-> b]
<1>1. r \in ReadRequest /\ newReadRequests \in Seq(ReadRequest) /\ readRequests \in Seq(ReadRequest)
  BY DEF RefInv, IInv, TypeOK, ReadRequest
<1>2. readRequests' = Append(readRequests, r)
  BY DEF Read
<1> HIDE DEF r
<1>3. newReadRequests \o Append(readRequests, r) = Append(newReadRequests \o readRequests, r)
  BY <1>1, LastOfConcat
<1>4. (newReadRequests \o readRequests)' = Append(newReadRequests \o readRequests, r)
  BY <1>2, <1>3, RequestFacts DEF Read, localVars
<1> QED
  BY <1>4, RequestFacts DEF Read, FS!Read, Phase, localVars, r

LEMMA WriteRefines ==
  ASSUME RefInv, NEW p \in Pieces, NEW b \in Blocks, NEW data \in Content, Write(p, b, data)
  PROVE  Refined
<1> SUFFICES FS!Write(p, b, data)
  BY DEF Refined, FS!Next, Pieces, FS!Pieces, Content, FS!Content
<1> DEFINE w == [piece |-> p, block |-> b, data |-> data]
<1>1. w \in WriteRequest /\ newWriteRequests \in Seq(WriteRequest) /\ writeRequests \in Seq(WriteRequest)
  BY DEF RefInv, IInv, TypeOK, WriteRequest
<1>2. writeRequests' = Append(writeRequests, w)
  BY DEF Write
<1> HIDE DEF w
<1>3. newWriteRequests \o Append(writeRequests, w) = Append(newWriteRequests \o writeRequests, w)
  BY <1>1, LastOfConcat
<1>4. (newWriteRequests \o writeRequests)' = Append(newWriteRequests \o writeRequests, w)
  BY <1>2, <1>3, RequestFacts DEF Write, localVars
<1> QED
  BY <1>4, RequestFacts DEF Write, FS!Write, Phase, localVars, w

LEMMA VerifyRefines ==
  ASSUME RefInv, NEW p \in Pieces, VerifyPiece(p)
  PROVE  Refined
<1> SUFFICES FS!VerifyPiece(p)
  BY DEF Refined, FS!Next, Pieces, FS!Pieces
<1> DEFINE taken == newPendingVerificationRequests
           queued == pendingVerificationRequests
<1>1. taken \in Seq(Pieces) /\ queued \in Seq(Pieces)
  BY DEF RefInv, IInv, TypeOK
<1>2. taken \o Append(queued, p) = Append(taken \o queued, p)
  BY <1>1, LastOfConcat
<1>3. (taken \o queued)' = Append(taken \o queued, p)
  BY <1>2, RequestFacts DEF VerifyPiece, localVars
<1> QED
  BY <1>3, RequestFacts DEF VerifyPiece, FS!VerifyPiece, Phase, localVars

\* The queues' types, at hand.
LEMMA QueueTypes ==
  ASSUME RefInv
  PROVE  /\ readRequests \in Seq(ReadRequest) /\ newReadRequests \in Seq(ReadRequest)
         /\ writeRequests \in Seq(WriteRequest) /\ newWriteRequests \in Seq(WriteRequest)
         /\ pendingVerificationRequests \in Seq(Pieces) /\ newPendingVerificationRequests \in Seq(Pieces)
         /\ events \in Seq(Event)
BY DEF RefInv, IInv, TypeOK

LEMMA OpenRefines == RefInv /\ GenerateFiles => Refined
<1> SUFFICES ASSUME RefInv, GenerateFiles PROVE FS!Open
  BY DEF Refined, FS!Next
<1>1. pc = "generate" /\ ~scanned /\ scanned' = scanned
  BY DEF RefInv, ClosingInv, GenerateFiles
<1> QED
  BY <1>1 DEF GenerateFiles, FS!Open, ErrorSignal, FS!ErrorSignal, guiVars, queueVars, localVars

\* The steps that only move the thread, or requests from what is queued to what is taken.
LEMMA MovesRefine == RefInv /\ (Check \/ Sleep \/ TakeReads \/ TakeWrites \/ TakeWrite \/ EndVerify) => Refined
<1> SUFFICES ASSUME RefInv, Check \/ Sleep \/ TakeReads \/ TakeWrites \/ TakeWrite \/ EndVerify
             PROVE  Refined
  OBVIOUS
<1>1. UNCHANGED <<quit, disk, verifiedPieces, events, readId, issued, scanned>>
  BY DEF Check, Sleep, TakeReads, TakeWrites, TakeWrite, EndVerify, guiVars, scanVars
<1>2. pc \notin {"notStarted", "generate", "done"} /\ pc' \notin {"notStarted", "generate", "done"}
  BY DEF Check, Sleep, TakeReads, TakeWrites, TakeWrite, EndVerify
<1>3. Phase' = Phase
  BY <1>1, <1>2 DEF Phase
<1>4. Reads' = Reads
  <2>1. CASE TakeReads
    <3>1. newReadRequests = <<>> /\ newReadRequests' = readRequests /\ readRequests' = <<>>
      BY <2>1 DEF RefInv, ClosingInv, TakeReads
    <3> QED
      BY <3>1, OneSided, QueueTypes DEF Reads
  <2>2. CASE Check \/ Sleep \/ TakeWrites \/ TakeWrite \/ EndVerify
    BY <2>2 DEF Check, Sleep, TakeWrites, TakeWrite, EndVerify, Reads, queueVars, localVars
  <2> QED
    BY <2>1, <2>2
<1>5. Writes' = Writes
  <2>1. CASE TakeWrites
    <3>1. newWriteRequests = <<>> /\ newWriteRequests' = writeRequests /\ writeRequests' = <<>>
      BY <2>1 DEF RefInv, IInv, MutexInv, TakeWrites
    <3> QED
      BY <3>1, OneSided, QueueTypes DEF Writes
  <2>2. CASE Check \/ Sleep \/ TakeReads \/ TakeWrite \/ EndVerify
    BY <2>2 DEF Check, Sleep, TakeReads, TakeWrite, EndVerify, Writes, queueVars, localVars
  <2> QED
    BY <2>1, <2>2
<1>6. Verifies' = Verifies
  BY DEF Check, Sleep, TakeReads, TakeWrites, TakeWrite, EndVerify, Verifies, queueVars, localVars
<1> QED
  BY <1>1, <1>3, <1>4, <1>5, <1>6, Stutters

LEMMA ServeReadRefines == RefInv /\ ReadBlock => Refined
<1> SUFFICES ASSUME RefInv, ReadBlock PROVE FS!ServeRead
  BY DEF Refined, FS!Next, FS!Serve
<1>1. newReadRequests # <<>> /\ newReadRequests' = Tail(newReadRequests) /\ readRequests' = readRequests
  BY DEF ReadBlock, queueVars
<1>2. /\ Reads # <<>> /\ Head(Reads) = Head(newReadRequests)
      /\ Tail(Reads) = Tail(newReadRequests) \o readRequests
  BY <1>1, FirstOfConcat, QueueTypes DEF Reads
<1>3. Reads' = Tail(Reads)
  BY <1>1, <1>2 DEF Reads
<1> QED
  BY <1>2, <1>3
     DEF ReadBlock, FS!ServeRead, Reads, DataRead, FS!DataRead, ErrorSignal, FS!ErrorSignal,
         guiVars, queueVars, scanVars

LEMMA ServeWriteRefines == RefInv /\ WriteBlock => Refined
<1> SUFFICES ASSUME RefInv, WriteBlock PROVE FS!ServeWrite
  BY DEF Refined, FS!Next, FS!Serve
<1>1. newWriteRequests # <<>> /\ newWriteRequests' = Tail(newWriteRequests) /\ writeRequests' = writeRequests
  BY DEF RefInv, IInv, BlockTaken, WriteBlock, queueVars
<1>2. /\ Writes # <<>> /\ Head(Writes) = Head(newWriteRequests)
      /\ Tail(Writes) = Tail(newWriteRequests) \o writeRequests
  BY <1>1, FirstOfConcat, QueueTypes DEF Writes
<1>3. Writes' = Tail(Writes)
  BY <1>1, <1>2 DEF Writes
<1>4. pc = "writeBlock" /\ pc' = "writing" /\ scanned' = scanned
  BY DEF WriteBlock, scanVars
<1> QED
  BY <1>2, <1>3, <1>4
     DEF WriteBlock, FS!ServeWrite, Writes, ErrorSignal, FS!ErrorSignal, guiVars, queueVars

\* Writes that are left behind under quit are discarded, all of them or the first.
LEMMA DiscardsRefine ==
  ASSUME RefInv, quit, Writes # <<>>, Writes' \in {<<>>, Tail(Writes)},
         UNCHANGED <<Phase, quit, disk, verifiedPieces, Reads, Verifies, events, readId, issued>>
  PROVE  Refined
<1>1. Writes \in Seq(WriteRequest)
  BY ConcatProperties, QueueTypes DEF Writes
<1>2. Len(Writes) \in Nat \ {0}
  BY <1>1, EmptySeq
<1>3. Tail(Writes) = SubSeq(Writes, 1 + 1, Len(Writes))
  BY <1>1, TailIsSubSeq
<1>4. SubSeq(Writes, Len(Writes) + 1, Len(Writes)) = <<>>
  BY <1>2, SubSeqEmpty
<1>5. \E n \in 1 .. Len(Writes) : Writes' = SubSeq(Writes, n + 1, Len(Writes))
  <2>1. 1 \in 1 .. Len(Writes) /\ Len(Writes) \in 1 .. Len(Writes)
    BY <1>2
  <2>2. CASE Writes' = <<>>
    BY <1>4, <2>1, <2>2
  <2>3. CASE Writes' = Tail(Writes)
    BY <1>3, <2>1, <2>3
  <2> QED
    BY <2>2, <2>3
<1>6. FS!Discard
  BY <1>5 DEF FS!Discard, Writes, Reads, Verifies, Phase
<1> QED
  BY <1>6 DEF Refined, FS!Next

LEMMA EndWritesRefines == RefInv /\ EndWrites => Refined
<1> SUFFICES ASSUME RefInv, EndWrites PROVE Refined
  OBVIOUS
<1>1. UNCHANGED <<quit, disk, verifiedPieces, events, readId, issued, scanned>>
  BY DEF EndWrites, guiVars
<1>2. pc = "writing" /\ pc' \in {"verifying", "scanning", "loopEnd"}
  BY DEF EndWrites
<1>3. Phase' = Phase
  BY <1>1, <1>2 DEF Phase
<1>4. Reads' = Reads
  BY DEF EndWrites, Reads
<1>5. Verifies' = Verifies
  <2>1. newPendingVerificationRequests = <<>>
    BY <1>2 DEF RefInv, ClosingInv
  <2>2. \/ UNCHANGED <<newPendingVerificationRequests, pendingVerificationRequests>>
        \/ newPendingVerificationRequests' = pendingVerificationRequests /\ pendingVerificationRequests' = <<>>
    BY DEF EndWrites
  <2> QED
    BY <2>1, <2>2, OneSided, QueueTypes DEF Verifies
<1>6. writeRequests = <<>> /\ writeRequests' = <<>> /\ newWriteRequests' = <<>>
  BY <1>2 DEF RefInv, IInv, MutexInv, EndWrites
<1>7. Writes' = <<>> /\ Writes = newWriteRequests
  BY <1>6, OneSided, QueueTypes DEF Writes
<1>8. CASE newWriteRequests = <<>>
  BY <1>1, <1>3, <1>4, <1>5, <1>7, <1>8, Stutters
<1>9. CASE newWriteRequests # <<>>
  <2>1. quit
    BY <1>9 DEF EndWrites
  <2> QED
    BY <1>1, <1>3, <1>4, <1>5, <1>7, <1>9, <2>1, DiscardsRefine
<1> QED
  BY <1>8, <1>9

LEMMA LoopEndRefines == RefInv /\ LoopEnd => Refined
<1> SUFFICES ASSUME RefInv, LoopEnd PROVE Refined
  OBVIOUS
<1>1. UNCHANGED <<quit, disk, verifiedPieces, events, readId, issued, scanned>>
  BY DEF LoopEnd, guiVars, scanVars
<1>2. pc = "loopEnd" /\ pc' \in {"flush", "check"}
  BY DEF LoopEnd
<1>3. Phase' = Phase
  BY <1>1, <1>2 DEF Phase
<1>4. Reads' = Reads /\ Verifies' = Verifies
  BY DEF LoopEnd, Reads, Verifies
<1>5. Writes' = Writes
  <2>1. newWriteRequests = <<>>
    BY <1>2 DEF RefInv, IInv, MutexInv
  <2>2. \/ UNCHANGED <<newWriteRequests, writeRequests>>
        \/ newWriteRequests' = writeRequests /\ writeRequests' = <<>>
    BY DEF LoopEnd
  <2> QED
    BY <2>1, <2>2, OneSided, QueueTypes DEF Writes
<1> QED
  BY <1>1, <1>3, <1>4, <1>5, Stutters

LEMMA FlushRefines == RefInv /\ Flush => Refined
<1> SUFFICES ASSUME RefInv, Flush PROVE Refined
  OBVIOUS
<1>1. UNCHANGED <<quit, disk, verifiedPieces, events, readId, issued, scanned>>
  BY DEF Flush, guiVars, scanVars
<1>2. quit /\ scanned /\ pc = "flush" /\ pc' \in {"flush", "done"}
  BY DEF RefInv, ClosingInv, ScanInv, Flush
<1>3. Phase' = Phase
  BY <1>1, <1>2 DEF Phase
<1>4. Reads' = Reads /\ Verifies' = Verifies
  BY DEF Flush, Reads, Verifies, queueVars
<1>5. CASE newWriteRequests = <<>>
  BY <1>1, <1>3, <1>4, <1>5, Stutters DEF Flush, Writes, queueVars
<1>6. CASE newWriteRequests # <<>>
  <2>1. newWriteRequests' = Tail(newWriteRequests) /\ writeRequests' = writeRequests
    BY <1>6 DEF Flush, queueVars
  <2>2. Writes # <<>> /\ Tail(Writes) = Tail(newWriteRequests) \o writeRequests
    BY <1>6, FirstOfConcat, QueueTypes DEF Writes
  <2>3. Writes' = Tail(Writes)
    BY <2>1, <2>2 DEF Writes
  <2> QED
    BY <1>1, <1>2, <1>3, <1>4, <2>2, <2>3, DiscardsRefine
<1> QED
  BY <1>5, <1>6

LEMMA ServeVerifyRefines == RefInv /\ VerifyRequested => Refined
<1> SUFFICES ASSUME RefInv, VerifyRequested PROVE FS!ServeVerify
  BY DEF Refined, FS!Next, FS!Serve
<1> DEFINE p == Head(newPendingVerificationRequests)
           ok == ChecksumMatches(disk, p)
<1>1. /\ newPendingVerificationRequests # <<>> /\ pc = "verifying" /\ pc' = pc
      /\ newPendingVerificationRequests' = Tail(newPendingVerificationRequests)
      /\ pendingVerificationRequests' = pendingVerificationRequests
      /\ UNCHANGED <<quit, disk, readRequests, writeRequests, newReadRequests, newWriteRequests,
                     readId, issued, scanned>>
  BY DEF VerifyRequested, guiVars, queueVars, scanVars
<1>2. /\ Verifies # <<>> /\ Head(Verifies) = p
      /\ Tail(Verifies) = Tail(newPendingVerificationRequests) \o pendingVerificationRequests
  BY <1>1, FirstOfConcat, QueueTypes DEF Verifies
<1>3. Verifies' = Tail(Verifies)
  BY <1>1, <1>2 DEF Verifies
<1>4. Writes = <<>>
  <2>1. newWriteRequests = <<>> /\ writeRequests = <<>>
    BY <1>1 DEF RefInv, IInv, MutexInv
  <2> QED
    BY <2>1, OneSided, QueueTypes DEF Writes
<1>5. p \in Pieces
  BY <1>1, HeadTailType, QueueTypes
<1>6. ok \in BOOLEAN /\ ok = FS!ChecksumMatches(disk, p)
  BY DEF ChecksumMatches, FS!ChecksumMatches
<1>7. \A v \in BOOLEAN : PieceVerified(p, v) \in Event /\ PieceVerified(p, v) = FS!PieceVerified(p, v)
  BY <1>5 DEF PieceVerified, Event, FS!PieceVerified
<1>8. ErrorSignal \in Event /\ ErrorSignal = FS!ErrorSignal
  BY DEF ErrorSignal, Event, FS!ErrorSignal
<1>9. \A v \in BOOLEAN : events \o <<PieceVerified(p, v)>> = Append(events, PieceVerified(p, v))
  BY <1>7, AppendIsConcat, QueueTypes
<1>10. Append(events, ErrorSignal) \o <<PieceVerified(p, FALSE)>> = events \o <<ErrorSignal, PieceVerified(p, FALSE)>>
  <2> DEFINE f == PieceVerified(p, FALSE)
  <2>1. f \in Event
    BY <1>7
  <2> HIDE DEF f
  <2>2. Append(events, ErrorSignal) = events \o <<ErrorSignal>>
    BY <1>8, AppendIsConcat, QueueTypes
  <2>3. <<ErrorSignal>> \in Seq(Event) /\ <<f>> \in Seq(Event)
    BY <1>8, <2>1
  <2>4. (events \o <<ErrorSignal>>) \o <<f>> = events \o (<<ErrorSignal>> \o <<f>>)
    BY <2>3, ConcatAssociative, QueueTypes
  <2>5. <<ErrorSignal>> \o <<f>> = <<ErrorSignal, f>>
    BY <1>8, <2>1, PairOfTwo
  <2> QED
    BY <2>2, <2>4, <2>5 DEF f
<1>11. \/ /\ ~quit /\ events' = events \o <<PieceVerified(p, ok)>>
          /\ verifiedPieces' = IF ok THEN verifiedPieces \cup {p} ELSE verifiedPieces
       \/ /\ events' = Append(events, ErrorSignal) \o <<PieceVerified(p, FALSE)>>
          /\ UNCHANGED verifiedPieces
       \/ quit /\ events' = events \o <<PieceVerified(p, FALSE)>> /\ UNCHANGED verifiedPieces
  BY <1>6 DEF VerifyRequested, VerifySinglePiece
<1> HIDE DEF p, ok
<1>12. \/ /\ ~quit /\ events' = Append(events, FS!PieceVerified(p, FS!ChecksumMatches(disk, p)))
          /\ verifiedPieces' = IF FS!ChecksumMatches(disk, p) THEN verifiedPieces \cup {p} ELSE verifiedPieces
       \/ /\ events' = events \o <<FS!ErrorSignal, FS!PieceVerified(p, FALSE)>>
          /\ UNCHANGED verifiedPieces
       \/ quit /\ events' = Append(events, FS!PieceVerified(p, FALSE)) /\ UNCHANGED verifiedPieces
  BY <1>6, <1>7, <1>8, <1>9, <1>10, <1>11
<1> QED
  BY <1>1, <1>2, <1>3, <1>4, <1>12 DEF FS!ServeVerify, Verifies, Writes

LEMMA ScanRefines == RefInv /\ ScanPiece => Refined
<1> SUFFICES ASSUME RefInv, ScanPiece PROVE Refined
  OBVIOUS
<1>1. /\ pc = "scanning" /\ pc' = pc /\ scan \in Pieces
      /\ UNCHANGED <<quit, disk, queueVars, localVars, readId, issued, scanned>>
  <2>1. scan \in 0 .. NumPieces /\ scan < NumPieces /\ NumPieces \in Nat
    BY NumPiecesAssumption DEF RefInv, IInv, TypeOK, ScanPiece
  <2>2. scan \in Pieces
    BY <2>1 DEF Pieces
  <2> QED
    BY <2>2 DEF ScanPiece, guiVars
<1>2. Phase = "scanning" /\ Phase' = "scanning"
  BY <1>1 DEF RefInv, IInv, VerifiedOnce, Phase
<1>3. ErrorSignal \in Event /\ ErrorSignal = FS!ErrorSignal
  BY DEF ErrorSignal, Event, FS!ErrorSignal
<1>4. events \o <<>> = events /\ Append(events, ErrorSignal) \o <<>> = Append(events, ErrorSignal)
  BY <1>3, AppendProperties, OneSided, QueueTypes
<1>5. \/ ~quit /\ ChecksumMatches(disk, scan) /\ events' = events /\ verifiedPieces' = verifiedPieces \cup {scan}
      \/ events' = Append(events, ErrorSignal) /\ UNCHANGED verifiedPieces
      \/ UNCHANGED <<events, verifiedPieces>>
  BY <1>4 DEF ScanPiece, VerifySinglePiece, ChecksumMatches
<1>6. CASE ~quit /\ ChecksumMatches(disk, scan) /\ events' = events /\ verifiedPieces' = verifiedPieces \cup {scan}
  <2>1. FS!Confirm(scan)
    BY <1>1, <1>2, <1>6 DEF FS!Confirm, FS!ChecksumMatches, ChecksumMatches, Phase, queueVars, localVars
  <2> QED
    BY <1>1, <2>1 DEF Refined, FS!Next, Pieces, FS!Pieces
<1>7. CASE events' = Append(events, ErrorSignal) /\ UNCHANGED verifiedPieces
  <2>1. FS!ScanError
    BY <1>1, <1>2, <1>3, <1>7 DEF FS!ScanError, Phase, queueVars, localVars
  <2> QED
    BY <2>1 DEF Refined, FS!Next
<1>8. CASE UNCHANGED <<events, verifiedPieces>>
  BY <1>1, <1>2, <1>8, Stutters DEF queueVars, localVars, Reads, Writes, Verifies
<1> QED
  BY <1>5, <1>6, <1>7, <1>8

LEMMA ScanDoneRefines == RefInv /\ EndScan => Refined
<1> SUFFICES ASSUME RefInv, EndScan PROVE FS!ScanDone
  BY DEF Refined, FS!Next
<1>1. pc = "scanning" /\ pc' = "loopEnd" /\ ~scanned /\ scanned'
  BY DEF RefInv, IInv, VerifiedOnce, EndScan
<1> QED
  BY <1>1 DEF EndScan, FS!ScanDone, VerificationDone, FS!VerificationDone, guiVars, queueVars, localVars

LEMMA NextRefines == RefInv /\ [Next]_vars => Refined
<1> SUFFICES ASSUME RefInv, [Next]_vars PROVE Refined
  OBVIOUS
<1>1. CASE Start \/ SetQuit \/ Call \/ EventLoop
  BY <1>1, StartRefines, QuitRefines, CallRefines, ReceiveRefines DEF EventLoop
<1>2. CASE \/ \E p \in Pieces, b \in Blocks : Read(p, b)
           \/ \E p \in Pieces, b \in Blocks, data \in Content : Write(p, b, data)
           \/ \E p \in Pieces : VerifyPiece(p)
  BY <1>2, ReadRefines, WriteRefines, VerifyRefines
<1>3. CASE Run
  BY <1>3, OpenRefines, MovesRefine, ServeReadRefines, ServeWriteRefines, EndWritesRefines, ServeVerifyRefines,
    ScanRefines, ScanDoneRefines, LoopEndRefines, FlushRefines DEF Run
<1>4. CASE UNCHANGED vars
  BY <1>4, Stutters DEF vars, guiVars, queueVars, localVars, scanVars, Phase, Reads, Writes, Verifies
<1> QED
  BY <1>1, <1>2, <1>3, <1>4 DEF Next

LEMMA RefInvariance == Spec => []RefInv
<1>1. Init => RefInv
  BY InvInit, ClosingInit DEF RefInv
<1>2. RefInv /\ [Next]_vars => RefInv'
  <2> SUFFICES ASSUME RefInv, [Next]_vars PROVE RefInv'
    OBVIOUS
  <2>1. IInv'
    BY TypeNext, BlockTakenNext, MutexNext, WakeupNext, VerificationNext DEF IInv, RefInv
  <2>2. ClosingInv' /\ ScanInv'
    BY ClosingNext, ScanNext DEF IInv, RefInv
  <2> QED
    BY <2>1, <2>2 DEF RefInv
<1> QED
  BY <1>1, <1>2, PTL DEF Spec

\* The two threads with their queues, lock and wake-ups (filemanager.cpp) do what the
\* file service promises to the torrent client, step by step.
THEOREM ServiceImplemented == Spec => ImplementsFileService
<1>1. Init => FS!Init
  BY InitRefines
<1>2. RefInv /\ [Next]_vars => [FS!Next]_(FS!vars)
  BY NextRefines DEF Refined
<1> QED
  BY <1>1, <1>2, RefInvariance, PTL DEF Spec, ImplementsFileService, FS!Spec

-----------------------------------------------------------------------------
(* The order of the answers, from the steps of the abstract service. *)

IsAnswer(e) == e.type = "dataRead"

\* ReadsAnsweredInOrder, of given queues.
InOrder(es, rs, next) ==
  /\ \A i, j \in 1..Len(es) : i < j /\ IsAnswer(es[i]) /\ IsAnswer(es[j]) => es[i].id < es[j].id
  /\ \A i, j \in 1..Len(rs) : i < j => rs[i].id < rs[j].id
  /\ \A i \in 1..Len(es), j \in 1..Len(rs) : IsAnswer(es[i]) => es[i].id < rs[j].id
  /\ \A i \in 1..Len(es) : IsAnswer(es[i]) => es[i].id < next
  /\ \A j \in 1..Len(rs) : rs[j].id < next

LEMMA OrderOfReceive ==
  ASSUME NEW es \in Seq(Event), NEW rs \in Seq(ReadRequest), NEW next \in Nat, InOrder(es, rs, next), es # <<>>
  PROVE  InOrder(Tail(es), rs, next)
<1>1. /\ Len(es) \in Nat \ {0} /\ Len(Tail(es)) = Len(es) - 1
      /\ \A i \in 1..(Len(es) - 1) : Tail(es)[i] = es[i + 1]
  BY HeadTailProperties, EmptySeq
<1>2. \A i \in 1..(Len(es) - 1) : i + 1 \in 1..Len(es)
  BY <1>1
<1> QED
  BY <1>1, <1>2 DEF InOrder

LEMMA OrderOfSignal ==
  ASSUME NEW es \in Seq(Event), NEW rs \in Seq(ReadRequest), NEW next \in Nat, InOrder(es, rs, next),
         NEW e \in Event, ~IsAnswer(e)
  PROVE  InOrder(Append(es, e), rs, next)
<1>1. /\ Len(es) \in Nat /\ Len(Append(es, e)) = Len(es) + 1 /\ Append(es, e)[Len(es) + 1] = e
      /\ \A i \in 1..Len(es) : Append(es, e)[i] = es[i]
  BY AppendProperties, LenProperties
<1>2. \A i \in 1..(Len(es) + 1) : i \in 1..Len(es) \/ i = Len(es) + 1
  BY <1>1
<1> QED
  BY <1>1, <1>2 DEF InOrder

LEMMA OrderOfAnswer ==
  ASSUME NEW es \in Seq(Event), NEW rs \in Seq(ReadRequest), NEW next \in Nat, InOrder(es, rs, next),
         rs # <<>>, NEW e \in Event, e.id = Head(rs).id
  PROVE  InOrder(Append(es, e), Tail(rs), next)
<1>1. /\ Len(es) \in Nat /\ Len(Append(es, e)) = Len(es) + 1 /\ Append(es, e)[Len(es) + 1] = e
      /\ \A i \in 1..Len(es) : Append(es, e)[i] = es[i]
  BY AppendProperties, LenProperties
<1>2. \A i \in 1..(Len(es) + 1) : i \in 1..Len(es) \/ i = Len(es) + 1
  BY <1>1
<1>3. /\ Len(rs) \in Nat \ {0} /\ Len(Tail(rs)) = Len(rs) - 1 /\ Head(rs) = rs[1]
      /\ \A j \in 1..(Len(rs) - 1) : Tail(rs)[j] = rs[j + 1]
  BY HeadTailProperties, EmptySeq
<1>4. /\ 1 \in 1..Len(rs)
      /\ \A j \in 1..(Len(rs) - 1) : j + 1 \in 1..Len(rs) /\ 1 < j + 1
      /\ \A i, j \in 1..(Len(rs) - 1) : i < j => i + 1 < j + 1
      /\ \A i \in 1..Len(es) : i < Len(es) + 1 /\ ~(Len(es) + 1 < i)
      /\ ~(Len(es) + 1 < Len(es) + 1)
  BY <1>1, <1>3
<1>5. \A i, j \in 1..(Len(es) + 1) :
        i < j /\ IsAnswer(Append(es, e)[i]) /\ IsAnswer(Append(es, e)[j]) => Append(es, e)[i].id < Append(es, e)[j].id
  BY <1>1, <1>2, <1>3, <1>4 DEF InOrder
<1>6. \A i, j \in 1..(Len(rs) - 1) : i < j => Tail(rs)[i].id < Tail(rs)[j].id
  BY <1>3, <1>4 DEF InOrder
<1>7. \A i \in 1..(Len(es) + 1), j \in 1..(Len(rs) - 1) :
        IsAnswer(Append(es, e)[i]) => Append(es, e)[i].id < Tail(rs)[j].id
  BY SMTT(30), <1>1, <1>2, <1>3, <1>4 DEF InOrder
<1>8. \A i \in 1..(Len(es) + 1) : IsAnswer(Append(es, e)[i]) => Append(es, e)[i].id < next
  BY <1>1, <1>2, <1>3, <1>4 DEF InOrder
<1>9. \A j \in 1..(Len(rs) - 1) : Tail(rs)[j].id < next
  BY <1>3, <1>4 DEF InOrder
<1> QED
  BY <1>1, <1>3, <1>5, <1>6, <1>7, <1>8, <1>9 DEF InOrder

LEMMA OrderOfRead ==
  ASSUME NEW es \in Seq(Event), NEW rs \in Seq(ReadRequest), NEW next \in Nat, InOrder(es, rs, next),
         NEW r \in ReadRequest, r.id = next
  PROVE  InOrder(es, Append(rs, r), next + 1)
<1>1. /\ Len(rs) \in Nat /\ Len(Append(rs, r)) = Len(rs) + 1 /\ Append(rs, r)[Len(rs) + 1] = r
      /\ \A j \in 1..Len(rs) : Append(rs, r)[j] = rs[j]
  BY AppendProperties, LenProperties
<1>2. \A j \in 1..(Len(rs) + 1) : j \in 1..Len(rs) \/ j = Len(rs) + 1
  BY <1>1
<1>3. \A j \in 1..Len(rs) : rs[j].id \in Nat
  <2>1. \A j \in 1..Len(rs) : rs[j] \in ReadRequest
    BY ElementOfSeq
  <2> QED
    BY <2>1 DEF ReadRequest
<1>4. \A i \in 1..Len(es) : IsAnswer(es[i]) => es[i].id \in Nat
  BY ElementOfSeq DEF Event, IsAnswer, VerificationDone, ErrorSignal
<1>5. /\ \A j \in 1..Len(rs) : rs[j].id < next + 1
      /\ \A i \in 1..Len(es) : IsAnswer(es[i]) => es[i].id < next + 1
      /\ next < next + 1
  BY <1>3, <1>4 DEF InOrder
<1>6. \A i, j \in 1..(Len(rs) + 1) : i < j => Append(rs, r)[i].id < Append(rs, r)[j].id
  BY <1>1, <1>2 DEF InOrder
<1> QED
  BY <1>1, <1>2, <1>5, <1>6 DEF InOrder

LEMMA TwoAppended ==
  ASSUME NEW S, NEW s \in Seq(S), NEW e \in S, NEW f \in S
  PROVE  s \o <<e, f>> = Append(Append(s, e), f)
<1>1. <<e>> \in Seq(S) /\ <<f>> \in Seq(S) /\ Append(s, e) \in Seq(S)
  BY AppendType
<1>2. Append(Append(s, e), f) = (s \o <<e>>) \o <<f>>
  BY <1>1, AppendIsConcat
<1>3. (s \o <<e>>) \o <<f>> = s \o (<<e>> \o <<f>>)
  BY <1>1, ConcatAssociative
<1> QED
  BY <1>2, <1>3, PairOfTwo

OrderInv == InOrder(events, Reads, readId)

LEMMA OrderTypes ==
  ASSUME RefInv
  PROVE  events \in Seq(Event) /\ Reads \in Seq(ReadRequest) /\ readId \in Nat
<1>1. readId \in Nat
  BY DEF RefInv, IInv, TypeOK
<1> QED
  BY <1>1, ConcatProperties, QueueTypes DEF Reads

\* Signals that are no answers.
LEMMA OtherSignals ==
  /\ FS!ErrorSignal \in Event /\ ~IsAnswer(FS!ErrorSignal)
  /\ FS!VerificationDone \in Event /\ ~IsAnswer(FS!VerificationDone)
  /\ \A p \in Pieces, ok \in BOOLEAN : FS!PieceVerified(p, ok) \in Event /\ ~IsAnswer(FS!PieceVerified(p, ok))
BY DEF FS!ErrorSignal, FS!VerificationDone, FS!PieceVerified, Event, ErrorSignal, VerificationDone, IsAnswer

\* Nothing, an error or a verification is signalled.
LEMMA OrderSame ==
  ASSUME RefInv, OrderInv, UNCHANGED <<Reads, readId>>,
         \/ events' = events
         \/ events' = Tail(events) /\ events # <<>>
         \/ \E e \in Event : ~IsAnswer(e) /\ events' = Append(events, e)
         \/ \E e, f \in Event : ~IsAnswer(e) /\ ~IsAnswer(f) /\ events' = events \o <<e, f>>
  PROVE  OrderInv'
<1>1. CASE events' = events
  BY <1>1 DEF OrderInv
<1>2. CASE events' = Tail(events) /\ events # <<>>
  BY <1>2, OrderTypes, OrderOfReceive DEF OrderInv
<1>3. CASE \E e \in Event : ~IsAnswer(e) /\ events' = Append(events, e)
  BY <1>3, OrderTypes, OrderOfSignal DEF OrderInv
<1>4. CASE \E e, f \in Event : ~IsAnswer(e) /\ ~IsAnswer(f) /\ events' = events \o <<e, f>>
  <2>1. PICK e \in Event, f \in Event : ~IsAnswer(e) /\ ~IsAnswer(f) /\ events' = events \o <<e, f>>
    BY <1>4
  <2>2. events' = Append(Append(events, e), f) /\ Append(events, e) \in Seq(Event)
    BY <2>1, TwoAppended, AppendType, OrderTypes
  <2>3. InOrder(Append(events, e), Reads, readId)
    BY <2>1, OrderTypes, OrderOfSignal DEF OrderInv
  <2>4. InOrder(Append(Append(events, e), f), Reads, readId)
    BY <2>1, <2>2, <2>3, OrderTypes, OrderOfSignal
  <2> QED
    BY <2>2, <2>4 DEF OrderInv
<1> QED
  BY <1>1, <1>2, <1>3, <1>4

LEMMA OrderOfServeRead ==
  ASSUME RefInv, OrderInv, FS!ServeRead
  PROVE  OrderInv'
<1> DEFINE r == Head(Reads)
<1>1. Reads # <<>> /\ Reads' = Tail(Reads) /\ readId' = readId
  BY DEF FS!ServeRead, Reads
<1>2. r \in ReadRequest
  BY <1>1, HeadTailType, OrderTypes
<1>3. \/ events' = Append(events, FS!DataRead(r.id, disk[r.piece][r.block]))
      \/ events' = events \o <<FS!ErrorSignal, FS!DataRead(r.id, "bad")>>
      \/ events' = Append(events, FS!DataRead(r.id, "bad"))
  BY DEF FS!ServeRead, Reads
<1>4. \A data \in Content : FS!DataRead(r.id, data) \in Event /\ FS!DataRead(r.id, data).id = r.id
  BY <1>2 DEF FS!DataRead, Event, ReadRequest
<1>5. disk[r.piece][r.block] \in Content /\ "bad" \in Content
  BY <1>2 DEF RefInv, IInv, TypeOK, ReadRequest, Content
<1> HIDE DEF r
<1>6. CASE \E data \in Content : events' = Append(events, FS!DataRead(r.id, data))
  <2>1. PICK data \in Content : events' = Append(events, FS!DataRead(r.id, data))
    BY <1>6
  <2>2. FS!DataRead(r.id, data) \in Event /\ FS!DataRead(r.id, data).id = Head(Reads).id
    BY <1>4 DEF r
  <2>3. InOrder(Append(events, FS!DataRead(r.id, data)), Tail(Reads), readId)
    BY <1>1, <2>2, OrderTypes, OrderOfAnswer DEF OrderInv
  <2> QED
    BY <1>1, <2>1, <2>3 DEF OrderInv
<1>7. CASE events' = events \o <<FS!ErrorSignal, FS!DataRead(r.id, "bad")>>
  <2> DEFINE answer == FS!DataRead(r.id, "bad")
             long == Append(events, FS!ErrorSignal)
  <2>1. answer \in Event /\ answer.id = Head(Reads).id
    BY <1>4, <1>5 DEF r
  <2> HIDE DEF answer
  <2>2. long \in Seq(Event) /\ InOrder(long, Reads, readId)
    BY OtherSignals, AppendType, OrderTypes, OrderOfSignal DEF OrderInv
  <2>3. events' = Append(long, answer)
    BY <1>7, <2>1, OtherSignals, TwoAppended, OrderTypes DEF answer
  <2> HIDE DEF long
  <2>4. InOrder(Append(long, answer), Tail(Reads), readId)
    BY <1>1, <2>1, <2>2, OrderTypes, OrderOfAnswer
  <2> QED
    BY <1>1, <2>3, <2>4 DEF OrderInv
<1> QED
  BY <1>3, <1>5, <1>6, <1>7

LEMMA OrderNext == RefInv /\ OrderInv /\ Refined => OrderInv'
<1> SUFFICES ASSUME RefInv, OrderInv, Refined PROVE OrderInv'
  OBVIOUS
<1>1. CASE FS!Start \/ FS!Close \/ FS!Discard \/ \E p \in FS!Pieces : FS!Confirm(p) \/ FS!VerifyPiece(p)
  BY <1>1, OrderSame DEF FS!Start, FS!Close, FS!Discard, FS!Confirm, FS!VerifyPiece, Reads
<1>2. CASE \E p \in FS!Pieces, b \in Blocks, data \in FS!Content : FS!Write(p, b, data)
  BY <1>2, OrderSame DEF FS!Write, Reads
<1>3. CASE FS!Open \/ FS!ScanError \/ FS!ScanDone \/ FS!Receive
  BY <1>3, OrderSame, OtherSignals DEF FS!Open, FS!ScanError, FS!ScanDone, FS!Receive, Reads
<1>4. CASE FS!ServeWrite
  BY <1>4, OrderSame, OtherSignals DEF FS!ServeWrite, Reads
<1>5. CASE FS!ServeVerify
  <2>1. Verifies # <<>> /\ Verifies \in Seq(Pieces)
    BY <1>5, ConcatProperties, QueueTypes DEF FS!ServeVerify, Verifies
  <2>2. Head(Verifies) \in Pieces
    BY <2>1, HeadTailType
  <2>3. FS!ChecksumMatches(disk, Head(Verifies)) \in BOOLEAN
    BY DEF FS!ChecksumMatches
  <2>4. UNCHANGED <<Reads, readId>>
    BY <1>5 DEF FS!ServeVerify, Reads
  <2>5. \/ events' = Append(events, FS!PieceVerified(Head(Verifies), FS!ChecksumMatches(disk, Head(Verifies))))
        \/ events' = Append(events, FS!PieceVerified(Head(Verifies), FALSE))
        \/ events' = events \o <<FS!ErrorSignal, FS!PieceVerified(Head(Verifies), FALSE)>>
    BY <1>5 DEF FS!ServeVerify, Verifies
  <2> QED
    BY <2>2, <2>3, <2>4, <2>5, OrderSame, OtherSignals
<1>6. CASE FS!ServeRead
  BY <1>6, OrderOfServeRead
<1>7. CASE \E p \in FS!Pieces, b \in Blocks : FS!Read(p, b)
  <2>1. PICK p \in Pieces, b \in Blocks : FS!Read(p, b)
    BY <1>7 DEF Pieces, FS!Pieces
  <2> DEFINE r == [id |-> readId, piece |-> p, block |-> b]
  <2>2. r \in ReadRequest /\ r.id = readId
    BY OrderTypes DEF ReadRequest
  <2>3. Reads' = Append(Reads, r) /\ readId' = readId + 1 /\ events' = events
    BY <2>1 DEF FS!Read, Reads
  <2> HIDE DEF r
  <2>4. InOrder(events, Append(Reads, r), readId + 1)
    BY <2>2, OrderTypes, OrderOfRead DEF OrderInv
  <2> QED
    BY <2>3, <2>4 DEF OrderInv
<1>8. CASE UNCHANGED FS!vars
  BY <1>8, OrderSame DEF FS!vars, Reads
<1> QED
  BY <1>1, <1>2, <1>3, <1>4, <1>5, <1>6, <1>7, <1>8 DEF Refined, FS!Next, FS!Serve

LEMMA OrderInit == Init => OrderInv
<1> SUFFICES ASSUME Init PROVE OrderInv
  OBVIOUS
<1>1. <<>> \o <<>> = <<>> /\ Len(<<>>) = 0
  OBVIOUS
<1> QED
  BY <1>1 DEF Init, OrderInv, InOrder, Reads

\* The answers to reads, across the thread's two lists and the signals on their way, come in
\* the order of the calls and carry the identifiers given out (filemanager.cpp, read and run).
THEOREM ReadsInOrder == Spec => []ReadsAnsweredInOrder
<1>1. RefInv /\ OrderInv => ReadsAnsweredInOrder
  <2> SUFFICES ASSUME RefInv, OrderInv PROVE ReadsAnsweredInOrder
    OBVIOUS
  <2>1. DOMAIN events = 1..Len(events) /\ DOMAIN Reads = 1..Len(Reads)
    BY OrderTypes, LenProperties
  <2> QED
    BY <2>1 DEF OrderInv, InOrder, IsAnswer, Reads, ReadsAnsweredInOrder
<1>2. RefInv /\ OrderInv /\ [Next]_vars => OrderInv'
  BY NextRefines, OrderNext
<1> QED
  BY <1>1, <1>2, OrderInit, RefInvariance, PTL DEF Spec
=============================================================================
