--------------------------- MODULE RateController ---------------------------
(***************************************************************************)
(* Bandwidth shared by the connections: src/src/ratecontroller.cpp.        *)
(*                                                                         *)
(* transfer() is a loop over rounds over sockets; a turn for one socket is *)
(* a step, because what is read is handed to the protocol at once, which   *)
(* may write, or abort the connection.  Nothing else happens in between.   *)
(*                                                                         *)
(* Time is counted in ticks of which Second make a second; a transfer is   *)
(* scheduled one tick ahead.  The product of a limit and a time is an int: *)
(* IntMax is its largest value.                                            *)
(***************************************************************************)
EXTENDS Integers, FiniteSets

CONSTANTS Clients,      \* connections
          Limits,       \* limits the user can set, in bytes per second
          Second,       \* ticks per second
          IntMax,       \* int ranges from -IntMax - 1 to IntMax
          MaxData       \* bytes that wait on one side of a connection

ASSUME RateAssumption ==
  /\ Second \in Nat \ {0} /\ IntMax \in Nat /\ MaxData \in Nat
  /\ Limits \subseteq 0..IntMax /\ IsFiniteSet(Clients)

VARIABLES
  upLimit, downLimit,
  sockets,             \* the connections given to the controller
  transferScheduled,   \* "no", "waiting" for the timer, or "due"
  stopWatch,           \* ticks since the last transfer, at most Second
  transferring,        \* transfer() is in its loop
  pendingSockets,      \* local to transfer(), as are the next six
  turns,               \* what is left of the round's copy of pendingSockets
  canTransferMore, bytesToWrite, bytesToRead, writeChunk, readChunk,
  open,                \* connections in ConnectedState
  available,           \* bytes to be read from the socket
  outgoing,            \* bytes the client wants to write
  partial,             \* clients that have read a part of a message
  upAllowance, downAllowance,  \* history: what the limits allow, in bytes times Second
  overflowed           \* history: a product did not fit since the last transfer that moved data

localVars == <<pendingSockets, turns, canTransferMore, bytesToWrite, bytesToRead, writeChunk, readChunk>>
clientVars == <<open, available, outgoing, partial>>
limitVars == <<upLimit, downLimit>>
allowances == <<upAllowance, downAllowance>>
vars == <<limitVars, sockets, transferScheduled, stopWatch, transferring, localVars, clientVars,
          allowances, overflowed>>

Least(a, b) == IF a < b THEN a ELSE b
Most(a, b)  == IF a > b THEN a ELSE b

TypeOK ==
  /\ upLimit \in Limits /\ downLimit \in Limits
  /\ sockets \subseteq Clients /\ open \subseteq Clients /\ partial \subseteq Clients
  /\ transferScheduled \in {"no", "waiting", "due"}
  /\ stopWatch \in 0..Second
  /\ transferring \in BOOLEAN /\ canTransferMore \in BOOLEAN /\ overflowed \in BOOLEAN
  /\ pendingSockets \subseteq Clients /\ turns \subseteq Clients
  /\ bytesToWrite \in Int /\ bytesToRead \in Int /\ writeChunk \in Nat /\ readChunk \in Nat
  /\ available \in [Clients -> 0..MaxData] /\ outgoing \in [Clients -> 0..MaxData]
  /\ upAllowance \in Int /\ downAllowance \in Int

Init ==
  /\ upLimit \in Limits /\ downLimit \in Limits
  /\ sockets = {} /\ transferScheduled = "no" /\ stopWatch = Second
  /\ transferring = FALSE /\ pendingSockets = {} /\ turns = {} /\ canTransferMore = FALSE
  /\ bytesToWrite = 0 /\ bytesToRead = 0 /\ writeChunk = 0 /\ readChunk = 0
  /\ open = {} /\ partial = {}
  /\ available = [c \in Clients |-> 0] /\ outgoing = [c \in Clients |-> 0]
  /\ upAllowance = upLimit * Second /\ downAllowance = downLimit * Second
  /\ overflowed = FALSE

-----------------------------------------------------------------------------
Scheduled(now) == IF now = "no" THEN "waiting" ELSE now
scheduleTransfer == transferScheduled' = Scheduled(transferScheduled)

\* The int x * y, and division that rounds towards zero.
Wrapped(x) == ((x + IntMax + 1) % (2 * IntMax + 2)) - (IntMax + 1)
Quotient(x, y) == IF x >= 0 THEN x \div y ELSE -((-x) \div y)
Budget(limit, ticks) == Quotient(Wrapped(limit * ticks), Second)
Overflows(limit, ticks) == limit * ticks > IntMax

\* PeerWireClient::canTransferMore
HasMore(c) == c \in partial \/ available[c] > 0 \/ outgoing[c] > 0

\* addSocket, for a connection that is up.
AddSocket(c) ==
  /\ ~transferring /\ c \notin sockets /\ ~HasMore(c)
  /\ sockets' = sockets \cup {c} /\ open' = open \cup {c}
  /\ scheduleTransfer
  /\ UNCHANGED <<limitVars, stopWatch, transferring, localVars, available, outgoing, partial,
                 allowances, overflowed>>

\* A connection that has left the controller is deleted.
DeleteSocket(c) ==
  /\ ~transferring /\ c \notin sockets /\ HasMore(c)
  /\ available' = [available EXCEPT ![c] = 0] /\ outgoing' = [outgoing EXCEPT ![c] = 0]
  /\ partial' = partial \ {c}
  /\ UNCHANGED <<limitVars, sockets, transferScheduled, stopWatch, transferring, localVars, open,
                 allowances, overflowed>>

\* The connection ends: removeSocket.
RemoveSocket(c) ==
  /\ ~transferring /\ c \in sockets
  /\ sockets' = sockets \ {c} /\ open' = open \ {c}
  /\ UNCHANGED <<limitVars, transferScheduled, stopWatch, transferring, localVars, available, outgoing,
                 partial, allowances, overflowed>>

\* The peer sends: readyRead is emitted when there was nothing to read before, and
\* may be when there was.
PeerSends(c) ==
  /\ ~transferring /\ c \in sockets /\ available[c] < MaxData
  /\ available' = [available EXCEPT ![c] = @ + 1]
  /\ \/ scheduleTransfer
     \/ available[c] > 0 /\ UNCHANGED transferScheduled
  /\ UNCHANGED <<limitVars, sockets, stopWatch, transferring, localVars, open, outgoing, partial,
                 allowances, overflowed>>

\* The client writes a message or queues a block: readyToTransfer.
ClientWrites(c) ==
  /\ ~transferring /\ c \in sockets /\ outgoing[c] < MaxData
  /\ outgoing' = [outgoing EXCEPT ![c] = @ + 1]
  /\ scheduleTransfer
  /\ UNCHANGED <<limitVars, sockets, stopWatch, transferring, localVars, open, available, partial,
                 allowances, overflowed>>

\* The user moves a slider.
SetLimits(up, down) ==
  /\ ~transferring /\ <<up, down>> # <<upLimit, downLimit>>
  /\ upLimit' = up /\ downLimit' = down
  /\ upAllowance' = up * Second /\ downAllowance' = down * Second
  /\ UNCHANGED <<sockets, transferScheduled, stopWatch, transferring, localVars, clientVars, overflowed>>

Tick ==
  /\ ~transferring /\ (stopWatch < Second \/ transferScheduled = "waiting")
  /\ stopWatch' = Least(stopWatch + 1, Second)
  /\ transferScheduled' = IF transferScheduled = "waiting" THEN "due" ELSE transferScheduled
  /\ upAllowance' = Least(upAllowance + upLimit, upLimit * Second)
  /\ downAllowance' = Least(downAllowance + downLimit, downLimit * Second)
  /\ UNCHANGED <<limitVars, sockets, transferring, localVars, clientVars, overflowed>>

-----------------------------------------------------------------------------
\* Mutant: a share may be nothing.
ChunkOrNothing(budget, pending) == Quotient(budget, Cardinality(pending))

\* The share of one socket, one byte at least.
Chunk(budget, pending) == Most(1, Quotient(budget, Cardinality(pending)))

\* A round begins: chunks for the pending sockets, and a copy of them to go through.
StartRound(pending, toWrite, toRead) ==
  /\ turns' = pending
  /\ writeChunk' = Chunk(toWrite, pending)
  /\ readChunk' = Chunk(toRead, pending)
  /\ canTransferMore' = FALSE

\* transfer() returns before its loop: there is no socket, no budget or no data.
TransferNothing ==
  /\ transferScheduled = "due" /\ ~transferring
  /\ LET noBudget == Budget(upLimit, stopWatch) = 0 /\ Budget(downLimit, stopWatch) = 0
     IN /\ sockets = {} \/ noBudget \/ \A c \in sockets : ~HasMore(c)
        /\ transferScheduled' = IF sockets # {} /\ noBudget THEN "waiting" ELSE "no"
  /\ UNCHANGED <<limitVars, sockets, stopWatch, transferring, localVars, clientVars, allowances, overflowed>>

\* Mutant: the watch goes on.
WatchGoesOn == stopWatch

\* stopWatch.start()
WatchRestarted == 0

\* transfer() up to its loop.
BeginTransfer ==
  /\ transferScheduled = "due" /\ ~transferring
  /\ LET toWrite == Budget(upLimit, stopWatch)
         toRead  == Budget(downLimit, stopWatch)
         pending == {c \in sockets : HasMore(c)}
     IN /\ pending # {} /\ ~(toWrite = 0 /\ toRead = 0)
        /\ bytesToWrite' = toWrite /\ bytesToRead' = toRead
        /\ pendingSockets' = pending
        /\ StartRound(pending, toWrite, toRead)
        /\ overflowed' = (Overflows(upLimit, stopWatch) \/ Overflows(downLimit, stopWatch))
  /\ transferScheduled' = "no"
  /\ transferring' = TRUE
  /\ stopWatch' = WatchRestarted
  /\ UNCHANGED <<limitVars, sockets, clientVars, allowances>>

BudgetLeft == bytesToWrite > 0 \/ bytesToRead > 0

\* A turn for a socket that is no longer connected.
SkipSocket(c) ==
  /\ transferring /\ c \in turns /\ BudgetLeft
  /\ c \notin open
  /\ turns' = turns \ {c} /\ pendingSockets' = pendingSockets \ {c}
  /\ UNCHANGED <<limitVars, sockets, transferScheduled, stopWatch, transferring, canTransferMore,
                 bytesToWrite, bytesToRead, writeChunk, readChunk, clientVars, allowances, overflowed>>

\* How much is read from c, and written to it.
Readable(c) == Most(0, Least(Least(available[c], readChunk), bytesToRead))

Writable(c) == IF upLimit * 2 > 0 THEN Most(0, Least(Least(upLimit * 2, writeChunk), bytesToWrite)) ELSE 0

\* A turn for a connected socket: it reads, the protocol handles what it has read -
\* it may write an answer of one byte, keep a part of a message, or abort, which takes
\* the socket from the controller if a torrent has the connection, and leaves it there if
\* the server has - and then the socket is written to in any case.
ServeSocket(c) ==
  /\ transferring /\ c \in turns /\ BudgetLeft
  /\ c \in open
  /\ turns' = turns \ {c}
  /\ \E answer \in 0..1, rest \in BOOLEAN, aborts \in BOOLEAN :
       LET read    == Readable(c)
           toSend  == outgoing[c] + answer
           written == Least(toSend, Writable(c))
           moved   == read > 0 \/ written > 0
           more    == rest \/ available[c] > read \/ toSend > written
       IN /\ answer = 1 => read > 0 /\ outgoing[c] < MaxData
          /\ aborts => read > 0
          /\ read = 0 => rest = (c \in partial)
          /\ bytesToRead' = bytesToRead - read /\ downAllowance' = downAllowance - read * Second
          /\ bytesToWrite' = bytesToWrite - written /\ upAllowance' = upAllowance - written * Second
          /\ available' = [available EXCEPT ![c] = @ - read]
          /\ outgoing' = [outgoing EXCEPT ![c] = toSend - written]
          /\ partial' = IF rest THEN partial \cup {c} ELSE partial \ {c}
          /\ transferScheduled' = IF answer = 1 THEN Scheduled(transferScheduled) ELSE transferScheduled
          /\ open' = IF aborts THEN open \ {c} ELSE open
          /\ sockets' \in IF aborts THEN {sockets, sockets \ {c}} ELSE {sockets}
          /\ IF moved /\ more
               THEN canTransferMore' = TRUE /\ UNCHANGED pendingSockets
               ELSE pendingSockets' = pendingSockets \ {c} /\ UNCHANGED canTransferMore
  /\ UNCHANGED <<limitVars, stopWatch, transferring, writeChunk, readChunk, overflowed>>

RoundOver == transferring /\ (turns = {} \/ ~BudgetLeft)
AnotherRound == canTransferMore /\ BudgetLeft /\ pendingSockets # {}

NextRound ==
  /\ RoundOver /\ AnotherRound
  /\ StartRound(pendingSockets, bytesToWrite, bytesToRead)
  /\ UNCHANGED <<limitVars, sockets, transferScheduled, stopWatch, transferring, pendingSockets,
                 bytesToWrite, bytesToRead, clientVars, allowances, overflowed>>

\* Mutant: only what is known to be left is scheduled.
ScheduleIfKnown == canTransferMore

\* The last test of transfer().
ScheduleAgain == canTransferMore \/ bytesToWrite = 0 \/ bytesToRead = 0

EndTransfer ==
  /\ RoundOver /\ ~AnotherRound
  /\ transferring' = FALSE
  /\ transferScheduled' = IF ScheduleAgain THEN Scheduled(transferScheduled) ELSE transferScheduled
  /\ pendingSockets' = {} /\ turns' = {} /\ canTransferMore' = FALSE
  /\ bytesToWrite' = 0 /\ bytesToRead' = 0 /\ writeChunk' = 0 /\ readChunk' = 0
  /\ UNCHANGED <<limitVars, sockets, stopWatch, clientVars, allowances, overflowed>>

Transfer ==
  \/ TransferNothing \/ BeginTransfer \/ NextRound \/ EndTransfer
  \/ \E c \in Clients : SkipSocket(c) \/ ServeSocket(c)

Next ==
  \/ \E c \in Clients : AddSocket(c) \/ RemoveSocket(c) \/ DeleteSocket(c) \/ PeerSends(c) \/ ClientWrites(c)
  \/ \E up, down \in Limits : SetLimits(up, down)
  \/ Tick \/ Transfer

Spec == Init /\ [][Next]_vars

\* Time passes, timers fire, transfer() goes on.
FairSpec == Spec /\ WF_vars(Tick) /\ WF_vars(Transfer)

-----------------------------------------------------------------------------
\* Over any time the connections together move no more than the limit allows for that
\* time and one second more: what transfer() hands out is bounded by the time since
\* the last transfer, which restarts although rounds, leftovers and new limits interfere.
LimitsKept == upAllowance >= 0 /\ downAllowance >= 0

\* While data can be moved a transfer is on its way: the tests that end transfer() lose
\* none, whichever budget is used up and whoever aborts. The exception: a limit times the time
\* does not fit into an int, and the negative budget ends transfer() for good.
TransferOnItsWay ==
  (\E c \in sockets \cap open : available[c] > 0 \/ outgoing[c] > 0)
    => transferScheduled # "no" \/ transferring \/ overflowed

\* If from some time on data always waits and a download limit is set, then data is
\* read again and again: transfer() is scheduled, and reads when it is. (Not for each
\* connection: the set is gone through in one order, and a budget of a few bytes may
\* never reach the last one.)
DataIsMoved ==
  <>[](~overflowed /\ downLimit > 0 /\ \E c \in sockets \cap open : available[c] > 0)
     => []<><<transferring /\ transferring' /\ bytesToRead' < bytesToRead>>_vars
=============================================================================
