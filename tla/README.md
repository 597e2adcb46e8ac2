# Verification of uenclient

uenclient is a Qt 4 desktop program of a local network: a BitTorrent client with
an XMPP chat and the log-in form of the network's site. Its own code is in
`src/src` (8071 lines of C++ with headers); `src/gloox` is a vendored XMPP library. There are no
tests in the repository, so the code's comments are its only statement of intent.
This directory models the parts in which concurrency, ordering and long event
sequences decide whether the program does what it should, checks them with TLC
and proves their main invariants with TLAPS.

## 1. Inventory

The program has two threads of its own making per torrent (the GUI thread and one
file thread) and one for the chat (the gloox receive loop). Everything else is
event handlers on the GUI thread: slots called by signals, posted calls
(`QMetaObject::invokeMethod(..., QueuedConnection)`), timers.

| component | state | operations | what is hard | correct when |
|---|---|---|---|---|
| `filemanager.cpp` FileManager | three request queues, `startVerification`, `wokeUp`, `quit`, mutex and condition; the files | `read`, `write`, `verifyPiece`, `startDataVerification`, `wakeUp`, `run`, destructor | two threads; the mutex is dropped between tests; a wake-up is a posted event; shutdown | no request sleeps; writes precede verdicts; answers are in order; shutdown ends and loses nothing |
| `torrentclient.cpp` TorrentClient, download | `state`, connections, `completedPieces`/`incompletePieces` bit arrays, `pendingPieces` map of `TorrentPiece*`, `payloads` multimap, posted `scheduleDownloads` | verification, piece scheduling, block requests, blocks, verdicts, chokes, pause, resume, stop, file errors | three handlers re-post each other; raw pointers; verdicts and blocks that arrive after the state changed | complete pieces are intact but for messages that overrun their piece; bookkeeping agrees; no pointer outlives its piece; every piece is fetched |
| TorrentClient, upload | `readIds`, upload timers, peer list with weights | `peerRequestsBlock`, `sendToPeer`, `scheduleUploads` | a block read before a choke is answered after it | only unchoked peers are served (`PeerWireClient`); at most `MaxUploads` + 1 unchoked |
| `peerwireclient.cpp` PeerWireClient | choke and interest flags, outstanding requests, blocks to send and their byte count, three timers, parser state | one method per message, `processIncomingData`, `writeToSocket`, `timerEvent` | a handler emits a signal in the middle and changes state after it; timer ids kept after `killTimer` | a peer that does not answer is dropped; the send queue is bounded |
| `trackerclient.cpp` TrackerClient | `firstTrackerRequest`, `lastTrackerRequest`, `firstSeeding`, HTTP request | `start`, `startSeeding`, `stop`, `fetchPeerList`, `httpRequestDone` | an abort is answered by the same signal as a completed request | started, completed and stopped are announced once, in order; `stopped` follows `stop` |
| `ratecontroller.cpp` RateController | sockets, limits, stop watch, `transferScheduled` | `addSocket`, `removeSocket`, `scheduleTransfer`, `transfer` | leftover bytes, limits of 0, integer product | limits are kept; a transfer that is possible is made |
| `torrentserver.cpp`, `connectionmanager.cpp` | clients per info hash; connections against a limit; client id | `incomingConnection`, `processInfoHash`, `addConnection`, `removeConnection` | connections leave by several paths | the count is that of live connections |
| `torrentdialog.cpp` TorrentDialog | `jobs`, rows of two views, saved settings, `saveChanges`, its timers | load, add, remove, move, errors, save | message boxes run event loops of their own; timers outlive what they were started for | rows and jobs agree; changes are saved; what was saved is loaded |
| `chatdialog.cpp`, `glooxsession.cpp`, `privatechat.cpp` | participants, shown list, private chats, their sessions | handlers of the XMPP thread; GUI slots | data shared by two threads without a lock; queued calls | the list that is shown follows the room |
| `uenclient.cpp`, `loginform.cpp` | form, window, tabs, tray icon | log in, start of a session again, tray | a new session while the thread of the last one runs; answers of the site | a failed log-in can be tried again; no dialog is deleted under its thread |
| `metainfo.cpp`, `bencodeparser.cpp` | parser position, extent of the info section | parse | an index that is never taken back; files that are cut off or damaged | the name of a torrent stands for its bytes |
| file layout (`filemanager.cpp`, `torrentclient.cpp`) | files on the disk, blocks received | generate, read, write, verify | blocks over the borders of files, empty files, a shorter last piece | every byte is asked for, stored and read at its place |
| `bencoder.cpp`, dialogs, smileys, helpers, forms, translations | widgets | - | - | not modelled, see section 6 |

Interactions: TorrentDialog owns TorrentClients; a TorrentClient owns a
FileManager (calls in one direction, posted signals in the other), a
TrackerClient and its PeerWireClients; PeerWireClients move bytes when
RateController tells them; TorrentServer gives incoming connections to the client
that knows the info hash; ConnectionManager counts them all.

`PROJECT.json` lists the components with their status and, under `hazards`, what
in each of them is hard to test, with the line where it bites and the property
that guards it.

## 2. Plan

The modules, in the order in which they were written; each model stands on the
contracts of those before it.

1. `FileService`, `FileManager`: the component with real parallelism, which every
   downloaded byte goes through, and its contract.
2. `TorrentClient`: the download side of the engine, on top of the contract.
3. `PeerWireClient`: the protocol on one connection and the uploads over it.
4. `TrackerClient`: the announces, with those handlers of the torrent that start
   and stop it and with the list that waits for `stopped()`.
5. `Connections`: TorrentServer, ConnectionManager and RateController as sets of
   pointers, composed with the life of torrents and connections.
6. `RateController`: the transfer loop itself.
7. `TorrentDialog`: the list of torrents, its settings, and restarts.
8. `Chat`: log in, main window, chat room and the gloox thread in one module,
   because the properties relate them.
9. `BencodeParser`, `MetaInfo`, `FileLayout`: the pure algorithms, composed from
   the torrent file to bytes on the disk. `FileLayout` takes what a document yields as
   the constant operator `Contents`, and `MCFileLayout` puts the parser there.
   `TorrentFile` composes the two: what a torrent's maker writes into its file, and
   what setTorrent makes of it.

There is a module of theorems, `...Proofs`, for each of these models; the one for the
parser and the files is `FileLayoutProofs`. TrackerClient and RateController, which share nothing, have one together,
`TrackerRateProofs`; that is why the names of TrackerClient that every model has
begin with TC (`TCInit`, `TCNext`, `TCSpec`).

The plan is done: every invariant and every action property the runs check is stated by
a theorem. What is left are the six liveness properties, which the prover cannot
reach (section 5).

## 3. Modules

### FileService and FileManager

`FileService` is the contract: reads, writes and verifications are accepted, each
kind is served in order, a piece is verified when all earlier writes are on disk,
signals arrive in order. `FileManager` is the program:

- `gui` is where the owner stands (`new` before `start`, `starting` between
  `start` and `startDataVerification`, `running`, `quitSet`/`joining`/`gone` in
  the destructor); `pc` is where the file thread stands in `run`. The three
  queues, `startVerification`, `wokeUp`, `quit` and `verifiedPieces` are the
  variables of those names; `new...` are the thread's local copies.
- One action per access that another thread can see in between. A call of `read`,
  `write` or `verifyPiece` holds the mutex throughout and is one action, enabled
  while the thread does not hold it (`MutexHeld`). The thread's wait is two
  actions, `Check` (tests under the mutex) and `Sleep` (waits, which releases it),
  because the destructor does not take the mutex and can come in between.
- `WakeUp` is the slot posted by a request; `wokeUp` is true exactly while it is
  posted. `Receive` is the delivery of one of the thread's signals.
- The data of a block is `good` (the torrent's) or `bad`; a file that cannot be
  created, opened, read or written is a nondeterministic outcome, and so are
  files that had to be created or resized (`newFile`).
- The loops over files in `readBlock`, `writeBlock` and `verifySinglePiece` are one
  step each; `FileLayout` has the loops. The outcome of a write is all or an error. A read
  from an open file that fails or is short is silent in the code, which only tests for a length
  below 0 and goes on with the next file, so `ReadBlock` may answer with a wrong block.

### TorrentClient

The download side. All handlers run on the GUI thread, so a handler is one
action; `scheduleDownloads` and `requestMore` contain loops whose turns make
choices and are one action per turn, and no other handler starts before they have
finished (`Quiet`).

- `state`, `connections`, `pendingPieces`, `piece`, `payloads`,
  `completedPieces`, `incompletePieces`, `pieceCount`, `schedulerCalled`,
  `connectingToClients` carry the code's names. `sock`, `choked`, `interested`,
  `avail`, `incoming` are the parts of a PeerWireClient that the handlers read.
- The file manager is used by its contract: `store` is what its disk holds,
  `verifying` the verdicts it still owes, `verifiedPieces` what its initial
  verification finds.
- A block is accepted as it is sent: `blockReceived` takes the number of the block from
  `begin` by an integer division, and compares neither `begin` nor the size of the data
  with a request or with the end of the piece. So `BlockReceived` takes the exact answer to a
  request, and (`stray`) data that begin anywhere in a block and reach into up to `MaxSpan`
  blocks from there (`Span`, `Messages`), over the end of the piece too. After such
  a message each block it reached into is right or wrong on disk. `overrun` is history: the
  pieces that data for another piece have been written into since their last verdict was
  asked for. Writes go on while a verdict is owed, so a verdict may speak of any content the
  piece has had since it was asked for (`hashes`). A `begin` outside the piece is left out:
  it makes the code test a bit that a `QBitArray` does not have, which is undefined.
- The environment is a budget: `left[kind]` counts down how often peers may
  choke, leave, send a damaged, an unexpected or a stray block, and how often the user
  pauses or stops, the disk fails and the tracker sends another list. Connecting,
  announcing pieces, unchoking and answering requests are not limited.
- A peer that reaches the client before its files are verified (`EarlyPeers`)
  has to get past `TorrentServer::processInfoHash`, which takes a file error
  during the verification and a user who resumes. It is a constant because
  then a verdict can be about a piece that the verification has made the client
  forget (`fullVerificationDone` erases it, `pieceVerified` dereferences it).
- The saved state: complete pieces are assumed to be intact on disk (what
  happens when the files were replaced is left to FileManager); of partly
  downloaded pieces the saved bits may be wrong in either direction.

### PeerWireClient

One connection, incoming or outgoing, and what the torrent client does to it for
uploads; a handler, with what its signals make the client do, is one action.

- `choking`, `interestedInPeer`, `chokedByPeer` and `peerIsInterested` are the
  bits of `pwState`; `initialized` stands for a known `infoHash`; `received` is how far the
  incoming handshake got (`receivedHandShake`, `gotPeerId`). `pendingBlocks`,
  `pendingBlockSizes`, `outgoingBuffer`, `incoming` and `invalidateTimeout` are the
  variables of those names; `pendingRequestTimer` says whether that timer runs.
- A message has arrived whole, or `ReceivePart` happens. The bytes of the stream to
  the peer are grouped into messages (`outgoingBuffer` is a sequence of them), and
  `SendMessage` is the moment a message has left completely.
- `reads` is this connection's share of `readIds`: the file manager answers reads in
  order, at any later time. `SendToPeer` is `sendToPeer` and `sendBlock`.
- Whom `scheduleUploads` chooses depends on speeds and dice: `UnchokePeer` and
  `ChokePeer` allow every choice it can make about one connection.
- `silent` is the environment: a peer whose host has gone without a word.
- Incoming connections work in the models (`PeerWireClient`, `Connections`,
  `TorrentClient`) as the code after them intends. In the program `TorrentServer` gives the
  descriptor to the outer socket (`torrentserver.cpp:69`), which PeerWireClient
  does not override, and its methods use the inner one, so that the handshake of an incoming
  peer is not read. The models thus allow more than the program does.
- `abort()` closes at once and removes the client; Qt does so by signals within
  the call, except while connecting, when the removal follows.
- `peerChoked` (what the peer has been told last) and `firstMessage` are history.

### TrackerClient

One torrent from its start to its deletion, seen by the tracker.

- `firstTrackerRequest`, `lastTrackerRequest`, `firstSeeding` are the code's flags,
  `timer` is `requestIntervalTimer`, `fetchPosted` the posted `fetchPeerList`.
- QHttp is a queue of requests: `RequestDone` and `RequestFailed` call
  `httpRequestDone`; `http.abort()` in `stop` calls it within the step if a
  request is under way, and that is where `stopped()` may come too early.
- Of the torrent there is what moves these flags: its state, whether it is being
  verified, and `progress` (no, some or all pieces). A late verdict or block may
  move it out of Paused or Stopping, as in the code.
- `said`, `stopped`, `heard`, `interrupted`, `foundComplete`, `unanswered` are history.

### Connections

`ConnectionManager::connections` (`manager`), `RateController::sockets`,
`TorrentServer::clients`, and the `list` of each torrent are sets; a connection is
an object that is created, connects, closes, is doomed by `deleteLater()` and can
be used again. `handler` says whose slots its signals reach, which decides which
`removeClient` is called, if any; `parent` who deletes it. `abort()` on a
connection that is still connecting emits nothing. `due` is a verdict under way,
which may revive a torrent that has been paused or stopped. `strays` is history:
the connections that the code loses sight of.

### RateController

A turn of the inner loop of `transfer()` for one socket is an action, because what
is read is handled at once and may write an answer or abort the connection;
nothing else happens in between (`transferring`). Time is counted in ticks;
`stopWatch` counts those since the last transfer. The product of limit and time
wraps at `IntMax` (`Wrapped`), as an `int` does on the build's platforms.
A socket that is aborted within its turn leaves `sockets` if a torrent has it and stays there
if the server still has it; what is said of waiting data is said of sockets that are open.
`upAllowance` and `downAllowance` are history: what the limit grants as time goes
by, less what has been moved.

### TorrentDialog

`jobs`, `torrentView` and `fastView` are sequences; a row is known by the client
it holds. `Downloads` clones the row of `torrentView` that has the client's number among
`jobs`, and with an error box open there is one job less than rows, so that the clone may
be another client's (`cloned` is history of that; `MaxFastRows` bounds the second view). A message box is an element of `boxes`: while it is open
the slot that showed it has not returned, the user can do nothing else, but
clients and timers go on (`Idle`, `Free`). The loop of `loadSettings` is one step
per torrent, because a box inside it lets everything else happen. `Restart` is
the end of the program, by quitting or by a crash: all is lost except `settings`. A
torrent file that cannot be opened is in `missing`.

### Chat

Two threads: `GlooxThread` are the handlers called by the gloox receive loop,
`MainThread` the slots. `calls` is the event queue of the dialog. `participants`
belongs to both threads: a reader that races with a change shows any list
(`UpdateUserList`, `Racing`), and the handler that has raced is then the next thing
that thread does (`handling`). `room` and `inbox` are the server and the stream.
`ConfirmedLogin` is the start of a session, with all that it deletes. `EscapeForm` is
the Escape key in the modal log-in form: `QDialog::reject` hides it without the `closeEvent`
that ends the program (`dismissed` is history of that).
`clientbase.cpp` of gloox is modelled where it decides which private chat a
message reaches (`Receivers`).

### BencodeParser, MetaInfo, TorrentFile and FileLayout

The parser works on tokens instead of bytes: integers, strings, the letters d, l
and e, three broken ones, and strings whose length overflows the `int` it is read into
(`Wrapped`), which take the index anywhere, back as well. It is the code's recursive descent, including that
an alternative starts where the one before it has given up. The recursion is a function
(`Get`) from the calls, which are the rest of a list or of a dictionary from a state of
the parser on, to what the loop collects from there; `getElements` and `getEntries`
are one turn of the two loops. `MetaInfo` extracts
lengths, piece length and sums. `FileLayout` goes on with them: `GenerateFiles`,
`BlockArrives`, `VerifyPiece`, `Resume`, `Stop`, and files deleted meanwhile. The loops of
`readBlock` and `writeBlock` are functions of the number of files gone through
(`walk`). A message carries any number of bytes up to `MaxMessage` from any byte of its piece
on, and the file at which a write breaks off is any; the torrent is then paused (phase `error`)
with the files as they are, and may be resumed. The torrent's k-th byte is k. `image` is the
reference: one sequence of bytes in which what was stored is put at its place, of a write
that broke off a first part. `overrun` is history: the verified pieces that data for an
earlier piece have run over into.

Lines of TLA+ per mapped source line: 1.2 for all models together, 0.8 without comments,
properties and mutations included; the mapped lines per definition are
in `PROJECT.json`. A definition whose comment begins with "Mutant:" is not used by
a model: it is what a mistake in the code would look like, and `PROJECT.json` names
the property that notices it.

## 4. Runs

Each `MC...` module gives the constants of its module their values. All passing
runs are exhaustive for their bounds.

| run | bounds | checks | shows |
|---|---|---|---|
| `FileManager_service` | 2 pieces of 1 block, 2 requests, any files | `NoLostWakeup`, `VerifySeesWrites`, `ReadsAnsweredInOrder`, `ImplementsFileService`, `RequestsServed` | thread, queues, lock and wake-ups implement the contract, and requests are served |
| `TorrentClient_swarm` | 2 peers, 2 pieces of 1 block; choke, damaged block, unexpected block, stray message of up to 2 blocks, stop: once each | `TypeOK`, `NoDanglingPiece`, `OneVerdictPerPiece`, `CompletedIsIntact`, `InterestKept` | the bookkeeping survives any order of these |
| `TorrentClient_blocks` | 2 peers, 1 piece of 3 blocks shared by both; quotas of 2 and 1; loss, pause, file error, announce: once each; early peers | `PiecesPartitioned`, `QuotaKept` | interrupted verification, shared blocks, quotas |
| `TorrentClient_download` | 2 peers, a fresh torrent of 2 pieces of 2 blocks, one damaged block | `DownloadCompletes` | with generous peers the torrent is completed, a failed verdict notwithstanding |
| `PeerWireClient_wire` | 2 blocks, queue of 2 blocks, buffer of 3 messages, 2 reads under way, 1 request of ours | `QueueBounded`, `BlocksOnlyToUnchoked`, `SilentPeerDropped` | no block reaches a choked peer, the queue is bounded, a silent peer is dropped |
| `TrackerClient_announces` | one torrent; events and `stopped()` counted to 2 | `OnceEach`, `SaysStopped`, `GoodbyeHeard`, `StopAnswered`, `KeepsAnnouncing` | what the tracker is told, and that whoever waits for a stop is answered |
| `Connections_slots` | 2 torrents, 3 connection objects, limit 2 | `ListedAreKept`, `OnlyStraysDangle`, `LiveAreCounted` | the process-wide sets against what exists |
| `RateController_rounds` | 2 connections, limits of 2 and 4 bytes, 2 ticks a second, `int` up to 7, 2 bytes on each side | `LimitsKept`, `TransferOnItsWay`, `DataIsMoved` | limits, leftovers, an overflowing product |
| `TorrentDialog_rows` | 2 torrents, 2 clients, 2 boxes, 2 timers, 3 rows of downloads, restarts | `RowsAreJobs`, `OneFastRow`, `ChangesGetSaved`, `SavedIsKept` | list, views and settings under nested event loops |
| `TorrentDialog_resume` | the same | `AllResumed`, violated | a box in the loop that loads the torrents loses those after it |
| `Chat_sessions` | 2 others in the room, 2 sessions, 2 stanzas, 2 queued calls, 2 private chats | `TypeOK`, `OneThread`, `NeverStranded`, `ListFollows` | log in, log in again, a form put away, and the room in two threads |
| `FileLayout_bytes` | 4 torrents of 1 and 3 files with 2 pieces, blocks of 2 bytes, messages of up to 3 bytes from any byte of a piece on, writes that break off in any file; each torrent file also damaged at any place | `NameIsTorrent`, `WritesInPlace`, `ReadIsSlice`, `VerifiedIsTrue`, `BlocksTile` | from the torrent file to bytes on the disk |

Some invariants are proved for all values of the constants and are in no run:
`VerifiedOnce` (FileManager), `NeverEndgame` (TorrentClient), `LimitKept`, `PausedIsQuiet`
and `RegisteredExist` (Connections), `FormUsable`, `FirstTabIsChat` and
`IconIsBack` (Chat), and the `TypeOK` of FileManager, PeerWireClient,
TrackerClient, Connections, RateController and TorrentDialog.

Why these bounds are enough: the file manager's races are between one request and
one pass of the loop; two requests let a second one queue behind a first that is
being served, and two pieces let verifications of different pieces
overtake each other. In the torrent client every piece is treated alike, so two
pieces show one complete and one partial, and two clients show sharing, stealing
and releasing; several blocks are needed only for quotas and partial pieces, and with
three a piece still has blocks to ask for when a quota of two is used up. Warm-up
sharing starts at four pending pieces in the code; the constant `WarmUpPieces`
brings that within two pieces. With two pieces of one block a message of two blocks runs over
the end of the first into the second, which may be complete, pending or being verified. The quotas (`MaxBlocksInProgress`,
`MaxBlocksInMultiMode`) are scaled down from 5 and 2 and keep their order.
Permuting the peers is a symmetry: the code compares clients only by identity.
On a connection, a choke, an unchoke and a block fit into the buffer together, so
every order of two decisions and a block between them occurs; the third block
overflows the queue. A block has 2 bytes and a header 1, so that the header, the
part of the byte count that is never taken back, adds up within the limit of 6.

The tracker client needs no bound but the counters, which saturate. Two torrents
and a limit of two let one torrent take the other's last slot, and the third
object is the connection that is refused or is opened while another is being deleted. Of
the two limits in `RateController_rounds`, 4 bytes times 2 ticks exceed the largest
`int`, 2 bytes do not; two sockets share a budget that does not divide. Two boxes
are one on top of the other; a timer that outlives its change and the next one are
two. Two sessions show what a new one does to the last; `onTabClose` belongs to
the first only. The four torrents have a last piece shorter than the others and one
as long, a block over the border of two files, a file of one byte within a block,
and an empty file; with blocks of 2 bytes, 3 bytes are a message longer than a block, that begins
inside one and reaches over the end of a piece, a file and an empty file at once.
A third row in the second view is a second row of one of two clients.

`TorrentDialog_resume` is violated: it states the comment "Resume all previous
downloads." (`torrentdialog.cpp:255`); what the code does instead is under `findings` in
`PROJECT.json`.

### Behaviours of the models that are not properties

The models do what the code does, also where that is unfortunate. The properties
are stated around these, and name them as exceptions where they matter:

- `~FileManager` wakes the thread without the mutex: between the thread's test and
  its wait the wake-up is lost, and both wait for ever (`Sleep`, `Join`). `writeBlock`
  stops as soon as `quit` is set, so the flush at the end writes nothing (`Flush`).
  One saved piece makes the initial verification trust all of them (`EndWrites`).
- The data of a message are written from the byte the peer names, all of them
  (`torrentclient.cpp:990` and `:1016`, `peerwireclient.cpp:594`, `filemanager.cpp:355`), so they
  can damage a neighbouring piece that is complete, which goes on being announced and served.
  `CompletedIsIntact` and `VerifiedIsTrue` except those pieces (`overrun`) and no others.
- The end game is out of reach once the files are verified (`NeverEndgame`, proved as
  `EndgameIsDead`), while the comments of `torrentclient.cpp` count on it (797, 998, 1197,
  1381): its test asks for more pending than incomplete pieces. No run checks this.
- A read that fails is silent: the peer is sent the bytes that could be read (`ReadBlock`).
- A verdict or a block that was under way ends a pause or a stop; peers who join
  before the files are verified can make a verdict dereference a piece that is
  unknown; an idle client that keeps a payload in warm-up is resumed for nothing.
- The arrival of a block kills the timer of the requests that it has caused.
  An optimistic unchoke may be written before the handshake (`firstMessage`).
- A torrent complete from the start says "completed" in the place of "started"; a
  stop that aborts a request is answered at once.
- A negative budget ends `transfer()` for good, until something schedules it again.
- A second error box shown on top of a first deletes the wrong row. The row taken
  from the second view when a torrent is removed is the last one. A client that starts to
  download while an error is shown may get the row of another (`cloned`).
- A login with an empty field leaves its button disabled. After Escape in the log-in form
  there is neither a form nor a session, and nothing shows the form again; `NeverStranded`
  excepts it (`dismissed`).
- The length of a byte string overflows when it has too many digits; a parser that is thereby
  sent back may read the same tokens for ever. Theorems about the parser say `LengthsFit`.
- A last piece as long as the others is taken to be 0 bytes long and never
  downloaded: `BlocksTile` is stated for the other torrents.

Some exceptions leave out the very case in which the code does not do what one would
hope, so that the property is about the rest: `interrupted` of `GoodbyeHeard` (a stop that
aborts a request), `unanswered` of `KeepsAnnouncing` (a first announce that fails is not
repeated), `strays` of `OnlyStraysDangle` (connections forgotten by a pause or opened after a
stop), `overflowed` of `TransferOnItsWay` and `DataIsMoved`, and `interrupted` of
`SavedIsKept`. `LiveAreCounted` says nothing of the connections of a stopped torrent, nor of a
slot that a dead connection keeps. Under `hazards` such a case has a note in place of a property.

### Fairness

`FileManager`: weak fairness of the file thread (the operating system schedules
it), of a call of the GUI thread that has begun, and of the GUI event loop's
delivery of the posted `wakeUp` and of the thread's signals. Issuing requests and
destroying the manager are never forced.

`TorrentClient`: weak fairness of the start and of the scheduler's steps (posted
events are delivered); strong fairness of the arrivals (verdicts, and what
generous peers send), because the scheduler may post itself for as long as a
quota is not filled, and each arrival is then enabled again and again between two
rounds. No fairness of chokes, losses, pauses, or of a reconnection after a loss.

`TrackerClient`: weak fairness of the posted first fetch, the timer, the deletion,
of the end of requests (TCP ends or times out) and of a tracker that closes idle
connections. `RateController`: time passes and `transfer()` goes on.
TorrentDialog, Chat, Connections and FileLayout have safety properties only.

`PeerWireClient`: weak fairness of `timeoutTimer` alone, which Qt starts in the
constructor and never stops without restarting it. Nothing obliges the peer, the
file manager or the rate controller.

## 5. Proofs

`FileManagerProofs` proves `TypeOK`, `NoLostWakeup`, `VerifySeesWrites` and
`VerifiedOnce` for every number of pieces and requests and every set of blocks,
from the assumptions named in `FileManager`. The inductive invariant `IInv` adds
to them three parts. `BlockTaken`: while a block is being written there is one to
write. `MutexInv`: while the thread holds the mutex past its
test for work, what it tested still holds, which makes `NoLostWakeup` inductive:
a request queued before the test prevents the sleep, one queued after it posts
`wakeUp`. `VerificationInv`: before the initial verification is over no request
other than the start can have asked for a verification, and afterwards
`startVerification` comes with a piece in the queue, so that the branch for the
first time cannot be taken again.

`ServiceImplemented` is the refinement: every step of `FileManager` is one of
`FileService` or changes nothing of it, under the mapping that joins each queue with
the thread's local copy of it. `RefInv` adds to `IInv` which local copies are empty where
(`ClosingInv`), and that nothing is requested before the initial verification is
over (`ScanInv`), which the contract says and the code owes to its owner.
`ReadsInOrder` is proved on the steps of the contract: the answers given, the reads
being served and those queued are one increasing sequence (`OrderInv`).

`TorrentClientProofs` proves, for every number of clients, pieces and blocks and
every budget of the environment:

- `PiecesStayPartitioned` and `EndgameIsDead`, by one invariant (`Partition`):
  pending pieces are incomplete in every reachable state, hence not more numerous
  (finite cardinality), hence the end-game test is false wherever it is made, and
  the state is only entered through it.
  `EndgameIsDead` is a disagreement of the code with its comments (section 4).
- `CompleteMeansIntact`, under `~EarlyPeers`, for messages of any size from any byte on. A piece
  is complete when a verdict said so, and what a verdict can say (`hashes`) is what the piece
  has contained since it was asked for. If no data for another piece has come in between, that
  is what it contains now (`IntactPieces`), because no message is written for a piece that
  has all its blocks (`Pointers`); otherwise it is in `overrun`. Before the
  files are verified nobody is connected (`Integrity`), so that no block can arrive.
- `InterestIsKept`: the invariant (`Informed`) adds that only connected peers have
  announced anything; the handlers that reset connections reset both.
- `TypesHold`. Queues, payloads and the order of requests are sequences that the
  handlers filter, cut and permute, and what they keep is written with `Selected` and
  `Without`, which are about positions and not recursive.
- `PiecesStayAlive` and `VerdictsAreSingle`, under `~EarlyPeers`, by `Pointers`: a piece
  has all its blocks exactly while its verdict is awaited, a piece that is not
  pending has none, and nobody has a payload before the files are verified. Hence a
  verdict finds the piece it is about, and no block can be missing from a piece
  that is being verified, so that it is not verified twice.
- `QuotaIsKept`, by `Quota`. The quota shrinks when a warm-up or the end-game begins, so
  what matters is who may have been asked for more before: only connected
  clients are asked (`Attached`), nobody is connected while the torrent is away
  (`AwayAlone`), and a warm-up is begun by the first peer to connect while no piece is
  complete (`FirstComes`). That breaks down for a peer from before the files are
  verified, whom the verification takes out of the warm-up into which the next
  peer brings the client back; the larger instance of `TorrentClient_blocks` showed it, and `QuotaKept`
  now names the exception.

`PeerWireClientProofs` proves `TypeOK`, `QueueBounded` and `BlocksOnlyToUnchoked`
for every set of blocks, every length of blocks and headers and every limit. The
inductive invariant adds two facts: `Believed`, what the peer will have been told
when all of `outgoingBuffer` has arrived is the flag `ChokingPeer`; and
`NothingForChoked`, a choked peer has an empty queue. A block enters the buffer
only when the buffer is empty, so the peer then knows it is not choked. The
lemmas on streams (`ToldByLast`, `ToldByFirst`, `GoodAppend`, `GoodTail`) say what
adding a message and delivering one does to what a peer has been told. That
`pendingBlockSizes` stays a natural number rests on `QueueBounded`: each queued
block is counted with its header, and only its own length is taken back.

`TrackerRateProofs`, announces: `OnceEach`, `SaysStopped` and `GoodbyeHeard` by one invariant
each. A start is outstanding as long as `firstTrackerRequest` says so; only a
torrent with all pieces is Seeding; the fetch of a stop leaves no start
outstanding; and the list gives up a torrent when its last request ends or the stop has
aborted one.

`ConnectionsProofs`: all seven invariants, for any number of torrents and
connections and any limit (`TypeOK` among them). `ConnInv` says of each connection which of its owner,
handler and membership go together (`Shape`), and of each pair of a torrent and a
connection what the torrent's state implies (`Related`): what is in the sets and
belongs to a torrent is in its list or a stray.

`TrackerRateProofs`, bandwidth: `LimitsKept`, by an invariant that what is left of a budget,
and what the limit grants for the time on the watch, are covered by the allowance
(`Covered`), with the lemmas on rounding and wrapping that it takes;
`TransferOnItsWay`, by an invariant of the loop (`LoopInv`): data that waits is in
`pendingSockets`, or a budget is used up, and the last test of `transfer()` then
schedules it again. It is assumed that there are finitely many connections.

`TorrentDialogProofs`: `TypeOK`, `ChangesGetSaved`, `RowsAreJobs` (with lemmas
on removing, inserting and swapping in sequences), `OneFastRow` (while no error is shown the rows
are the clients of the jobs, by `RowsInv`, so the row that is cloned is the client's own) and `SavedIsKept`: while settings
are loaded without a box they are not saved, and what the loop has gone through
is a job or has failed (`SavedInv`).

`ChatProofs`: `OneThread`, `NeverStranded` and `FormUsable` by one invariant,
`LoginInv`: exactly one of the form, a running session and a lock on its way has the
user. `IconIsBack` by `IconInv`, `FirstTabIsChat` by `TabsInv`. `TypeOK`, and `ListFollows`
by `ListInv`: what is shown is `participants`, unless an update is queued or a read
that races with a change is being handled; whoever changes `participants` queues
an update after the change, so that a wrong list is never the last one. And `RoomInv`: the last
presence of a nickname that is on its way says whether it is in the room, and when none is,
`participants` does. So the list is the room when everything is through.
`NeverStranded` has the exception `dismissed`.

`FileLayoutProofs` is about bytes, for any number of files of any lengths (empty
ones included), any piece length and any size of blocks:

- `ReadsAreSlices` and `WritesStayInPlace`. `Layout` says that while a torrent runs, and when a
  write has broken off, the files have their lengths and, joined, are the image, which
  holds exactly the bytes that were written. That one write, of data of any length from any
  byte of a piece on and with any file broken, keeps it is an induction over the files: after i files `writeBlock` has written what
  of the block lies before the end of the i-th (`WriteState`, `WriteSoFar`), and
  `readBlock` likewise (`ReadState`). The functions `walk` and `EndsOf` are computed step
  by step (`Recursion`, `LoopRuns`).
- `VerifiedStaysTrue`: pieces lie apart (`PieceEndsInside`), so a write to a later piece
  leaves the slice of a verified one alone, and so does one to an earlier piece that ends before it
  (`OtherPieceStays`); what runs over into it puts it into `overrun`.
- `BlocksAreTheTorrent`: byte k is in block (k mod piece length) div block size of piece k div
  piece length and in no other, by the uniqueness of quotient and remainder
  (`DivModOnce`).

and about the torrent file, for documents of any tokens (`NamesAreTorrents`, `ParserMovesOn`,
`AnyFileIsSized`: with lengths of strings that fit into an `int`, `LengthsFit`):

- `ParserMovesOn`. A function may be defined by equations that no function satisfies;
  `ParserExists` shows that `Get` is not: the tokens that are left are a measure of a
  call, a turn (`Turn`) needs nothing but calls with fewer left (`TurnAgrees`), and so the
  parser is built from the end of the buffer on (`CallInduction`). On the same measure,
  every call ends inside the buffer and behind where it began.
- `NamesAreTorrents`, first half: the document a torrent's maker writes is read, entry
  by entry, as what it says (`InfoRead`, `DocumentRead`), for any number of files
  (`FilesRead`, by induction over them).
- Second half: the info section is remembered only while a key "info" is passed
  (`ParserQuiet`), so in a document with that word once, whatever else is damaged, the
  bytes that are hashed are those from which the "info" entry was read (`ParserInfo`), and
  they are those of the torrent's maker, which have one reading (`InfoSays`). The
  hypothesis `OneInfo` is the code's: of several keys "info", at any depth, the
  parser hashes the value of the last.
- `AnyFileIsSized`: what `MetaInfo` makes of any document has natural numbers as sizes
  (`CallsFilled`: every value in a list or map is one of the four kinds), so `ContentsAssumption`
  excludes no document of these tokens.

The library's induction theorems take an operator as a parameter, which the
installed provers cannot instantiate. `NatSetInduction` states induction for a set instead,
and follows from the pigeonhole principle of `FiniteSetTheorems`: below a gap in
the set, the successor function would be an injection of a finite set into
itself that misses 0. With it `EndsOfSum`, `FlattenJoins` and the loops are proved by giving the set
of the numbers for which they hold.

What the proofs assume of the constants: `BlockSize` and the bounds are positive,
sets of clients and of nicknames are finite (`ClientsAssumption`,
`ChatAssumption`), `Contents` yields natural numbers (`ContentsAssumption`: `BencodeParser`
reads a minus sign, and a torrent with a negative length fails when its files
are made; such documents are left out), it is what the parser makes of a document
(`DocumentsAssumption`), and a torrent of one file has one length
(`KnownAssumption`). The runs evaluate these assumptions.

Only model-checked, and why:

- liveness (`RequestsServed`, `DownloadCompletes`, `SilentPeerDropped`,
  `StopAnswered`, `KeepsAnnouncing`, `DataIsMoved`): out of the prover's reach;
- nothing is proved of `NoDanglingPiece`, `OneVerdictPerPiece` and `CompletedIsIntact`
  with `EarlyPeers`: a verdict can then be about a piece that has been forgotten;
- `AllResumed`, which is violated.

## 6. What is not modelled

- `src/gloox`, a vendored library of nine tenths of the repository's lines, is not part
  of the program's own logic; two functions of `clientbase.cpp` are modelled because the
  chat depends on them. Of the program's own code about four lines in ten are
  mapped; the rest is construction of widgets, texts, headers, and what follows.
- Bencoder: nothing calls it, and its functions return nothing or change copies.
  `hashFile` and `hashDirectory`, AddTorrentDialog, CreateTorrentDialog and
  DownloadTorrent, SmileHandler and Helper: no state that lasts.
- `TorrentDialog::closeEvent`: the dialog is a tab and gets no close event, so
  the orderly stop of all torrents never runs; quitting is `Restart`.
- Of PeerWireClient: the bytes of messages, the speed records, the ids of timers
  (they are kept after `killTimer`; the model has a timer that runs or not), and
  what is parsed of the rest of a packet train after a slot has aborted the
  connection.
- That the last writes are discarded by a quit (`Flush`) and that saved pieces are
  trusted whatever the files are (`EndWrites`) is in FileManager; no property
  forbids either.
- Of TorrentClient: the number of unchoked peers (it depends on dice and speeds, and
  `PeerWireClient` allows every choice), rate statistics and their timers, the weighing of
  free peers (any free peers may be tried, in any order). `ServerError` is in Connections.
- A connection that a pause has forgotten while it was connecting is followed up
  to the moment it comes up (`OrphanConnected`): it warms the client up and is
  then taken to end. What it does to the process-wide sets is in Connections.
- Of FileManager: time. Of FileLayout: torrents whose sums do not fit the length or
  whose piece length is 0 (the code divides by it without a test), and saved pieces
  that are trusted on a restart.
- Of the parser: a string cut off at the end of the buffer is one shorter string.
- Of Chat: texts, the subject, avatars, and the iterator that completes nicknames,
  which is undefined after the other thread has changed what it points into.
- Two clients on the same files, after a torrent is removed and added again before it
  has stopped.
- Allocation failures and the destruction order at program exit.
