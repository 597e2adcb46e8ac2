--------------------------- MODULE TorrentDialog ---------------------------
(***************************************************************************)
(* The list of torrents: src/src/torrentdialog.cpp.                        *)
(*                                                                         *)
(* The dialog keeps its torrents in jobs, a row for each in torrentView, a *)
(* row for those that download in fastView, and a copy in the settings,    *)
(* which the next program start loads.  A message box runs an event loop   *)
(* of its own: while one is open the user can only close it, but clients   *)
(* go on emitting signals and timers go on firing, and a second box opens  *)
(* on top of the first.  The dialog is a tab of the main window and gets   *)
(* no close event: the program ends (or dies) without another save.        *)
(***************************************************************************)
EXTENDS Naturals, Sequences, FiniteSets, SequencesExt

CONSTANTS Torrents,     \* torrent file and destination
          Clients,      \* TorrentClient objects
          MaxBoxes,     \* message boxes open at a time
          MaxFastRows,  \* rows of fastView
          MaxTimers     \* single shot timers for saveSettings pending at a time

ASSUME DialogAssumption == MaxBoxes \in Nat /\ MaxFastRows \in Nat /\ MaxTimers \in Nat \ {0}

VARIABLES
  jobs,             \* struct Job: the client and its torrent
  torrentView,      \* each row stands for the client it was created for
  fastView,
  stopping,         \* clients that are removed and have not stopped yet
  boxes,            \* open message boxes, the last one on top
  saveChanges,
  saveTimers,       \* pending timers for saveSettings
  settings,         \* the saved torrents; all the rest is lost when the program ends
  loadIndex,        \* index and size in the loop of loadSettings; 0 when it has ended
  loadSize,
  missing,          \* torrents whose file cannot be opened
  previous,         \* history: the torrents saved when the program started
  gone,             \* history: those of them the user has removed, or that have failed
  overlapped,       \* history: two errors have been shown at a time
  cloned,           \* history: a row has been cloned while an error was shown
  interrupted       \* history: a box has been open during loadSettings

listVars == <<jobs, torrentView, fastView, stopping>>
saveVars == <<saveChanges, saveTimers, settings>>
loadVars == <<loadIndex, loadSize>>
history == <<previous, gone, overlapped, cloned, interrupted>>
vars == <<listVars, boxes, saveVars, loadVars, missing, history>>

Box == [kind : {"error"}, row : Nat, client : Clients]
         \cup [kind : {"load", "menu", "drop"}, row : {0}]

Job == [client : Clients, torrent : Torrents]

clients == [i \in DOMAIN jobs |-> jobs[i].client]
torrents == [i \in DOMAIN jobs |-> jobs[i].torrent]
Failed == {boxes[i].client : i \in {j \in DOMAIN boxes : boxes[j].kind = "error"}}
Alive == ToSet(clients) \cup stopping \cup Failed

TypeOK ==
  /\ jobs \in Seq(Job) /\ torrentView \in Seq(Clients) /\ fastView \in Seq(Clients)
  /\ boxes \in Seq(Box)
  /\ saveChanges \in BOOLEAN /\ saveTimers \in Nat
  /\ settings \in Seq(Torrents)
  /\ loadSize \in Nat /\ loadIndex \in 0..loadSize

\* The program has started and loadSettings has set the sliders: a save is due.
Fresh(saved) ==
  /\ loadSize = Len(saved) /\ loadIndex = (IF saved = <<>> THEN 0 ELSE 1)
  /\ previous = ToSet(saved)

Init ==
  /\ jobs = <<>> /\ torrentView = <<>> /\ fastView = <<>> /\ stopping = {}
  /\ boxes = <<>> /\ settings = <<>> /\ Fresh(settings)
  /\ saveChanges = TRUE /\ saveTimers = 1
  /\ missing \in SUBSET Torrents
  /\ gone = {} /\ overlapped = FALSE /\ cloned = FALSE /\ interrupted = FALSE

-----------------------------------------------------------------------------
Row(list, c) == CHOOSE i \in DOMAIN list : list[i] = c

Loading == loadIndex > 0

\* No slot is running: the event loop takes the next event.
Idle == boxes = <<>> => ~Loading

\* Nothing keeps the user from using the dialog.
Free == boxes = <<>> /\ ~Loading

\* if (!saveChanges) { saveChanges = true; QTimer::singleShot(...) }
Changed ==
  /\ saveChanges' = TRUE
  /\ IF saveChanges
       THEN UNCHANGED saveTimers
       ELSE saveTimers < MaxTimers /\ saveTimers' = saveTimers + 1

\* Mutant: saveChanges is not reset.
FlagKept == saveChanges

FlagAfterSave == FALSE

\* saveSettings, with something to save.
Save(list) == settings' = [i \in DOMAIN list |-> list[i].torrent]

\* addTorrent(file, destination) of a torrent that is new and can be opened: a
\* client for it, a job and a row.
Addable(t) == t \notin ToSet(torrents) /\ t \notin missing

AddJob(t) ==
  LET unused == Clients \ (Alive \cup ToSet(torrentView) \cup ToSet(fastView))
      c == CHOOSE k \in unused : TRUE
  IN /\ unused # {}
     /\ jobs' = Append(jobs, [client |-> c, torrent |-> t]) /\ torrentView' = Append(torrentView, c)
     /\ UNCHANGED <<fastView, stopping>>

\* addTorrent of any other torrent: a box that says so.
Notice(from) == boxes' = Append(boxes, [kind |-> from, row |-> 0])

\* Mutant: the last one is not loaded.
NextIndexShort == IF loadIndex + 1 < loadSize THEN loadIndex + 1 ELSE 0

NextIndex == IF loadIndex < loadSize THEN loadIndex + 1 ELSE 0

\* One round of the loop of loadSettings. What it reads is what is saved now: an
\* index that has been removed gives an empty file name, which cannot be opened.
LoadNext ==
  /\ Loading /\ boxes = <<>>
  /\ LET known == loadIndex <= Len(settings)
         opens == known /\ Addable(settings[loadIndex])
     IN /\ IF opens
             THEN /\ AddJob(settings[loadIndex])
                  /\ Changed
                  /\ UNCHANGED <<boxes, settings, interrupted>>
             ELSE /\ Notice("load") /\ interrupted' = TRUE
                  /\ UNCHANGED <<listVars, saveVars>>
        /\ loadIndex' = NextIndex
  /\ UNCHANGED <<loadSize, missing, previous, gone, overlapped, cloned>>

\* addTorrent(), and acceptFileDrop, which saves at once.
UserAdds(t, from) ==
  /\ Free
  /\ IF Addable(t)
       THEN /\ AddJob(t)
            /\ IF from = "menu"
                 THEN Changed /\ UNCHANGED settings
                 ELSE /\ saveChanges' = FlagAfterSave /\ Save(jobs')
                      /\ IF saveChanges
                           THEN UNCHANGED saveTimers
                           ELSE saveTimers < MaxTimers /\ saveTimers' = saveTimers + 1
            /\ UNCHANGED boxes
       ELSE Notice(from) /\ UNCHANGED <<listVars, saveVars>>
  /\ UNCHANGED <<loadVars, missing, history>>

\* removeTorrent: stop() may answer at once, and the client is deleted. Its row in
\* fastView, if there is one, is not the row that is deleted: the last one is.
RemoveTorrent(row) ==
  /\ Free /\ row \in DOMAIN torrentView /\ row \in DOMAIN jobs
  /\ LET c == jobs[row].client
     IN /\ stopping' \in {stopping \cup {c}, stopping}
        /\ gone' = gone \cup ({jobs[row].torrent} \cap previous)
        /\ fastView' = IF c \in ToSet(fastView) THEN Front(fastView) ELSE fastView
  /\ torrentView' = RemoveAt(torrentView, row)
  /\ jobs' = RemoveAt(jobs, row)
  /\ saveChanges' = FlagAfterSave /\ Save(jobs') /\ UNCHANGED saveTimers
  /\ UNCHANGED <<boxes, loadVars, missing, previous, overlapped, cloned, interrupted>>

\* torrentStopped
TorrentStopped(c) ==
  /\ Idle /\ c \in stopping
  /\ stopping' = stopping \ {c}
  /\ UNCHANGED <<jobs, torrentView, fastView, boxes, saveVars, loadVars, missing, history>>

\* torrentError: the job goes, then the box opens.
TorrentError(c) ==
  /\ Idle /\ c \in ToSet(clients) /\ Len(boxes) < MaxBoxes
  /\ boxes' = Append(boxes, [kind |-> "error", row |-> Row(clients, c), client |-> c])
  /\ jobs' = RemoveAt(jobs, Row(clients, c))
  /\ gone' = gone \cup ({jobs[Row(clients, c)].torrent} \cap previous)
  /\ overlapped' = (overlapped \/ Failed # {})
  /\ interrupted' = (interrupted \/ Loading)
  /\ UNCHANGED <<torrentView, fastView, stopping, saveVars, loadVars, missing, previous, cloned>>

\* Mutant: the row that is taken is the one below.
TakenRowBelow(row) == row + 1

TakenRow(row) == row

\* The user closes the box on top, and the slot that showed it goes on.
CloseBox ==
  /\ boxes # <<>>
  /\ boxes' = Front(boxes)
  /\ LET box == Last(boxes)
         row == TakenRow(box.row)
     IN CASE box.kind = "error" ->
               /\ torrentView' = IF row \in DOMAIN torrentView THEN RemoveAt(torrentView, row) ELSE torrentView
               /\ UNCHANGED <<jobs, fastView, stopping, saveVars>>
          [] box.kind = "menu" ->
               Changed /\ UNCHANGED <<listVars, settings>>
          [] box.kind = "drop" ->
               /\ UNCHANGED <<listVars, saveTimers>>
               /\ IF saveChanges THEN Save(jobs) ELSE UNCHANGED settings
               /\ saveChanges' = FlagAfterSave
          [] box.kind = "load" -> UNCHANGED <<listVars, saveVars>>
  /\ UNCHANGED <<loadVars, missing, history>>

\* Mutant: only the last row is looked at.
ShownLast(c) == fastView # <<>> /\ Last(fastView) = c

Shown(c) == c \in ToSet(fastView)

\* updateState: a client that downloads gets a row in fastView, a clone of the row of
\* torrentView that has its number among the jobs - and while an error is shown there is
\* one job less than rows, so that it may be the row of another client.
Downloads(c) ==
  /\ Idle /\ c \in ToSet(clients) /\ ~Shown(c)
  /\ Len(fastView) < MaxFastRows
  /\ Row(clients, c) \in DOMAIN torrentView
  /\ fastView' = Append(fastView, torrentView[Row(clients, c)])
  /\ cloned' = (cloned \/ Failed # {})
  /\ UNCHANGED <<jobs, torrentView, stopping, boxes, saveVars, loadVars, missing,
                 previous, gone, overlapped, interrupted>>

\* updateDownloadRate, updateUploadRate, setUploadLimit, setDownloadLimit.
RateChanges ==
  /\ Idle /\ ~saveChanges
  /\ Changed
  /\ UNCHANGED <<listVars, boxes, settings, loadVars, missing, history>>

Swap(list, i, j) == [list EXCEPT ![i] = list[j], ![j] = list[i]]

SwapRows(list, i, j) == InsertAt(RemoveAt(list, j), i, list[j])

\* moveTorrentUp and, from the row above, moveTorrentDown.
MoveTorrent(row) ==
  /\ Free /\ row > 1 /\ row \in DOMAIN torrentView /\ row \in DOMAIN jobs
  /\ jobs' = Swap(jobs, row - 1, row)
  /\ torrentView' = SwapRows(torrentView, row - 1, row)
  /\ UNCHANGED <<fastView, stopping, boxes, saveVars, loadVars, missing, history>>

\* saveSettings, called by a timer.
SaveTimer ==
  /\ Idle /\ saveTimers > 0
  /\ saveTimers' = saveTimers - 1
  /\ saveChanges' = FlagAfterSave
  /\ IF saveChanges THEN Save(jobs) ELSE UNCHANGED settings
  /\ UNCHANGED <<jobs, torrentView, fastView, stopping, boxes, loadVars, missing, history>>

\* The user quits, or the program dies - as it does when a client whose box is open
\* reports a rate, for which there is no row - and is started again.
Restart ==
  /\ jobs' = <<>> /\ torrentView' = <<>> /\ fastView' = <<>> /\ stopping' = {}
  /\ boxes' = <<>>
  /\ saveChanges' = TRUE /\ saveTimers' = 1
  /\ missing' \in SUBSET Torrents
  /\ loadSize' = Len(settings) /\ loadIndex' = (IF settings = <<>> THEN 0 ELSE 1)
  /\ previous' = ToSet(settings) /\ gone' = {}
  /\ overlapped' = FALSE /\ cloned' = FALSE /\ interrupted' = FALSE
  /\ UNCHANGED settings

Next ==
  \/ LoadNext \/ CloseBox \/ RateChanges \/ SaveTimer \/ Restart
  \/ \E t \in Torrents, from \in {"menu", "drop"} : UserAdds(t, from)
  \/ \E row \in 1..Cardinality(Clients) : RemoveTorrent(row) \/ MoveTorrent(row)
  \/ \E c \in Clients : TorrentStopped(c) \/ TorrentError(c) \/ Downloads(c)

Spec == Init /\ [][Next]_vars

-----------------------------------------------------------------------------
\* The rows of torrentView are those of jobs, except that a torrent whose error is being
\* shown has a row and no job - as long as no error has been shown on top of another: the row
\* of the second is looked up among jobs that are already one less than the rows.
RowsAreJobs ==
  \/ overlapped
  \/ \E i \in DOMAIN boxes : /\ boxes[i].kind = "error"
                             /\ torrentView = InsertAt(clients, boxes[i].row, boxes[i].client)
  \/ Failed = {} /\ torrentView = clients

\* A client has one row in fastView at most, though the row that is deleted with a torrent
\* may be the one of another, which then gets a new one, and though the row that is cloned is
\* looked up by its number in a different list - as long as the two lists agree: the exceptions
\* are a client that starts to download while an error is shown, and two errors at a time.
OneFastRow ==
  overlapped \/ cloned \/ \A i, j \in DOMAIN fastView : fastView[i] = fastView[j] => i = j

\* What is changed is saved some time: a timer is pending whenever saveChanges is set, although
\* it is set and cleared in many places, and timers outlive the change they were started for.
ChangesGetSaved == saveChanges => saveTimers > 0

\* A torrent that is saved when the program starts stays so until the user removes it or it
\* fails: no save falls into the loop that loads them. The exception is a box in that loop.
SavedIsKept == interrupted \/ previous \subseteq ToSet(settings) \cup gone

\* "Resume all previous downloads" (torrentdialog.cpp:255): once settings are loaded, the
\* torrents of the last session that can be opened are jobs, unless they have failed or been
\* removed since - also if another one cannot be opened and the box that says so stays open
\* for a while.
AllResumed == ~Loading => previous \ missing \subseteq ToSet(torrents) \cup gone
=============================================================================
