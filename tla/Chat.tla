-------------------------------- MODULE Chat --------------------------------
(***************************************************************************)
(* The session of the user: the login form (src/src/loginform.cpp), the    *)
(* main window with its tabs and tray icon (uenclient.cpp), the chat room  *)
(* (chatdialog.cpp), private chats (privatechat.cpp) and the gloox thread  *)
(* (glooxsession.cpp), with the parts of gloox that call them.             *)
(*                                                                         *)
(* Each login starts a session: a ChatDialog and a thread for its gloox    *)
(* client, which calls the dialog's handlers; what these emit is queued to *)
(* the main thread.  participants belongs to both threads without a lock.  *)
(***************************************************************************)
EXTENDS Naturals, Sequences, FiniteSets, SequencesExt

CONSTANTS Nicks,         \* the others in the room, who also send private messages
          MaxSessions,   \* logins until the program ends
          MaxInbox,      \* stanzas on their way to the client
          MaxChats,      \* private chats opened in a session
          MaxQueue       \* calls queued to the main thread

ASSUME ChatAssumption ==
  /\ IsFiniteSet(Nicks)
  /\ MaxSessions \in Nat \ {0} /\ MaxInbox \in Nat /\ MaxChats \in Nat /\ MaxQueue \in Nat \ {0}

VARIABLES
  formShown, loginEnabled, requests,       \* LoginForm; HTTP requests under way
  leftEmpty,                               \* history: a login with an empty field
  dismissed,                               \* history: Escape has hidden the form since it was shown
  windowShown, canStartSession,            \* uenclient
  isNewMessages, blinkMessageNow, icon,    \* its tray icon
  session,        \* the number of the current session, 0 before the first
  tabs,           \* the tab widget
  thread,         \* the gloox thread of a session: "none", "connecting", "online" or "over"
  locks,          \* requestLoginForm signals queued to loginLock
  room,           \* the occupants of the room, as the server sees them
  inbox,          \* presences of the room on their way to the client
  participants,   \* of the current session, as are all that follow
  calls,          \* queued to the main thread
  handling,       \* the thread is handling a presence while the main thread reads participants
  shownUsers,     \* inChatList
  chats,          \* jids with a private chat
  messageSessions \* gloox: registered MessageSessions, of chats that are open or deleted

formVars == <<formShown, loginEnabled, requests, leftEmpty, dismissed>>
windowVars == <<windowShown, canStartSession>>
trayVars == <<isNewMessages, blinkMessageNow, icon>>
roomVars == <<room, inbox>>
chatVars == <<participants, calls, handling, shownUsers, chats, messageSessions>>
vars == <<formVars, windowVars, trayVars, session, tabs, thread, locks, roomVars, chatVars>>

Presence == [nick : Nicks, here : BOOLEAN]
Call == [call : {"updateUserList"}] \cup [call : {"beginPrivate"}, nick : Nicks]
Tab == [kind : {"chat"}, session : 1..MaxSessions] \cup [kind : {"torrents"}]
         \cup [kind : {"private"}, session : 1..MaxSessions, nick : Nicks]

TypeOK ==
  /\ formShown \in BOOLEAN /\ loginEnabled \in BOOLEAN /\ requests \in 0..1
  /\ leftEmpty \in BOOLEAN /\ dismissed \in BOOLEAN
  /\ windowShown \in BOOLEAN /\ canStartSession \in BOOLEAN
  /\ isNewMessages \in BOOLEAN /\ blinkMessageNow \in BOOLEAN /\ icon \in {"normal", "blink"}
  /\ session \in 0..MaxSessions
  /\ tabs \in Seq(Tab)
  /\ thread \in [1..MaxSessions -> {"none", "connecting", "online", "over"}]
  /\ locks \in 0..1
  /\ room \subseteq Nicks /\ inbox \in Seq(Presence)
  /\ participants \in Seq(Nicks) /\ IsInjective(participants)
  /\ calls \in Seq(Call) /\ Len(calls) <= MaxQueue
  /\ handling \in BOOLEAN /\ shownUsers \subseteq Nicks /\ chats \subseteq Nicks
  /\ messageSessions \in Seq([nick : Nicks, open : BOOLEAN]) /\ Len(messageSessions) <= MaxChats

Init ==
  /\ formShown = TRUE /\ loginEnabled = TRUE /\ requests = 0
  /\ leftEmpty = FALSE /\ dismissed = FALSE
  /\ windowShown = FALSE /\ canStartSession = FALSE
  /\ isNewMessages = FALSE /\ blinkMessageNow \in BOOLEAN /\ icon = "normal"
  /\ session = 0 /\ tabs = <<>> /\ locks = 0
  /\ thread = [d \in 1..MaxSessions |-> "none"]
  /\ room \in SUBSET Nicks /\ inbox = <<>>
  /\ participants = <<>> /\ calls = <<>> /\ handling = FALSE /\ shownUsers = {} /\ chats = {} /\ messageSessions = <<>>

-----------------------------------------------------------------------------
(* The tray icon *)

\* trayBlink when nothing is new: blinkMessageNow tells which icon is next.
IconRestored == IF ~blinkMessageNow THEN "normal" ELSE icon

\* setTrayBlink(false)
StopBlinking ==
  /\ isNewMessages' = FALSE /\ icon' = IconRestored
  /\ UNCHANGED blinkMessageNow

\* setTrayBlink(true), when a message of interest is shown.
Blink ==
  IF windowShown THEN StopBlinking ELSE isNewMessages' = TRUE /\ UNCHANGED <<blinkMessageNow, icon>>

\* trayBlink, called by trayBlinkTimer.
TrayBlink ==
  /\ isNewMessages
  /\ icon' = IF blinkMessageNow THEN "blink" ELSE "normal"
  /\ blinkMessageNow' = ~blinkMessageNow
  /\ UNCHANGED <<formVars, windowVars, isNewMessages, session, tabs, thread, locks, roomVars, chatVars>>

\* trayAction and closeEvent: the window goes, and comes when there is a session.
ToggleWindow ==
  /\ windowShown \/ canStartSession
  /\ windowShown' = ~windowShown
  /\ IF windowShown THEN UNCHANGED trayVars ELSE StopBlinking
  /\ UNCHANGED <<formVars, canStartSession, session, tabs, thread, locks, roomVars, chatVars>>

-----------------------------------------------------------------------------
(* Login *)

\* Mutant: the button stays enabled.
EnabledWhileAsking == loginEnabled

\* startLogin->setEnabled(false)
EnabledInLogin == FALSE

\* startSession: the first tab is deleted and a new chat takes its place.
TabsWithChat(chat) == IF tabs = <<>> THEN <<chat, [kind |-> "torrents"]>> ELSE <<chat>> \o Tail(tabs)

\* hide() and confirmedLogin: show(), startSession(). The calls queued to the old
\* dialog are lost with it.
ConfirmedLogin ==
  /\ session < MaxSessions
  /\ formShown' = FALSE /\ dismissed' = FALSE
  /\ canStartSession' = TRUE /\ windowShown' = TRUE /\ StopBlinking
  /\ session' = session + 1
  /\ tabs' = TabsWithChat([kind |-> "chat", session |-> session + 1])
  /\ thread' = [thread EXCEPT ![session + 1] = "connecting"]
  /\ participants' = <<>> /\ calls' = <<>> /\ handling' = FALSE
  /\ shownUsers' = {} /\ chats' = {} /\ messageSessions' = <<>>
  /\ inbox' = <<>> /\ UNCHANGED <<room, locks>>

\* doLogin with an empty field: the button stays disabled.
LoginEmpty ==
  /\ formShown /\ loginEnabled
  /\ loginEnabled' = EnabledInLogin /\ leftEmpty' = TRUE
  /\ UNCHANGED <<formShown, requests, dismissed, windowVars, trayVars, session, tabs, thread, locks, roomVars, chatVars>>

\* doLogin without the site.
LoginDirectly ==
  /\ formShown /\ loginEnabled
  /\ loginEnabled' = EnabledInLogin /\ UNCHANGED <<requests, leftEmpty>>
  /\ ConfirmedLogin

\* doLogin through the site.
LoginBySite ==
  /\ formShown /\ loginEnabled
  /\ loginEnabled' = EnabledInLogin
  /\ requests' = requests + 1
  /\ UNCHANGED <<formShown, leftEmpty, dismissed, windowVars, trayVars, session, tabs, thread, locks,
                 roomVars, chatVars>>

\* Escape: QDialog::reject hides the form and does not call closeEvent, so that the
\* program does not end; an answer of the site still finds its way.
EscapeForm ==
  /\ formShown
  /\ formShown' = FALSE /\ dismissed' = TRUE
  /\ UNCHANGED <<loginEnabled, requests, leftEmpty, windowVars, trayVars, session, tabs, thread, locks,
                 roomVars, chatVars>>

\* requestFinish
RequestFinish ==
  /\ requests > 0 /\ requests' = requests - 1 /\ UNCHANGED leftEmpty
  /\ \/ UNCHANGED loginEnabled /\ ConfirmedLogin
     \/ /\ loginEnabled' = TRUE
        /\ UNCHANGED <<formShown, dismissed, windowVars, trayVars, session, tabs, thread, locks, roomVars, chatVars>>

EnabledAfterLock == TRUE

\* loginLock
LoginLock ==
  /\ locks > 0 /\ locks' = locks - 1
  /\ formShown' = TRUE /\ dismissed' = FALSE /\ loginEnabled' = EnabledAfterLock
  /\ windowShown' = FALSE
  /\ UNCHANGED <<requests, leftEmpty, canStartSession, trayVars, session, tabs, thread, roomVars, chatVars>>

-----------------------------------------------------------------------------
(* The gloox thread *)

\* The client is authenticated: onConnect joins the room, and the server sends the
\* presences of the occupants in any order.
Joined(d) ==
  /\ thread[d] = "connecting" /\ d = session
  /\ thread' = [thread EXCEPT ![d] = "online"]
  /\ inbox' \in SetToSeqs([nick : room, here : {TRUE}])
  /\ UNCHANGED <<formVars, windowVars, trayVars, session, tabs, locks, room, chatVars>>

\* Mutant: only a login that has failed asks for the form.
LocksWhenRefused(d) == IF thread[d] = "connecting" THEN locks + 1 ELSE locks

\* run() goes on after connect(): the client is not authenticated, for it has not been
\* or the disconnect has reset it, and the form is requested.
LocksAtEnd(d) == locks + 1

\* The login is refused, or the connection ends.
ThreadEnds(d) ==
  /\ thread[d] \in {"connecting", "online"} /\ ~(handling /\ d = session)
  /\ thread' = [thread EXCEPT ![d] = "over"]
  /\ locks' = LocksAtEnd(d)
  /\ inbox' = <<>>
  /\ UNCHANGED <<formVars, windowVars, trayVars, session, tabs, room, chatVars>>

\* Somebody enters or leaves the room, or changes the status there. A change of nick is
\* one leaving and one entering.
RoomPresence(n, here) ==
  /\ session > 0 /\ thread[session] = "online" /\ Len(inbox) < MaxInbox
  /\ here \/ n \in room
  /\ room' = IF here THEN room \cup {n} ELSE room \ {n}
  /\ inbox' = Append(inbox, [nick |-> n, here |-> here])
  /\ UNCHANGED <<formVars, windowVars, trayVars, session, tabs, thread, locks, chatVars>>

Queue(call) == calls' = Append(calls, call)

\* Mutant: a participant is added whether known or not.
WithAppended(n) == Append(participants, n)

\* participants after the presence of one who is in the room, or who leaves.
WithParticipant(n) == IF n \in ToSet(participants) THEN participants ELSE Append(participants, n)

WithoutParticipant(n) == RemoveFirst(participants, n)

\* Mutant: one who leaves is not announced.
AnnouncedEntering(list) == Len(list) > Len(participants)

\* isChange
Announced(list) == list # participants

\* MUCRoom::handlePresence, which calls handleMUCParticipantPresence.
HandlePresence ==
  /\ inbox # <<>> /\ inbox' = Tail(inbox) /\ handling' = FALSE
  /\ participants' = IF Head(inbox).here THEN WithParticipant(Head(inbox).nick)
                                         ELSE WithoutParticipant(Head(inbox).nick)
  /\ IF Announced(participants')
       THEN Len(calls) < MaxQueue /\ Queue([call |-> "updateUserList"])
       ELSE UNCHANGED calls
  /\ UNCHANGED <<formVars, windowVars, trayVars, session, tabs, thread, locks, room,
                 shownUsers, chats, messageSessions>>

\* handleVCard has a new avatar.
HandleVCard ==
  /\ session > 0 /\ thread[session] = "online" /\ participants # <<>>
  /\ Len(calls) < MaxQueue /\ Queue([call |-> "updateUserList"])
  /\ UNCHANGED <<formVars, windowVars, trayVars, session, tabs, thread, locks, roomVars, participants, handling,
                 shownUsers, chats, messageSessions>>

\* The session a message goes to is the first one for its sender. A session that is
\* deleted is still in the list: what is left of it may or may not match.
Receivers(n) ==
  LET of == {i \in DOMAIN messageSessions : messageSessions[i].nick = n}
  IN {i \in of : \A j \in of : j < i => ~messageSessions[j].open}

\* notifyMessageHandlers, for a private message: a chat takes it, or the dialog is asked
\* to open one, or it is lost in a session that is deleted.
PrivateMessage(n) ==
  /\ session > 0 /\ thread[session] = "online"
  /\ \/ \E i \in Receivers(n) : UNCHANGED calls /\ (IF messageSessions[i].open THEN Blink ELSE UNCHANGED trayVars)
     \/ /\ \A i \in Receivers(n) : ~messageSessions[i].open
        /\ Len(calls) < MaxQueue /\ Queue([call |-> "beginPrivate", nick |-> n])
        /\ UNCHANGED trayVars
  /\ UNCHANGED <<formVars, windowVars, session, tabs, thread, locks, roomVars, participants, handling,
                 shownUsers, chats, messageSessions>>

-----------------------------------------------------------------------------
(* The chat in the main thread *)

\* The presence that is handled at the same time changes participants.
Racing ==
  inbox # <<>> /\ (Head(inbox).here <=> Head(inbox).nick \notin ToSet(participants))

\* updateUserList: it reads participants, and if the thread changes them meanwhile
\* there is no saying what it shows.
UpdateUserList ==
  /\ calls # <<>> /\ Head(calls).call = "updateUserList"
  /\ calls' = Tail(calls)
  /\ \/ shownUsers' = ToSet(participants) /\ UNCHANGED handling
     \/ Racing /\ shownUsers' \in SUBSET Nicks /\ handling' = TRUE
  /\ UNCHANGED <<formVars, windowVars, trayVars, session, tabs, thread, locks, roomVars,
                 participants, chats, messageSessions>>

\* addToMessageBox: the nick of the user is mentioned in the room.
Mentioned ==
  /\ session > 0 /\ Blink
  /\ UNCHANGED <<formVars, windowVars, session, tabs, thread, locks, roomVars, chatVars>>

KnownChat(n) == n \in chats

\* beginPrivate
BeginPrivate(n) ==
  IF KnownChat(n)
    THEN UNCHANGED <<tabs, chats, messageSessions>>
    ELSE /\ Len(messageSessions) < MaxChats
         /\ tabs' = Append(tabs, [kind |-> "private", session |-> session, nick |-> n])
         /\ chats' = chats \cup {n}
         /\ messageSessions' = Append(messageSessions, [nick |-> n, open |-> TRUE])

\* A private message opens a chat, which shows it.
MessageBeginsPrivate ==
  /\ calls # <<>> /\ Head(calls).call = "beginPrivate"
  /\ calls' = Tail(calls)
  /\ BeginPrivate(Head(calls).nick)
  /\ IF KnownChat(Head(calls).nick) THEN UNCHANGED trayVars ELSE Blink
  /\ UNCHANGED <<formVars, windowVars, session, thread, locks, roomVars, participants, handling, shownUsers>>

\* The user double-clicks a name in the list.
UserBeginsPrivate(n) ==
  /\ windowShown /\ session > 0 /\ n \in shownUsers
  /\ BeginPrivate(n)
  /\ UNCHANGED <<formVars, windowVars, trayVars, session, thread, locks, roomVars, participants, calls, handling, shownUsers>>

\* onTabClose, which is connected to the dialog of the first session. Only a private chat of the
\* session is closed; its MessageSession stays registered.
OnTabClose(i) ==
  /\ windowShown /\ session = 1 /\ i \in DOMAIN tabs
  /\ tabs[i].kind = "private" /\ tabs[i].nick \in chats
  /\ tabs' = RemoveAt(tabs, i)
  /\ chats' = chats \ {tabs[i].nick}
  /\ messageSessions' = [k \in DOMAIN messageSessions |->
       IF messageSessions[k].nick = tabs[i].nick THEN [messageSessions[k] EXCEPT !.open = FALSE]
                                                 ELSE messageSessions[k]]
  /\ UNCHANGED <<formVars, windowVars, trayVars, session, thread, locks, roomVars, participants, calls, handling, shownUsers>>

GlooxThread ==
  \/ \E d \in 1..MaxSessions : Joined(d) \/ ThreadEnds(d)
  \/ HandlePresence \/ HandleVCard
  \/ \E n \in Nicks : PrivateMessage(n)

MainThread ==
  \/ TrayBlink \/ ToggleWindow
  \/ LoginEmpty \/ LoginDirectly \/ LoginBySite \/ RequestFinish \/ LoginLock \/ EscapeForm
  \/ UpdateUserList \/ MessageBeginsPrivate \/ Mentioned
  \/ \E n \in Nicks : UserBeginsPrivate(n)
  \/ \E i \in DOMAIN tabs : OnTabClose(i)

Next ==
  \/ GlooxThread \/ MainThread
  \/ \E n \in Nicks, here \in BOOLEAN : RoomPresence(n, here)

Spec == Init /\ [][Next]_vars

-----------------------------------------------------------------------------
Running(d) == thread[d] \in {"connecting", "online"}

\* The cast in startSession: the widget it deletes as a ChatDialog is one, the dialog of
\* the session before, though private chats come and go in the tabs.
FirstTabIsChat ==
  session > 0 =>
    /\ Len(tabs) >= 2 /\ tabs[1] = [kind |-> "chat", session |-> session]
    /\ \A i \in 2..Len(tabs) : tabs[i].kind # "chat"

\* A dialog is not deleted while its thread calls its handlers: there is no login while
\* a session runs, from the form, from an answer of the site or from the tray.
OneThread == \A d \in 1..MaxSessions : Running(d) => d = session

\* Without a session the form is there, or about to come. The exception is a form that the user
\* has put away with Escape: nothing shows it again, for nothing calls showLoginForm().
NeverStranded == formShown \/ locks > 0 \/ (session > 0 /\ Running(session)) \/ dismissed

\* The form can be used: its button is enabled again after every failure. The exception is
\* a login with an empty field, which disables it for good.
FormUsable == formShown => loginEnabled \/ requests > 0 \/ leftEmpty

\* The icon of the tray is not left blinking when nothing is new or the window is shown.
IconIsBack == windowShown \/ ~isNewMessages => icon = "normal"

\* What the room has last said of n is on its way to the client, at the place i.
LastWord(n, i) == inbox[i].nick = n /\ \A j \in DOMAIN inbox : j > i => inbox[j].nick # n

\* The list that is shown is participants, or will be: an update is queued, or the one that has
\* just been done has raced with a change that will queue another.  And participants is the room,
\* or will be, when the presences on their way have been handled: so that the list is the room
\* once all is quiet.
ListFollows ==
  /\ \/ shownUsers = ToSet(participants)
     \/ \E i \in DOMAIN calls : calls[i].call = "updateUserList"
     \/ handling
  /\ session > 0 /\ thread[session] = "online" =>
       \A n \in Nicks :
         /\ \A i \in DOMAIN inbox : LastWord(n, i) => (inbox[i].here <=> n \in room)
         /\ (\A i \in DOMAIN inbox : inbox[i].nick # n) => (n \in ToSet(participants) <=> n \in room)
=============================================================================
