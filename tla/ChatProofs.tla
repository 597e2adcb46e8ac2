------------------------------ MODULE ChatProofs ------------------------------
(***************************************************************************)
(* Theorems about Chat, for any occupants of the room and any number of    *)
(* sessions, stanzas, private chats and queued calls.                      *)
(***************************************************************************)
EXTENDS Chat, SequenceTheorems, FiniteSetTheorems, TLAPS

-----------------------------------------------------------------------------
(* One of three has the user: the form, a session, or a lock on its way;   *)
(* but for a form that was put away with Escape.                           *)

States == {"none", "connecting", "online", "over"}

\* The form waits for the user, or was put away.
Idle == formShown \/ dismissed

LoginInv ==
  /\ session \in 0..MaxSessions /\ requests \in 0..1 /\ locks \in 0..1
  /\ thread \in [1..MaxSessions -> States]
  /\ requests = 1 => Idle /\ ~loginEnabled
  /\ Idle => locks = 0 /\ \A d \in 1..MaxSessions : ~Running(d)
  /\ ~Idle => session > 0 /\ (locks = 0 <=> Running(session))
  /\ FormUsable
  /\ OneThread

LEMMA LoginInit == Init => LoginInv
BY ChatAssumption DEF Init, LoginInv, Idle, States, Running, FormUsable, OneThread

\* Nothing that LoginInv speaks of has changed.
SameLogin == UNCHANGED <<formShown, loginEnabled, requests, leftEmpty, dismissed, locks, session, thread>>

LEMMA LoginSame ==
  ASSUME LoginInv, SameLogin
  PROVE  LoginInv'
BY DEF LoginInv, Idle, SameLogin, Running, FormUsable, OneThread

\* The form is left for a new session, which is the only one.
LEMMA LoginConfirmed ==
  ASSUME LoginInv, Idle, requests' = 0, ConfirmedLogin
  PROVE  LoginInv'
<1>1. /\ session + 1 \in 1..MaxSessions /\ session' = session + 1 /\ locks' = 0 /\ ~Idle' /\ ~formShown'
      /\ thread' = [thread EXCEPT ![session + 1] = "connecting"]
  BY ChatAssumption DEF LoginInv, Idle, ConfirmedLogin
<1>2. thread' \in [1..MaxSessions -> States]
  BY <1>1 DEF LoginInv, States
<1>3. \A d \in 1..MaxSessions : d # session' => thread'[d] = thread[d]
  BY <1>1 DEF LoginInv
<1>4. thread'[session'] = "connecting"
  BY <1>1 DEF LoginInv
<1>5. \A d \in 1..MaxSessions : ~Running(d)
  BY DEF LoginInv
<1>6. OneThread'
  BY <1>3, <1>5 DEF OneThread, Running
<1>7. Running(session)'
  BY <1>4 DEF Running
<1>8. session' \in 0..MaxSessions /\ session' > 0
  BY <1>1, ChatAssumption
<1> QED
  BY <1>1, <1>2, <1>6, <1>7, <1>8 DEF LoginInv, FormUsable

LEMMA LoginOfEnd ==
  ASSUME LoginInv, NEW d \in 1..MaxSessions, ThreadEnds(d)
  PROVE  LoginInv'
<1>1. Running(d) /\ d = session
  BY DEF LoginInv, OneThread, ThreadEnds, Running
<1>2. ~Idle /\ locks = 0 /\ requests = 0
  BY <1>1 DEF LoginInv
<1>3. locks' = 1 /\ UNCHANGED <<formShown, loginEnabled, requests, leftEmpty, dismissed, session>>
  BY <1>2 DEF ThreadEnds, LocksAtEnd, formVars
<1>4. thread' = [thread EXCEPT ![d] = "over"]
  BY DEF ThreadEnds
<1>5. thread' \in [1..MaxSessions -> States] /\ ~Running(d)'
  BY <1>4 DEF LoginInv, States, Running
<1>6. \A e \in 1..MaxSessions : ~Running(e)'
  BY <1>1, <1>4, <1>5 DEF LoginInv, OneThread, Running
<1> QED
  BY <1>1, <1>2, <1>3, <1>5, <1>6 DEF LoginInv, Idle, FormUsable, OneThread

LEMMA LoginOfJoin ==
  ASSUME LoginInv, NEW d \in 1..MaxSessions, Joined(d)
  PROVE  LoginInv'
<1>1. Running(d) /\ d = session
  BY DEF Joined, Running
<1>2. thread' = [thread EXCEPT ![d] = "online"]
  BY DEF Joined
<1>3. UNCHANGED <<formShown, loginEnabled, requests, leftEmpty, dismissed, session, locks>>
  BY DEF Joined, formVars
<1>4. thread' \in [1..MaxSessions -> States] /\ Running(d)'
  BY <1>2 DEF LoginInv, States, Running
<1>5. \A e \in 1..MaxSessions : e # d => Running(e)' = Running(e)
  BY <1>2 DEF LoginInv, Running
<1> QED
  BY <1>1, <1>3, <1>4, <1>5 DEF LoginInv, Idle, FormUsable, OneThread

LEMMA LoginOfThread ==
  ASSUME LoginInv, GlooxThread
  PROVE  LoginInv'
<1>1. CASE \E d \in 1..MaxSessions : Joined(d) \/ ThreadEnds(d)
  BY <1>1, LoginOfJoin, LoginOfEnd
<1>2. CASE HandlePresence
  BY <1>2, LoginSame DEF HandlePresence, SameLogin, formVars
<1>3. CASE HandleVCard
  BY <1>3, LoginSame DEF HandleVCard, SameLogin, formVars
<1>4. CASE \E n \in Nicks : PrivateMessage(n)
  BY <1>4, LoginSame DEF PrivateMessage, SameLogin, formVars
<1> QED
  BY <1>1, <1>2, <1>3, <1>4 DEF GlooxThread

LEMMA LoginOfForm ==
  ASSUME LoginInv,
         LoginEmpty \/ LoginDirectly \/ LoginBySite \/ RequestFinish \/ LoginLock \/ EscapeForm
  PROVE  LoginInv'
<1>1. CASE LoginEmpty
  BY <1>1 DEF LoginEmpty, EnabledInLogin, LoginInv, Idle, Running, FormUsable, OneThread
<1>2. CASE LoginDirectly
  <2>1. Idle /\ requests' = 0
    BY <1>2 DEF LoginDirectly, LoginInv, Idle
  <2> QED
    BY <1>2, <2>1, LoginConfirmed DEF LoginDirectly
<1>3. CASE LoginBySite
  <2>1. formShown /\ requests = 0 /\ requests' = 1 /\ ~loginEnabled'
    BY <1>3 DEF LoginBySite, EnabledInLogin, LoginInv, Idle
  <2>2. UNCHANGED <<formShown, leftEmpty, dismissed, locks, session, thread>>
    BY <1>3 DEF LoginBySite
  <2> QED
    BY <2>1, <2>2 DEF LoginInv, Idle, Running, FormUsable, OneThread
<1>4. CASE RequestFinish
  <2>1. Idle /\ requests' = 0
    BY <1>4 DEF RequestFinish, LoginInv
  <2>2. CASE ConfirmedLogin
    BY <2>1, <2>2, LoginConfirmed
  <2>3. CASE loginEnabled' = TRUE /\ UNCHANGED <<formShown, leftEmpty, dismissed, session, thread, locks>>
    BY <2>1, <2>3 DEF LoginInv, Idle, Running, FormUsable, OneThread
  <2> QED
    BY <1>4, <2>2, <2>3 DEF RequestFinish
<1>5. CASE LoginLock
  <2>1. ~Idle /\ locks = 1 /\ locks' = 0 /\ formShown' /\ loginEnabled'
    BY <1>5 DEF LoginLock, EnabledAfterLock, LoginInv
  <2>2. UNCHANGED <<requests, leftEmpty, session, thread>>
    BY <1>5 DEF LoginLock
  <2>3. requests = 0 /\ \A d \in 1..MaxSessions : ~Running(d)
    BY <2>1 DEF LoginInv, OneThread
  <2> QED
    BY <2>1, <2>2, <2>3 DEF LoginInv, Idle, Running, FormUsable, OneThread
<1>6. CASE EscapeForm
  <2>1. formShown /\ ~formShown' /\ dismissed'
    BY <1>6 DEF EscapeForm
  <2>2. UNCHANGED <<loginEnabled, requests, leftEmpty, locks, session, thread>>
    BY <1>6 DEF EscapeForm
  <2> QED
    BY <2>1, <2>2 DEF LoginInv, Idle, Running, FormUsable, OneThread
<1> QED
  BY <1>1, <1>2, <1>3, <1>4, <1>5, <1>6

LEMMA LoginOfMain ==
  ASSUME LoginInv, MainThread
  PROVE  LoginInv'
<1>1. CASE LoginEmpty \/ LoginDirectly \/ LoginBySite \/ RequestFinish \/ LoginLock \/ EscapeForm
  BY <1>1, LoginOfForm
<1>2. CASE TrayBlink \/ ToggleWindow \/ Mentioned
  BY <1>2, LoginSame DEF TrayBlink, ToggleWindow, Mentioned, SameLogin, formVars
<1>3. CASE UpdateUserList \/ MessageBeginsPrivate
  BY <1>3, LoginSame DEF UpdateUserList, MessageBeginsPrivate, SameLogin, formVars
<1>4. CASE \E n \in Nicks : UserBeginsPrivate(n)
  BY <1>4, LoginSame DEF UserBeginsPrivate, SameLogin, formVars
<1>5. CASE \E i \in DOMAIN tabs : OnTabClose(i)
  BY <1>5, LoginSame DEF OnTabClose, SameLogin, formVars
<1> QED
  BY <1>1, <1>2, <1>3, <1>4, <1>5 DEF MainThread

LEMMA LoginStep == LoginInv /\ [Next]_vars => LoginInv'
<1> SUFFICES ASSUME LoginInv, [Next]_vars PROVE LoginInv'
  OBVIOUS
<1>1. CASE UNCHANGED vars
  BY <1>1, LoginSame DEF vars, formVars, SameLogin
<1>2. CASE \E n \in Nicks, here \in BOOLEAN : RoomPresence(n, here)
  BY <1>2, LoginSame DEF RoomPresence, SameLogin, formVars
<1> QED
  BY <1>1, <1>2, LoginOfThread, LoginOfMain DEF Next

LEMMA LoginHolds == Spec => []LoginInv
BY LoginInit, LoginStep, PTL DEF Spec

\* A login never comes while the thread of a session runs, so no dialog is deleted under
\* the thread that calls its handlers (uenclient.cpp, startSession).
THEOREM OneThreadRuns == Spec => []OneThread
<1>1. LoginInv => OneThread
  BY DEF LoginInv
<1> QED
  BY <1>1, LoginHolds, PTL

\* Whatever ends a session or refuses a login, the form is shown again or a lock that shows
\* it is queued, and so it stays unless the user puts the form away with Escape (loginform.cpp,
\* loginLock; glooxsession.cpp, run).
THEOREM FormComesBack == Spec => []NeverStranded
<1>1. LoginInv => NeverStranded
  BY DEF LoginInv, Idle, NeverStranded
<1> QED
  BY <1>1, LoginHolds, PTL

\* The form that is shown can be used, waits for an answer, or was left with an empty
\* field (loginform.cpp, doLogin).
THEOREM FormCanBeUsed == Spec => []FormUsable
<1>1. LoginInv => FormUsable
  BY DEF LoginInv
<1> QED
  BY <1>1, LoginHolds, PTL

-----------------------------------------------------------------------------
(* The tray icon *)

\* The icon that blinks is followed by the normal one, and nothing is new when the window is shown.
IconInv ==
  /\ icon \in {"normal", "blink"}
  /\ icon = "blink" => isNewMessages /\ ~blinkMessageNow
  /\ isNewMessages => ~windowShown

LEMMA IconInit == Init => IconInv
BY DEF Init, IconInv

LEMMA IconSame ==
  ASSUME IconInv, UNCHANGED <<trayVars, windowShown>>
  PROVE  IconInv'
BY DEF IconInv, trayVars

LEMMA IconStopped ==
  ASSUME IconInv, StopBlinking
  PROVE  IconInv' /\ ~isNewMessages'
BY DEF IconInv, StopBlinking, IconRestored

LEMMA IconOfBlink ==
  ASSUME IconInv, Blink, windowShown' = windowShown
  PROVE  IconInv'
<1>1. CASE windowShown
  BY <1>1, IconStopped DEF Blink
<1>2. CASE ~windowShown
  BY <1>2 DEF Blink, IconInv
<1> QED
  BY <1>1, <1>2

LEMMA IconOfConfirmed ==
  ASSUME IconInv, ConfirmedLogin
  PROVE  IconInv'
BY IconStopped DEF ConfirmedLogin, IconInv

LEMMA IconOfThread ==
  ASSUME IconInv, GlooxThread
  PROVE  IconInv'
<1>1. CASE \E d \in 1..MaxSessions : Joined(d) \/ ThreadEnds(d)
  BY <1>1, IconSame DEF Joined, ThreadEnds, windowVars
<1>2. CASE HandlePresence \/ HandleVCard
  BY <1>2, IconSame DEF HandlePresence, HandleVCard, windowVars
<1>3. CASE \E n \in Nicks : PrivateMessage(n)
  BY <1>3, IconSame, IconOfBlink DEF PrivateMessage, windowVars
<1> QED
  BY <1>1, <1>2, <1>3 DEF GlooxThread

LEMMA IconOfToggle ==
  ASSUME IconInv, ToggleWindow
  PROVE  IconInv'
<1>1. CASE windowShown
  BY <1>1 DEF ToggleWindow, trayVars, IconInv
<1>2. CASE ~windowShown
  BY <1>2, IconStopped DEF ToggleWindow, IconInv
<1> QED
  BY <1>1, <1>2

LEMMA IconOfMain ==
  ASSUME IconInv, MainThread
  PROVE  IconInv'
<1>1. CASE TrayBlink
  <2>1. isNewMessages /\ isNewMessages' /\ ~windowShown /\ ~windowShown'
    BY <1>1 DEF TrayBlink, windowVars, IconInv
  <2>2. CASE blinkMessageNow
    BY <1>1, <2>1, <2>2 DEF TrayBlink, IconInv
  <2>3. CASE ~blinkMessageNow
    BY <1>1, <2>1, <2>3 DEF TrayBlink, IconInv
  <2> QED
    BY <2>2, <2>3
<1>2. CASE ToggleWindow
  BY <1>2, IconOfToggle
<1>3. CASE LoginEmpty \/ LoginBySite
  BY <1>3, IconSame DEF LoginEmpty, LoginBySite, windowVars
<1>4. CASE LoginDirectly
  BY <1>4, IconOfConfirmed DEF LoginDirectly
<1>5. CASE RequestFinish
  BY <1>5, IconOfConfirmed, IconSame DEF RequestFinish, windowVars
<1>6. CASE LoginLock \/ EscapeForm
  BY <1>6 DEF LoginLock, EscapeForm, trayVars, windowVars, IconInv
<1>7. CASE UpdateUserList
  BY <1>7, IconSame DEF UpdateUserList, windowVars
<1>8. CASE MessageBeginsPrivate
  BY <1>8, IconSame, IconOfBlink DEF MessageBeginsPrivate, windowVars
<1>9. CASE Mentioned
  BY <1>9, IconOfBlink DEF Mentioned, windowVars
<1>10. CASE \E n \in Nicks : UserBeginsPrivate(n)
  BY <1>10, IconSame DEF UserBeginsPrivate, windowVars
<1>11. CASE \E i \in DOMAIN tabs : OnTabClose(i)
  BY <1>11, IconSame DEF OnTabClose, windowVars
<1> QED
  BY <1>1, <1>2, <1>3, <1>4, <1>5, <1>6, <1>7, <1>8, <1>9, <1>10, <1>11 DEF MainThread

LEMMA IconStep == IconInv /\ [Next]_vars => IconInv'
<1> SUFFICES ASSUME IconInv, [Next]_vars PROVE IconInv'
  OBVIOUS
<1>1. CASE UNCHANGED vars
  BY <1>1, IconSame DEF vars, windowVars
<1>2. CASE \E n \in Nicks, here \in BOOLEAN : RoomPresence(n, here)
  BY <1>2, IconSame DEF RoomPresence, windowVars
<1> QED
  BY <1>1, <1>2, IconOfThread, IconOfMain DEF Next

\* The normal icon is back whenever nothing is new or the window is shown, at whichever
\* half of the blinking it was stopped (uenclient.cpp, setTrayBlink and trayBlink).
THEOREM IconComesBack == Spec => []IconIsBack
<1>1. IconInv => IconIsBack
  BY DEF IconInv, IconIsBack
<1> QED
  BY <1>1, IconInit, IconStep, PTL DEF Spec

-----------------------------------------------------------------------------
(* The tabs *)

LEMMA RemoveAtPoints ==
  ASSUME NEW S, NEW s \in Seq(S), NEW i \in 1..Len(s)
  PROVE  /\ RemoveAt(s, i) \in Seq(S)
         /\ Len(RemoveAt(s, i)) = Len(s) - 1
         /\ \A k \in 1..(Len(s) - 1) : RemoveAt(s, i)[k] = IF k < i THEN s[k] ELSE s[k + 1]
<1> DEFINE a == SubSeq(s, 1, i - 1)
           b == SubSeq(s, i + 1, Len(s))
<1>0. Len(s) \in Nat /\ \A k \in 1..Len(s) : s[k] \in S
  BY ElementOfSeq, LenProperties
<1>1. a \in Seq(S) /\ Len(a) = i - 1 /\ \A k \in 1..(i - 1) : a[k] = s[k]
  BY <1>0, SubSeqProperties
<1>2. b \in Seq(S) /\ Len(b) = Len(s) - i /\ \A k \in 1..(Len(s) - i) : b[k] = s[k + i]
  <2>1. i + 1 \in Int /\ Len(s) \in Int /\ \A k \in (i + 1)..Len(s) : s[k] \in S
    BY <1>0
  <2>2. /\ b \in Seq(S) /\ Len(b) = IF i + 1 <= Len(s) THEN Len(s) - (i + 1) + 1 ELSE 0
        /\ \A k \in 1 .. Len(s) - (i + 1) + 1 : b[k] = s[(i + 1) + k - 1]
    BY <2>1, SubSeqProperties
  <2> HIDE DEF b
  <2>3. Len(b) = Len(s) - i
    BY <1>0, <2>2
  <2>4. ASSUME NEW k \in 1..(Len(s) - i) PROVE b[k] = s[k + i]
    <3>1. k \in 1 .. Len(s) - (i + 1) + 1 /\ (i + 1) + k - 1 = k + i
      BY <1>0
    <3> QED
      BY <2>2, <3>1
  <2> QED
    BY <2>2, <2>3, <2>4
<1> HIDE DEF a, b
<1>3. /\ a \o b \in Seq(S) /\ Len(a \o b) = Len(a) + Len(b)
      /\ \A k \in 1 .. Len(a) + Len(b) : (a \o b)[k] = IF k <= Len(a) THEN a[k] ELSE b[k - Len(a)]
  BY <1>1, <1>2, ConcatProperties
<1>4. Len(a \o b) = Len(s) - 1
  BY <1>0, <1>1, <1>2, <1>3
<1>5. ASSUME NEW k \in 1..(Len(s) - 1)
      PROVE  (a \o b)[k] = IF k < i THEN s[k] ELSE s[k + 1]
  <2>1. (a \o b)[k] = IF k <= i - 1 THEN a[k] ELSE b[k - (i - 1)]
    BY <1>0, <1>1, <1>2, <1>3
  <2>2. CASE k < i
    BY <1>0, <1>1, <2>1, <2>2
  <2>3. CASE k >= i
    <3>1. k - (i - 1) \in 1..(Len(s) - i) /\ (k - (i - 1)) + i = k + 1 /\ ~(k <= i - 1) /\ ~(k < i)
      BY <1>0, <2>3
    <3> QED
      BY <1>2, <2>1, <3>1
  <2>4. k < i \/ k >= i
    BY <1>0
  <2> QED
    BY <2>2, <2>3, <2>4
<1> QED
  BY <1>3, <1>4, <1>5 DEF RemoveAt, a, b

Inserted(s, i, e, S) ==
  /\ InsertAt(s, i, e) \in Seq(S)
  /\ Len(InsertAt(s, i, e)) = Len(s) + 1
  /\ \A k \in 1..(Len(s) + 1) :
       InsertAt(s, i, e)[k] = IF k < i THEN s[k] ELSE IF k = i THEN e ELSE s[k - 1]

\* The dialog of the session, the torrents, and private chats.
Arranged(list, n) ==
  IF n = 0 THEN list = <<>>
  ELSE /\ Len(list) >= 2
       /\ list[1] = [kind |-> "chat", session |-> n]
       /\ list[2].kind = "torrents"
       /\ \A i \in 3..Len(list) : list[i].kind = "private"

TabsInv ==
  /\ session \in 0..MaxSessions /\ calls \in Seq(Call)
  /\ tabs \in Seq(Tab) /\ Arranged(tabs, session)

LEMMA TabsInit == Init => TabsInv
BY ChatAssumption, EmptySeq DEF Init, TabsInv, Arranged

\* The tabs stay, calls may come and go.
LEMMA TabsSame ==
  ASSUME TabsInv, UNCHANGED <<tabs, session>>, calls' \in Seq(Call)
  PROVE  TabsInv'
BY DEF TabsInv

LEMMA QueueTypes ==
  ASSUME TabsInv, NEW call \in Call, Queue(call)
  PROVE  calls' \in Seq(Call)
BY AppendProperties DEF TabsInv, Queue

LEMMA TailTypes ==
  ASSUME TabsInv, calls # <<>>
  PROVE  Tail(calls) \in Seq(Call) /\ Head(calls) \in Call
BY HeadTailProperties DEF TabsInv

LEMMA TabsOfBegin ==
  ASSUME TabsInv, NEW n \in Nicks, BeginPrivate(n), session > 0, session' = session, calls' \in Seq(Call)
  PROVE  TabsInv'
<1> DEFINE tab == [kind |-> "private", session |-> session, nick |-> n]
<1>1. CASE tabs' = tabs
  BY <1>1, TabsSame
<1>2. CASE tabs' = Append(tabs, tab)
  <2>1. tab \in Tab /\ tab.kind = "private"
    BY DEF TabsInv, Tab
  <2> HIDE DEF tab
  <2>2. tabs \in Seq(Tab) /\ Len(tabs) \in Nat /\ Len(tabs) >= 2
    BY LenProperties DEF TabsInv, Arranged
  <2>3. /\ tabs' \in Seq(Tab) /\ Len(tabs') = Len(tabs) + 1
        /\ \A i \in 1..Len(tabs) : tabs'[i] = tabs[i]
        /\ tabs'[Len(tabs) + 1] = tab
    BY <1>2, <2>1, <2>2, AppendProperties
  <2>4. Len(tabs') >= 2 /\ tabs'[1] = tabs[1] /\ tabs'[2] = tabs[2]
    BY <2>2, <2>3
  <2>5. ASSUME NEW i \in 3..Len(tabs') PROVE tabs'[i].kind = "private"
    <3>1. CASE i \in 3..Len(tabs)
      BY <2>2, <2>3, <3>1 DEF TabsInv, Arranged
    <3>2. CASE i = Len(tabs) + 1
      BY <2>1, <2>3, <3>2
    <3> QED
      BY <2>2, <2>3, <3>1, <3>2
  <2> QED
    BY SMTT(30), <2>3, <2>4, <2>5 DEF TabsInv, Arranged
<1> QED
  BY <1>1, <1>2 DEF BeginPrivate

LEMMA TabsOfConfirmed ==
  ASSUME TabsInv, ConfirmedLogin
  PROVE  TabsInv'
<1> DEFINE chat == [kind |-> "chat", session |-> session + 1]
           torrents == [kind |-> "torrents"]
<1>1. session' = session + 1 /\ session' \in 1..MaxSessions /\ calls' = <<>> /\ tabs' = TabsWithChat(chat)
  BY ChatAssumption DEF ConfirmedLogin, TabsInv
<1>2. chat \in Tab /\ torrents \in Tab /\ torrents.kind = "torrents"
  BY <1>1 DEF Tab
<1>3. calls' \in Seq(Call)
  BY <1>1
<1>4. tabs' \in Seq(Tab) /\ Len(tabs') >= 2 /\ tabs'[1] = chat /\ tabs'[2].kind = "torrents"
      /\ \A i \in 3..Len(tabs') : tabs'[i].kind = "private"
  <2> HIDE DEF chat, torrents
  <2>1. CASE tabs = <<>>
    <3>1. tabs' = <<chat, torrents>>
      BY <1>1, <2>1 DEF TabsWithChat, torrents
    <3> QED
      BY <1>2, <3>1
  <2>2. CASE tabs # <<>>
    <3>1. tabs \in Seq(Tab) /\ Len(tabs) \in Nat /\ Len(tabs) >= 2 /\ tabs[2].kind = "torrents"
          /\ \A i \in 3..Len(tabs) : tabs[i].kind = "private"
      BY <2>2, LenProperties DEF TabsInv, Arranged
    <3>2. /\ Tail(tabs) \in Seq(Tab) /\ Len(Tail(tabs)) = Len(tabs) - 1
          /\ \A i \in 1..Len(Tail(tabs)) : Tail(tabs)[i] = tabs[i + 1]
      BY <2>2, <3>1, HeadTailProperties
    <3>3. <<chat>> \in Seq(Tab) /\ Len(<<chat>>) = 1 /\ <<chat>>[1] = chat
      BY <1>2
    <3>4. /\ tabs' \in Seq(Tab) /\ Len(tabs') = 1 + (Len(tabs) - 1)
          /\ \A i \in 1..(1 + (Len(tabs) - 1)) : tabs'[i] = IF i <= 1 THEN <<chat>>[i] ELSE Tail(tabs)[i - 1]
      BY <1>1, <2>2, <3>2, <3>3, ConcatProperties DEF TabsWithChat
    <3>5. tabs'[1] = chat
      BY <3>1, <3>3, <3>4
    <3>6. ASSUME NEW i \in 2..Len(tabs) PROVE tabs'[i] = tabs[i]
      <4>1. i \in 1..(1 + (Len(tabs) - 1)) /\ ~(i <= 1) /\ i - 1 \in 1..(Len(tabs) - 1) /\ (i - 1) + 1 = i
        BY <3>1
      <4> QED
        BY <3>2, <3>4, <4>1
    <3>7. Len(tabs') = Len(tabs) /\ 2 \in 2..Len(tabs) /\ \A i \in 3..Len(tabs) : i \in 2..Len(tabs)
      BY <3>1, <3>4
    <3> QED
      BY <3>1, <3>4, <3>5, <3>6, <3>7
  <2> QED
    BY <2>1, <2>2
<1> QED
  BY <1>1, <1>3, <1>4, ChatAssumption DEF TabsInv, Arranged

LEMMA TabsOfClose ==
  ASSUME TabsInv, NEW i \in DOMAIN tabs, OnTabClose(i)
  PROVE  TabsInv'
<1>1. /\ tabs[i].kind = "private" /\ tabs' = RemoveAt(tabs, i)
      /\ session' = session /\ calls' = calls /\ session = 1
  BY DEF OnTabClose
<1>2. tabs \in Seq(Tab) /\ Len(tabs) \in Nat /\ Len(tabs) >= 2 /\ i \in 1..Len(tabs)
      /\ tabs[1].kind = "chat" /\ tabs[1] = [kind |-> "chat", session |-> session] /\ tabs[2].kind = "torrents"
      /\ \A k \in 3..Len(tabs) : tabs[k].kind = "private"
  BY <1>1, LenProperties DEF TabsInv, Arranged
<1>3. i >= 3
  BY <1>1, <1>2
<1>4. /\ tabs' \in Seq(Tab) /\ Len(tabs') = Len(tabs) - 1
      /\ \A k \in 1..(Len(tabs) - 1) : tabs'[k] = IF k < i THEN tabs[k] ELSE tabs[k + 1]
  BY <1>1, <1>2, RemoveAtPoints
<1>5. Len(tabs') >= 2 /\ tabs'[1] = tabs[1] /\ tabs'[2] = tabs[2]
  BY <1>2, <1>3, <1>4
<1>6. ASSUME NEW k \in 3..Len(tabs') PROVE tabs'[k].kind = "private"
  <2>1. k \in 1..(Len(tabs) - 1) /\ k \in 3..Len(tabs) /\ k + 1 \in 3..Len(tabs)
    BY <1>2, <1>4
  <2> QED
    BY <1>2, <1>4, <2>1
<1> QED
  BY <1>1, <1>2, <1>4, <1>5, <1>6 DEF TabsInv, Arranged

LEMMA TabsOfThread ==
  ASSUME TabsInv, GlooxThread
  PROVE  TabsInv'
<1>1. CASE \E d \in 1..MaxSessions : Joined(d) \/ ThreadEnds(d)
  BY <1>1, TabsSame DEF Joined, ThreadEnds, chatVars, TabsInv
<1>2. [call |-> "updateUserList"] \in Call /\ \A n \in Nicks : [call |-> "beginPrivate", nick |-> n] \in Call
  BY DEF Call
<1>3. CASE HandlePresence \/ HandleVCard
  <2>1. calls' \in Seq(Call)
    BY <1>2, <1>3, QueueTypes DEF HandlePresence, HandleVCard, TabsInv
  <2> QED
    BY <1>3, <2>1, TabsSame DEF HandlePresence, HandleVCard
<1>4. CASE \E n \in Nicks : PrivateMessage(n)
  <2>1. calls' \in Seq(Call)
    BY <1>2, <1>4, QueueTypes DEF PrivateMessage, TabsInv
  <2> QED
    BY <1>4, <2>1, TabsSame DEF PrivateMessage
<1> QED
  BY <1>1, <1>3, <1>4 DEF GlooxThread

LEMMA TabsOfMain ==
  ASSUME TabsInv, MainThread, session > 0 \/ calls = <<>>
  PROVE  TabsInv'
<1>1. CASE TrayBlink \/ ToggleWindow \/ LoginEmpty \/ LoginBySite \/ LoginLock \/ EscapeForm \/ Mentioned
  BY <1>1, TabsSame
     DEF TrayBlink, ToggleWindow, LoginEmpty, LoginBySite, LoginLock, EscapeForm, Mentioned, chatVars, TabsInv
<1>2. CASE LoginDirectly
  BY <1>2, TabsOfConfirmed DEF LoginDirectly
<1>3. CASE RequestFinish
  BY <1>3, TabsOfConfirmed, TabsSame DEF RequestFinish, chatVars, TabsInv
<1>4. CASE UpdateUserList
  BY <1>4, TailTypes, TabsSame DEF UpdateUserList
<1>5. CASE MessageBeginsPrivate
  <2>1. Tail(calls) \in Seq(Call) /\ Head(calls) \in Call /\ Head(calls).call = "beginPrivate"
    BY <1>5, TailTypes DEF MessageBeginsPrivate
  <2>2. Head(calls).nick \in Nicks
    BY <2>1 DEF Call
  <2> QED
    BY <1>5, <2>1, <2>2, TabsOfBegin DEF MessageBeginsPrivate
<1>6. CASE \E n \in Nicks : UserBeginsPrivate(n)
  BY <1>6, TabsOfBegin DEF UserBeginsPrivate, TabsInv
<1>7. CASE \E i \in DOMAIN tabs : OnTabClose(i)
  BY <1>7, TabsOfClose
<1> QED
  BY <1>1, <1>2, <1>3, <1>4, <1>5, <1>6, <1>7 DEF MainThread

\* Before the first session nothing is received.
Quiet == session = 0 => calls = <<>> /\ inbox = <<>>

LEMMA QuietStep == TabsInv /\ Quiet /\ [Next]_vars => Quiet'
<1> SUFFICES ASSUME TabsInv, Quiet, session = 0, session' = 0, [Next]_vars PROVE calls' = <<>> /\ inbox' = <<>>
  BY DEF Quiet, Next, GlooxThread, MainThread, TabsInv, Joined, ThreadEnds, HandlePresence, HandleVCard, PrivateMessage,
         TrayBlink, ToggleWindow, LoginEmpty, LoginDirectly, LoginBySite, RequestFinish, LoginLock, EscapeForm, UpdateUserList,
         MessageBeginsPrivate, Mentioned, UserBeginsPrivate, OnTabClose, RoomPresence, ConfirmedLogin, vars
<1>1. calls = <<>> /\ inbox = <<>>
  BY DEF Quiet
<1>2. CASE GlooxThread
  BY <1>1, <1>2 DEF GlooxThread, Joined, ThreadEnds, HandlePresence, HandleVCard, PrivateMessage, chatVars
<1>3. CASE MainThread
  BY <1>1, <1>3
     DEF MainThread, TrayBlink, ToggleWindow, LoginEmpty, LoginDirectly, LoginBySite, RequestFinish, LoginLock, EscapeForm,
         UpdateUserList, MessageBeginsPrivate, Mentioned, UserBeginsPrivate, OnTabClose, ConfirmedLogin,
         chatVars, roomVars
<1>4. CASE UNCHANGED vars
  BY <1>1, <1>4 DEF vars, chatVars, roomVars
<1>5. CASE \E n \in Nicks, here \in BOOLEAN : RoomPresence(n, here)
  BY <1>5 DEF RoomPresence
<1> QED
  BY <1>2, <1>3, <1>4, <1>5 DEF Next

LEMMA TabsStep == TabsInv /\ Quiet /\ [Next]_vars => TabsInv'
<1> SUFFICES ASSUME TabsInv, Quiet, [Next]_vars PROVE TabsInv'
  OBVIOUS
<1>1. CASE UNCHANGED vars
  BY <1>1, TabsSame DEF vars, chatVars, TabsInv
<1>2. CASE \E n \in Nicks, here \in BOOLEAN : RoomPresence(n, here)
  BY <1>2, TabsSame DEF RoomPresence, chatVars, TabsInv
<1>3. session > 0 \/ calls = <<>>
  BY DEF TabsInv, Quiet
<1> QED
  BY <1>1, <1>2, <1>3, TabsOfThread, TabsOfMain DEF Next

\* The widget a new session deletes as a ChatDialog is the dialog of the session before,
\* and neither the list of torrents nor a private chat, however these come and go
\* (uenclient.cpp, startSession).
THEOREM FirstTabStaysChat == Spec => []FirstTabIsChat
<1>1. Init => Quiet
  BY DEF Init, Quiet
<1>2. TabsInv => FirstTabIsChat
  <2> SUFFICES ASSUME TabsInv, session > 0
               PROVE  Len(tabs) >= 2 /\ tabs[1] = [kind |-> "chat", session |-> session]
                      /\ \A i \in 2..Len(tabs) : tabs[i].kind # "chat"
    BY DEF FirstTabIsChat
  <2>1. Arranged(tabs, session) /\ session # 0 /\ Len(tabs) \in Nat
    BY LenProperties DEF TabsInv
  <2>2. ASSUME NEW i \in 2..Len(tabs) PROVE tabs[i].kind # "chat"
    <3>1. i = 2 \/ i \in 3..Len(tabs)
      BY <2>1
    <3> QED
      BY <2>1, <3>1 DEF Arranged
  <2> QED
    BY <2>1, <2>2 DEF Arranged
<1> QED
  BY <1>1, <1>2, TabsInit, TabsStep, QuietStep, PTL DEF Spec

-----------------------------------------------------------------------------
(* The list of participants *)

\* Nobody is in the list twice, and the one erased is not in it any more.
LEMMA RemoveFirstPoints ==
  ASSUME NEW S, NEW s \in Seq(S), IsInjective(s), NEW e, e \in ToSet(s)
  PROVE  /\ RemoveFirst(s, e) \in Seq(S) /\ IsInjective(RemoveFirst(s, e))
         /\ Len(RemoveFirst(s, e)) = Len(s) - 1
         /\ ToSet(RemoveFirst(s, e)) = ToSet(s) \ {e}
<1> DEFINE t == RemoveFirst(s, e)
           I == {i \in 1..Len(s) : s[i] = e}
<1>1. Len(s) \in Nat /\ DOMAIN s = 1..Len(s)
  BY LenProperties
<1>2. PICK i \in 1..Len(s) : s[i] = e
  BY <1>1 DEF ToSet
<1>3. I = {i}
  BY <1>1, <1>2 DEF IsInjective
<1>4. SelectInSeq(s, LAMBDA v : v = e) = i
  <2>1. SelectInSeq(s, LAMBDA v : v = e) = Min(I)
    BY <1>2 DEF SelectInSeq
  <2>2. Min({i}) = i
    BY <1>1 DEF Min
  <2> QED
    BY <1>3, <2>1, <2>2
<1>5. t = RemoveAt(s, i)
  BY <1>2, <1>4 DEF RemoveFirst
<1>6. /\ t \in Seq(S) /\ Len(t) = Len(s) - 1
      /\ \A k \in 1..(Len(s) - 1) : t[k] = IF k < i THEN s[k] ELSE s[k + 1]
  BY <1>2, <1>5, RemoveAtPoints
<1> HIDE DEF t
<1>7. ASSUME NEW j \in DOMAIN t, NEW k \in DOMAIN t, t[j] = t[k] PROVE j = k
  <2>1. DOMAIN t = 1..(Len(s) - 1)
    BY <1>6, LenProperties
  <2> DEFINE at(m) == IF m < i THEN m ELSE m + 1
  <2>2. /\ at(j) \in 1..Len(s) /\ t[j] = s[at(j)]
        /\ at(k) \in 1..Len(s) /\ t[k] = s[at(k)]
    BY <1>1, <1>6, <2>1
  <2>3. at(j) = at(k)
    <3> HIDE DEF at
    <3> QED
      BY <1>1, <1>7, <2>2 DEF IsInjective
  <2> QED
    BY <1>1, <2>1, <2>3
<1>8. IsInjective(t)
  BY <1>7 DEF IsInjective
<1>9. DOMAIN t = 1..(Len(s) - 1)
  BY <1>6, LenProperties
<1>10. ASSUME NEW k \in DOMAIN t PROVE t[k] \in ToSet(s) /\ t[k] # e
  <2>1. CASE k < i
    <3>1. k \in 1..Len(s) /\ k # i /\ t[k] = s[k]
      BY <1>1, <1>6, <1>9, <2>1
    <3> QED
      BY <1>1, <1>2, <3>1 DEF IsInjective, ToSet
  <2>2. CASE ~(k < i)
    <3>1. k + 1 \in 1..Len(s) /\ k + 1 # i /\ t[k] = s[k + 1]
      BY <1>1, <1>6, <1>9, <2>2
    <3>2. PICK m : m = k + 1
      OBVIOUS
    <3> QED
      BY <1>1, <1>2, <3>1, <3>2 DEF IsInjective, ToSet
  <2> QED
    BY <2>1, <2>2
<1>11. ASSUME NEW j \in DOMAIN s, s[j] # e PROVE s[j] \in ToSet(t)
  <2>1. j \in 1..Len(s) /\ j # i
    BY <1>1, <1>2, <1>11
  <2>2. CASE j < i
    <3>1. j \in 1..(Len(s) - 1) /\ t[j] = s[j]
      BY <1>1, <1>6, <2>1, <2>2
    <3> QED
      BY <1>9, <3>1 DEF ToSet
  <2>3. CASE ~(j < i)
    <3>1. j - 1 \in 1..(Len(s) - 1) /\ ~(j - 1 < i) /\ (j - 1) + 1 = j
      BY <1>1, <2>1, <2>3
    <3>2. t[j - 1] = s[j]
      BY <1>6, <3>1
    <3> QED
      BY <1>9, <3>1, <3>2 DEF ToSet
  <2> QED
    BY <2>2, <2>3
<1>12. ToSet(t) = ToSet(s) \ {e}
  BY <1>10, <1>11 DEF ToSet
<1> QED
  BY <1>6, <1>8, <1>12 DEF t

\* One more, who was not in the list.
LEMMA AppendPoints ==
  ASSUME NEW S, NEW s \in Seq(S), IsInjective(s), NEW e \in S, e \notin ToSet(s)
  PROVE  /\ Append(s, e) \in Seq(S) /\ IsInjective(Append(s, e))
         /\ Len(Append(s, e)) = Len(s) + 1
         /\ ToSet(Append(s, e)) = ToSet(s) \cup {e}
<1> DEFINE t == Append(s, e)
<1>1. Len(s) \in Nat /\ DOMAIN s = 1..Len(s)
  BY LenProperties
<1>2. /\ t \in Seq(S) /\ Len(t) = Len(s) + 1 /\ t[Len(s) + 1] = e
      /\ \A i \in 1..Len(s) : t[i] = s[i] /\ s[i] # e
  BY <1>1, AppendProperties DEF ToSet
<1> HIDE DEF t
<1>3. DOMAIN t = 1..(Len(s) + 1)
  BY <1>2, LenProperties
<1>4. \A i \in DOMAIN t : i \in 1..Len(s) \/ i = Len(s) + 1
  BY <1>1, <1>3
<1>5. IsInjective(t)
  BY <1>1, <1>2, <1>4 DEF IsInjective
<1>6. Len(s) + 1 \in DOMAIN t /\ \A i \in 1..Len(s) : i \in DOMAIN t
  BY <1>1, <1>3
<1>7. ToSet(t) = ToSet(s) \cup {e}
  BY <1>1, <1>2, <1>4, <1>6 DEF ToSet
<1> QED
  BY <1>2, <1>5, <1>7 DEF t

-----------------------------------------------------------------------------
(* Types *)

FlagTypes ==
  /\ formShown \in BOOLEAN /\ loginEnabled \in BOOLEAN /\ leftEmpty \in BOOLEAN /\ dismissed \in BOOLEAN
  /\ windowShown \in BOOLEAN /\ canStartSession \in BOOLEAN
  /\ isNewMessages \in BOOLEAN /\ blinkMessageNow \in BOOLEAN

LEMMA FlagInit == Init => FlagTypes
BY DEF Init, FlagTypes

LEMMA FlagsOfThread ==
  ASSUME FlagTypes, GlooxThread PROVE FlagTypes'
<1>1. CASE UNCHANGED <<formVars, windowVars, trayVars>>
  BY <1>1 DEF formVars, windowVars, trayVars, FlagTypes
<1>2. CASE \E n \in Nicks : PrivateMessage(n)
  BY <1>2 DEF PrivateMessage, Blink, StopBlinking, formVars, windowVars, trayVars, FlagTypes
<1> QED
  BY <1>1, <1>2 DEF GlooxThread, Joined, ThreadEnds, HandlePresence, HandleVCard

LEMMA FlagsOfMain ==
  ASSUME FlagTypes, MainThread PROVE FlagTypes'
<1> USE DEF formVars, windowVars, trayVars, FlagTypes
<1>1. CASE TrayBlink \/ ToggleWindow
  BY <1>1 DEF TrayBlink, ToggleWindow, StopBlinking
<1>2. CASE LoginEmpty \/ LoginBySite
  BY <1>2 DEF LoginEmpty, LoginBySite, EnabledInLogin
<1>3. CASE LoginDirectly \/ RequestFinish
  BY <1>3 DEF LoginDirectly, RequestFinish, ConfirmedLogin, EnabledInLogin, StopBlinking
<1>4. CASE LoginLock \/ EscapeForm
  BY <1>4 DEF LoginLock, EscapeForm, EnabledAfterLock
<1>5. CASE UpdateUserList \/ \E n \in Nicks : UserBeginsPrivate(n)
  BY <1>5 DEF UpdateUserList, UserBeginsPrivate
<1>6. CASE MessageBeginsPrivate \/ Mentioned
  BY <1>6 DEF MessageBeginsPrivate, Mentioned, Blink, StopBlinking
<1>7. CASE \E i \in DOMAIN tabs : OnTabClose(i)
  BY <1>7 DEF OnTabClose
<1> QED
  BY <1>1, <1>2, <1>3, <1>4, <1>5, <1>6, <1>7 DEF MainThread

LEMMA FlagStep == FlagTypes /\ [Next]_vars => FlagTypes'
<1>1. FlagTypes /\ UNCHANGED <<formVars, windowVars, trayVars>> => FlagTypes'
  BY DEF formVars, windowVars, trayVars, FlagTypes
<1>2. \A n \in Nicks, here \in BOOLEAN : RoomPresence(n, here) => UNCHANGED <<formVars, windowVars, trayVars>>
  BY DEF RoomPresence
<1>3. UNCHANGED vars => UNCHANGED <<formVars, windowVars, trayVars>>
  BY DEF vars
<1> QED
  BY <1>1, <1>2, <1>3, FlagsOfThread, FlagsOfMain DEF Next

Registered == [nick : Nicks, open : BOOLEAN]

RoomTypes ==
  /\ room \subseteq Nicks /\ inbox \in Seq(Presence)
  /\ participants \in Seq(Nicks) /\ IsInjective(participants)
  /\ calls \in Seq(Call) /\ Len(calls) <= MaxQueue
  /\ handling \in BOOLEAN /\ shownUsers \subseteq Nicks

ChatTypes ==
  /\ chats \subseteq Nicks
  /\ messageSessions \in Seq(Registered) /\ Len(messageSessions) <= MaxChats

LEMMA NothingReceived ==
  /\ \A S : <<>> \in Seq(S)
  /\ IsInjective(<<>>) /\ Len(<<>>) = 0 /\ ToSet(<<>>) = {}
  /\ MaxQueue \in Nat /\ MaxChats \in Nat
BY EmptySeq, ChatAssumption DEF IsInjective, ToSet

LEMMA RoomInit == Init => RoomTypes /\ ChatTypes
<1> SUFFICES ASSUME Init PROVE RoomTypes /\ ChatTypes
  OBVIOUS
<1>1. /\ room \subseteq Nicks /\ inbox = <<>> /\ participants = <<>> /\ calls = <<>>
      /\ handling = FALSE /\ shownUsers = {} /\ chats = {} /\ messageSessions = <<>>
  BY DEF Init
<1>2. /\ inbox \in Seq(Presence) /\ participants \in Seq(Nicks) /\ calls \in Seq(Call)
      /\ messageSessions \in Seq(Registered)
  BY <1>1, NothingReceived
<1>3. IsInjective(participants) /\ Len(calls) <= MaxQueue /\ Len(messageSessions) <= MaxChats
  BY <1>1, NothingReceived
<1> QED
  BY <1>1, <1>2, <1>3 DEF RoomTypes, ChatTypes

LEMMA RoomSame ==
  ASSUME RoomTypes,
         UNCHANGED <<room, inbox, participants, calls, handling, shownUsers>>
  PROVE  RoomTypes'
BY DEF RoomTypes

LEMMA QueueBounded ==
  ASSUME RoomTypes, NEW call \in Call, Len(calls) < MaxQueue, Queue(call)
  PROVE  calls' \in Seq(Call) /\ Len(calls') <= MaxQueue
<1>1. calls \in Seq(Call) /\ Len(calls) \in Nat /\ MaxQueue \in Nat
  BY LenProperties, NothingReceived DEF RoomTypes
<1>2. calls' \in Seq(Call) /\ Len(calls') = Len(calls) + 1
  BY <1>1, AppendProperties DEF Queue
<1> QED
  BY <1>1, <1>2

LEMMA TailBounded ==
  ASSUME RoomTypes, calls # <<>>
  PROVE  Head(calls) \in Call /\ Tail(calls) \in Seq(Call) /\ Len(Tail(calls)) <= MaxQueue
<1>1. calls \in Seq(Call) /\ Len(calls) \in Nat /\ MaxQueue \in Nat
  BY LenProperties, NothingReceived DEF RoomTypes
<1>2. Head(calls) \in Call /\ Tail(calls) \in Seq(Call) /\ Len(Tail(calls)) = Len(calls) - 1
  BY <1>1, HeadTailProperties
<1> QED
  BY <1>1, <1>2 DEF RoomTypes

\* What a presence does to participants: nobody is in it twice, and the one it is of is in it
\* or not, as the presence says.
LEMMA ParticipantsOfPresence ==
  ASSUME RoomTypes, HandlePresence
  PROVE  LET n == Head(inbox).nick IN
           /\ n \in Nicks /\ inbox' \in Seq(Presence)
           /\ participants' \in Seq(Nicks) /\ IsInjective(participants')
           /\ ToSet(participants') = IF Head(inbox).here THEN ToSet(participants) \cup {n}
                                                         ELSE ToSet(participants) \ {n}
           /\ (Head(inbox).here <=> n \notin ToSet(participants)) => Len(participants') # Len(participants)
<1> DEFINE n == Head(inbox).nick
<1>1. Head(inbox) \in Presence /\ inbox' \in Seq(Presence)
  BY HeadTailProperties DEF HandlePresence, RoomTypes
<1>2. n \in Nicks /\ Head(inbox).here \in BOOLEAN
  BY <1>1 DEF Presence
<1> HIDE DEF n
<1>3. participants \in Seq(Nicks) /\ IsInjective(participants) /\ Len(participants) \in Nat
  BY LenProperties DEF RoomTypes
<1>4. CASE n \notin ToSet(participants)
  <2>1. CASE Head(inbox).here
    <3>1. participants' = Append(participants, n)
      BY <1>4, <2>1 DEF HandlePresence, WithParticipant, n
    <3>2. /\ participants' \in Seq(Nicks) /\ IsInjective(participants')
          /\ Len(participants') = Len(participants) + 1
          /\ ToSet(participants') = ToSet(participants) \cup {n}
      BY <1>2, <1>3, <1>4, <3>1, AppendPoints
    <3> QED
      BY <1>1, <1>2, <1>3, <2>1, <3>2 DEF n
  <2>2. CASE ~Head(inbox).here
    <3>1. ~\E i \in 1..Len(participants) : participants[i] = n
      BY <1>3, <1>4, LenProperties DEF ToSet
    <3>2. participants' = participants
      BY <2>2, <3>1 DEF HandlePresence, WithoutParticipant, RemoveFirst, n
    <3> QED
      BY <1>1, <1>2, <1>3, <1>4, <2>2, <3>2 DEF n
  <2> QED
    BY <2>1, <2>2
<1>5. CASE n \in ToSet(participants)
  <2>1. CASE Head(inbox).here
    <3>1. participants' = participants
      BY <1>5, <2>1 DEF HandlePresence, WithParticipant, n
    <3> QED
      BY <1>1, <1>2, <1>3, <1>5, <2>1, <3>1 DEF n
  <2>2. CASE ~Head(inbox).here
    <3>1. participants' = RemoveFirst(participants, n)
      BY <2>2 DEF HandlePresence, WithoutParticipant, n
    <3>2. /\ participants' \in Seq(Nicks) /\ IsInjective(participants')
          /\ Len(participants') = Len(participants) - 1
          /\ ToSet(participants') = ToSet(participants) \ {n}
      BY <1>3, <1>5, <3>1, RemoveFirstPoints
    <3> QED
      BY <1>1, <1>2, <1>3, <1>5, <2>2, <3>2 DEF n
  <2> QED
    BY <2>1, <2>2
<1> QED
  BY <1>4, <1>5

LEMMA RoomOfThread ==
  ASSUME RoomTypes, GlooxThread
  PROVE  RoomTypes'
<1>1. [call |-> "updateUserList"] \in Call /\ \A n \in Nicks : [call |-> "beginPrivate", nick |-> n] \in Call
  BY DEF Call
<1>2. ASSUME NEW d \in 1..MaxSessions, Joined(d) PROVE RoomTypes'
  <2> DEFINE there == [nick : room, here : {TRUE}]
  <2>1. inbox' \in SetToSeqs(there) /\ UNCHANGED <<room, participants, calls, handling, shownUsers>>
    BY <1>2 DEF Joined, chatVars
  <2>2. there \subseteq Presence
    BY DEF Presence, RoomTypes
  <2>3. inbox' \in [1..Cardinality(there) -> there]
    BY <2>1 DEF SetToSeqs
  <2>4. Cardinality(there) \in Nat
    <3>1. IsFiniteSet(room)
      BY ChatAssumption, FS_Subset DEF RoomTypes
    <3> DEFINE f == [n \in room |-> [nick |-> n, here |-> TRUE]]
    <3>2. f \in Surjection(room, there)
      <4>1. \A n \in room : f[n] \in there
        OBVIOUS
      <4>2. ASSUME NEW x \in there PROVE \E n \in room : f[n] = x
        <5>1. x.nick \in room /\ x = [nick |-> x.nick, here |-> TRUE]
          OBVIOUS
        <5> QED
          BY <5>1
      <4> HIDE DEF there
      <4>3. f \in [room -> there]
        BY <4>1
      <4> HIDE DEF f
      <4> QED
        BY <4>2, <4>3 DEF Surjection
    <3> HIDE DEF f, there
    <3>3. IsFiniteSet(there)
      BY <3>1, <3>2, FS_Surjection
    <3> QED
      BY <3>3, FS_CardinalityType
  <2>5. inbox' \in Seq(Presence)
    <3> HIDE DEF there
    <3> QED
      BY <2>2, <2>3, <2>4
  <2> QED
    BY <2>1, <2>5 DEF RoomTypes
<1>3. ASSUME NEW d \in 1..MaxSessions, ThreadEnds(d) PROVE RoomTypes'
  BY <1>3, NothingReceived DEF ThreadEnds, chatVars, RoomTypes
<1>4. CASE HandlePresence
  <2>1. /\ participants' \in Seq(Nicks) /\ IsInjective(participants') /\ inbox' \in Seq(Presence)
    BY <1>4, ParticipantsOfPresence
  <2>2. UNCHANGED <<room, shownUsers>> /\ handling' = FALSE
    BY <1>4 DEF HandlePresence
  <2>3. calls' \in Seq(Call) /\ Len(calls') <= MaxQueue
    BY <1>1, <1>4, QueueBounded DEF HandlePresence, RoomTypes
  <2> QED
    BY <2>1, <2>2, <2>3 DEF RoomTypes
<1>5. CASE HandleVCard \/ \E n \in Nicks : PrivateMessage(n)
  <2>1. UNCHANGED <<room, inbox, participants, handling, shownUsers>>
    BY <1>5 DEF HandleVCard, PrivateMessage, roomVars
  <2>2. calls' \in Seq(Call) /\ Len(calls') <= MaxQueue
    BY <1>1, <1>5, QueueBounded DEF HandleVCard, PrivateMessage, RoomTypes
  <2> QED
    BY <2>1, <2>2 DEF RoomTypes
<1> QED
  BY <1>2, <1>3, <1>4, <1>5 DEF GlooxThread

LEMMA RoomOfMain ==
  ASSUME RoomTypes, MainThread
  PROVE  RoomTypes'
<1>1. CASE TrayBlink \/ ToggleWindow \/ LoginEmpty \/ LoginBySite \/ LoginLock \/ EscapeForm \/ Mentioned
  BY <1>1, RoomSame DEF TrayBlink, ToggleWindow, LoginEmpty, LoginBySite, LoginLock, EscapeForm, Mentioned, roomVars, chatVars
<1>2. CASE ConfirmedLogin
  <2>1. /\ room' = room /\ inbox' = <<>> /\ participants' = <<>> /\ calls' = <<>>
        /\ handling' = FALSE /\ shownUsers' = {}
    BY <1>2 DEF ConfirmedLogin
  <2>2. inbox' \in Seq(Presence) /\ participants' \in Seq(Nicks) /\ calls' \in Seq(Call)
    BY <2>1, NothingReceived
  <2>3. IsInjective(participants') /\ Len(calls') <= MaxQueue
    BY <2>1, NothingReceived
  <2> QED
    BY <2>1, <2>2, <2>3 DEF RoomTypes
<1>3. CASE LoginDirectly \/ RequestFinish
  BY <1>2, <1>3, RoomSame DEF LoginDirectly, RequestFinish, roomVars, chatVars
<1>4. CASE UpdateUserList
  <2>1. calls' \in Seq(Call) /\ Len(calls') <= MaxQueue
    BY <1>4, TailBounded DEF UpdateUserList
  <2>2. shownUsers' \subseteq Nicks /\ handling' \in BOOLEAN
    <3>1. ToSet(participants) \subseteq Nicks
      BY ElementOfSeq, LenProperties DEF RoomTypes, ToSet
    <3>2. /\ shownUsers' = ToSet(participants) \/ shownUsers' \subseteq Nicks
          /\ UNCHANGED handling \/ handling' = TRUE
      BY <1>4 DEF UpdateUserList
    <3> QED
      BY <3>1, <3>2 DEF RoomTypes
  <2> QED
    BY <1>4, <2>1, <2>2 DEF UpdateUserList, roomVars, RoomTypes
<1>5. CASE MessageBeginsPrivate
  <2>1. calls' \in Seq(Call) /\ Len(calls') <= MaxQueue
    BY <1>5, TailBounded DEF MessageBeginsPrivate
  <2> QED
    BY <1>5, <2>1 DEF MessageBeginsPrivate, roomVars, RoomTypes
<1>6. CASE \/ \E n \in Nicks : UserBeginsPrivate(n)
           \/ \E i \in DOMAIN tabs : OnTabClose(i)
  BY <1>6, RoomSame DEF UserBeginsPrivate, OnTabClose, roomVars
<1> QED
  BY <1>1, <1>3, <1>4, <1>5, <1>6 DEF MainThread

LEMMA RoomStep == RoomTypes /\ [Next]_vars => RoomTypes'
<1> SUFFICES ASSUME RoomTypes, [Next]_vars PROVE RoomTypes'
  OBVIOUS
<1>1. CASE UNCHANGED vars
  BY <1>1, RoomSame DEF vars, roomVars, chatVars
<1>2. ASSUME NEW n \in Nicks, NEW here \in BOOLEAN, RoomPresence(n, here) PROVE RoomTypes'
  <2>1. inbox' \in Seq(Presence)
    <3>1. [nick |-> n, here |-> here] \in Presence
      BY DEF Presence
    <3> QED
      BY <1>2, <3>1, AppendProperties DEF RoomPresence, RoomTypes
  <2>2. room' \subseteq Nicks
    BY <1>2 DEF RoomPresence, RoomTypes
  <2> QED
    BY <1>2, <2>1, <2>2 DEF RoomPresence, chatVars, RoomTypes
<1> QED
  BY <1>1, <1>2, RoomOfThread, RoomOfMain DEF Next

LEMMA ChatSame ==
  ASSUME ChatTypes, UNCHANGED <<chats, messageSessions>> PROVE ChatTypes'
BY DEF ChatTypes

LEMMA ChatOfBegin ==
  ASSUME ChatTypes, NEW n \in Nicks, BeginPrivate(n) PROVE ChatTypes'
<1>1. CASE KnownChat(n)
  BY <1>1, ChatSame DEF BeginPrivate
<1>2. CASE ~KnownChat(n)
  <2>1. /\ Len(messageSessions) < MaxChats /\ chats' = chats \cup {n}
        /\ messageSessions' = Append(messageSessions, [nick |-> n, open |-> TRUE])
    BY <1>2 DEF BeginPrivate
  <2>2. [nick |-> n, open |-> TRUE] \in Registered
    BY DEF Registered
  <2>3. messageSessions \in Seq(Registered) /\ Len(messageSessions) \in Nat /\ MaxChats \in Nat
    BY LenProperties, ChatAssumption DEF ChatTypes
  <2>4. messageSessions' \in Seq(Registered) /\ Len(messageSessions') = Len(messageSessions) + 1
    BY <2>1, <2>2, <2>3, AppendProperties
  <2> QED
    BY <2>1, <2>3, <2>4 DEF ChatTypes
<1> QED
  BY <1>1, <1>2

LEMMA ChatOfClose ==
  ASSUME ChatTypes, NEW i \in DOMAIN tabs, OnTabClose(i) PROVE ChatTypes'
<1> DEFINE n == tabs[i].nick
           closed(r) == IF r.nick = n THEN [r EXCEPT !.open = FALSE] ELSE r
<1>1. /\ chats' = chats \ {n}
      /\ messageSessions' = [k \in DOMAIN messageSessions |-> closed(messageSessions[k])]
  BY DEF OnTabClose
<1>2. \A r \in Registered : closed(r) \in Registered
  BY DEF Registered
<1>3. /\ messageSessions \in Seq(Registered) /\ Len(messageSessions) \in Nat
      /\ DOMAIN messageSessions = 1..Len(messageSessions)
      /\ \A k \in 1..Len(messageSessions) : messageSessions[k] \in Registered
      /\ Len(messageSessions) <= MaxChats
  BY LenProperties, ElementOfSeq DEF ChatTypes
<1> HIDE DEF closed
<1>4. messageSessions' \in [1..Len(messageSessions) -> Registered]
  BY <1>1, <1>2, <1>3
<1>5. messageSessions' \in Seq(Registered) /\ Len(messageSessions') = Len(messageSessions)
  BY <1>3, <1>4
<1> QED
  BY <1>1, <1>3, <1>5 DEF ChatTypes

LEMMA ChatStep == ChatTypes /\ RoomTypes /\ [Next]_vars => ChatTypes'
<1> SUFFICES ASSUME ChatTypes, RoomTypes, [Next]_vars PROVE ChatTypes'
  OBVIOUS
<1>1. CASE UNCHANGED vars
  BY <1>1, ChatSame DEF vars, chatVars
<1>2. CASE \/ GlooxThread
           \/ \E n \in Nicks, here \in BOOLEAN : RoomPresence(n, here)
  BY <1>2, ChatSame
     DEF GlooxThread, Joined, ThreadEnds, HandlePresence, HandleVCard, PrivateMessage, RoomPresence, chatVars
<1>3. CASE TrayBlink \/ ToggleWindow \/ LoginEmpty \/ LoginBySite \/ LoginLock \/ EscapeForm \/ Mentioned \/ UpdateUserList
  BY <1>3, ChatSame
     DEF TrayBlink, ToggleWindow, LoginEmpty, LoginBySite, LoginLock, EscapeForm, Mentioned, UpdateUserList, chatVars
<1>4. CASE ConfirmedLogin
  <2>1. chats' = {} /\ messageSessions' = <<>>
    BY <1>4 DEF ConfirmedLogin
  <2>2. messageSessions' \in Seq(Registered) /\ Len(messageSessions') <= MaxChats
    BY <2>1, NothingReceived
  <2> QED
    BY <2>1, <2>2 DEF ChatTypes
<1>5. CASE LoginDirectly \/ RequestFinish
  BY <1>4, <1>5, ChatSame DEF LoginDirectly, RequestFinish, chatVars
<1>6. CASE MessageBeginsPrivate
  <2>1. Head(calls) \in Call /\ Head(calls).call = "beginPrivate" /\ BeginPrivate(Head(calls).nick)
    BY <1>6, TailBounded DEF MessageBeginsPrivate
  <2>2. Head(calls).nick \in Nicks
    BY <2>1 DEF Call
  <2> QED
    BY <2>1, <2>2, ChatOfBegin
<1>7. CASE \E n \in Nicks : UserBeginsPrivate(n)
  BY <1>7, ChatOfBegin DEF UserBeginsPrivate
<1>8. CASE \E i \in DOMAIN tabs : OnTabClose(i)
  BY <1>8, ChatOfClose
<1> QED
  BY <1>1, <1>2, <1>3, <1>5, <1>6, <1>7, <1>8 DEF Next, MainThread

LEMMA TypePartsHold == Spec => [](FlagTypes /\ RoomTypes /\ ChatTypes /\ LoginInv /\ TabsInv /\ Quiet /\ IconInv)
<1>1. Init => Quiet
  BY DEF Init, Quiet
<1> QED
  BY <1>1, FlagInit, FlagStep, RoomInit, RoomStep, ChatStep, LoginInit, LoginStep, TabsInit, TabsStep,
     QuietStep, IconInit, IconStep, PTL DEF Spec

\* Every variable keeps its type; nobody is twice in the list of participants, though presences
\* come again for those who change their status (handleMUCParticipantPresence).
THEOREM TypesHold == Spec => []TypeOK
<1>1. FlagTypes /\ RoomTypes /\ ChatTypes /\ LoginInv /\ TabsInv /\ IconInv => TypeOK
  BY DEF FlagTypes, RoomTypes, ChatTypes, Registered, LoginInv, States, TabsInv, IconInv, TypeOK
<1> QED
  BY <1>1, TypePartsHold, PTL

-----------------------------------------------------------------------------
(* The list of users that is shown *)

Updating(q) == \E i \in DOMAIN q : q[i].call = "updateUserList"

\* An update that may be wrong races with a presence that changes participants, and presences
\* only come to a session that is online.
ListInv ==
  /\ handling => Racing
  /\ inbox # <<>> => session > 0 /\ thread[session] = "online"
  /\ shownUsers = ToSet(participants) \/ Updating(calls) \/ handling

LEMMA ListInit == Init => ListInv
BY DEF Init, ListInv, ToSet

LEMMA ListSame ==
  ASSUME ListInv, UNCHANGED <<session, thread, inbox, participants, handling, shownUsers>>,
         Updating(calls) => Updating(calls')
  PROVE  ListInv'
BY DEF ListInv, Racing

\* A call that is queued is queued behind the others.
LEMMA UpdatingQueued ==
  ASSUME RoomTypes, NEW call \in Call, Queue(call)
  PROVE  /\ Updating(calls) => Updating(calls')
         /\ call.call = "updateUserList" => Updating(calls')
<1>1. calls \in Seq(Call) /\ Len(calls) \in Nat /\ DOMAIN calls = 1..Len(calls)
  BY LenProperties DEF RoomTypes
<1>2. /\ calls' \in Seq(Call) /\ Len(calls') = Len(calls) + 1
      /\ \A i \in 1..Len(calls) : calls'[i] = calls[i]
      /\ calls'[Len(calls) + 1] = call
  BY <1>1, AppendProperties DEF Queue
<1>3. DOMAIN calls' = 1..(Len(calls) + 1)
  BY <1>2, LenProperties
<1>4. \A i \in 1..Len(calls) : i \in 1..(Len(calls) + 1)
  BY <1>1
<1>5. Len(calls) + 1 \in 1..(Len(calls) + 1)
  BY <1>1
<1> QED
  BY <1>1, <1>2, <1>3, <1>4, <1>5 DEF Updating

\* Any other call that is done leaves the updates in the queue.
LEMMA UpdatingTail ==
  ASSUME RoomTypes, calls # <<>>, Head(calls).call # "updateUserList"
  PROVE  Updating(calls) => Updating(Tail(calls))
<1>1. calls \in Seq(Call) /\ Len(calls) \in Nat \ {0} /\ DOMAIN calls = 1..Len(calls)
  BY LenProperties, EmptySeq DEF RoomTypes
<1>2. /\ Head(calls) = calls[1]
      /\ Tail(calls) \in Seq(Call) /\ Len(Tail(calls)) = Len(calls) - 1
      /\ \A i \in 1..Len(Tail(calls)) : Tail(calls)[i] = calls[i + 1]
  BY <1>1, HeadTailProperties
<1>3. DOMAIN Tail(calls) = 1..(Len(calls) - 1)
  BY <1>2, LenProperties
<1>4. ASSUME NEW i \in DOMAIN calls, calls[i].call = "updateUserList" PROVE Updating(Tail(calls))
  <2>1. i # 1
    BY <1>2, <1>4
  <2>2. i - 1 \in 1..(Len(calls) - 1) /\ (i - 1) + 1 = i
    BY <1>1, <2>1
  <2>3. Tail(calls)[i - 1] = calls[i]
    BY <1>2, <2>2
  <2> QED
    BY <1>3, <1>4, <2>2, <2>3 DEF Updating
<1> QED
  BY <1>4 DEF Updating

\* A presence that changes participants queues an update.
LEMMA ListOfPresence ==
  ASSUME RoomTypes, ListInv, HandlePresence
  PROVE  ListInv'
<1>1. [call |-> "updateUserList"] \in Call
  BY DEF Call
<1>2. /\ inbox # <<>> /\ handling' = FALSE /\ UNCHANGED <<session, thread, shownUsers>>
  BY DEF HandlePresence
<1>3. CASE participants' # participants
  <2>1. Queue([call |-> "updateUserList"])
    BY <1>3 DEF HandlePresence, Announced
  <2>2. Updating(calls')
    BY <1>1, <2>1, UpdatingQueued
  <2> QED
    BY <1>2, <2>2 DEF ListInv
<1>4. CASE participants' = participants
  <2>1. calls' = calls
    BY <1>4 DEF HandlePresence, Announced
  <2>2. ~handling
    BY <1>4, ParticipantsOfPresence DEF ListInv, Racing
  <2> QED
    BY <1>2, <1>4, <2>1, <2>2 DEF ListInv
<1> QED
  BY <1>3, <1>4

LEMMA ListOfThread ==
  ASSUME RoomTypes, LoginInv, ListInv, GlooxThread
  PROVE  ListInv'
<1>1. ASSUME NEW d \in 1..MaxSessions, Joined(d) PROVE ListInv'
  <2>1. /\ thread[d] = "connecting" /\ d = session /\ thread' = [thread EXCEPT ![d] = "online"]
        /\ UNCHANGED <<session, participants, calls, handling, shownUsers>>
    BY <1>1 DEF Joined, chatVars
  <2>2. session' > 0 /\ thread'[session'] = "online"
    BY <2>1, ChatAssumption DEF LoginInv
  <2>3. inbox = <<>> /\ ~handling
    BY <2>1 DEF ListInv, Racing
  <2> QED
    BY <2>1, <2>2, <2>3 DEF ListInv
<1>2. ASSUME NEW d \in 1..MaxSessions, ThreadEnds(d) PROVE ListInv'
  <2>1. d = session
    BY <1>2 DEF LoginInv, OneThread, ThreadEnds, Running
  <2>2. ~handling /\ inbox' = <<>> /\ UNCHANGED <<participants, calls, handling, shownUsers>>
    BY <1>2, <2>1 DEF ThreadEnds, chatVars
  <2> QED
    BY <2>2 DEF ListInv
<1>3. [call |-> "updateUserList"] \in Call /\ \A n \in Nicks : [call |-> "beginPrivate", nick |-> n] \in Call
  BY DEF Call
<1>4. CASE HandleVCard \/ \E n \in Nicks : PrivateMessage(n)
  <2>1. UNCHANGED <<session, thread, inbox, participants, handling, shownUsers>>
    BY <1>4 DEF HandleVCard, PrivateMessage, roomVars
  <2>2. Updating(calls) => Updating(calls')
    BY <1>3, <1>4, UpdatingQueued DEF HandleVCard, PrivateMessage
  <2> QED
    BY <2>1, <2>2, ListSame
<1> QED
  BY <1>1, <1>2, <1>4, ListOfPresence DEF GlooxThread

LEMMA ListOfMain ==
  ASSUME RoomTypes, ListInv, MainThread
  PROVE  ListInv'
<1>1. CASE TrayBlink \/ ToggleWindow \/ LoginEmpty \/ LoginBySite \/ LoginLock \/ EscapeForm \/ Mentioned
  BY <1>1, ListSame DEF TrayBlink, ToggleWindow, LoginEmpty, LoginBySite, LoginLock, EscapeForm, Mentioned, roomVars, chatVars
<1>2. CASE ConfirmedLogin
  <2>1. handling' = FALSE /\ inbox' = <<>> /\ shownUsers' = {} /\ participants' = <<>>
    BY <1>2 DEF ConfirmedLogin
  <2> QED
    BY <2>1, NothingReceived DEF ListInv
<1>3. CASE LoginDirectly \/ RequestFinish
  BY <1>2, <1>3, ListSame DEF LoginDirectly, RequestFinish, roomVars, chatVars
<1>4. CASE UpdateUserList
  <2>1. /\ UNCHANGED <<session, thread, inbox, participants>>
        /\ \/ shownUsers' = ToSet(participants) /\ UNCHANGED handling
           \/ Racing /\ handling' = TRUE
    BY <1>4 DEF UpdateUserList, roomVars
  <2> QED
    BY <2>1 DEF ListInv, Racing
<1>5. CASE MessageBeginsPrivate
  <2>1. UNCHANGED <<session, thread, inbox, participants, handling, shownUsers>>
    BY <1>5 DEF MessageBeginsPrivate, roomVars
  <2>2. Updating(calls) => Updating(calls')
    <3>1. calls # <<>> /\ Head(calls).call # "updateUserList" /\ calls' = Tail(calls)
      BY <1>5 DEF MessageBeginsPrivate
    <3> QED
      BY <3>1, UpdatingTail
  <2> QED
    BY <2>1, <2>2, ListSame
<1>6. CASE \/ \E n \in Nicks : UserBeginsPrivate(n)
           \/ \E i \in DOMAIN tabs : OnTabClose(i)
  BY <1>6, ListSame DEF UserBeginsPrivate, OnTabClose, roomVars
<1> QED
  BY <1>1, <1>3, <1>4, <1>5, <1>6 DEF MainThread

LEMMA ListStep == RoomTypes /\ LoginInv /\ ListInv /\ [Next]_vars => ListInv'
<1> SUFFICES ASSUME RoomTypes, LoginInv, ListInv, [Next]_vars PROVE ListInv'
  OBVIOUS
<1>1. CASE UNCHANGED vars
  BY <1>1, ListSame DEF vars, roomVars, chatVars
<1>2. ASSUME NEW n \in Nicks, NEW here \in BOOLEAN, RoomPresence(n, here) PROVE ListInv'
  <2>1. /\ session > 0 /\ thread[session] = "online" /\ inbox' = Append(inbox, [nick |-> n, here |-> here])
        /\ UNCHANGED <<session, thread, participants, calls, handling, shownUsers>>
    BY <1>2 DEF RoomPresence, chatVars
  <2>2. inbox # <<>> => inbox' # <<>> /\ Head(inbox') = Head(inbox)
    <3>1. inbox \in Seq(Presence) /\ [nick |-> n, here |-> here] \in Presence
      BY DEF RoomTypes, Presence
    <3> QED
      BY <2>1, <3>1, AppendProperties, HeadTailProperties, LenProperties, EmptySeq
  <2>3. Racing => Racing'
    BY <2>1, <2>2 DEF Racing
  <2> QED
    BY <2>1, <2>3 DEF ListInv
<1> QED
  BY <1>1, <1>2, ListOfThread, ListOfMain DEF Next

-----------------------------------------------------------------------------
(* The room and the list of participants *)

Online == session > 0 /\ thread[session] = "online"

\* What the client knows of n, or is about to be told, is how it is in the room.
FollowsRoom(n) ==
  /\ \A i \in DOMAIN inbox : LastWord(n, i) => (inbox[i].here <=> n \in room)
  /\ (\A i \in DOMAIN inbox : inbox[i].nick # n) => (n \in ToSet(participants) <=> n \in room)

RoomInv ==
  /\ session > 0 /\ thread[session] = "connecting" => participants = <<>>
  /\ Online => \A n \in Nicks : FollowsRoom(n)

LEMMA FollowsInit == Init => RoomInv
BY DEF Init, RoomInv, Online

LEMMA FollowsSame ==
  ASSUME RoomInv, UNCHANGED <<session, thread, room, inbox, participants>>
  PROVE  RoomInv'
BY DEF RoomInv, Online, FollowsRoom, LastWord

\* The server sends a presence of everybody in the room, and of nobody else.
LEMMA EveryoneIsSent ==
  ASSUME NEW S, IsFiniteSet(S), NEW q \in SetToSeqs(S)
  PROVE  \A x : x \in S <=> \E i \in DOMAIN q : q[i] = x
<1>1. PICK k \in Nat : k = Cardinality(S)
  BY FS_CardinalityType
<1>2. q \in [1..k -> S] /\ \A i, j \in 1..k : i # j => q[i] # q[j]
  BY <1>1 DEF SetToSeqs
<1>3. IsFiniteSet(1..k) /\ Cardinality(1..k) = k
  BY FS_Interval
<1>4. q \in Injection(1..k, S)
  BY <1>2 DEF Injection, IsInjective
<1>5. q \in Surjection(1..k, S)
  BY <1>1, <1>3, <1>4, FS_Injection
<1> QED
  BY <1>2, <1>5 DEF Surjection

LEMMA FollowsOfJoined ==
  ASSUME RoomTypes, LoginInv, RoomInv, NEW d \in 1..MaxSessions, Joined(d)
  PROVE  RoomInv'
<1> DEFINE there == [nick : room, here : {TRUE}]
<1>1. /\ thread[d] = "connecting" /\ d = session /\ thread' = [thread EXCEPT ![d] = "online"]
      /\ UNCHANGED <<session, room, participants>> /\ inbox' \in SetToSeqs(there)
  BY DEF Joined, chatVars
<1>2. participants = <<>> /\ thread'[session'] = "online"
  BY <1>1, ChatAssumption DEF RoomInv, LoginInv
<1>3. IsFiniteSet(room)
  BY ChatAssumption, FS_Subset DEF RoomTypes
<1>4. IsFiniteSet(there)
  <2> DEFINE f == [n \in room |-> [nick |-> n, here |-> TRUE]]
  <2>1. \A n \in room : f[n] \in there
    OBVIOUS
  <2>2. ASSUME NEW x \in there PROVE \E n \in room : f[n] = x
    <3>1. x.nick \in room /\ x = [nick |-> x.nick, here |-> TRUE]
      OBVIOUS
    <3> QED
      BY <3>1
  <2> HIDE DEF there
  <2>3. f \in [room -> there]
    BY <2>1
  <2> HIDE DEF f
  <2>4. f \in Surjection(room, there)
    BY <2>2, <2>3 DEF Surjection
  <2> QED
    BY <1>3, <2>4, FS_Surjection
<1>5. \A x : x \in there <=> \E i \in DOMAIN inbox' : inbox'[i] = x
  <2> HIDE DEF there
  <2> QED
    BY <1>1, <1>4, EveryoneIsSent
<1>6. \A i \in DOMAIN inbox' : inbox'[i].nick \in room /\ inbox'[i].here = TRUE
  <2>1. \A x \in there : x.nick \in room /\ x.here = TRUE
    OBVIOUS
  <2> HIDE DEF there
  <2> QED
    BY <1>5, <2>1
<1>7. ASSUME NEW n \in Nicks PROVE FollowsRoom(n)'
  <2>1. ASSUME NEW i \in DOMAIN inbox', inbox'[i].nick = n PROVE inbox'[i].here <=> n \in room
    BY <1>6, <2>1
  <2>2. ASSUME n \in room PROVE \E i \in DOMAIN inbox' : inbox'[i].nick = n
    <3>1. [nick |-> n, here |-> TRUE] \in there
      BY <2>2
    <3>2. PICK i \in DOMAIN inbox' : inbox'[i] = [nick |-> n, here |-> TRUE]
      BY <1>5, <3>1
    <3> QED
      BY <3>2
  <2>3. ToSet(participants') = {}
    BY <1>1, <1>2, NothingReceived
  <2> QED
    BY <1>1, <2>1, <2>2, <2>3 DEF FollowsRoom, LastWord
<1> QED
  BY <1>1, <1>2, <1>7 DEF RoomInv, Online

\* A presence is handled: the client knows of the one it is of what the room has said.
LEMMA FollowsOfPresence ==
  ASSUME RoomTypes, ListInv, RoomInv, HandlePresence
  PROVE  RoomInv'
<1> DEFINE h == Head(inbox).nick
           knows == IF Head(inbox).here THEN ToSet(participants) \cup {h} ELSE ToSet(participants) \ {h}
<1>1. UNCHANGED <<session, thread, room>> /\ inbox # <<>> /\ inbox' = Tail(inbox)
  BY DEF HandlePresence
<1>2. Online /\ Online' /\ \A n \in Nicks : FollowsRoom(n)
  BY <1>1 DEF ListInv, RoomInv, Online
<1>3. ToSet(participants') = knows
  BY ParticipantsOfPresence
<1>4. /\ inbox \in Seq(Presence) /\ Len(inbox) \in Nat \ {0} /\ DOMAIN inbox = 1..Len(inbox)
      /\ Head(inbox) = inbox[1] /\ inbox' \in Seq(Presence) /\ Len(inbox') = Len(inbox) - 1
      /\ \A i \in 1..Len(inbox') : inbox'[i] = inbox[i + 1]
  BY <1>1, LenProperties, EmptySeq, HeadTailProperties DEF RoomTypes
<1>5. DOMAIN inbox' = 1..(Len(inbox) - 1)
  BY <1>4, LenProperties
<1>6. ASSUME NEW n \in Nicks PROVE FollowsRoom(n)'
  <2>1. ASSUME NEW i \in DOMAIN inbox', LastWord(n, i)' PROVE inbox'[i].here <=> n \in room'
    <3>1. i + 1 \in DOMAIN inbox /\ inbox'[i] = inbox[i + 1]
      BY <1>4, <1>5
    <3>2. inbox[i + 1].nick = n
      BY <2>1, <3>1 DEF LastWord
    <3>3. ASSUME NEW j \in DOMAIN inbox, j > i + 1 PROVE inbox[j].nick # n
      <4>1. j - 1 \in DOMAIN inbox' /\ j - 1 > i /\ (j - 1) + 1 = j
        BY <1>4, <1>5, <3>3
      <4>2. inbox'[j - 1] = inbox[j]
        BY <1>4, <1>5, <4>1
      <4> QED
        BY <2>1, <4>1, <4>2 DEF LastWord
    <3>4. LastWord(n, i + 1)
      BY <3>2, <3>3 DEF LastWord
    <3> QED
      BY <1>1, <1>2, <3>1, <3>4 DEF FollowsRoom
  <2>2. ASSUME \A i \in DOMAIN inbox' : inbox'[i].nick # n
        PROVE  n \in ToSet(participants') <=> n \in room'
    <3>1. \A j \in DOMAIN inbox : j > 1 => inbox[j].nick # n
      <4> SUFFICES ASSUME NEW j \in DOMAIN inbox, j > 1 PROVE inbox[j].nick # n
        OBVIOUS
      <4>1. j - 1 \in DOMAIN inbox' /\ (j - 1) + 1 = j
        BY <1>4, <1>5
      <4>2. inbox'[j - 1] = inbox[j]
        BY <1>4, <1>5, <4>1
      <4> QED
        BY <2>2, <4>1, <4>2
    <3>2. 1 \in DOMAIN inbox /\ inbox[1] = Head(inbox) /\ inbox[1].nick = h
      BY <1>4
    <3>3. CASE n = h
      <4>1. LastWord(n, 1)
        BY <3>1, <3>2, <3>3 DEF LastWord
      <4>2. Head(inbox).here <=> n \in room
        BY <1>2, <3>2, <4>1 DEF FollowsRoom
      <4> QED
        BY <1>1, <1>3, <3>3, <4>2
    <3>4. CASE n # h
      <4>1. \A j \in DOMAIN inbox : inbox[j].nick # n
        <5>1. \A j \in DOMAIN inbox : j = 1 \/ j > 1
          BY <1>4
        <5> QED
          BY <3>1, <3>2, <3>4, <5>1
      <4>2. n \in ToSet(participants) <=> n \in room
        BY <1>2, <4>1 DEF FollowsRoom
      <4> QED
        BY <1>1, <1>3, <3>4, <4>2
    <3> QED
      BY <3>3, <3>4
  <2> QED
    BY <2>1, <2>2 DEF FollowsRoom
<1> QED
  BY <1>2, <1>6 DEF RoomInv, Online

\* One more presence is on its way: it is the last word of the one it is of.
LEMMA FollowsOfRoom ==
  ASSUME RoomTypes, RoomInv, NEW m \in Nicks, NEW here \in BOOLEAN, RoomPresence(m, here)
  PROVE  RoomInv'
<1> DEFINE new == [nick |-> m, here |-> here]
<1>1. /\ UNCHANGED <<session, thread, participants>> /\ Online
      /\ room' = IF here THEN room \cup {m} ELSE room \ {m}
      /\ inbox' = Append(inbox, new)
  BY DEF RoomPresence, chatVars, Online
<1>2. new \in Presence /\ new.nick = m /\ new.here = here
  BY DEF Presence
<1> HIDE DEF new
<1>3. /\ inbox \in Seq(Presence) /\ Len(inbox) \in Nat /\ DOMAIN inbox = 1..Len(inbox)
      /\ inbox' \in Seq(Presence) /\ Len(inbox') = Len(inbox) + 1
      /\ \A i \in 1..Len(inbox) : inbox'[i] = inbox[i]
      /\ inbox'[Len(inbox) + 1] = new
  BY <1>1, <1>2, LenProperties, AppendProperties DEF RoomTypes
<1>4. DOMAIN inbox' = 1..(Len(inbox) + 1)
  BY <1>3, LenProperties
<1>5. PICK last : last = Len(inbox) + 1
  OBVIOUS
<1>6. /\ last \in DOMAIN inbox' /\ inbox'[last] = new
      /\ \A i \in DOMAIN inbox' : i = last \/ (i \in DOMAIN inbox /\ last > i)
      /\ \A i \in DOMAIN inbox : i \in DOMAIN inbox' /\ inbox'[i] = inbox[i]
  BY <1>3, <1>4, <1>5
<1>7. ASSUME NEW n \in Nicks PROVE FollowsRoom(n)'
  <2>1. FollowsRoom(n)
    BY <1>1 DEF RoomInv
  <2>2. CASE n = m
    <3>1. \A i \in DOMAIN inbox' : LastWord(n, i)' => i = last
      BY <1>2, <1>6, <2>2 DEF LastWord
    <3>2. here <=> n \in room'
      BY <1>1, <2>2
    <3> QED
      BY <1>2, <1>6, <2>2, <3>1, <3>2 DEF FollowsRoom
  <2>3. CASE n # m
    <3>1. n \in room' <=> n \in room
      BY <1>1, <2>3
    <3>2. ASSUME NEW i \in DOMAIN inbox', LastWord(n, i)' PROVE inbox'[i].here <=> n \in room'
      <4>1. i \in DOMAIN inbox
        BY <1>2, <1>6, <2>3, <3>2 DEF LastWord
      <4>2. LastWord(n, i)
        BY <1>6, <3>2, <4>1 DEF LastWord
      <4> QED
        BY <1>6, <2>1, <3>1, <4>1, <4>2 DEF FollowsRoom
    <3>3. ASSUME \A i \in DOMAIN inbox' : inbox'[i].nick # n
          PROVE  n \in ToSet(participants') <=> n \in room'
      BY <1>1, <1>6, <2>1, <3>1, <3>3 DEF FollowsRoom
    <3> QED
      BY <3>2, <3>3 DEF FollowsRoom
  <2> QED
    BY <2>2, <2>3
<1>8. Online'
  BY <1>1 DEF Online
<1> QED
  BY <1>7, <1>8 DEF RoomInv, Online

LEMMA FollowsOfThread ==
  ASSUME RoomTypes, LoginInv, ListInv, RoomInv, GlooxThread
  PROVE  RoomInv'
<1>1. ASSUME NEW d \in 1..MaxSessions, ThreadEnds(d) PROVE RoomInv'
  <2>1. d = session /\ thread' = [thread EXCEPT ![d] = "over"] /\ session' = session
    BY <1>1 DEF LoginInv, OneThread, ThreadEnds, Running
  <2>2. thread'[session'] = "over"
    BY <2>1 DEF LoginInv
  <2> QED
    BY <2>2 DEF RoomInv, Online
<1>2. CASE HandleVCard \/ \E n \in Nicks : PrivateMessage(n)
  BY <1>2, FollowsSame DEF HandleVCard, PrivateMessage, roomVars
<1> QED
  BY <1>1, <1>2, FollowsOfJoined, FollowsOfPresence DEF GlooxThread

LEMMA FollowsOfMain ==
  ASSUME RoomTypes, LoginInv, RoomInv, MainThread
  PROVE  RoomInv'
<1>1. CASE TrayBlink \/ ToggleWindow \/ LoginEmpty \/ LoginBySite \/ LoginLock \/ EscapeForm \/ Mentioned
  BY <1>1, FollowsSame
     DEF TrayBlink, ToggleWindow, LoginEmpty, LoginBySite, LoginLock, EscapeForm, Mentioned, roomVars, chatVars
<1>2. CASE ConfirmedLogin
  <2>1. /\ session' = session + 1 /\ participants' = <<>>
        /\ thread' = [thread EXCEPT ![session + 1] = "connecting"] /\ session + 1 \in 1..MaxSessions
    BY <1>2, ChatAssumption DEF ConfirmedLogin, LoginInv
  <2>2. thread'[session'] = "connecting"
    BY <2>1 DEF LoginInv
  <2> QED
    BY <2>1, <2>2 DEF RoomInv, Online
<1>3. CASE LoginDirectly \/ RequestFinish
  BY <1>2, <1>3, FollowsSame DEF LoginDirectly, RequestFinish, roomVars, chatVars
<1>4. CASE UpdateUserList \/ MessageBeginsPrivate
  BY <1>4, FollowsSame DEF UpdateUserList, MessageBeginsPrivate, roomVars
<1>5. CASE \/ \E n \in Nicks : UserBeginsPrivate(n)
           \/ \E i \in DOMAIN tabs : OnTabClose(i)
  BY <1>5, FollowsSame DEF UserBeginsPrivate, OnTabClose, roomVars
<1> QED
  BY <1>1, <1>3, <1>4, <1>5 DEF MainThread

LEMMA FollowsStep == RoomTypes /\ LoginInv /\ ListInv /\ RoomInv /\ [Next]_vars => RoomInv'
<1> SUFFICES ASSUME RoomTypes, LoginInv, ListInv, RoomInv, [Next]_vars PROVE RoomInv'
  OBVIOUS
<1>1. CASE UNCHANGED vars
  BY <1>1, FollowsSame DEF vars, roomVars, chatVars
<1> QED
  BY <1>1, FollowsOfThread, FollowsOfMain, FollowsOfRoom DEF Next

\* The list that is shown is the list of participants, or is about to be: what is read while the
\* thread changes it is read again (chatdialog.cpp, updateUserList).  And the participants are the
\* occupants of the room, but for the presences that are still to be handled: once nothing is on
\* its way, the list is the room (chatdialog.cpp, handleMUCParticipantPresence).
THEOREM ListFollowsRoom == Spec => []ListFollows
<1>1. ListInv /\ RoomInv => ListFollows
  BY DEF ListInv, Updating, RoomInv, Online, FollowsRoom, ListFollows
<1>2. Spec => [](ListInv /\ RoomInv)
  BY TypePartsHold, ListInit, ListStep, FollowsInit, FollowsStep, PTL DEF Spec
<1> QED
  BY <1>1, <1>2, PTL
=============================================================================
