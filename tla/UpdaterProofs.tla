---------------------------- MODULE UpdaterProofs ----------------------------
(***************************************************************************)
(* Theorems about the updater, for any set of databases.                   *)
(***************************************************************************)
EXTENDS Updater, TLAPS

(* No check is under way while an update is ready.                         *)
ReadyIsAlone == status = "ready-to-install" => checkInProgress = "none"

IInv == TypeOK /\ StatusTellsTruth /\ ReadyIsAlone

-----------------------------------------------------------------------------
(* The screens stay well typed.                                            *)

Screens == [Views -> View]

LEMMA SetShown ==
    ASSUME NEW r \in View, NEW s \in Status, NEW op
    PROVE  /\ [r EXCEPT !.shown = s] \in View
           /\ [r EXCEPT !.awaits = @ \ {op}] \in View
           /\ [r EXCEPT !.awaits = @ \ {op},
                         !.shown = IF @ = "idle" THEN @ ELSE s] \in View
BY DEF View

LEMMA EventType ==
    ASSUME NEW screens \in Screens, NEW s \in Status, NEW src
    PROVE  Event(screens, s, src) \in Screens
<1> SUFFICES ASSUME NEW v \in Views
             PROVE  (IF /\ Heeds(v, s, src)
                        /\ ~(s = "downloading" /\ screens[v].shown = "idle")
                       THEN [screens[v] EXCEPT !.shown = s]
                       ELSE screens[v]) \in View
  BY Zenon DEF Event, Screens
<1>1. screens[v] \in View
  BY Zenon DEF Screens
<1> QED
  BY <1>1, SetShown, Zenon

LEMMA AnswerType ==
    ASSUME NEW screens \in Screens, NEW s \in Status, NEW op
    PROVE  Answer(screens, op, s) \in Screens
<1> SUFFICES ASSUME NEW v \in Views
             PROVE  (IF op \in screens[v].awaits
                       THEN [screens[v] EXCEPT !.awaits = @ \ {op},
                               !.shown = IF @ = "idle" THEN @ ELSE s]
                       ELSE screens[v]) \in View
  BY Zenon DEF Answer, Screens
<1>1. screens[v] \in View
  BY Zenon DEF Screens
<1> QED
  BY <1>1, SetShown, Zenon

LEMMA TakenType ==
    ASSUME view \in Screens, NEW v \in Views, NEW op \in Operations
    PROVE  Received(v) \in Screens /\ Taken(v, op) \in Screens
<1>1. view[v] \in View
  BY Zenon DEF Screens
<1>2. [view[v] EXCEPT !.clicked = "none"] \in View
  BY <1>1 DEF View
<1>3. Received(v) \in Screens
  BY <1>2, Zenon DEF Screens, Received
<1>4. Received(v)[v] \in View
  BY <1>3, Zenon DEF Screens
<1>5. [Received(v)[v] EXCEPT !.awaits = @ \cup {op}] \in View
  BY <1>4 DEF View
<1>6. [Received(v) EXCEPT ![v] =
         [Received(v)[v] EXCEPT !.awaits = @ \cup {op}]] \in Screens
  BY <1>3, <1>5, Zenon DEF Screens
<1> QED
  BY <1>3, <1>6, Zenon DEF Taken, Received

LEMMA ReplyType ==
    ASSUME view \in Screens, NEW v \in Views, NEW op \in Operations,
           NEW s \in Status, NEW src
    PROVE  /\ Replied(v, op, s) \in Screens
           /\ Answer(Event(Taken(v, op), s, src), op, s) \in Screens
           /\ Answer(Event(view, s, src), op, s) \in Screens
           /\ Event(Taken(v, op), s, src) \in Screens
<1>1. Taken(v, op) \in Screens
  BY TakenType
<1>2. Event(Taken(v, op), s, src) \in Screens /\ Event(view, s, src) \in Screens
  BY <1>1, EventType
<1> QED
  BY <1>1, <1>2, AnswerType DEF Replied

LEMMA ClickType ==
    ASSUME view \in Screens, NEW v \in Views, NEW op \in Operations
    PROVE  [view EXCEPT ![v].clicked = op, ![v].shown = Progressive(op)] \in Screens
<1> DEFINE once == [view EXCEPT ![v].clicked = op]
<1>1. view[v] \in View
  BY Zenon DEF Screens
<1>2. [view[v] EXCEPT !.clicked = op] \in View
  BY <1>1 DEF View
<1>3. once \in Screens
  BY <1>2, Zenon DEF Screens
<1>4. once[v] \in View
  BY <1>3, Zenon DEF Screens
<1>5. Progressive(op) \in Status
  BY DEF Progressive, Operations, Status
<1>6. [once[v] EXCEPT !.shown = Progressive(op)] \in View
  BY <1>4, <1>5, SetShown
<1> HIDE DEF once
<1>7. [once EXCEPT ![v] = [once[v] EXCEPT !.shown = Progressive(op)]] \in Screens
  BY <1>3, <1>6, Zenon DEF Screens
<1> QED
  BY <1>7, Zenon DEF once

-----------------------------------------------------------------------------
LEMMA InitIInv == Init => IInv
<1> SUFFICES ASSUME Init PROVE IInv
  OBVIOUS
<1>1. view \in Screens
  BY DEF Init, Screens, View, Status
<1>2. TypeOK
  BY <1>1, Zenon DEF Init, TypeOK, Screens, Status, Reports
<1>3. ~(launches > 0)
  BY DEF Init
<1>4. StatusTellsTruth
  BY <1>3, Zenon DEF Init, StatusTellsTruth
<1>5. ReadyIsAlone
  BY DEF Init, ReadyIsAlone
<1> QED
  BY <1>2, <1>4, <1>5 DEF IInv

(* What the screens do alone.                                              *)
LEMMA ScreenSteps ==
    ASSUME TypeOK, NEW v \in Views
    PROVE  (\E op \in Operations : Click(v, op)) \/ Dismiss(v)
             \/ Mount({"settings"}) \/ Mount(Views)
             => view' \in Screens
<1> USE DEF TypeOK
<1>0. view \in Screens
  BY DEF Screens
<1>1. ASSUME NEW op \in Operations, Click(v, op) PROVE view' \in Screens
  BY <1>0, <1>1, ClickType, Zenon DEF Click
<1>2. ASSUME Dismiss(v) PROVE view' \in Screens
  <2>1. view[v] \in View /\ "idle" \in Status
    BY <1>0, Zenon DEF Screens, Status
  <2>2. [view[v] EXCEPT !.shown = "idle"] \in View
    BY <2>1, SetShown
  <2> QED
    BY <1>0, <1>2, <2>2, Zenon DEF Dismiss, Screens
<1>3. ASSUME NEW m \in {{"settings"}, Views}, Mount(m) PROVE view' \in Screens
  <2>1. ASSUME NEW w \in Views
        PROVE  /\ view[w] \in View
               /\ [shown |-> Restored(w), clicked |-> "none",
                   awaits |-> {}] \in View
    <3>1. view[w] \in View
      BY <1>0, Zenon DEF Screens
    <3>2. Restored(w) \in Status
      BY Zenon DEF Restored, Status
    <3> QED
      BY <3>1, <3>2 DEF View
  <2> QED
    BY <1>3, <2>1, Zenon DEF Mount, Screens
<1> QED
  BY <1>1, <1>2, <1>3, Zenon

(* An operation that is given a status: the event and the answer.          *)
LEMMA FinishedType ==
    ASSUME TypeOK, NEW op \in Operations, NEW s \in Status, NEW src,
           \/ Finished(op, s, src)
           \/ \E v \in Views : Refused(v, op, s)
           \/ \E v \in Views : Send(Taken(v, op), s, src)
    PROVE  view' \in Screens /\ status' = s
<1>1. view \in Screens
  BY DEF TypeOK, Screens
<1>2. CASE Finished(op, s, src)
  <2>1. "settings" \in Views
    BY DEF Views
  <2> QED
    BY <1>1, <1>2, <2>1, ReplyType, Zenon DEF Finished
<1>3. ASSUME NEW v \in Views, Refused(v, op, s)
      PROVE  view' \in Screens /\ status' = s
  BY <1>1, <1>3, ReplyType, Zenon DEF Refused
<1>4. ASSUME NEW v \in Views, Send(Taken(v, op), s, src)
      PROVE  view' \in Screens /\ status' = s
  BY <1>1, <1>4, ReplyType, Zenon DEF Send
<1> QED
  BY <1>2, <1>3, <1>4, Zenon

LEMMA CheckStep ==
    ASSUME IInv, NEW v \in Views, Check(v)
    PROVE  IInv'
<1> USE DEF IInv, TypeOK, Operations, download
<1>0. view \in Screens
  BY DEF Screens
<1>1. CASE ~MayCheck \/ checkInProgress # "none"
  <2>1. view' \in Screens
    BY <1>0, <1>1, ReplyType, TakenType, Zenon DEF Check
  <2>2. TypeOK'
    BY <1>1, <2>1, Zenon DEF Check, state, attempt, shop, Screens
  <2> QED
    BY <1>1, <2>2, Zenon
       DEF Check, state, attempt, StatusTellsTruth, ReadyIsAlone
<1>2. CASE MayCheck /\ checkInProgress = "none"
  <2>1. Send(Taken(v, "check"), "checking", "manual") /\ checkInProgress' = "manual"
    BY <1>2, Zenon DEF Check
  <2>2. view' \in Screens /\ status' = "checking" /\ source' = "manual"
    BY <2>1, FinishedType, Zenon DEF Send, Status
  <2>3. TypeOK'
    BY <2>1, <2>2, Zenon DEF Check, attempt, shop, Screens, Status
  <2>4. StatusTellsTruth'
    BY <1>2, <2>1, <2>2, Zenon DEF Check, attempt, StatusTellsTruth, MayCheck
  <2> QED
    BY <2>2, <2>3, <2>4, Zenon DEF ReadyIsAlone
<1> QED
  BY <1>1, <1>2, Zenon

LEMMA AutomaticCheckStep ==
    ASSUME IInv, AutomaticCheck
    PROVE  IInv'
<1> USE DEF IInv, TypeOK, AutomaticCheck, state, download, attempt, shop
<1>1. TypeOK'
  BY Zenon
<1>2. StatusTellsTruth'
  BY Zenon DEF StatusTellsTruth, MayCheck
<1>3. ReadyIsAlone'
  BY Zenon DEF ReadyIsAlone, MayCheck
<1> QED
  BY <1>1, <1>2, <1>3, Zenon

LEMMA CheckEndsStep ==
    ASSUME IInv, CheckEnds
    PROVE  IInv'
<1> USE DEF IInv, TypeOK, Operations, download
<1>1. /\ checkInProgress' = "none" /\ checkInProgress # "none"
      /\ UNCHANGED <<download, backingUp, copied, installer, launches, shop>>
  BY Zenon DEF CheckEnds
<1>2. ~downloadInProgress /\ ~installInProgress /\ ~backingUp /\ ~(launches > 0)
  BY <1>1, Zenon DEF StatusTellsTruth
<1>3. installInProgress = FALSE /\ installInProgress' = FALSE
  BY <1>2, Zenon DEF CheckEnds, ErrorEvent
<1>4. /\ view' \in Screens
      /\ status' \in Status
      /\ ~(status' = "checking") /\ ~(status' = "downloading")
      /\ ~(status' = "installing")
      /\ source' \in {"manual", "background"}
  <2>1. view \in Screens
    BY DEF Screens
  <2>2. CASE \E s \in {"available", "not-available", "error"} :
               \E src \in {"manual", "background"} : Finished("check", s, src)
    BY <2>2, FinishedType, Zenon DEF Finished, Status
  <2>3. CASE status' = "idle" /\ source' = "background" /\ UNCHANGED view
    BY <2>1, <2>3, Zenon DEF Status
  <2>4. CASE checkInProgress = "background" /\ UNCHANGED <<state, view>>
    BY <1>2, <2>1, <2>4, Zenon DEF state, StatusTellsTruth
  <2> QED
    BY <2>2, <2>3, <2>4, Zenon DEF CheckEnds
<1>5. TypeOK'
  BY <1>1, <1>3, <1>4, Zenon DEF shop, Screens
<1>6. StatusTellsTruth'
  BY <1>1, <1>2, <1>3, <1>4, Zenon DEF StatusTellsTruth
<1> QED
  BY <1>1, <1>5, <1>6, Zenon DEF ReadyIsAlone

LEMMA DownloadStep ==
    ASSUME IInv, NEW v \in Views, Download(v)
    PROVE  IInv'
<1> USE DEF IInv, TypeOK, Operations, download
<1>1. /\ view \in Screens
      /\ UNCHANGED <<checkInProgress, reported, attempt, installer, launches,
                     shop>>
  BY Zenon DEF Screens, Download
<1>2. CASE (installInProgress \/ ~Idle) /\ UNCHANGED <<state, downloadInProgress>>
           /\ view' = Replied(v, "download", "error")
  <2>1. view' \in Screens
    <3>1. "error" \in Status
      BY DEF Status
    <3> QED
      BY <1>1, <1>2, <3>1, ReplyType, Zenon
  <2>2. TypeOK'
    BY <1>1, <1>2, <2>1, Zenon DEF state, attempt, shop, Screens
  <2> QED
    BY <1>1, <1>2, <2>2, Zenon
       DEF state, attempt, StatusTellsTruth, ReadyIsAlone
<1>3. CASE /\ ~installInProgress /\ Idle
           /\ Refused(v, "download", "blocked") /\ UNCHANGED downloadInProgress
  <2>1. view' \in Screens /\ status' = "blocked" /\ source' = source
    BY <1>3, FinishedType, Zenon DEF Refused, Status
  <2>2. TypeOK'
    BY <1>1, <1>3, <2>1, Zenon DEF attempt, shop, Screens, Status
  <2>3. StatusTellsTruth'
    BY <1>1, <1>3, <2>1, Zenon DEF attempt, Idle, StatusTellsTruth
  <2> QED
    BY <2>1, <2>2, <2>3, Zenon DEF ReadyIsAlone
<1>4. CASE /\ ~installInProgress /\ Idle /\ downloadInProgress' = TRUE
           /\ Send(Taken(v, "download"), "downloading", source)
  <2>1. view' \in Screens /\ status' = "downloading" /\ source' = source
    BY <1>4, FinishedType, Zenon DEF Send, Status
  <2>2. TypeOK'
    BY <1>1, <1>4, <2>1, Zenon DEF attempt, shop, Screens, Status
  <2>3. StatusTellsTruth'
    BY <1>1, <1>4, <2>1, Zenon DEF attempt, Idle, StatusTellsTruth
  <2> QED
    BY <2>1, <2>2, <2>3, Zenon DEF ReadyIsAlone
<1> QED
  BY <1>2, <1>3, <1>4, Zenon DEF Download

(* The events of a download and its end.                                   *)
LEMMA DownloadRuns ==
    ASSUME IInv, Progress \/ Downloaded \/ DownloadFails \/ DownloadEnds
    PROVE  IInv'
<1> USE DEF IInv, TypeOK, Operations, download
<1>1. /\ view \in Screens /\ "settings" \in Views
      /\ downloadInProgress /\ checkInProgress = "none"
      /\ installInProgress = FALSE /\ backingUp = FALSE /\ ~(launches > 0)
      /\ UNCHANGED <<checkInProgress, backingUp, copied, launches, shop>>
  BY Zenon DEF Screens, Views, Progress, Downloaded, DownloadFails,
     DownloadEnds, StatusTellsTruth, attempt
<1>2. CASE Progress
  <2>1. ASSUME NEW w \in Views
        PROVE  /\ view[w] \in View
               /\ [view[w] EXCEPT !.shown = "downloading"] \in View
    BY <1>1, SetShown, Zenon DEF Screens, Status
  <2>2. view' \in Screens
    BY <1>2, <2>1, Zenon DEF Progress, Screens
  <2>3. TypeOK'
    BY <1>2, <2>2, Zenon
       DEF Progress, download, attempt, shop, Screens, Status, Reports
  <2> QED
    BY <1>1, <1>2, <2>3, Zenon
       DEF Progress, download, attempt, StatusTellsTruth, ReadyIsAlone
<1>3. ASSUME NEW s \in {"ready-to-install", "error"},
             Send(view, s, source), reported' = s,
             UNCHANGED downloadInProgress, installer' \in BOOLEAN,
             installInProgress' = FALSE
      PROVE  IInv'
  <2>1. /\ view' \in Screens /\ status' = s /\ source' = source
        /\ s \in Status
    BY <1>1, <1>3, EventType, Zenon DEF Send, Status
  <2>2. TypeOK'
    BY <1>1, <1>3, <2>1, Zenon DEF shop, Screens, Reports
  <2>3. StatusTellsTruth'
    BY <1>1, <1>3, <2>1, Zenon DEF StatusTellsTruth
  <2> QED
    BY <1>1, <2>2, <2>3, Zenon DEF ReadyIsAlone
<1>4. CASE Downloaded
  BY <1>1, <1>3, <1>4, Zenon DEF Downloaded, attempt
<1>5. CASE DownloadFails
  BY <1>1, <1>3, <1>5, Zenon DEF DownloadFails, ErrorEvent
<1>6. CASE DownloadEnds
  <2>1. /\ downloadInProgress' = FALSE /\ reported' = "nothing"
        /\ installInProgress' = FALSE /\ UNCHANGED installer
    BY <1>1, <1>6, Zenon DEF DownloadEnds, attempt
  <2>2. /\ view' \in Screens /\ source' = source
        /\ status' = "ready-to-install" \/ status' = "error"
    <3>1. CASE Finished("download", "error", source)
      BY <3>1, FinishedType, Zenon DEF Finished, Status
    <3>2. CASE /\ reported = "ready-to-install" /\ UNCHANGED state
               /\ view' = [v \in Views |->
                            [view[v] EXCEPT !.awaits = @ \ {"download"}]]
      <4>1. ASSUME NEW w \in Views
            PROVE  [view[w] EXCEPT !.awaits = @ \ {"download"}] \in View
        <5>1. view[w] \in View /\ "idle" \in Status
          BY <1>1, Zenon DEF Screens, Status
        <5> QED
          BY <5>1, SetShown, Zenon
      <4>2. view' \in Screens
        BY <3>2, <4>1, Zenon DEF Screens
      <4> QED
        BY <3>2, <4>2, Zenon DEF state, StatusTellsTruth
    <3> QED
      BY <1>6, <3>1, <3>2, Zenon DEF DownloadEnds
  <2>3. TypeOK'
    BY <1>1, <2>1, <2>2, Zenon DEF shop, Screens, Status,
     Reports
  <2>4. StatusTellsTruth'
    BY <1>1, <2>1, <2>2, Zenon DEF StatusTellsTruth
  <2> QED
    BY <1>1, <2>3, <2>4, Zenon DEF ReadyIsAlone
<1> QED
  BY <1>2, <1>4, <1>5, <1>6

LEMMA InstallStep ==
    ASSUME IInv, NEW v \in Views, Install(v)
    PROVE  IInv'
<1> USE DEF IInv, TypeOK, Operations, download
<1>1. /\ view \in Screens
      /\ UNCHANGED <<checkInProgress, download, installer, launches, shop>>
  BY Zenon DEF Screens, Install
<1>2. CASE UNCHANGED <<state, attempt>>
           /\ (view' = Received(v) \/ view' = Replied(v, "install", "error"))
  <2>1. view' \in Screens
    <3>1. "error" \in Status
      BY DEF Status
    <3> QED
      BY <1>1, <1>2, <3>1, ReplyType, TakenType, Zenon
  <2>2. TypeOK'
    BY <1>1, <1>2, <2>1, Zenon DEF state, attempt, shop, Screens
  <2> QED
    BY <1>1, <1>2, <2>2, Zenon
       DEF state, attempt, StatusTellsTruth, ReadyIsAlone
<1>3. CASE /\ ~installInProgress /\ Idle /\ UNCHANGED attempt
           /\ Refused(v, "install", "blocked") \/ Refused(v, "install", "error")
  <2>1. /\ view' \in Screens /\ source' = source
        /\ status' = "blocked" \/ status' = "error"
    BY <1>3, FinishedType, Zenon DEF Refused, Status
  <2>2. TypeOK'
    BY <1>1, <1>3, <2>1, Zenon DEF attempt, shop, Screens, Status
  <2>3. StatusTellsTruth'
    BY <1>1, <1>3, <2>1, Zenon DEF attempt, Idle, StatusTellsTruth
  <2> QED
    BY <2>1, <2>2, <2>3, Zenon DEF ReadyIsAlone
<1>4. CASE ~installInProgress /\ Idle /\ StartInstall(v)
  <2>1. /\ view' \in Screens /\ status' = "installing" /\ source' = source
        /\ installInProgress' = TRUE /\ backingUp' = TRUE /\ copied' = {}
    BY <1>4, FinishedType, Zenon DEF StartInstall, Send, Status
  <2>2. TypeOK'
    BY <1>1, <1>4, <2>1, Zenon DEF shop, Screens, Status
  <2>3. launches = 0 /\ launches' = 0
    <3>1. ~(launches > 0)
      BY <1>4, Zenon DEF StatusTellsTruth
    <3> QED
      BY <1>1, <3>1, SMT
  <2>4. StatusTellsTruth'
    BY <1>1, <1>4, <2>1, <2>3, Zenon DEF Idle, StatusTellsTruth
  <2> QED
    BY <2>1, <2>2, <2>4, Zenon DEF ReadyIsAlone
<1> QED
  BY <1>2, <1>3, <1>4, Zenon DEF Install

(* An attempt to install that is given up.                                 *)
LEMMA GivenUp ==
    ASSUME IInv, backingUp, NEW s \in {"error", "blocked"}, GiveUp(s),
           UNCHANGED <<checkInProgress, download, installer, launches, shop>>
    PROVE  IInv'
<1> USE DEF IInv, TypeOK, Operations, download
<1>1. /\ installInProgress = TRUE /\ downloadInProgress = FALSE
      /\ checkInProgress = "none" /\ ~(launches > 0) /\ launches = 0
  <2>1. installInProgress /\ status = "installing" /\ launches = 0
    BY Zenon DEF StatusTellsTruth
  <2>2. ~downloadInProgress /\ checkInProgress = "none"
    BY <2>1, Zenon DEF StatusTellsTruth
  <2>3. ~(launches > 0)
    BY <2>1, SMT
  <2> QED
    BY <2>1, <2>2, <2>3, Zenon
<1>2. /\ view' \in Screens /\ source' = source
      /\ status' = "error" \/ status' = "blocked"
      /\ installInProgress' = FALSE /\ backingUp' = FALSE /\ copied' = {}
      /\ downloadInProgress' = FALSE /\ reported' = reported
      /\ reported = "nothing"
  <2>1. Finished("install", s, source) /\ s \in Status
    BY Zenon DEF GiveUp, Status
  <2> QED
    BY <1>1, <2>1, FinishedType, Zenon
       DEF GiveUp, Finished, download, StatusTellsTruth
<1>3. TypeOK'
  BY <1>1, <1>2, Zenon DEF shop, Screens, Status
<1>4. StatusTellsTruth'
  BY <1>1, <1>2, Zenon DEF StatusTellsTruth
<1> QED
  BY <1>1, <1>3, <1>4, Zenon DEF ReadyIsAlone

LEMMA CopyStep ==
    ASSUME IInv, NEW d \in Databases, Copy(d)
    PROVE  IInv'
<1> USE DEF IInv, TypeOK
<1>1. CASE GiveUp("error")
  BY <1>1, GivenUp, Zenon DEF Copy
<1>2. CASE /\ copied' = copied \cup {d}
           /\ UNCHANGED <<state, installInProgress, backingUp, view>>
  <2>1. copied' \subseteq Databases
    BY <1>2, Zenon
  <2>2. TypeOK'
    BY <1>2, <2>1, Zenon DEF Copy, state, download, shop
  <2> QED
    BY <1>2, <2>2, Zenon
       DEF Copy, state, download, StatusTellsTruth, ReadyIsAlone
<1> QED
  BY <1>1, <1>2, Zenon DEF Copy

LEMMA LaunchStep ==
    ASSUME IInv, Launch
    PROVE  IInv'
<1> USE DEF IInv, TypeOK
<1>1. backingUp /\ installInProgress = TRUE /\ launches = 0
      /\ status = "installing"
  BY Zenon DEF Launch, StatusTellsTruth
<1>2. CASE \E s \in {"error", "blocked"} :
              GiveUp(s) /\ UNCHANGED <<launches, leaving>>
  BY <1>1, <1>2, GivenUp, Zenon DEF Launch, shop
<1>3. CASE /\ launches' = launches + 1 /\ leaving' = "quitting"
           /\ backingUp' = FALSE /\ copied' = {}
           /\ UNCHANGED <<state, installInProgress, view>>
  <2>1. launches' = 1
    BY <1>1, <1>3, SMT
  <2>2. TypeOK'
    BY <1>3, <2>1, Zenon DEF Launch, state, download
  <2> QED
    BY <1>1, <1>3, <2>2, Zenon
       DEF Launch, state, download, StatusTellsTruth, ReadyIsAlone
<1> QED
  BY <1>2, <1>3, Zenon DEF Launch, Hindrance

LEMMA InstallerLostStep ==
    ASSUME IInv, InstallerLost
    PROVE  IInv'
<1> USE DEF IInv, TypeOK, InstallerLost, state, download, attempt, shop
<1>1. TypeOK'
  BY Zenon
<1> QED
  BY <1>1, Zenon DEF StatusTellsTruth, ReadyIsAlone

(* Neither the pages, the exit nor the screens alone touch the updater.    *)
LEMMA ShopStep ==
    ASSUME IInv, UNCHANGED main, view' \in Screens,
           \/ UNCHANGED shop
           \/ \E what \in {"operation", "outbox"} : Tell(what)
           \/ Work \/ Navigate \/ RequestExit \/ AnswerDialog \/ Quit
    PROVE  IInv'
<1> USE DEF IInv, TypeOK, main, state, download, attempt
<1>1. told' \subseteq {"operation", "outbox"}
  BY DEF Tell, Work, Navigate, RequestExit, AnswerDialog, Quit, shop
<1>2. work' \in BOOLEAN /\ onPos' \in BOOLEAN
  BY Zenon DEF Tell, Work, Navigate, RequestExit, AnswerDialog, Quit, shop
<1>3. leaving' \in {"no", "dialog", "quitting", "quit"}
  BY Zenon DEF Tell, Work, Navigate, RequestExit, AnswerDialog, Quit, shop
<1>4. TypeOK'
  BY <1>1, <1>2, <1>3, Zenon DEF Screens
<1> QED
  BY <1>4, Zenon DEF StatusTellsTruth, ReadyIsAlone

LEMMA NextIInv == IInv /\ [Next]_vars => IInv'
<1> SUFFICES ASSUME IInv, [Next]_vars PROVE IInv'
  OBVIOUS
<1>0. view \in Screens
  BY Zenon DEF IInv, TypeOK, Screens
<1>1. ASSUME NEW v \in Views,
             (\E op \in Operations : Click(v, op)) \/ Dismiss(v)
      PROVE  IInv'
  <2>1. view' \in Screens
    BY <1>1, ScreenSteps, Zenon DEF IInv
  <2>2. UNCHANGED <<main, shop>>
    BY <1>1, Zenon DEF Click, Dismiss
  <2> QED
    BY <2>1, <2>2, ShopStep, Zenon
<1>2. CASE Mount({"settings"}) \/ Mount(Views)
  <2>1. "settings" \in Views
    BY DEF Views
  <2>2. view' \in Screens
    BY <1>2, <2>1, ScreenSteps, Zenon DEF IInv
  <2>3. UNCHANGED <<main, shop>>
    BY <1>2, Zenon DEF Mount
  <2> QED
    BY <2>2, <2>3, ShopStep, Zenon
<1>3. ASSUME NEW v \in Views, Handle(v) PROVE IInv'
  BY <1>3, CheckStep, DownloadStep, InstallStep, Zenon DEF Handle
<1>4. CASE AutomaticCheck \/ CheckEnds
  BY <1>4, AutomaticCheckStep, CheckEndsStep, Zenon
<1>5. CASE Progress \/ Downloaded \/ DownloadFails \/ DownloadEnds
  BY <1>5, DownloadRuns, Zenon
<1>6. ASSUME NEW d \in Databases, Copy(d) PROVE IInv'
  BY <1>6, CopyStep, Zenon
<1>7. CASE Launch \/ InstallerLost
  BY <1>7, LaunchStep, InstallerLostStep, Zenon
<1>8. CASE (\E what \in {"operation", "outbox"} : Tell(what))
             \/ Work \/ Navigate \/ RequestExit \/ AnswerDialog \/ Quit
  <2>1. UNCHANGED <<main, view>>
    BY <1>8, Zenon DEF Tell, Work, Navigate, RequestExit, AnswerDialog, Quit
  <2> QED
    BY <1>0, <1>8, <2>1, ShopStep, Zenon
<1>9. CASE UNCHANGED vars
  BY <1>0, <1>9, ShopStep, Zenon DEF vars
<1> QED
  BY <1>1, <1>2, <1>3, <1>4, <1>5, <1>6, <1>7, <1>8, <1>9, Zenon DEF Next

LEMMA Invariance == Spec => []IInv
BY InitIInv, NextIInv, PTL DEF Spec

-----------------------------------------------------------------------------
(* Every reachable state is well typed; in particular at most one          *)
(* installer is ever launched.                                             *)
THEOREM TypeCorrect == Spec => []TypeOK
<1>1. IInv => TypeOK
  BY DEF IInv
<1> QED
  BY <1>1, Invariance, PTL

(* The status names the one operation that is under way.                   *)
THEOREM OneOperation == Spec => []StatusTellsTruth
<1>1. IInv => StatusTellsTruth
  BY DEF IInv
<1> QED
  BY <1>1, Invariance, PTL

(* No check takes a downloaded update away, and no handler does before the *)
(* download has ended.                                                     *)
THEOREM ReadyKept == Spec => ReadyIsKept
<1> DEFINE Kept ==
      status = "ready-to-install" /\ status' # status =>
        \/ downloadInProgress /\ status' = "error"
        \/ /\ status' \in {"installing", "downloading", "blocked", "error"}
           /\ \E v \in Views : view[v].clicked \in {"install", "download"}
           /\ ~downloadInProgress
<1>1. ASSUME IInv, [Next]_vars PROVE Kept
  <2> SUFFICES ASSUME status = "ready-to-install", status' # status
               PROVE  \/ downloadInProgress /\ status' = "error"
                      \/ /\ status' \in {"installing", "downloading",
                                         "blocked", "error"}
                         /\ \E v \in Views :
                               view[v].clicked \in {"install", "download"}
                         /\ ~downloadInProgress
    OBVIOUS
  <2>1. /\ checkInProgress = "none" /\ ~backingUp /\ ~MayCheck
        /\ downloadInProgress => reported # "nothing"
    BY <1>1, Zenon DEF IInv, StatusTellsTruth, ReadyIsAlone, MayCheck
  <2>2. /\ ~CheckEnds /\ ~Progress /\ ~Downloaded /\ ~AutomaticCheck
        /\ ~Launch
    BY <2>1, Zenon
       DEF CheckEnds, Progress, Downloaded, AutomaticCheck, Launch
  <2>3. ASSUME NEW d \in Databases PROVE ~Copy(d)
    BY <2>1, Zenon DEF Copy
  <2>4. ASSUME NEW v \in Views PROVE ~Check(v)
    BY <2>1, Zenon DEF Check, state
  <2>5. ASSUME NEW v \in Views, Download(v)
        PROVE  /\ view[v].clicked = "download" /\ ~downloadInProgress
               /\ status' = "blocked" \/ status' = "downloading"
    BY <2>5, Zenon DEF Download, Idle, Refused, Send, state
  <2>6. ASSUME NEW v \in Views, Install(v)
        PROVE  /\ view[v].clicked = "install" /\ ~downloadInProgress
               /\ \/ status' = "blocked" \/ status' = "error"
                  \/ status' = "installing"
    BY <2>6, Zenon DEF Install, Idle, Refused, StartInstall, Send, state
  <2>7. ~UNCHANGED main
    BY Zenon DEF main, state
  <2>8. \/ DownloadFails \/ DownloadEnds
        \/ \E v \in Views : Download(v) \/ Install(v)
    BY <1>1, <2>2, <2>3, <2>4, <2>7, Zenon
       DEF Next, Handle, Click, Dismiss, Mount, InstallerLost, Tell, Work,
           Navigate, RequestExit, AnswerDialog, Quit, vars, state
  <2>9. CASE DownloadFails \/ DownloadEnds
    BY <2>9, Zenon DEF DownloadFails, DownloadEnds, Send, Finished, state
  <2> QED
    BY <2>5, <2>6, <2>8, <2>9, Zenon
<1> QED
  BY <1>1, Invariance, PTL DEF Spec, ReadyIsKept

(* The installer is launched once, over complete copies and with nothing   *)
(* in the way.                                                             *)
THEOREM SafeLaunch == Spec => LaunchIsSafe
<1> DEFINE Safe ==
      launches' # launches =>
        /\ launches = 0 /\ launches' = 1
        /\ copied = Databases
        /\ told = {}
        /\ leaving \in {"no", "dialog"}
<1>1. ASSUME IInv, [Next]_vars PROVE Safe
  <2> SUFFICES ASSUME launches' # launches
               PROVE  /\ launches = 0 /\ launches' = 1
                      /\ copied = Databases
                      /\ told = {}
                      /\ leaving \in {"no", "dialog"}
    OBVIOUS
  <2>1. Launch
    BY <1>1, Zenon
       DEF Next, Handle, Check, Download, Install, Click, Dismiss, Mount,
           AutomaticCheck, CheckEnds, Progress, Downloaded, DownloadFails,
           DownloadEnds, Copy, InstallerLost, Tell, Work, Navigate,
           RequestExit, AnswerDialog, Quit, vars, main
  <2>2. backingUp /\ copied = Databases /\ Hindrance = "none"
        /\ launches' = launches + 1
    BY <2>1, Zenon DEF Launch
  <2>3. launches = 0
    BY <1>1, <2>2, Zenon DEF IInv, StatusTellsTruth
  <2>4. launches' = 1
    BY <2>2, <2>3, SMT
  <2>5. OutboxOpen /\ told = {}
    BY <2>2, Zenon DEF Hindrance
  <2> QED
    BY <2>2, <2>3, <2>4, <2>5, Zenon DEF OutboxOpen
<1> QED
  BY <1>1, Invariance, PTL DEF Spec, LaunchIsSafe
=============================================================================
