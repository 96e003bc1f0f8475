------------------------------ MODULE Updater ------------------------------
(***************************************************************************)
(* The desktop updater (electron/updater.js): the check, the download and  *)
(* the installation of an update as the main process runs them, the two    *)
(* screens that show its status and carry its buttons                      *)
(* (UpdateNotification.jsx and SoftwareUpdatesSettingsPanel.jsx), and the  *)
(* ways to leave the application (electron/main.js).                       *)
(*                                                                         *)
(* A status event reaches both screens in the step that sends it; a click  *)
(* reaches the main process in a later step, so it may be stale by then.   *)
(* Versions, snoozing and the six hours between two automatic checks are   *)
(* left out: an automatic check may come at any time.                      *)
(***************************************************************************)
EXTENDS Naturals

CONSTANTS
    Databases,      \* the databases that exist and are copied first
    PagesReport     \* some page reports its operations or fills the outbox

ASSUME PagesAssumption == PagesReport \in BOOLEAN

VARIABLES
    status,             \* currentUpdaterState.status
    source,             \* currentUpdaterState.source
    checkInProgress,    \* "none", or activeCheckSource of the check
    downloadInProgress,
    reported,           \* what the events of this download have told so far
    installInProgress,
    backingUp,          \* the handler of an installation awaits its copies
    copied,             \* databases copied by this attempt to install
    installer,          \* the downloaded installer is on the disk
    launches,           \* installers launched so far
    told,               \* what operationsState and the outbox hold
    work,               \* a cart, a shift or an offline sale is open
    onPos,              \* the POS page is on the screen
    leaving,            \* how far the application is on its way out
    view                \* per screen: what it shows, its click and its waits

state == <<status, source>>
download == <<downloadInProgress, reported>>
attempt == <<installInProgress, backingUp, copied>>
main == <<state, checkInProgress, download, attempt, installer, launches>>
shop == <<told, work, onPos, leaving>>
vars == <<main, shop, view>>

Views == {"notification", "settings"}
Operations == {"check", "download", "install"}
Status == {"idle", "checking", "available", "not-available", "downloading",
           "ready-to-install", "installing", "blocked", "error"}
Reports == {"nothing", "ready-to-install", "error"}
View == [shown : Status, clicked : Operations \cup {"none"},
         awaits : SUBSET Operations]

TypeOK ==
    /\ status \in Status
    /\ source \in {"manual", "background"}
    /\ checkInProgress \in {"none", "manual", "background"}
    /\ downloadInProgress \in BOOLEAN
    /\ reported \in Reports
    /\ installInProgress \in BOOLEAN
    /\ backingUp \in BOOLEAN
    /\ copied \subseteq Databases
    /\ installer \in BOOLEAN
    /\ launches \in {0, 1}
    /\ told \subseteq {"operation", "outbox"}
    /\ work \in BOOLEAN
    /\ onPos \in BOOLEAN
    /\ leaving \in {"no", "dialog", "quitting", "quit"}
    /\ view \in [Views -> View]

Init ==
    /\ status = "idle"
    /\ source = "manual"
    /\ checkInProgress = "none"
    /\ downloadInProgress = FALSE
    /\ reported = "nothing"
    /\ installInProgress = FALSE
    /\ backingUp = FALSE
    /\ copied = {}
    /\ installer = FALSE
    /\ launches = 0
    /\ told = {}
    /\ work = FALSE
    /\ onPos = FALSE
    /\ leaving = "no"
    /\ view = [v \in Views |->
                 [shown |-> "idle", clicked |-> "none", awaits |-> {}]]

Running == leaving # "quit"

-----------------------------------------------------------------------------
(* The screens.  A notification that was dismissed shows "idle".           *)

Silent == {"checking", "not-available", "error"}
HeedsForeground(v, s, src) ==
    /\ v = "settings" => s # "downloading"
    /\ ~(src = "background" /\ s \in Silent)
Heeds(v, s, src) ==
    \/ v = "settings" /\ s # "downloading"
    \/ v = "notification" /\ ~(src = "background" /\ s \in Silent)

(* An event brings a dismissed notification back, unless it tells of a     *)
(* download.                                                               *)
Event(screens, s, src) ==
    [v \in Views |->
       IF /\ Heeds(v, s, src)
          /\ ~(s = "downloading" /\ screens[v].shown = "idle")
         THEN [screens[v] EXCEPT !.shown = s]
         ELSE screens[v]]

(* The screen that waits for op is answered, and shows s unless dismissed. *)
Answer(screens, op, s) ==
    [v \in Views |->
       IF op \in screens[v].awaits
         THEN [screens[v] EXCEPT !.awaits = @ \ {op},
                                 !.shown = IF @ = "idle" THEN @ ELSE s]
         ELSE screens[v]]

(* What a screen shows of the status when it is mounted.                   *)
Restored(v) ==
    IF v = "notification" /\ source = "background" /\ status \in Silent
      THEN "idle" ELSE status

(* The buttons.                                                            *)
Offers(v, op) ==
    \/ /\ op = "check" /\ v = "notification"
       /\ view[v].shown \in {"blocked", "error"}
    \/ /\ op = "check" /\ v = "settings"
       /\ view[v].shown \notin {"downloading", "installing"}
    \/ op = "download" /\ view[v].shown = "available"
    \/ op = "install" /\ view[v].shown = "ready-to-install"

Progressive(op) ==
    CASE op = "check" -> "checking"
      [] op = "download" -> "downloading"
      [] op = "install" -> "installing"

Click(v, op) ==
    /\ Running
    /\ view[v].clicked = "none" /\ op \notin view[v].awaits
    /\ Offers(v, op)
    /\ view' = [view EXCEPT ![v].clicked = op, ![v].shown = Progressive(op)]
    /\ UNCHANGED <<main, shop>>

(* Dismissed, snoozed, or gone after four seconds.                         *)
Dismiss(v) ==
    /\ Running
    /\ v = "notification" \/ view[v].shown = "available"
    /\ view[v].shown # "idle"
    /\ view' = [view EXCEPT ![v].shown = "idle"]
    /\ UNCHANGED <<main, shop>>

(* The settings page is opened, or the window is loaded again (main.js     *)
(* 631-641): what was awaited is forgotten.  Bound: no click is on its way.*)
Mount(mounted) ==
    /\ Running
    /\ \A v \in mounted : view[v].clicked = "none"
    /\ view' = [v \in Views |->
                  IF v \in mounted
                    THEN [shown |-> Restored(v), clicked |-> "none",
                          awaits |-> {}]
                    ELSE view[v]]
    /\ UNCHANGED <<main, shop>>

-----------------------------------------------------------------------------
(* The main process.  Every handler answers at once or starts an operation.*)

Received(v) == [view EXCEPT ![v].clicked = "none"]
Taken(v, op) ==
    [view EXCEPT ![v].clicked = "none", ![v].awaits = @ \cup {op}]
Replied(v, op, s) == Answer(Taken(v, op), op, s)

(* _updateState: s is the new status, screens are the views before it.     *)
Send(screens, s, src) ==
    /\ status' = s
    /\ source' = src
    /\ view' = Event(screens, s, src)

(* The operation op ends: an event, then the answer of the handler.        *)
Finished(op, s, src) ==
    /\ status' = s
    /\ source' = src
    /\ view' = Answer(Event(view, s, src), op, s)

(* The handler refuses v with status s.                                    *)
Refused(v, op, s) ==
    /\ status' = s
    /\ source' = source
    /\ view' = Answer(Event(Taken(v, op), s, source), op, s)

MayCheckAnyTime == status # "ready-to-install"
MayCheckWhenReady == ~installInProgress /\ ~downloadInProgress
MayCheck ==
    ~installInProgress /\ ~downloadInProgress /\ status # "ready-to-install"

Check(v) ==
    /\ Running
    /\ view[v].clicked = "check"
    /\ \/ /\ ~MayCheck
          /\ view' = Replied(v, "check", status)
          /\ UNCHANGED <<state, checkInProgress>>
       \/ /\ MayCheck /\ checkInProgress # "none"
          /\ view' = Received(v)
          /\ UNCHANGED <<state, checkInProgress>>
       \/ /\ MayCheck /\ checkInProgress = "none"
          /\ checkInProgress' = "manual"
          /\ Send(Taken(v, "check"), "checking", "manual")
    /\ UNCHANGED <<download, attempt, installer, launches, shop>>

(* The timers (45 seconds after the start, then every six hours).          *)
AutomaticCheck ==
    /\ Running
    /\ MayCheck /\ checkInProgress = "none"
    /\ checkInProgress' = "background"
    /\ UNCHANGED <<state, download, attempt, installer, launches, shop,
                   view>>

(* Every error event ends an installation.                                 *)
ErrorEvent == installInProgress' = FALSE

CheckEnds ==
    /\ Running
    /\ \/ /\ checkInProgress # "none"
          /\ Finished("check", "available", checkInProgress)
          /\ UNCHANGED installInProgress
       \/ /\ checkInProgress = "manual"
          /\ Finished("check", "not-available", "manual")
          /\ UNCHANGED installInProgress
       \/ /\ checkInProgress = "background"
          /\ status' = "idle"
          /\ source' = "background"
          /\ UNCHANGED <<installInProgress, view>>
       \/ /\ checkInProgress = "manual"
          /\ ErrorEvent
          /\ Finished("check", "error", source)
       \/ /\ checkInProgress = "background"
          /\ ErrorEvent
          /\ UNCHANGED <<state, view>>
    /\ checkInProgress' = "none"
    /\ UNCHANGED <<download, backingUp, copied, installer, launches, shop>>

Idle == ~downloadInProgress /\ checkInProgress = "none"

Download(v) ==
    /\ Running
    /\ view[v].clicked = "download"
    /\ \/ /\ installInProgress \/ ~Idle
          /\ view' = Replied(v, "download", "error")
          /\ UNCHANGED <<state, downloadInProgress>>
       \/ /\ ~installInProgress /\ Idle /\ "operation" \in told
          /\ Refused(v, "download", "blocked")
          /\ UNCHANGED downloadInProgress
       \/ /\ ~installInProgress /\ Idle /\ "operation" \notin told
          /\ downloadInProgress' = TRUE
          /\ Send(Taken(v, "download"), "downloading", source)
    /\ UNCHANGED <<checkInProgress, reported, attempt, installer, launches,
                   shop>>

(* While the handler awaits downloadUpdate the library sends its events.   *)
(* Both screens listen to the progress of the download.                    *)
Progress ==
    /\ Running
    /\ downloadInProgress /\ reported = "nothing"
    /\ status' = "downloading"
    /\ view' = [v \in Views |->
                  IF v = "notification" /\ view[v].shown = "idle" THEN view[v]
                  ELSE [view[v] EXCEPT !.shown = "downloading"]]
    /\ UNCHANGED <<source, checkInProgress, download, attempt, installer,
                   launches, shop>>

(* The update can be installed for the screens, not yet for the handlers.  *)
Downloaded ==
    /\ Running
    /\ downloadInProgress /\ reported = "nothing"
    /\ reported' = "ready-to-install"
    /\ installer' = TRUE
    /\ Send(view, "ready-to-install", source)
    /\ UNCHANGED <<checkInProgress, downloadInProgress, attempt, launches,
                   shop>>

(* The error may still come when the download was reported complete.       *)
DownloadFails ==
    /\ Running
    /\ downloadInProgress /\ reported # "error"
    /\ reported' = "error"
    /\ ErrorEvent
    /\ Send(view, "error", source)
    /\ UNCHANGED <<checkInProgress, downloadInProgress, backingUp, copied,
                   installer, launches, shop>>

(* downloadUpdate answers, and a screen shows what it was told; or it      *)
(* rejects, after an error event or without one (it was cancelled).        *)
DownloadEnds ==
    /\ Running
    /\ downloadInProgress
    /\ downloadInProgress' = FALSE
    /\ reported' = "nothing"
    /\ \/ /\ reported = "ready-to-install"
          /\ view' = [v \in Views |->
                        [view[v] EXCEPT !.awaits = @ \ {"download"}]]
          /\ UNCHANGED state
       \/ Finished("download", "error", source)
    /\ UNCHANGED <<checkInProgress, attempt, installer, launches, shop>>

(* The outbox cannot be read once the exit has closed its database.        *)
OutboxOpen == leaving \in {"no", "dialog"}

StartInstall(v) ==
    /\ installInProgress' = TRUE
    /\ backingUp' = TRUE
    /\ copied' = {}
    /\ Send(Taken(v, "install"), "installing", source)

Install(v) ==
    /\ Running
    /\ view[v].clicked = "install"
    /\ \/ /\ installInProgress
          /\ view' = Received(v)
          /\ UNCHANGED <<state, attempt>>
       \/ /\ ~installInProgress /\ ~Idle
          /\ view' = Replied(v, "install", "error")
          /\ UNCHANGED <<state, attempt>>
       \/ /\ ~installInProgress /\ Idle
          /\ \/ "operation" \in told
             \/ OutboxOpen /\ told # {}
          /\ Refused(v, "install", "blocked")
          /\ UNCHANGED attempt
       \/ /\ ~installInProgress /\ Idle /\ "operation" \notin told
          /\ \/ ~OutboxOpen
             \/ told = {} /\ ~installer
          /\ Refused(v, "install", "error")
          /\ UNCHANGED attempt
       \/ /\ ~installInProgress /\ Idle /\ told = {} /\ OutboxOpen /\ installer
          /\ StartInstall(v)
    /\ UNCHANGED <<checkInProgress, download, installer, launches, shop>>

(* The installation is given up: s tells why.                              *)
GiveUp(s) ==
    /\ installInProgress' = FALSE
    /\ backingUp' = FALSE
    /\ copied' = {}
    /\ Finished("install", s, source)

(* One database after the other; a copy fails, or has not ended after a    *)
(* minute.                                                                 *)
Copy(d) ==
    /\ Running
    /\ backingUp /\ d \notin copied
    /\ \/ /\ copied' = copied \cup {d}
          /\ UNCHANGED <<state, installInProgress, backingUp, view>>
       \/ GiveUp("error")
    /\ UNCHANGED <<checkInProgress, download, installer, launches, shop>>

(* What was checked before the copies is checked again after them.         *)
NotCheckedAgain == "none"
HindranceByReason == IF told # {} THEN "pending-outbox" ELSE "none"
Hindrance ==
    IF ~OutboxOpen THEN "error" ELSE IF told # {} THEN "blocked" ELSE "none"

(* quitAndInstall starts the installer and then asks the application to    *)
(* quit, or reports an error.                                              *)
Launch ==
    /\ Running
    /\ backingUp /\ copied = Databases
    /\ \/ /\ Hindrance # "none"
          /\ GiveUp(Hindrance)
          /\ UNCHANGED <<launches, leaving>>
       \/ /\ Hindrance = "none"
          /\ launches' = launches + 1
          /\ leaving' = "quitting"
          /\ backingUp' = FALSE
          /\ copied' = {}
          /\ UNCHANGED <<state, installInProgress, view>>
       \/ /\ Hindrance = "none"
          /\ GiveUp("error")
          /\ UNCHANGED <<launches, leaving>>
    /\ UNCHANGED <<checkInProgress, download, installer, told, work, onPos>>

(* A scanner or a clean-up removes the file.                               *)
InstallerLost ==
    /\ Running
    /\ installer
    /\ installer' = FALSE
    /\ UNCHANGED <<state, checkInProgress, download, attempt, launches, shop,
                   view>>

-----------------------------------------------------------------------------
(* The pages of the shop, and the exit.                                    *)

(* updater:setOperationsActive and db:outbox:enqueue exist, but no page of *)
(* the front end calls them.                                               *)
Tell(what) ==
    /\ Running
    /\ PagesReport
    /\ told' = IF what \in told THEN told \ {what} ELSE told \cup {what}
    /\ UNCHANGED <<main, work, onPos, leaving, view>>

(* A sale or a shift begins or ends on the POS page.                       *)
Work ==
    /\ Running
    /\ onPos
    /\ work' = ~work
    /\ UNCHANGED <<main, told, onPos, leaving, view>>

Navigate ==
    /\ Running
    /\ onPos' = ~onPos
    /\ UNCHANGED <<main, told, work, leaving, view>>

(* exitGuard: the POS page sets it, and clears it when it is left.         *)
Guarded == onPos /\ work

(* requestAppExit: a dialog if the guard is set, else before-quit.         *)
RequestExit ==
    /\ leaving = "no"
    /\ leaving' = IF Guarded THEN "dialog" ELSE "quitting"
    /\ UNCHANGED <<main, told, work, onPos, view>>

AnswerDialog ==
    /\ leaving = "dialog"
    /\ leaving' \in {"no", "quitting"}
    /\ UNCHANGED <<main, told, work, onPos, view>>

(* The WhatsApp service has stopped, or was killed.                        *)
Quit ==
    /\ leaving = "quitting"
    /\ leaving' = "quit"
    /\ UNCHANGED <<main, told, work, onPos, view>>

Handle(v) == Check(v) \/ Download(v) \/ Install(v)

Next ==
    \/ \E v \in Views :
         \/ \E op \in Operations : Click(v, op)
         \/ Dismiss(v)
         \/ Handle(v)
    \/ Mount({"settings"}) \/ Mount(Views)
    \/ AutomaticCheck \/ CheckEnds
    \/ Progress \/ Downloaded \/ DownloadFails \/ DownloadEnds
    \/ \E d \in Databases : Copy(d)
    \/ Launch \/ InstallerLost
    \/ \E what \in {"operation", "outbox"} : Tell(what)
    \/ Work \/ Navigate
    \/ RequestExit \/ AnswerDialog \/ Quit

(* A click arrives; a check and a download end, for the library gives its  *)
(* requests timeouts; a copy ends within a minute; the exit waits eight    *)
(* seconds for the WhatsApp service.                                       *)
Fairness ==
    /\ \A v \in Views : WF_vars(Handle(v))
    /\ WF_vars(CheckEnds)
    /\ WF_vars(DownloadEnds)
    /\ \A d \in Databases : WF_vars(Copy(d))
    /\ WF_vars(Launch)
    /\ WF_vars(Quit)

Spec == Init /\ [][Next]_vars /\ Fairness

-----------------------------------------------------------------------------
(* The status is what the flags and the download's last event say: the     *)
(* three handlers, the timers and the error event, which clears a flag of  *)
(* another operation, never run into each other, so there is one operation *)
(* at a time.  From the event of a download to its end the status is what  *)
(* the event told, although the download still refuses every handler.      *)
(* Once the installer runs nothing else may start.                         *)
StatusTellsTruth ==
    /\ (status = "checking") = (checkInProgress = "manual")
    /\ (status = "downloading")
         = (downloadInProgress /\ reported = "nothing")
    /\ reported # "nothing" => downloadInProgress /\ status = reported
    /\ (status = "installing") = installInProgress
    /\ downloadInProgress \/ installInProgress => checkInProgress = "none"
    /\ ~(downloadInProgress /\ installInProgress)
    /\ backingUp => installInProgress /\ launches = 0
    /\ launches > 0 => installInProgress

(* An update that is ready stays ready until somebody asks to install it   *)
(* or to download it again, or the download that told so fails after all:  *)
(* no check, started before or after, by a timer or a page, takes it away, *)
(* and no handler does while the download has not ended.                   *)
ReadyIsKept ==
    [][status = "ready-to-install" /\ status' # status =>
         \/ downloadInProgress /\ status' = "error"
         \/ /\ status' \in {"installing", "downloading", "blocked", "error"}
            /\ \E v \in Views : view[v].clicked \in {"install", "download"}
            /\ ~downloadInProgress]_vars

(* The installer is launched once, when every database was copied in this  *)
(* attempt and nothing that was told stands in the way, not even what was  *)
(* told during the copies, and never when the user is already leaving.     *)
LaunchIsSafe ==
    [][launches' # launches =>
         /\ launches = 0 /\ launches' = 1
         /\ copied = Databases
         /\ told = {}
         /\ leaving \in {"no", "dialog"}]_vars

(* What the settings page shows as going on comes to an end, however the   *)
(* operation ends and whoever asked for it.                                *)
ProgressEnds(v) ==
    view[v].shown \in {"downloading", "installing"}
      ~> (view[v].shown \notin {"downloading", "installing"}
            \/ leaving = "quit")

SettingsProgressEnds == ProgressEnds("settings")

(* docs/UPDATER_AUDIT.md promises restored download state and reported     *)
(* failures, also for the notification.                                    *)
NotificationProgressEnds == ProgressEnds("notification")

(* docs/AUTO_UPDATE.md: no installation while work of the till is open.    *)
NoInstallOverWork == [][launches' # launches => ~work]_vars

(* POS.jsx 261: the exit asks about work that should not be discarded.     *)
ExitAsksAboutWork ==
    [][leaving = "no" /\ leaving' = "quitting" /\ launches' = launches
         => ~work]_vars
=============================================================================
