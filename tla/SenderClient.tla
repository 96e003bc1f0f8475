---------------------------- MODULE SenderClient ----------------------------
(***************************************************************************)
(* The WhatsApp client of the sender service (whatsapp_service/server.js): *)
(* what the service believes of its session (clientStatus), the session in *)
(* the browser as whatsapp-web.js drives it, the restart that everybody    *)
(* may ask for, and the watchdog (sender-watchdog.js).                     *)
(*                                                                         *)
(* Time is left out: aged says that the watchdog has seen the status       *)
(* unchanged, and not attempted anything, for long enough (four and five   *)
(* minutes).                                                               *)
(***************************************************************************)
EXTENDS Naturals

CONSTANTS
    MaxAttempts,    \* restarts the watchdog tries before it gives up (3)
    MaxRequests     \* bound: reconnect and logout requests of users

ASSUME AttemptsAssumption == MaxAttempts \in Nat /\ MaxRequests \in Nat

VARIABLES
    status,         \* clientStatus
    session,        \* the browser: none, starting, showing a code, ready
    booting,        \* the initialize of the start has not returned
    restart,        \* how far restartWhatsAppClient is
    watch,          \* the watchdog
    requests,       \* reconnect and logout requests so far
    unlinking,      \* logout requests that await client.logout()
    stale,          \* history: a ready session went without an event
    stopped         \* shutdown has begun

vars == <<status, session, booting, restart, watch, requests, unlinking,
          stale, stopped>>

Status == {"INITIALIZING", "UNPAIRED", "CONNECTED", "DISCONNECTED"}
Stalled == {"INITIALIZING", "DISCONNECTED"}

TypeOK ==
    /\ status \in Status
    /\ session \in {"none", "starting", "code", "ready"}
    /\ booting \in BOOLEAN
    /\ restart \in {"no", "closing", "waiting", "starting"}
    /\ watch \in [previous : Status, aged : BOOLEAN, busy : BOOLEAN,
                  attempts : 0..MaxAttempts]
    /\ requests \in 0..MaxRequests
    /\ unlinking \in 0..requests
    /\ stale \in BOOLEAN
    /\ stopped \in BOOLEAN

(* The service starts and calls initialize.                                *)
Init ==
    /\ status = "INITIALIZING"
    /\ session = "starting"
    /\ booting = TRUE
    /\ restart = "no"
    /\ watch = [previous |-> "INITIALIZING", aged |-> FALSE, busy |-> FALSE,
                attempts |-> 0]
    /\ requests = 0
    /\ unlinking = 0
    /\ stale = FALSE
    /\ stopped = FALSE

-----------------------------------------------------------------------------
(* Events of the client.                                                   *)

StatusKept == UNCHANGED <<status, stale>>
Unpaired == status' = "UNPAIRED" /\ stale' = FALSE

Qr ==
    /\ session \in {"starting", "code"}
    /\ session' = "code"
    /\ Unpaired
    /\ UNCHANGED <<booting, restart, watch, requests, unlinking, stopped>>

AuthFailure ==
    /\ session = "starting"
    /\ session' = "none"
    /\ Unpaired
    /\ UNCHANGED <<booting, restart, watch, requests, unlinking, stopped>>

(* It may come while a restart is about to close this very session.        *)
Ready ==
    /\ session \in {"starting", "code"}
    /\ session' = "ready"
    /\ status' = "CONNECTED"
    /\ stale' = (restart = "closing")
    /\ UNCHANGED <<booting, restart, watch, requests, unlinking, stopped>>

(* restartWhatsAppClient, unless one is under way.                         *)
AskRestart == restart' = IF restart = "no" THEN "closing" ELSE restart

(* Only a session that was unlinked is started again at once.  The event   *)
(* of a session that a logout has ended may come while the logout waits.   *)
Disconnected(unlinked) ==
    /\ session = "ready" \/ (session = "none" /\ unlinking > 0)
    /\ session' = "none"
    /\ Unpaired
    /\ IF unlinked THEN AskRestart ELSE UNCHANGED restart
    /\ UNCHANGED <<booting, watch, requests, unlinking, stopped>>

(* The browser goes away and no event says so.                             *)
BrowserDies ==
    /\ session # "none"
    /\ session' = "none"
    /\ stale' = (stale \/ status = "CONNECTED")
    /\ UNCHANGED <<status, booting, restart, watch, requests, unlinking,
                   stopped>>

StartupReturns ==
    /\ booting
    /\ booting' = FALSE
    /\ UNCHANGED <<status, session, restart, watch, requests, unlinking,
                   stale, stopped>>

StartupFails ==
    /\ booting
    /\ booting' = FALSE
    /\ status' = "DISCONNECTED"
    /\ session' = "none"
    /\ stale' = FALSE
    /\ UNCHANGED <<restart, watch, requests, unlinking, stopped>>

-----------------------------------------------------------------------------
(* The three steps of a restart.  destroy does not find a browser that     *)
(* the start is still launching.                                           *)

Close ==
    /\ restart = "closing"
    /\ restart' = "waiting"
    /\ \/ session' = "none"
       \/ booting /\ UNCHANGED session
    /\ UNCHANGED <<status, booting, watch, requests, unlinking, stale,
                   stopped>>

Launch ==
    /\ restart = "waiting"
    /\ restart' = "starting"
    /\ session' = "starting"
    /\ stale' = (stale \/ status = "CONNECTED")
    /\ UNCHANGED <<status, booting, watch, requests, unlinking, stopped>>

(* The watchdog waits for the restart it asked for, and for no other.      *)
StillBusy == UNCHANGED watch
Released == watch' = [watch EXCEPT !.busy = FALSE]

RestartReturns ==
    /\ restart = "starting"
    /\ restart' = "no"
    /\ Released
    /\ UNCHANGED <<status, session, booting, requests, unlinking, stale,
                   stopped>>

RestartFails ==
    /\ restart = "starting"
    /\ restart' = "no"
    /\ status' = "DISCONNECTED"
    /\ session' = "none"
    /\ stale' = FALSE
    /\ Released
    /\ UNCHANGED <<booting, requests, unlinking, stopped>>

-----------------------------------------------------------------------------
(* Requests.                                                               *)

(* The status is set even when the restart is left to the one under way.   *)
Reconnect ==
    /\ requests < MaxRequests
    /\ requests' = requests + 1
    /\ status' = "INITIALIZING"
    /\ stale' = FALSE
    /\ AskRestart
    /\ UNCHANGED <<session, booting, watch, unlinking, stopped>>

(* A logout asks WhatsApp to unlink a connected session and waits for it:  *)
(* until it returns the status stays CONNECTED, whatever has become of the *)
(* session.  Nothing is awaited of a session that is not connected.        *)
Unlinked ==
    /\ Unpaired
    /\ AskRestart
    /\ UNCHANGED <<session, booting, watch, stopped>>

Logout ==
    /\ requests < MaxRequests
    /\ requests' = requests + 1
    /\ \/ /\ status # "CONNECTED"
          /\ Unlinked
          /\ UNCHANGED unlinking
       \/ /\ status = "CONNECTED"
          /\ unlinking' = unlinking + 1
          /\ UNCHANGED <<status, session, booting, restart, watch, stale,
                         stopped>>

(* logout closes the browser the client has by then.                       *)
LogoutCloses ==
    /\ unlinking > 0
    /\ session # "none"
    /\ session' = "none"
    /\ UNCHANGED <<status, booting, restart, watch, requests, unlinking,
                   stale, stopped>>

(* It returns or throws; the handler goes on the same way.                 *)
LogoutReturns ==
    /\ unlinking > 0
    /\ unlinking' = unlinking - 1
    /\ Unlinked
    /\ UNCHANGED requests

(* SIGTERM, or the desktop application exits.                              *)
Shutdown ==
    /\ ~stopped
    /\ stopped' = TRUE
    /\ UNCHANGED <<status, session, booting, restart, watch, requests,
                   unlinking, stale>>

-----------------------------------------------------------------------------
(* The watchdog: one tick in 30 seconds.                                   *)

(* The status is not what it was at the last tick.                         *)
TickChanged ==
    /\ ~stopped
    /\ status # watch.previous
    /\ watch' = [watch EXCEPT !.previous = status, !.aged = FALSE,
                    !.attempts = IF status = "CONNECTED" THEN 0 ELSE @]
    /\ UNCHANGED <<status, session, booting, restart, requests, unlinking,
                   stale, stopped>>

AttemptsNotCounted == TRUE
AttemptsLeft == watch.attempts < MaxAttempts

TickRestart ==
    /\ ~stopped
    /\ status = watch.previous
    /\ status \in Stalled
    /\ watch.aged
    /\ ~watch.busy
    /\ AttemptsLeft
    /\ AskRestart
    /\ watch' = [watch EXCEPT !.aged = FALSE, !.attempts = @ + 1,
                    !.busy = (restart = "no")]
    /\ UNCHANGED <<status, session, booting, requests, unlinking, stale,
                   stopped>>

TimePasses ==
    /\ status = watch.previous
    /\ ~watch.aged
    /\ watch' = [watch EXCEPT !.aged = TRUE]
    /\ UNCHANGED <<status, session, booting, restart, requests, unlinking,
                   stale, stopped>>

-----------------------------------------------------------------------------

Next ==
    \/ Qr \/ AuthFailure \/ Ready \/ BrowserDies
    \/ \E unlinked \in BOOLEAN : Disconnected(unlinked)
    \/ StartupReturns \/ StartupFails
    \/ Close \/ Launch \/ RestartReturns \/ RestartFails
    \/ Reconnect \/ Logout \/ LogoutCloses \/ LogoutReturns \/ Shutdown
    \/ TickChanged \/ TickRestart \/ TimePasses

(* Timers go off; destroy and initialize end, as the browser driver gives  *)
(* up on either.  No event of the session is taken for granted.            *)
Fairness ==
    /\ WF_vars(TickChanged)
    /\ WF_vars(TickRestart)
    /\ WF_vars(TimePasses)
    /\ WF_vars(Close)
    /\ WF_vars(Launch)
    /\ WF_vars(RestartReturns \/ RestartFails)

Spec == Init /\ [][Next]_vars /\ Fairness

-----------------------------------------------------------------------------
(* The service says CONNECTED of a ready session, so that requests are not *)
(* taken and codes not claimed in vain (server.js:965, 1111), but for      *)
(* three windows: the session went without an event, it became ready while *)
(* a restart was about to close it, or a logout is ending it and has not   *)
(* returned (server.js:794).                                               *)
ConnectedMeansReady ==
    status = "CONNECTED" => session = "ready" \/ stale \/ unlinking > 0

(* A session that stalls ends up connected or waiting for its code to be   *)
(* scanned, or the watchdog has used its attempts, or the service stops.   *)
StalledSessionRecovers ==
    status \in Stalled ~> \/ status \notin Stalled
                          \/ watch.attempts = MaxAttempts
                          \/ stopped
=============================================================================
