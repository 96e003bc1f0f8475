------------------------- MODULE SenderClientProofs -------------------------
(***************************************************************************)
(* Theorems about the client of the sender service, for any number of      *)
(* restarts and requests.                                                  *)
(***************************************************************************)
EXTENDS SenderClient, TLAPS

(* A restart is asked for of a session that is not connected; one that     *)
(* becomes ready before it is closed is known to go stale.                 *)
ClosingIsStale == restart = "closing" /\ status = "CONNECTED" => stale

IInv == TypeOK /\ ClosingIsStale /\ ConnectedMeansReady

-----------------------------------------------------------------------------
Watch == [previous : Status, aged : BOOLEAN, busy : BOOLEAN,
          attempts : 0..MaxAttempts]

LEMMA InitIInv == Init => IInv
<1> SUFFICES ASSUME Init PROVE IInv
  OBVIOUS
<1>1. 0 \in 0..MaxAttempts /\ 0 \in 0..MaxRequests /\ 0 \in 0..0
  BY AttemptsAssumption
<1>2. watch \in Watch
  BY <1>1, Zenon DEF Init, Watch, Status
<1>3. TypeOK
  BY <1>1, <1>2, Zenon DEF Init, TypeOK, Watch, Status
<1> QED
  BY <1>3 DEF Init, IInv, ClosingIsStale, ConnectedMeansReady

(* What the watchdog writes.                                               *)
LEMMA WatchFacts ==
    ASSUME TypeOK
    PROVE  /\ watch \in Watch
           /\ [watch EXCEPT !.busy = FALSE] \in Watch
           /\ [watch EXCEPT !.aged = TRUE] \in Watch
           /\ [watch EXCEPT !.previous = status, !.aged = FALSE,
                 !.attempts = IF status = "CONNECTED" THEN 0 ELSE @] \in Watch
           /\ watch.attempts < MaxAttempts =>
                \A b \in BOOLEAN :
                    [watch EXCEPT !.aged = FALSE, !.attempts = @ + 1,
                        !.busy = b] \in Watch
<1>1. watch \in Watch
  BY DEF TypeOK, Watch
<1>2. 0 \in 0..MaxAttempts
  BY AttemptsAssumption
<1>3. ASSUME watch.attempts < MaxAttempts
      PROVE  watch.attempts + 1 \in 0..MaxAttempts
  BY <1>1, <1>3, AttemptsAssumption DEF Watch
<1>4. status \in Status
  BY DEF TypeOK
<1> QED
  BY <1>1, <1>2, <1>3, <1>4, Zenon DEF Watch

(* The types alone, step by step.                                          *)
LEMMA NextTypeOK == TypeOK /\ [Next]_vars => TypeOK'
<1> SUFFICES ASSUME TypeOK, [Next]_vars PROVE TypeOK'
  OBVIOUS
<1> USE DEF TypeOK
<1>1. CASE Qr \/ AuthFailure \/ Ready \/ BrowserDies
  BY <1>1, Zenon DEF Qr, AuthFailure, Ready, BrowserDies, Unpaired, Status
<1>2. CASE \E unlinked \in BOOLEAN : Disconnected(unlinked)
  BY <1>2, Zenon DEF Disconnected, Unpaired, AskRestart, Status
<1>3. CASE StartupReturns \/ StartupFails
  BY <1>3, Zenon DEF StartupReturns, StartupFails, Status
<1>4. CASE Close \/ Launch
  BY <1>4, Zenon DEF Close, Launch
<1>5. CASE RestartReturns \/ RestartFails
  BY <1>5, WatchFacts, Zenon
  DEF RestartReturns, RestartFails, Released, Status, Watch
<1>6. CASE Reconnect \/ Logout
  <2>1. requests' \in 0..MaxRequests /\ unlinking' \in 0..requests'
    BY <1>6, AttemptsAssumption DEF Reconnect, Logout, Unlinked
  <2> QED
    BY <1>6, <2>1, Zenon
    DEF Reconnect, Logout, Unlinked, Unpaired, AskRestart, Status
<1>7. CASE LogoutCloses \/ LogoutReturns
  <2>1. unlinking' \in 0..requests'
    BY <1>7, AttemptsAssumption DEF LogoutCloses, LogoutReturns
  <2> QED
    BY <1>7, <2>1, Zenon
    DEF LogoutCloses, LogoutReturns, Unlinked, Unpaired, AskRestart, Status
<1>8. CASE Shutdown
  BY <1>8, Zenon DEF Shutdown
<1>9. CASE TickChanged \/ TimePasses
  BY <1>9, WatchFacts, Zenon DEF TickChanged, TimePasses, Watch
<1>10. CASE TickRestart
  <2>1. (restart = "no") \in BOOLEAN
    OBVIOUS
  <2> QED
    BY <1>10, <2>1, WatchFacts, Zenon
    DEF TickRestart, AttemptsLeft, AskRestart, Watch
<1>11. CASE UNCHANGED vars
  BY <1>11, Zenon DEF vars
<1> QED
  BY <1>1, <1>2, <1>3, <1>4, <1>5, <1>6, <1>7, <1>8, <1>9, <1>10, <1>11
  DEF Next

(* Whoever asks for a restart has left CONNECTED or finds it left.         *)
LEMMA NextConnected ==
    IInv /\ [Next]_vars => (ClosingIsStale /\ ConnectedMeansReady)'
<1> SUFFICES ASSUME IInv, [Next]_vars
             PROVE  (ClosingIsStale /\ ConnectedMeansReady)'
  OBVIOUS
<1> USE DEF IInv, TypeOK, Status, ClosingIsStale, ConnectedMeansReady
<1>1. CASE Qr \/ AuthFailure \/ Ready \/ BrowserDies
  BY <1>1 DEF Qr, AuthFailure, Ready, BrowserDies, Unpaired
<1>2. CASE \E unlinked \in BOOLEAN : Disconnected(unlinked)
  BY <1>2 DEF Disconnected, Unpaired
<1>3. CASE StartupReturns \/ StartupFails
  BY <1>3 DEF StartupReturns, StartupFails
<1>4. CASE Close
  BY <1>4 DEF Close
<1>5. CASE Launch
  BY <1>5 DEF Launch
<1>6. CASE RestartReturns \/ RestartFails
  BY <1>6 DEF RestartReturns, RestartFails, Released
<1>7. CASE Reconnect \/ Logout
  BY <1>7 DEF Reconnect, Logout, Unlinked, Unpaired
<1>8. CASE LogoutCloses \/ LogoutReturns
  BY <1>8 DEF LogoutCloses, LogoutReturns, Unlinked, Unpaired
<1>9. CASE Shutdown \/ TickChanged \/ TimePasses
  BY <1>9 DEF Shutdown, TickChanged, TimePasses
<1>10. CASE TickRestart
  BY <1>10 DEF TickRestart, AskRestart, Stalled
<1>11. CASE UNCHANGED vars
  BY <1>11 DEF vars
<1> QED
  BY <1>1, <1>2, <1>3, <1>4, <1>5, <1>6, <1>7, <1>8, <1>9, <1>10, <1>11
  DEF Next

LEMMA Invariance == Spec => []IInv
<1>1. IInv /\ [Next]_vars => IInv'
  BY NextTypeOK, NextConnected DEF IInv
<1> QED
  BY InitIInv, <1>1, PTL DEF Spec

-----------------------------------------------------------------------------
(* The watchdog never counts more attempts than it may make, and the four  *)
(* actors that set the status keep it one of the service's own.            *)
THEOREM TypeCorrect == Spec => []TypeOK
<1>1. IInv => TypeOK
  BY DEF IInv
<1> QED
  BY <1>1, Invariance, PTL

(* Whatever restarts, requests and events overlap, the service says        *)
(* CONNECTED only of a ready session, of one whose end no event told, or   *)
(* while a logout that found it connected has not returned.                *)
THEOREM ConnectedIsReady == Spec => []ConnectedMeansReady
<1>1. IInv => ConnectedMeansReady
  BY DEF IInv
<1> QED
  BY <1>1, Invariance, PTL
=============================================================================
