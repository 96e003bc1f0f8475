----------------------------- MODULE SenderQueue ----------------------------
(***************************************************************************)
(* The messages of the sender service: the queue that sends one at a time  *)
(* (whatsapp_service/server.js), the back end that asks for messages and   *)
(* gives up after a while (utils/whatsapp_helper.py), and the portal       *)
(* bridge (portal-bridge.js), which claims verification codes from the     *)
(* cloud, has them sent and reports the outcome.                           *)
(*                                                                         *)
(* The client of the service (SenderClient) changes its status at any      *)
(* moment, so whoever looks whether it is connected finds it so or not.    *)
(* The cloud is outside the repository:                                    *)
(* it hands out each claim once, may lose any request or answer, and       *)
(* stores what an acknowledgement says.  A claim stands for a code, its    *)
(* phone and its expiry.                                                   *)
(***************************************************************************)
EXTENDS Naturals, Sequences

CONSTANTS
    Messages,       \* messages the back end wants sent
    Claims,         \* claims of codes the cloud may hand out
    Nobody,         \* no message, no claim
    MaxExits        \* bound: ends of the service

ASSUME JobsAssumption ==
    /\ Messages \cap Claims = {}
    /\ Nobody \notin Messages \cup Claims
    /\ MaxExits \in Nat

VARIABLES
    stopped,    \* stopPortalBridge has been called
    exits,      \* how often the service has ended
    preparing,  \* pictures on their way to the queue
    queue,      \* messageQueue
    work,       \* the job of processQueue, and how far it is
    log,        \* what the back end knows of a message
    handed,     \* history: times a message or code was handed to WhatsApp
    doubts,     \* history: sends of a message with an unknown outcome
    rejected,   \* history: codes refused while their send waited
    bridge,     \* what the bridge is doing, with pendingAck
    claimed,    \* claims the cloud has handed out
    acked       \* what the cloud was told of each claim

sendVars == <<queue, work>>
mailVars == <<log, doubts>>
codeVars == <<bridge, claimed, acked, rejected>>
service == <<stopped, exits, preparing>>
vars == <<service, sendVars, mailVars, codeVars, handed>>

(* A message goes out as a picture with a caption or as a text.            *)
Job == [of : Messages, as : {"media", "text"}] \cup
       [of : Claims, as : {"code"}]
NoJob == [of |-> Nobody, as |-> "none"]
NoWork == [at |-> "idle", job |-> NoJob]

(* At rest with a claim: the acknowledgement of it is still pending.       *)
Resting == [at |-> "rest", claim |-> Nobody, sent |-> FALSE]

TypeOK ==
    /\ stopped \in BOOLEAN
    /\ exits \in 0..MaxExits
    /\ preparing \in SUBSET Messages
    /\ queue \in Seq(Job)
    /\ work \in [at : {"idle", "too late", "looking up", "sending", "waiting",
                       "again", "pause"},
                 job : Job \cup {NoJob}]
    /\ log \in [Messages -> {"none", "media", "fallback", "text", "sent",
                             "failed"}]
    /\ handed \in [Messages \cup Claims -> Nat]
    /\ doubts \in [Messages -> Nat]
    /\ rejected \in SUBSET Claims
    /\ bridge \in [at : {"rest", "claiming", "sending", "acking"},
                   claim : Claims \cup {Nobody}, sent : BOOLEAN]
    /\ claimed \in SUBSET Claims
    /\ acked \in [Claims -> {"no", "sent", "not sent"}]

Init ==
    /\ stopped = FALSE
    /\ exits = 0
    /\ preparing = {}
    /\ queue = <<>>
    /\ work = NoWork
    /\ log = [m \in Messages |-> "none"]
    /\ handed = [x \in Messages \cup Claims |-> 0]
    /\ doubts = [m \in Messages |-> 0]
    /\ rejected = {}
    /\ bridge = Resting
    /\ claimed = {}
    /\ acked = [k \in Claims |-> "no"]

-----------------------------------------------------------------------------
(* The queue.                                                              *)

(* The first lines of a job run before anything else can happen: without a *)
(* connection it is too late for a code.                                   *)
Begin(j, connected) ==
    work' = [at |-> IF j.as = "code" /\ ~connected THEN "too late"
                    ELSE "looking up",
             job |-> j]

(* processQueue is called after every push; if its loop runs already it    *)
(* will find the job.                                                      *)
Enqueue(j) ==
    IF work = NoWork
    THEN (\E connected \in BOOLEAN : Begin(j, connected)) /\ UNCHANGED queue
    ELSE queue' = Append(queue, j) /\ UNCHANGED work

Doubt(m) == doubts' = [doubts EXCEPT ![m] = @ + 1]

(* Of a picture that failed the back end sends the caption as a text.      *)
GivenUpRaw(as) == "timeout"
GivenUp(as) == IF as = "media" THEN "fallback" ELSE "failed"

(* The back end hears the answer if it still waits for it.                 *)
Answer(j, sent) ==
    log' = [log EXCEPT ![j.of] =
                IF @ # j.as THEN @
                ELSE IF sent THEN "sent" ELSE GivenUp(j.as)]

(* The job of the queue ends, and whoever asked for it learns how.         *)
Finish(sent) ==
    LET j == work.job
    IN  /\ work' = [at |-> "pause", job |-> NoJob]
        /\ IF j.as = "code"
           THEN /\ bridge' = [at |-> "acking", claim |-> j.of, sent |-> sent]
                /\ UNCHANGED log
           ELSE Answer(j, sent) /\ UNCHANGED bridge

(* POST /api/send-message or /api/send-media.  Without a connection they   *)
(* fail at once; a picture is first prepared and its number looked up.     *)
Ask(m, as, connected) ==
    /\ log[m] = "none" \/ (log[m] = "fallback" /\ as = "text")
    /\ log' = [log EXCEPT ![m] = IF connected THEN as ELSE GivenUp(as)]
    /\ IF connected /\ as = "text"
       THEN Enqueue([of |-> m, as |-> as]) ELSE UNCHANGED sendVars
    /\ preparing' = IF connected /\ as = "media" THEN preparing \cup {m}
                    ELSE preparing
    /\ UNCHANGED <<stopped, exits, doubts, codeVars, handed>>

(* The connection is not looked at again; or the picture cannot be made or *)
(* the number is not known, and the request fails.                         *)
Prepared(m) ==
    /\ m \in preparing
    /\ preparing' = preparing \ {m}
    /\ \/ Enqueue([of |-> m, as |-> "media"]) /\ UNCHANGED log
       \/ Answer([of |-> m, as |-> "media"], FALSE) /\ UNCHANGED sendVars
    /\ UNCHANGED <<stopped, exits, doubts, codeVars, handed>>

(* httpx gives up on a text after 18 seconds, on a picture after 25; the   *)
(* service goes on with it.                                                *)
GiveUp(m) ==
    /\ log[m] \in {"media", "text"}
    /\ log' = [log EXCEPT ![m] = GivenUp(@)]
    /\ Doubt(m)
    /\ UNCHANGED <<service, sendVars, codeVars, handed>>

(* The time of a code is looked at when its job begins and again after     *)
(* getNumberId and the wait for the rate limit; the connection is not      *)
(* looked at again.                                                        *)
TurnedDown ==
    /\ work.at \in {"too late", "looking up"}
    /\ work.job.as = "code"
    /\ Finish(FALSE)
    /\ UNCHANGED <<service, queue, doubts, handed, claimed, acked, rejected>>

Dispatch ==
    /\ work.at = "looking up"
    /\ work' = [work EXCEPT !.at = "sending"]
    /\ UNCHANGED <<service, queue, mailVars, codeVars, handed>>

Hand == handed' = [handed EXCEPT ![work.job.of] = @ + 1]

(* sendMessage returns.  The answer to a picture does not wait for         *)
(* WhatsApp to acknowledge it.                                             *)
Sent ==
    /\ work.at = "sending"
    /\ Hand
    /\ IF work.job.as = "media"
       THEN Finish(TRUE)
       ELSE /\ work' = [work EXCEPT !.at = "waiting"]
            /\ UNCHANGED <<log, bridge>>
    /\ UNCHANGED <<service, queue, doubts, claimed, acked, rejected>>

(* sendMessage throws: perhaps the message has left.                       *)
Lost ==
    \/ UNCHANGED <<handed, doubts>>
    \/ /\ Hand
       /\ IF work.job.as = "code" THEN UNCHANGED doubts
          ELSE Doubt(work.job.of)

(* A text is tried again through its chat, a code or a picture is not.     *)
ResendsAll(j) == TRUE
Resends(j) == j.as = "text"

Threw ==
    /\ work.at = "sending"
    /\ Lost
    /\ IF Resends(work.job)
       THEN work' = [work EXCEPT !.at = "again"] /\ UNCHANGED <<log, bridge>>
       ELSE Finish(FALSE)
    /\ UNCHANGED <<service, queue, claimed, acked, rejected>>

SentAgain ==
    /\ work.at = "again"
    /\ Hand
    /\ Finish(TRUE)
    /\ UNCHANGED <<service, queue, doubts, claimed, acked, rejected>>

ThrewAgain ==
    /\ work.at = "again"
    /\ Lost
    /\ Finish(FALSE)
    /\ UNCHANGED <<service, queue, claimed, acked, rejected>>

(* message_ack: WhatsApp refuses the message.                              *)
Rejected ==
    /\ work.at = "waiting"
    /\ Finish(FALSE)
    /\ rejected' = rejected \cup ({work.job.of} \cap Claims)
    /\ UNCHANGED <<service, queue, doubts, handed, claimed, acked>>

(* message_ack: WhatsApp has it; or six seconds have passed, or the        *)
(* acknowledgement came before the message was tracked.                    *)
Accepted ==
    /\ work.at = "waiting"
    /\ Finish(TRUE)
    /\ UNCHANGED <<service, queue, doubts, handed, claimed, acked, rejected>>

(* After three seconds, the next job or the end of the loop.               *)
JobsKept == queue
JobsLeft == Tail(queue)

NextJob ==
    /\ work.at = "pause"
    /\ IF queue = <<>>
       THEN work' = NoWork /\ UNCHANGED queue
       ELSE /\ \E connected \in BOOLEAN : Begin(Head(queue), connected)
            /\ queue' = JobsLeft
    /\ UNCHANGED <<service, mailVars, codeVars, handed>>

-----------------------------------------------------------------------------
(* The portal bridge.                                                      *)

(* An acknowledgement that did not get through goes first.                 *)
Tick ==
    /\ ~stopped
    /\ bridge.at = "rest"
    /\ bridge' = [bridge EXCEPT !.at =
                    IF bridge.claim = Nobody THEN "claiming" ELSE "acking"]
    /\ UNCHANGED <<service, sendVars, mailVars, handed, claimed, acked,
                   rejected>>

(* There is nothing to do, or the request or its answer is lost, or the    *)
(* bridge has been stopped meanwhile and drops the claim.                  *)
NothingClaimed ==
    /\ bridge.at = "claiming"
    /\ bridge' = Resting
    /\ \/ UNCHANGED claimed
       \/ \E k \in Claims \ claimed : claimed' = claimed \cup {k}
    /\ UNCHANGED <<service, sendVars, mailVars, handed, acked, rejected>>

(* A claim is queued if it is valid and the client connected, and refused  *)
(* otherwise.                                                              *)
Claimed(k, connected) ==
    /\ bridge.at = "claiming"
    /\ ~stopped
    /\ k \notin claimed
    /\ claimed' = claimed \cup {k}
    /\ \/ /\ connected
          /\ bridge' = [at |-> "sending", claim |-> k, sent |-> FALSE]
          /\ Enqueue([of |-> k, as |-> "code"])
       \/ /\ bridge' = [at |-> "acking", claim |-> k, sent |-> FALSE]
          /\ UNCHANGED sendVars
    /\ UNCHANGED <<service, mailVars, handed, acked, rejected>>

Told == [acked EXCEPT ![bridge.claim] =
            IF bridge.sent THEN "sent" ELSE "not sent"]

(* The acknowledgement arrives and so does its answer.                     *)
AckAnswered ==
    /\ bridge.at = "acking"
    /\ acked' = Told
    /\ bridge' = Resting
    /\ UNCHANGED <<service, sendVars, mailVars, handed, claimed, rejected>>

(* One of them is lost: pendingAck is kept.                                *)
PendingDropped == bridge' = Resting
PendingForgets == bridge' = [bridge EXCEPT !.at = "rest", !.sent = FALSE]
PendingKept == bridge' = [bridge EXCEPT !.at = "rest"]

AckLost ==
    /\ bridge.at = "acking"
    /\ acked' \in {acked, Told}
    /\ PendingKept
    /\ UNCHANGED <<service, sendVars, mailVars, handed, claimed, rejected>>

-----------------------------------------------------------------------------
(* The service.                                                            *)

Shutdown ==
    /\ ~stopped
    /\ stopped' = TRUE
    /\ UNCHANGED <<exits, preparing, sendVars, mailVars, codeVars, handed>>

(* The process ends, after a shutdown or without one, and the desktop      *)
(* application starts it again: what it had in memory is gone, and the     *)
(* requests of the back end fail.  A message that was being sent may have  *)
(* left.                                                                   *)
Exit ==
    /\ exits < MaxExits
    /\ exits' = exits + 1
    /\ stopped' = FALSE
    /\ preparing' = {}
    /\ queue' = <<>>
    /\ work' = NoWork
    /\ bridge' = Resting
    /\ log' = [m \in Messages |->
                IF log[m] \in {"media", "text"} THEN GivenUp(log[m])
                ELSE log[m]]
    /\ doubts' = [m \in Messages |->
                    IF log[m] \in {"media", "text"} THEN doubts[m] + 1
                    ELSE doubts[m]]
    /\ \/ UNCHANGED handed
       \/ work.at \in {"sending", "again"} /\ Hand
    /\ UNCHANGED <<claimed, acked, rejected>>

-----------------------------------------------------------------------------

QueueStep ==
    \/ TurnedDown \/ Dispatch \/ Sent \/ Threw \/ SentAgain \/ ThrewAgain
    \/ Rejected \/ Accepted \/ NextJob

CloudAnswers ==
    \/ NothingClaimed
    \/ \E k \in Claims, connected \in BOOLEAN : Claimed(k, connected)

Next ==
    \/ \E m \in Messages :
        \/ \E as \in {"media", "text"}, connected \in BOOLEAN :
                Ask(m, as, connected)
        \/ Prepared(m) \/ GiveUp(m)
    \/ QueueStep
    \/ Tick \/ CloudAnswers \/ AckAnswered \/ AckLost
    \/ Shutdown \/ Exit

(* Every await of the queue ends: sendMessage fails at the latest when the *)
(* browser driver gives up.  The timer of the bridge goes off, its         *)
(* requests end after 15 seconds, and an acknowledgement that is repeated  *)
(* for ever gets through.                                                  *)
Fairness ==
    /\ WF_vars(QueueStep)
    /\ WF_vars(Tick)
    /\ WF_vars(CloudAnswers)
    /\ WF_vars(AckAnswered \/ AckLost)
    /\ SF_vars(AckAnswered)

Spec == Init /\ [][Next]_vars /\ Fairness

-----------------------------------------------------------------------------
(* A claimed code is handed to WhatsApp at most once, whatever fails or    *)
(* stops, and the cloud is told that it was sent only if it was, and if    *)
(* WhatsApp did not refuse it while the bridge waited.                     *)
(* portal-bridge.js:24: "Retry acknowledgments, never an ambiguous         *)
(* WhatsApp send."                                                         *)
CodeSentOncePerClaim ==
    \A k \in Claims :
        /\ handed[k] <= 1
        /\ acked[k] = "sent" => handed[k] = 1 /\ k \notin rejected

(* The cloud is never told two things of one claim, however often an       *)
(* acknowledgement is repeated.                                            *)
OneStoryPerClaim ==
    [][\A k \in Claims : acked[k] # "no" => acked'[k] = acked[k]]_vars

(* A message leaves more than once only where the outcome of an earlier    *)
(* send was unknown (server.js:638, whatsapp_helper.py:586), and the back  *)
(* end records it as sent only if it left.                                 *)
MessageAgainOnlyInDoubt ==
    \A m \in Messages :
        /\ handed[m] <= 1 + doubts[m]
        /\ log[m] = "sent" => handed[m] >= 1

(* Everything the bridge has taken on is acknowledged to the cloud, unless *)
(* the service is shut down or ends.                                       *)
ClaimsAreAcknowledged ==
    \A k \in Claims, n \in 0..MaxExits :
        bridge.claim = k /\ exits = n ~>
            acked[k] # "no" \/ stopped \/ exits # n
=============================================================================
