------------------------- MODULE SenderQueueProofs --------------------------
(***************************************************************************)
(* Theorems about the messages of the sender service, for any number of    *)
(* messages, claims and ends of the service.                               *)
(***************************************************************************)
EXTENDS SenderQueue, SequenceTheorems, TLAPS

-----------------------------------------------------------------------------
(* What the queue keeps.                                                   *)

(* A job is worked on unless the queue is at rest, and only texts are      *)
(* tried again, and no picture waits for WhatsApp.                         *)
AtWork ==
    /\ work.job \in Job <=> work.at \notin {"idle", "pause"}
    /\ work.at = "too late" => work.job.as = "code"
    /\ work.at = "again" => work.job.as = "text"
    /\ work.at = "waiting" => work.job.as # "media"

(* No job is in the queue twice, or in the queue and worked on.            *)
EachJobOnce ==
    /\ \A i, j \in 1..Len(queue) : queue[i] = queue[j] => i = j
    /\ \A i \in 1..Len(queue) : queue[i] # work.job

Queued(j) == \E i \in 1..Len(queue) : queue[i] = j
Present(j) == Queued(j) \/ work.job = j

-----------------------------------------------------------------------------
(* What the bridge keeps.                                                  *)

Code(k) == [of |-> k, as |-> "code"]

(* The only code the queue has is the one the bridge waits for.            *)
CodeOfBridge ==
    \A k \in Claims : Present(Code(k)) => /\ bridge.at = "sending"
                                          /\ bridge.claim = k

Left(k) == IF work.job = Code(k) /\ work.at = "waiting" THEN 1 ELSE 0

(* As long as the bridge waits for a code nobody knows of its outcome.     *)
StillOpen ==
    bridge.at = "sending" =>
        /\ bridge.claim \in claimed
        /\ handed[bridge.claim] = Left(bridge.claim)
        /\ acked[bridge.claim] = "no"
        /\ bridge.claim \notin rejected

(* What is not claimed has not been heard of.                              *)
Unheard ==
    \A k \in Claims \ claimed :
        handed[k] = 0 /\ acked[k] = "no" /\ k \notin rejected

(* An outcome that is pending is true, and is what the cloud was told if   *)
(* it was told at all.                                                     *)
PendingIsTrue ==
    bridge.at # "sending" /\ bridge.claim # Nobody =>
        /\ bridge.at # "claiming"
        /\ bridge.claim \in claimed
        /\ bridge.sent =>
            handed[bridge.claim] = 1 /\ bridge.claim \notin rejected
        /\ acked[bridge.claim] \in
            {"no", IF bridge.sent THEN "sent" ELSE "not sent"}

BridgeHasClaim == bridge.at \in {"sending", "acking"} => bridge.claim # Nobody

CodeInv ==
    /\ CodeOfBridge /\ StillOpen /\ Unheard /\ PendingIsTrue
    /\ BridgeHasClaim /\ CodeSentOncePerClaim

-----------------------------------------------------------------------------
(* What the back end and the service know of a message.                    *)

Media(m) == [of |-> m, as |-> "media"]
Text(m) == [of |-> m, as |-> "text"]

(* A send that is still to come.                                           *)
MediaDue(m) ==
    \/ m \in preparing \/ Queued(Media(m))
    \/ work.job = Media(m)
TextDue(m) ==
    \/ Queued(Text(m))
    \/ work.job = Text(m) /\ work.at # "waiting"
One(b) == IF b THEN 1 ELSE 0

(* Jobs there are only of what was asked for, and a picture is asked for   *)
(* once.                                                                   *)
AskedFirst(m) ==
    /\ log[m] = "none" =>
        m \notin preparing /\ ~Present(Media(m)) /\ ~Present(Text(m))
    /\ log[m] \in {"media", "fallback"} => ~Present(Text(m))
    /\ m \in preparing => ~Present(Media(m))

(* Sends made, to come and still open to be asked for exceed the doubts by *)
(* at most one.                                                            *)
Accounted(m) ==
    handed[m] + One(MediaDue(m)) + One(TextDue(m))
        + One(log[m] \in {"none", "fallback"}) <= 1 + doubts[m]

LeftIfSent(m) ==
    /\ work.job = Text(m) /\ work.at = "waiting" => handed[m] >= 1
    /\ log[m] = "sent" => handed[m] >= 1

Sound(m) == AskedFirst(m) /\ Accounted(m) /\ LeftIfSent(m)

MessageInv == \A m \in Messages : Sound(m)

QueueInv == AtWork /\ EachJobOnce

IInv == TypeOK /\ QueueInv /\ CodeInv /\ MessageInv

-----------------------------------------------------------------------------
(* Jobs.                                                                   *)

LEMMA JobFact ==
    /\ NoJob \notin Job /\ NoJob.as = "none"
    /\ \A k \in Claims : Code(k) \in Job
    /\ \A m \in Messages : Media(m) \in Job /\ Text(m) \in Job
    /\ \A j \in Job :
        /\ j.as \in {"media", "text", "code"}
        /\ j.as = "code" => j.of \in Claims /\ j = Code(j.of)
        /\ j.as = "media" => j.of \in Messages /\ j = Media(j.of)
        /\ j.as = "text" => j.of \in Messages /\ j = Text(j.of)
<1>1. NoJob \notin Job /\ NoJob.as = "none"
  BY DEF NoJob, Job
<1>2. \A k \in Claims : Code(k) \in Job
  BY DEF Code, Job
<1>3. \A m \in Messages : Media(m) \in Job /\ Text(m) \in Job
  BY DEF Media, Text, Job
<1>4. ASSUME NEW j \in Job
      PROVE  /\ j.as \in {"media", "text", "code"}
             /\ j.as = "code" => j.of \in Claims /\ j = Code(j.of)
             /\ j.as = "media" => j.of \in Messages /\ j = Media(j.of)
             /\ j.as = "text" => j.of \in Messages /\ j = Text(j.of)
  BY <1>4 DEF Job, Code, Media, Text
<1> QED
  BY <1>1, <1>2, <1>3, <1>4

LEMMA JobsDiffer ==
    ASSUME NEW x, NEW y
    PROVE  /\ Code(x) = Code(y) => x = y
           /\ Media(x) = Media(y) => x = y
           /\ Text(x) = Text(y) => x = y
           /\ Code(x) # Media(y) /\ Code(x) # Text(y) /\ Media(x) # Text(y)
           /\ Code(x) # NoJob /\ Media(x) # NoJob /\ Text(x) # NoJob
           /\ Code(x).as = "code" /\ Code(x).of = x
           /\ Media(x).as = "media" /\ Media(x).of = x
           /\ Text(x).as = "text" /\ Text(x).of = x
<1>1. /\ Code(x).as = "code" /\ Code(x).of = x
      /\ Media(x).as = "media" /\ Media(x).of = x
      /\ Text(x).as = "text" /\ Text(x).of = x
      /\ Code(y).of = y /\ Media(y).of = y /\ Text(y).of = y
      /\ Media(y).as = "media" /\ Text(y).as = "text"
      /\ NoJob.as = "none"
  BY DEF Code, Media, Text, NoJob
<1> QED
  BY <1>1

-----------------------------------------------------------------------------
(* The queue, whoever uses it.                                             *)

WorkOK == work \in [at : {"idle", "too late", "looking up", "sending",
                          "waiting", "again", "pause"},
                    job : Job \cup {NoJob}]

LEMMA BeginFact ==
    ASSUME NEW j \in Job, NEW connected \in BOOLEAN, Begin(j, connected)
    PROVE  /\ WorkOK' /\ work'.job = j
           /\ work'.at \in {"too late", "looking up"}
           /\ work'.at = "too late" => j.as = "code"
<1> DEFINE at == IF j.as = "code" /\ ~connected THEN "too late"
                 ELSE "looking up"
<1>1. /\ at \in {"too late", "looking up"}
      /\ at = "too late" => j.as = "code"
  OBVIOUS
<1>2. work' = [at |-> at, job |-> j]
  BY DEF Begin
<1> HIDE DEF at
<1> QED
  BY <1>1, <1>2 DEF WorkOK

(* A new job is queued or begun, and nothing else changes.                 *)
LEMMA EnqueueFact ==
    ASSUME TypeOK, QueueInv, NEW j \in Job, ~Present(j), Enqueue(j)
    PROVE  /\ queue' \in Seq(Job) /\ WorkOK' /\ QueueInv'
           /\ Present(j)'
           /\ work'.job = j => work'.at # "waiting"
           /\ \A i \in Job \ {j} :
                /\ Queued(i)' <=> Queued(i)
                /\ work'.job = i <=> work.job = i
                /\ work.job = i => work' = work
<1>1. queue \in Seq(Job) /\ WorkOK
  BY DEF TypeOK, WorkOK
<1>2. CASE work = NoWork
  <2>1. PICK connected \in BOOLEAN : Begin(j, connected)
    BY <1>2 DEF Enqueue
  <2>2. queue' = queue /\ work.job = NoJob
    BY <1>2 DEF Enqueue, NoWork
  <2>3. /\ WorkOK' /\ work'.job = j
        /\ work'.at \in {"too late", "looking up"}
        /\ work'.at = "too late" => j.as = "code"
    BY <2>1, BeginFact
  <2>4. AtWork'
    BY <2>3 DEF AtWork
  <2>5. EachJobOnce'
    BY <2>2, <2>3 DEF QueueInv, EachJobOnce, Present, Queued
  <2>6. \A i \in Job : Queued(i)' <=> Queued(i)
    BY <2>2 DEF Queued
  <2> QED
    BY <1>1, <2>2, <2>3, <2>4, <2>5, <2>6, JobFact DEF QueueInv, Present
<1>3. CASE work # NoWork
  <2>1. queue' = Append(queue, j) /\ work' = work
    BY <1>3 DEF Enqueue
  <2>2. /\ queue' \in Seq(Job) /\ Len(queue') = Len(queue) + 1
        /\ \A n \in 1..Len(queue) : queue'[n] = queue[n]
        /\ queue'[Len(queue) + 1] = j
        /\ Len(queue) \in Nat
    BY <1>1, <2>1, AppendProperties, LenProperties
  <2>3. \A n \in 1..Len(queue') : n \in 1..Len(queue) \/ n = Len(queue) + 1
    BY <2>2
  <2>4. \A n \in 1..Len(queue) : n \in 1..Len(queue') /\ queue[n] # j
    BY <2>2 DEF Present, Queued
  <2>5. AtWork'
    BY <2>1 DEF QueueInv, AtWork
  <2>6. EachJobOnce'
    BY <2>1, <2>2, <2>3, <2>4 DEF QueueInv, EachJobOnce, Present
  <2>7. \A i \in Job \ {j} : Queued(i)' <=> Queued(i)
    BY <2>2, <2>3, <2>4 DEF Queued
  <2>8. Queued(j)'
    <3>1. Len(queue) + 1 \in 1..Len(queue')
      BY <2>2
    <3> QED
      BY <2>2, <3>1 DEF Queued
  <2>9. work'.job # j
    BY <2>1 DEF Present
  <2> QED
    BY <1>1, <2>1, <2>2, <2>5, <2>6, <2>7, <2>8, <2>9
    DEF QueueInv, Present, WorkOK
<1> QED
  BY <1>2, <1>3

(* The next job comes from the queue.                                      *)
LEMMA NextJobFact ==
    ASSUME TypeOK, QueueInv, NextJob
    PROVE  /\ queue' \in Seq(Job) /\ WorkOK' /\ QueueInv'
           /\ work.job \notin Job /\ work'.at # "waiting"
           /\ \A j \in Job : Queued(j) <=> Present(j)'
<1>1. queue \in Seq(Job) /\ WorkOK /\ work.at = "pause"
  BY DEF TypeOK, WorkOK, NextJob
<1>2. work.job \notin Job
  BY <1>1 DEF QueueInv, AtWork
<1>3. CASE queue = <<>>
  <2>1. queue' = queue /\ work' = NoWork
    BY <1>3 DEF NextJob
  <2>2. work'.at = "idle" /\ work'.job = NoJob /\ WorkOK'
    BY <2>1 DEF NoWork, WorkOK
  <2>3. Len(queue) = 0
    BY <1>3
  <2>4. \A j \in Job : ~Queued(j) /\ ~Queued(j)'
    BY <2>1, <2>3 DEF Queued
  <2>5. AtWork'
    BY <2>2, JobFact DEF AtWork
  <2>6. EachJobOnce'
    BY <2>1, <2>3 DEF EachJobOnce
  <2> QED
    BY <1>1, <1>2, <2>1, <2>2, <2>4, <2>5, <2>6, JobFact
    DEF Present, QueueInv
<1>4. CASE queue # <<>>
  <2> DEFINE j == Head(queue)
  <2>1. PICK connected \in BOOLEAN : Begin(j, connected)
    BY <1>4 DEF NextJob
  <2>2. queue' = Tail(queue)
    BY <1>4 DEF NextJob, JobsLeft
  <2>3. /\ j \in Job /\ j = queue[1] /\ queue' \in Seq(Job)
        /\ Len(queue') = Len(queue) - 1
        /\ \A n \in 1..Len(queue') : queue'[n] = queue[n + 1]
        /\ Len(queue) \in Nat \ {0}
    BY <1>1, <1>4, <2>2, HeadTailProperties, LenProperties, EmptySeq
  <2>4. /\ WorkOK' /\ work'.job = j
        /\ work'.at \in {"too late", "looking up"}
        /\ work'.at = "too late" => j.as = "code"
    BY <2>1, <2>3, BeginFact
  <2>5. \A n \in 1..Len(queue') : n + 1 \in 1..Len(queue) /\ n + 1 # 1
    BY <2>3
  <2>6. \A n \in 1..Len(queue) : n = 1 \/ n - 1 \in 1..Len(queue')
    BY <2>3
  <2>7. AtWork'
    BY <2>3, <2>4 DEF AtWork
  <2>8. EachJobOnce'
    <3>1. 1 \in 1..Len(queue)
      BY <2>3
    <3>2. \A n \in 1..Len(queue') : queue'[n] # j
      BY <2>3, <2>5, <3>1 DEF QueueInv, EachJobOnce
    <3>3. ASSUME NEW m \in 1..Len(queue'), NEW n \in 1..Len(queue'),
                 queue'[m] = queue'[n]
          PROVE  m = n
      <4>1. queue[m + 1] = queue[n + 1]
        BY <2>3, <3>3
      <4>2. m + 1 = n + 1
        BY <2>5, <4>1 DEF QueueInv, EachJobOnce
      <4> QED
        BY <4>2
    <3> QED
      BY <2>4, <3>2, <3>3 DEF EachJobOnce
  <2>9. ASSUME NEW i \in Job PROVE Queued(i) <=> Present(i)'
    <3>1. ASSUME Queued(i) PROVE Present(i)'
      <4>1. PICK n \in 1..Len(queue) : queue[n] = i
        BY <3>1 DEF Queued
      <4>2. CASE n = 1
        BY <2>3, <2>4, <4>1, <4>2 DEF Present
      <4>3. CASE n # 1
        <5>1. n - 1 \in 1..Len(queue') /\ (n - 1) + 1 = n
          BY <2>6, <4>3
        <5>2. queue'[n - 1] = i
          BY <2>3, <4>1, <5>1
        <5> QED
          BY <5>1, <5>2 DEF Present, Queued
      <4> QED
        BY <4>2, <4>3
    <3>2. ASSUME Present(i)' PROVE Queued(i)
      <4>1. CASE work'.job = i
        <5>1. 1 \in 1..Len(queue)
          BY <2>3
        <5> QED
          BY <2>3, <2>4, <4>1, <5>1 DEF Queued
      <4>2. CASE Queued(i)'
        BY <2>3, <2>5, <4>2 DEF Queued
      <4> QED
        BY <3>2, <4>1, <4>2 DEF Present
    <3> QED
      BY <3>1, <3>2
  <2> QED
    BY <1>2, <2>3, <2>4, <2>7, <2>8, <2>9 DEF QueueInv
<1> QED
  BY <1>3, <1>4

(* A job that ends leaves the others where they are.                       *)
LEMMA FinishFact ==
    ASSUME TypeOK, QueueInv, work.job \in Job, NEW sent \in BOOLEAN,
           Finish(sent), queue' = queue
    PROVE  /\ WorkOK' /\ QueueInv' /\ work'.job \notin Job
           /\ work'.at = "pause"
           /\ \A j \in Job : Queued(j)' <=> Queued(j)
           /\ ~Queued(work.job)
<1>1. work' = [at |-> "pause", job |-> NoJob]
  BY DEF Finish
<1>2. WorkOK' /\ work'.job = NoJob /\ work'.at = "pause"
  BY <1>1 DEF WorkOK
<1>3. \A j \in Job : Queued(j)' <=> Queued(j)
  BY DEF Queued
<1>4. \A n \in 1..Len(queue) : queue[n] # NoJob
  <2>1. \A n \in 1..Len(queue) : queue[n] \in Job
    BY ElementOfSeq DEF TypeOK
  <2> QED
    BY <2>1, JobFact
<1>5. QueueInv'
  BY <1>2, <1>4, JobFact DEF QueueInv, AtWork, EachJobOnce
<1>6. ~Queued(work.job)
  BY DEF Queued, QueueInv, EachJobOnce
<1> QED
  BY <1>2, <1>3, <1>5, <1>6, JobFact

(* A job that goes on stays the same job.                                  *)
LEMMA GoesOnFact ==
    ASSUME TypeOK, QueueInv, work.job \in Job, queue' = queue,
           NEW at \in {"looking up", "sending", "waiting", "again"},
           at = "again" => work.job.as = "text",
           at = "waiting" => work.job.as # "media",
           work' = [work EXCEPT !.at = at]
    PROVE  /\ WorkOK' /\ QueueInv' /\ work'.job = work.job /\ work'.at = at
           /\ \A j \in Job : Queued(j)' <=> Queued(j)
<1>1. WorkOK' /\ work'.job = work.job /\ work'.at = at
  BY DEF TypeOK, WorkOK
<1>2. QueueInv'
  BY <1>1 DEF QueueInv, AtWork, EachJobOnce
<1> QED
  BY <1>1, <1>2 DEF Queued

-----------------------------------------------------------------------------
(* The parts of a step that the types and the other invariants share.      *)

LogOK == log \in [Messages -> {"none", "media", "fallback", "text", "sent",
                               "failed"}]
HandedOK == handed \in [Messages \cup Claims -> Nat]
DoubtsOK == doubts \in [Messages -> Nat]
BridgeOK == bridge \in [at : {"rest", "claiming", "sending", "acking"},
                        claim : Claims \cup {Nobody}, sent : BOOLEAN]
OthersOK ==
    /\ stopped \in BOOLEAN
    /\ exits \in 0..MaxExits
    /\ preparing \in SUBSET Messages
    /\ rejected \in SUBSET Claims
    /\ claimed \in SUBSET Claims
    /\ acked \in [Claims -> {"no", "sent", "not sent"}]

LEMMA TypeParts ==
    TypeOK <=> /\ queue \in Seq(Job) /\ WorkOK /\ LogOK /\ HandedOK
               /\ DoubtsOK /\ BridgeOK /\ OthersOK
BY Zenon DEF TypeOK, WorkOK, LogOK, HandedOK, DoubtsOK, BridgeOK, OthersOK

LEMMA OfFact ==
    ASSUME NEW j \in Job
    PROVE  /\ j.of \in Messages \cup Claims
           /\ j.as = "code" <=> j.of \in Claims
           /\ j.as # "code" <=> j.of \in Messages
<1>1. j.as = "code" => j.of \in Claims
  BY JobFact
<1>2. j.as # "code" => j.of \in Messages
  BY JobFact
<1> QED
  BY <1>1, <1>2, JobsAssumption

LEMMA AnswerFact ==
    ASSUME TypeOK, NEW j \in Job, j.as # "code", NEW sent \in BOOLEAN,
           Answer(j, sent)
    PROVE  /\ LogOK'
           /\ \A m \in Messages \ {j.of} : log'[m] = log[m]
           /\ log[j.of] # j.as => log'[j.of] = log[j.of]
           /\ log[j.of] = j.as =>
                log'[j.of] = IF sent THEN "sent" ELSE GivenUp(j.as)
           /\ GivenUp(j.as) \in {"fallback", "failed"}
           /\ GivenUp(j.as) = "fallback" <=> j.as = "media"
<1> DEFINE new == IF log[j.of] # j.as THEN log[j.of]
                  ELSE IF sent THEN "sent" ELSE GivenUp(j.as)
<1>1. j.of \in Messages
  BY OfFact
<1>2. /\ GivenUp(j.as) \in {"fallback", "failed"}
      /\ GivenUp(j.as) = "fallback" <=> j.as = "media"
  BY DEF GivenUp
<1>3. log' = [log EXCEPT ![j.of] = new]
  BY DEF Answer
<1>4. new \in {"none", "media", "fallback", "text", "sent", "failed"}
  BY <1>1, <1>2, TypeParts DEF LogOK
<1>5. /\ log[j.of] # j.as => new = log[j.of]
      /\ log[j.of] = j.as => new = IF sent THEN "sent" ELSE GivenUp(j.as)
  OBVIOUS
<1> HIDE DEF new
<1> QED
  BY <1>1, <1>2, <1>3, <1>4, <1>5, TypeParts DEF LogOK

LEMMA HandFact ==
    ASSUME TypeOK, work.job \in Job, Hand
    PROVE  /\ HandedOK'
           /\ handed'[work.job.of] = handed[work.job.of] + 1
           /\ \A x \in (Messages \cup Claims) \ {work.job.of} :
                handed'[x] = handed[x]
<1>1. work.job.of \in Messages \cup Claims
  BY OfFact
<1>2. handed' = [handed EXCEPT ![work.job.of] = handed[work.job.of] + 1]
  BY DEF Hand
<1>3. handed[work.job.of] + 1 \in Nat
  BY <1>1, TypeParts DEF HandedOK
<1> QED
  BY <1>1, <1>2, <1>3, TypeParts DEF HandedOK

LEMMA DoubtFact ==
    ASSUME TypeOK, NEW m \in Messages, Doubt(m)
    PROVE  /\ DoubtsOK'
           /\ doubts'[m] = doubts[m] + 1
           /\ \A n \in Messages \ {m} : doubts'[n] = doubts[n]
<1>1. doubts' = [doubts EXCEPT ![m] = doubts[m] + 1]
  BY DEF Doubt
<1>2. doubts[m] + 1 \in Nat
  BY TypeParts DEF DoubtsOK
<1> QED
  BY <1>1, <1>2, TypeParts DEF DoubtsOK

(* A send that failed has left with a doubt, or has not left.              *)
LEMMA LostFact ==
    ASSUME TypeOK, work.job \in Job, Lost
    PROVE  /\ HandedOK' /\ DoubtsOK'
           /\ \A x \in (Messages \cup Claims) \ {work.job.of} :
                handed'[x] = handed[x]
           /\ \A m \in Messages \ {work.job.of} : doubts'[m] = doubts[m]
           /\ handed'[work.job.of] \in
                {handed[work.job.of], handed[work.job.of] + 1}
           /\ work.job.as # "code" =>
                handed'[work.job.of] - handed[work.job.of] =
                    doubts'[work.job.of] - doubts[work.job.of]
<1> DEFINE x == work.job.of
<1>1. x \in Messages \cup Claims /\ (work.job.as # "code" <=> x \in Messages)
  BY OfFact
<1>2. handed[x] \in Nat /\ (x \in Messages => doubts[x] \in Nat)
  BY <1>1, TypeParts DEF HandedOK, DoubtsOK
<1>3. CASE UNCHANGED <<handed, doubts>>
  BY <1>1, <1>2, <1>3, TypeParts DEF HandedOK, DoubtsOK
<1>4. CASE Hand /\ work.job.as = "code" /\ UNCHANGED doubts
  BY <1>1, <1>2, <1>4, HandFact, TypeParts DEF DoubtsOK
<1>5. CASE Hand /\ work.job.as # "code" /\ Doubt(work.job.of)
  <2>1. x \in Messages /\ Doubt(x)
    BY <1>1, <1>5
  <2>2. /\ DoubtsOK' /\ doubts'[x] = doubts[x] + 1
        /\ \A n \in Messages \ {x} : doubts'[n] = doubts[n]
    BY <2>1, DoubtFact
  <2>3. /\ HandedOK' /\ handed'[x] = handed[x] + 1
        /\ \A y \in (Messages \cup Claims) \ {x} : handed'[y] = handed[y]
    BY <1>5, HandFact
  <2> QED
    BY <1>2, <2>1, <2>2, <2>3
<1> QED
  BY <1>3, <1>4, <1>5 DEF Lost
-----------------------------------------------------------------------------
(* The queue is kept by every step.                                        *)

QueueOK == queue \in Seq(Job) /\ WorkOK /\ QueueInv

GoesOn(at) ==
    /\ at = "again" => work.job.as = "text"
    /\ at = "waiting" => work.job.as # "media"
    /\ work' = [work EXCEPT !.at = at]

(* What the queue does with the job it works on.                           *)
LEMMA QueueStepFact ==
    ASSUME TypeOK, QueueInv, QueueStep, ~NextJob
    PROVE  /\ work.job \in Job /\ UNCHANGED <<queue, preparing>>
           /\ \/ \E sent \in BOOLEAN : Finish(sent)
              \/ \E at \in {"sending", "waiting", "again"} : GoesOn(at)
<1>1. work.at \notin {"idle", "pause"} => work.job \in Job
  BY DEF QueueInv, AtWork
<1>2. work.job \in Job => work.job.as \in {"media", "text", "code"}
  BY JobFact
<1>3. CASE TurnedDown
  BY <1>1, <1>3 DEF TurnedDown, service
<1>4. CASE Dispatch
  BY <1>1, <1>4 DEF Dispatch, GoesOn, service
<1>5. CASE Sent
  BY <1>1, <1>5 DEF Sent, GoesOn, service
<1>6. CASE Threw
  BY <1>1, <1>2, <1>6 DEF Threw, Resends, GoesOn, service
<1>7. CASE SentAgain \/ ThrewAgain
  BY <1>1, <1>7 DEF SentAgain, ThrewAgain, service
<1>8. CASE Rejected \/ Accepted
  BY <1>1, <1>8 DEF Rejected, Accepted, service
<1> QED
  BY <1>3, <1>4, <1>5, <1>6, <1>7, <1>8 DEF QueueStep

(* A job that goes on is where it was.                                     *)
LEMMA GoesOnKeeps ==
    ASSUME TypeOK, QueueInv, work.job \in Job, queue' = queue,
           NEW at \in {"sending", "waiting", "again"}, GoesOn(at)
    PROVE  /\ QueueOK' /\ work'.job = work.job /\ work'.at = at
           /\ \A j \in Job : Queued(j)' <=> Queued(j)
<1>1. /\ WorkOK' /\ QueueInv' /\ work'.job = work.job /\ work'.at = at
      /\ \A j \in Job : Queued(j)' <=> Queued(j)
  BY GoesOnFact DEF GoesOn
<1> QED
  BY <1>1, TypeParts DEF QueueOK

LEMMA SameQueue ==
    ASSUME QueueOK, UNCHANGED sendVars
    PROVE  /\ QueueOK' /\ work' = work
           /\ \A j \in Job : Queued(j)' <=> Queued(j)
BY DEF sendVars, QueueOK, WorkOK, QueueInv, AtWork, EachJobOnce, Queued

(* What is about to be queued is not there.                                *)
LEMMA NewJobs ==
    ASSUME IInv
    PROVE  /\ \A m \in Messages : log[m] \in {"none", "fallback"} =>
                ~Present(Text(m))
           /\ \A m \in preparing : m \in Messages /\ ~Present(Media(m))
           /\ bridge.at # "sending" => \A k \in Claims : ~Present(Code(k))
<1>1. preparing \subseteq Messages
  BY TypeParts DEF IInv, OthersOK
<1>2. \A m \in Messages : Sound(m)
  BY DEF IInv, MessageInv
<1>3. \A m \in Messages : log[m] \in {"none", "fallback"} => ~Present(Text(m))
  BY <1>2 DEF Sound, AskedFirst
<1>4. \A m \in preparing : m \in Messages /\ ~Present(Media(m))
  BY <1>1, <1>2 DEF Sound, AskedFirst
<1>5. bridge.at # "sending" => \A k \in Claims : ~Present(Code(k))
  BY DEF IInv, CodeInv, CodeOfBridge
<1> QED
  BY <1>3, <1>4, <1>5

LEMMA EnqueueKeeps ==
    ASSUME TypeOK, QueueInv, NEW j \in Job, ~Present(j), Enqueue(j)
    PROVE  QueueOK'
BY EnqueueFact DEF QueueOK

LEMMA NextQueueOK == IInv /\ [Next]_vars => QueueOK'
<1> SUFFICES ASSUME IInv, [Next]_vars PROVE QueueOK'
  OBVIOUS
<1>1. TypeOK /\ QueueInv /\ QueueOK
  BY TypeParts DEF IInv, QueueOK
<1>2. CASE UNCHANGED sendVars
  BY <1>1, <1>2, SameQueue
<1>3. ASSUME NEW m \in Messages, NEW as \in {"media", "text"},
             NEW connected \in BOOLEAN, Ask(m, as, connected)
      PROVE  QueueOK'
  <2>1. CASE connected /\ as = "text"
    <3>1. Enqueue(Text(m)) /\ log[m] \in {"none", "fallback"}
      BY <1>3, <2>1 DEF Ask, Text
    <3> QED
      BY <1>1, <3>1, NewJobs, EnqueueKeeps, JobFact
  <2>2. CASE ~(connected /\ as = "text")
    BY <1>2, <1>3, <2>2 DEF Ask
  <2> QED
    BY <2>1, <2>2
<1>4. ASSUME NEW m \in Messages, Prepared(m) PROVE QueueOK'
  <2>1. m \in preparing /\ (Enqueue(Media(m)) \/ UNCHANGED sendVars)
    BY <1>4 DEF Prepared, Media
  <2> QED
    BY <1>1, <1>2, <2>1, NewJobs, EnqueueKeeps, JobFact
<1>5. CASE QueueStep /\ ~NextJob
  <2>1. /\ work.job \in Job /\ queue' = queue
        /\ \/ \E sent \in BOOLEAN : Finish(sent)
           \/ \E at \in {"sending", "waiting", "again"} : GoesOn(at)
    BY <1>1, <1>5, QueueStepFact
  <2>2. ASSUME NEW sent \in BOOLEAN, Finish(sent) PROVE QueueOK'
    BY <1>1, <2>1, <2>2, FinishFact DEF QueueOK
  <2> QED
    BY <1>1, <2>1, <2>2, GoesOnKeeps
<1>6. CASE NextJob
  BY <1>1, <1>6, NextJobFact DEF QueueOK
<1>7. ASSUME NEW k \in Claims, NEW connected \in BOOLEAN,
             Claimed(k, connected)
      PROVE  QueueOK'
  <2>1. /\ bridge.at = "claiming"
        /\ Enqueue(Code(k)) \/ UNCHANGED sendVars
    BY <1>7 DEF Claimed, Code
  <2> QED
    BY <1>1, <1>2, <2>1, NewJobs, EnqueueKeeps, JobFact
<1>8. CASE Exit
  <2>1. queue' = <<>> /\ work' = NoWork
    BY <1>8 DEF Exit
  <2>2. queue' \in Seq(Job) /\ Len(queue') = 0
    BY <2>1
  <2>3. work'.at = "idle" /\ work'.job = NoJob /\ WorkOK'
    BY <2>1 DEF NoWork, WorkOK
  <2>4. AtWork' /\ EachJobOnce'
    BY <2>2, <2>3, JobFact DEF AtWork, EachJobOnce
  <2> QED
    BY <2>2, <2>3, <2>4 DEF QueueOK, QueueInv
<1>9. CASE \E m \in Messages : GiveUp(m)
  BY <1>2, <1>9 DEF GiveUp
<1>10. CASE Tick \/ NothingClaimed \/ AckAnswered \/ AckLost \/ Shutdown
  BY <1>2, <1>10 DEF Tick, NothingClaimed, AckAnswered, AckLost, Shutdown
<1>11. CASE UNCHANGED vars
  BY <1>2, <1>11 DEF vars
<1> QED
  BY <1>3, <1>4, <1>5, <1>6, <1>7, <1>8, <1>9, <1>10, <1>11
  DEF Next, CloudAnswers, QueueStep
-----------------------------------------------------------------------------
(* The types.                                                              *)

LEMMA FinishTypes ==
    ASSUME TypeOK, work.job \in Job, NEW sent \in BOOLEAN, Finish(sent)
    PROVE  LogOK' /\ BridgeOK'
<1>1. LogOK /\ BridgeOK
  BY TypeParts
<1>2. CASE work.job.as = "code"
  <2>1. work.job.of \in Claims
    BY <1>2, JobFact
  <2>2. /\ bridge' = [at |-> "acking", claim |-> work.job.of, sent |-> sent]
        /\ log' = log
    BY <1>2 DEF Finish
  <2> QED
    BY <1>1, <2>1, <2>2 DEF LogOK, BridgeOK
<1>3. CASE work.job.as # "code"
  BY <1>1, <1>3, AnswerFact DEF Finish, BridgeOK
<1> QED
  BY <1>2, <1>3

LEMMA QueueStepTypes ==
    ASSUME TypeOK, QueueInv, QueueStep
    PROVE  LogOK' /\ HandedOK' /\ DoubtsOK' /\ BridgeOK' /\ OthersOK'
<1>1. LogOK /\ HandedOK /\ DoubtsOK /\ BridgeOK /\ OthersOK
  BY TypeParts
<1>2. CASE NextJob
  BY <1>1, <1>2, Zenon DEF NextJob, service, mailVars, codeVars, LogOK, HandedOK,
     DoubtsOK, BridgeOK, OthersOK
<1> SUFFICES ASSUME ~NextJob
             PROVE  LogOK' /\ HandedOK' /\ DoubtsOK' /\ BridgeOK' /\ OthersOK'
  BY <1>2
<1>3. work.job \in Job /\ work.job.of \in Messages \cup Claims
  BY QueueStepFact, OfFact
<1>4. (LogOK' /\ BridgeOK') \/ (UNCHANGED <<log, bridge>>)
  BY <1>3, FinishTypes DEF QueueStep, TurnedDown, Dispatch, Sent, Threw,
     SentAgain, ThrewAgain, Rejected, Accepted, mailVars, codeVars
<1>5. LogOK' /\ BridgeOK'
  BY <1>1, <1>4 DEF LogOK, BridgeOK
<1>6. Hand \/ Lost \/ UNCHANGED handed
  BY DEF QueueStep, TurnedDown, Dispatch, Sent, Threw, SentAgain, ThrewAgain,
         Rejected, Accepted
<1>7. HandedOK'
  BY <1>1, <1>3, <1>6, HandFact, LostFact DEF HandedOK
<1>8. Lost \/ UNCHANGED doubts
  BY DEF QueueStep, TurnedDown, Dispatch, Sent, Threw, SentAgain, ThrewAgain,
         Rejected, Accepted, mailVars
<1>9. DoubtsOK'
  BY <1>1, <1>3, <1>8, LostFact DEF DoubtsOK
<1>10. /\ UNCHANGED <<stopped, exits, preparing, claimed, acked>>
       /\ rejected' = rejected
            \/ rejected' = rejected \cup ({work.job.of} \cap Claims)
  BY DEF QueueStep, TurnedDown, Dispatch, Sent, Threw, SentAgain, ThrewAgain,
         Rejected, Accepted, service, codeVars
<1>11. OthersOK'
  BY <1>1, <1>10 DEF OthersOK
<1> QED
  BY <1>5, <1>7, <1>9, <1>11

LEMMA BridgeTypes ==
    ASSUME TypeOK, BridgeHasClaim, Tick \/ CloudAnswers \/ AckAnswered \/ AckLost
    PROVE  BridgeOK' /\ OthersOK'
<1>1. BridgeOK /\ OthersOK
  BY TypeParts
<1>2. Resting \in [at : {"rest", "claiming", "sending", "acking"},
                   claim : Claims \cup {Nobody}, sent : BOOLEAN]
  BY DEF Resting
<1>3. CASE Tick
  <2>1. OthersOK'
    BY <1>1, <1>3 DEF Tick, service, OthersOK
  <2>2. \E at \in {"claiming", "acking"} : bridge' = [bridge EXCEPT !.at = at]
    BY <1>3 DEF Tick
  <2> QED
    BY <1>1, <2>1, <2>2 DEF BridgeOK
<1>4. CASE NothingClaimed
  <2>1. OthersOK'
    BY <1>1, <1>4 DEF NothingClaimed, service, OthersOK
  <2> QED
    BY <1>2, <1>4, <2>1 DEF NothingClaimed, BridgeOK
<1>5. ASSUME NEW k \in Claims, NEW connected \in BOOLEAN,
             Claimed(k, connected)
      PROVE  BridgeOK' /\ OthersOK'
  <2>1. OthersOK'
    BY <1>1, <1>5 DEF Claimed, service, OthersOK
  <2>2. \E at \in {"sending", "acking"} :
            bridge' = [at |-> at, claim |-> k, sent |-> FALSE]
    BY <1>5 DEF Claimed
  <2> QED
    BY <2>1, <2>2 DEF BridgeOK
<1>6. CASE AckAnswered \/ AckLost
  <2>1. bridge.at = "acking"
    BY <1>6 DEF AckAnswered, AckLost
  <2>2. bridge.claim \in Claims
    BY <1>1, <2>1 DEF BridgeOK, BridgeHasClaim
  <2>3. acked' \in {acked, Told}
    BY <1>6 DEF AckAnswered, AckLost
  <2>4. Told \in [Claims -> {"no", "sent", "not sent"}]
    BY <1>1, <2>2 DEF OthersOK, Told
  <2>5. acked' \in [Claims -> {"no", "sent", "not sent"}]
    BY <1>1, <2>3, <2>4 DEF OthersOK
  <2>6. OthersOK'
    BY <1>1, <1>6, <2>5 DEF AckAnswered, AckLost, service, OthersOK
  <2>7. bridge' = Resting \/ bridge' = [bridge EXCEPT !.at = "rest"]
    BY <1>6 DEF AckAnswered, AckLost, PendingKept
  <2>8. CASE bridge' = Resting
    BY <1>2, <2>6, <2>8 DEF BridgeOK
  <2>9. CASE bridge' = [bridge EXCEPT !.at = "rest"]
    BY <1>1, <2>6, <2>9 DEF BridgeOK
  <2> QED
    BY <2>7, <2>8, <2>9
<1> QED
  BY <1>3, <1>4, <1>5, <1>6 DEF CloudAnswers

(* What Exit makes of what the back end knows.                             *)
LEMMA ExitFact ==
    ASSUME TypeOK, QueueInv, Exit
    PROVE  /\ LogOK' /\ DoubtsOK' /\ HandedOK'
           /\ \A m \in Messages :
                \/ /\ log[m] \notin {"media", "text"}
                   /\ log'[m] = log[m] /\ doubts'[m] = doubts[m]
                \/ /\ log[m] = "media" /\ log'[m] = "fallback"
                   /\ doubts'[m] = doubts[m] + 1
                \/ /\ log[m] = "text" /\ log'[m] = "failed"
                   /\ doubts'[m] = doubts[m] + 1
           /\ \/ handed' = handed
              \/ /\ work.job \in Job /\ work.at \in {"sending", "again"}
                 /\ handed'[work.job.of] = handed[work.job.of] + 1
                 /\ \A x \in (Messages \cup Claims) \ {work.job.of} :
                        handed'[x] = handed[x]
<1>1. LogOK /\ DoubtsOK /\ HandedOK
  BY TypeParts
<1>2. \A m \in Messages :
        log'[m] = IF log[m] \in {"media", "text"} THEN GivenUp(log[m])
                  ELSE log[m]
  BY DEF Exit
<1>3. \A m \in Messages :
        doubts'[m] = IF log[m] \in {"media", "text"} THEN doubts[m] + 1
                     ELSE doubts[m]
  BY DEF Exit
<1>4. GivenUp("media") = "fallback" /\ GivenUp("text") = "failed"
  BY DEF GivenUp
<1>5. DOMAIN log' = Messages /\ DOMAIN doubts' = Messages
  BY DEF Exit
<1>6. \A m \in Messages :
        \/ /\ log[m] \notin {"media", "text"}
           /\ log'[m] = log[m] /\ doubts'[m] = doubts[m]
        \/ /\ log[m] = "media" /\ log'[m] = "fallback"
           /\ doubts'[m] = doubts[m] + 1
        \/ /\ log[m] = "text" /\ log'[m] = "failed"
           /\ doubts'[m] = doubts[m] + 1
  BY <1>2, <1>3, <1>4
<1>7. LogOK'
  <2>1. \A m \in Messages : log'[m] \in {"none", "media", "fallback", "text",
                                         "sent", "failed"}
    BY <1>1, <1>6 DEF LogOK
  <2> QED
    BY <2>1 DEF LogOK, Exit
<1>8. DoubtsOK'
  <2>1. \A m \in Messages : doubts'[m] \in Nat
    BY <1>1, <1>6 DEF DoubtsOK
  <2> QED
    BY <2>1 DEF DoubtsOK, Exit
<1>9. CASE handed' = handed
  BY <1>1, <1>6, <1>7, <1>8, <1>9 DEF HandedOK
<1>10. CASE work.at \in {"sending", "again"} /\ Hand
  <2>1. work.job \in Job
    BY <1>10 DEF QueueInv, AtWork
  <2> QED
    BY <1>6, <1>7, <1>8, <1>10, <2>1, HandFact
<1> QED
  BY <1>9, <1>10 DEF Exit

LEMMA NextTypeOK == IInv /\ [Next]_vars => TypeOK'
<1> SUFFICES ASSUME IInv, [Next]_vars PROVE TypeOK'
  OBVIOUS
<1>1. /\ TypeOK /\ QueueInv
      /\ LogOK /\ HandedOK /\ DoubtsOK /\ BridgeOK /\ OthersOK
  BY TypeParts DEF IInv
<1>2. queue' \in Seq(Job) /\ WorkOK'
  BY NextQueueOK DEF QueueOK
<1> SUFFICES LogOK' /\ HandedOK' /\ DoubtsOK' /\ BridgeOK' /\ OthersOK'
  BY <1>2, Zenon DEF TypeOK, WorkOK, LogOK, HandedOK, DoubtsOK, BridgeOK,
                     OthersOK
<1>3. ASSUME NEW m \in Messages, NEW as \in {"media", "text"},
             NEW connected \in BOOLEAN, Ask(m, as, connected)
      PROVE  LogOK' /\ HandedOK' /\ DoubtsOK' /\ BridgeOK' /\ OthersOK'
  <2>1. \E new \in {"media", "text", "fallback", "failed"} :
            log' = [log EXCEPT ![m] = new]
    BY <1>3 DEF Ask, GivenUp
  <2>2. LogOK'
    BY <1>1, <2>1 DEF LogOK
  <2>3. UNCHANGED <<stopped, exits, doubts, codeVars, handed>>
        /\ preparing' \in SUBSET Messages
    BY <1>1, <1>3 DEF Ask, OthersOK
  <2> QED
    BY <1>1, <2>2, <2>3, Zenon
    DEF codeVars, HandedOK, DoubtsOK, BridgeOK, OthersOK
<1>4. ASSUME NEW m \in Messages, Prepared(m)
      PROVE  LogOK' /\ HandedOK' /\ DoubtsOK' /\ BridgeOK' /\ OthersOK'
  <2>1. LogOK'
    <3>1. log' = log \/ Answer(Media(m), FALSE)
      BY <1>4 DEF Prepared, Media
    <3> QED
      BY <1>1, <3>1, JobFact, JobsDiffer, AnswerFact DEF LogOK
  <2>2. UNCHANGED <<stopped, exits, doubts, codeVars, handed>>
        /\ preparing' \in SUBSET Messages
    BY <1>1, <1>4 DEF Prepared, OthersOK
  <2> QED
    BY <1>1, <2>1, <2>2, Zenon
    DEF codeVars, HandedOK, DoubtsOK, BridgeOK, OthersOK
<1>5. ASSUME NEW m \in Messages, GiveUp(m)
      PROVE  LogOK' /\ HandedOK' /\ DoubtsOK' /\ BridgeOK' /\ OthersOK'
  <2>1. DoubtsOK'
    BY <1>1, <1>5, DoubtFact DEF GiveUp
  <2>2. \E new \in {"fallback", "failed"} : log' = [log EXCEPT ![m] = new]
    BY <1>5 DEF GiveUp, GivenUp
  <2>3. LogOK'
    BY <1>1, <2>2 DEF LogOK
  <2> QED
    BY <1>1, <1>5, <2>1, <2>3, Zenon
    DEF GiveUp, service, codeVars, HandedOK, BridgeOK, OthersOK
<1>6. CASE QueueStep
  BY <1>1, <1>6, QueueStepTypes
<1>7. CASE Tick \/ CloudAnswers \/ AckAnswered \/ AckLost
  <2>1. BridgeOK' /\ OthersOK'
    BY <1>1, <1>7, BridgeTypes DEF IInv, CodeInv
  <2>2. UNCHANGED <<mailVars, handed>>
    BY <1>7 DEF Tick, CloudAnswers, NothingClaimed, Claimed, AckAnswered, AckLost
  <2> QED
    BY <1>1, <2>1, <2>2 DEF mailVars, LogOK, HandedOK, DoubtsOK
<1>8. CASE Shutdown
  BY <1>1, <1>8, Zenon DEF Shutdown, mailVars, codeVars, LogOK, HandedOK,
     DoubtsOK, BridgeOK, OthersOK
<1>9. CASE Exit
  <2>1. LogOK' /\ HandedOK' /\ DoubtsOK'
    BY <1>1, <1>9, ExitFact
  <2>2. BridgeOK'
    BY <1>9 DEF Exit, Resting, BridgeOK
  <2>3. exits + 1 \in 0..MaxExits
    <3>1. exits \in 0..MaxExits /\ exits < MaxExits
      BY <1>1, <1>9 DEF Exit, OthersOK
    <3> QED
      BY <3>1, JobsAssumption
  <2>4. OthersOK'
    BY <1>1, <1>9, <2>3 DEF Exit, OthersOK
  <2> QED
    BY <2>1, <2>2, <2>4
<1>10. CASE UNCHANGED vars
  BY <1>1, <1>10, Zenon DEF vars, service, mailVars, codeVars, LogOK, HandedOK,
     DoubtsOK, BridgeOK, OthersOK
<1> QED
  BY <1>3, <1>4, <1>5, <1>6, <1>7, <1>8, <1>9, <1>10 DEF Next
-----------------------------------------------------------------------------
(* The codes.                                                              *)

LEMMA CodeTypes ==
    ASSUME TypeOK
    PROVE  /\ \A k \in Claims : /\ handed[k] \in Nat
                                /\ acked[k] \in {"no", "sent", "not sent"}
                                /\ Code(k) \in Job
           /\ claimed \subseteq Claims /\ Nobody \notin Claims
           /\ bridge.at \in {"rest", "claiming", "sending", "acking"}
           /\ bridge.claim \in Claims \cup {Nobody} /\ bridge.sent \in BOOLEAN
<1>1. HandedOK /\ BridgeOK /\ OthersOK
  BY TypeParts
<1>2. \A k \in Claims : handed[k] \in Nat
  BY <1>1 DEF HandedOK
<1>3. /\ \A k \in Claims : acked[k] \in {"no", "sent", "not sent"}
      /\ claimed \subseteq Claims
  BY <1>1 DEF OthersOK
<1>4. /\ bridge.at \in {"rest", "claiming", "sending", "acking"}
      /\ bridge.claim \in Claims \cup {Nobody} /\ bridge.sent \in BOOLEAN
  BY <1>1 DEF BridgeOK
<1> QED
  BY <1>2, <1>3, <1>4, JobFact, JobsAssumption

(* A step that does not touch the codes.                                   *)
LEMMA CodeFrame ==
    ASSUME TypeOK, CodeInv, UNCHANGED codeVars,
           \A k \in Claims : handed'[k] = handed[k],
           \A k \in Claims : Present(Code(k))' => Present(Code(k)),
           \A k \in Claims : Left(k)' = Left(k)
    PROVE  CodeInv'
<1>1. /\ bridge' = bridge /\ claimed' = claimed /\ acked' = acked
      /\ rejected' = rejected
  BY DEF codeVars
<1>2. CodeOfBridge'
  BY <1>1 DEF CodeInv, CodeOfBridge
<1>3. StillOpen'
  BY <1>1, CodeTypes DEF CodeInv, StillOpen
<1>4. Unheard'
  BY <1>1 DEF CodeInv, Unheard
<1>5. PendingIsTrue'
  BY <1>1, CodeTypes DEF CodeInv, PendingIsTrue
<1>6. BridgeHasClaim'
  BY <1>1 DEF CodeInv, BridgeHasClaim
<1>7. CodeSentOncePerClaim'
  BY <1>1 DEF CodeInv, CodeSentOncePerClaim
<1> QED
  BY <1>2, <1>3, <1>4, <1>5, <1>6, <1>7 DEF CodeInv

(* The same of a step that leaves the queue alone.                         *)
LEMMA CodeStill ==
    ASSUME TypeOK, CodeInv, UNCHANGED codeVars, UNCHANGED handed,
           UNCHANGED sendVars
    PROVE  CodeInv'
<1>1. \A k \in Claims : Present(Code(k))' <=> Present(Code(k))
  BY DEF sendVars, Present, Queued
<1>2. \A k \in Claims : Left(k)' = Left(k)
  BY DEF sendVars, Left
<1> QED
  BY <1>1, <1>2, CodeFrame

(* A job that is not a code's changes hands.                               *)
LEMMA CodeEnqueue ==
    ASSUME TypeOK, QueueInv, CodeInv, UNCHANGED codeVars, UNCHANGED handed,
           NEW j \in Job, j.as # "code", ~Present(j), Enqueue(j)
    PROVE  CodeInv'
<1>1. \A k \in Claims : Code(k) \in Job \ {j}
  BY JobFact, JobsDiffer
<1>2. \A k \in Claims :
        /\ Queued(Code(k))' <=> Queued(Code(k))
        /\ work'.job = Code(k) <=> work.job = Code(k)
        /\ work.job = Code(k) => work' = work
  BY <1>1, EnqueueFact
<1>3. \A k \in Claims : Present(Code(k))' <=> Present(Code(k))
  BY <1>2 DEF Present
<1>4. \A k \in Claims : Left(k)' = Left(k)
  BY <1>2 DEF Left
<1> QED
  BY <1>3, <1>4, CodeFrame

(* The code the queue works on is the bridge's, and its outcome is open.   *)
LEMMA WorkedOn ==
    ASSUME TypeOK, CodeInv, work.job \in Job, work.job.as = "code"
    PROVE  LET k == work.job.of
           IN  /\ k \in Claims /\ work.job = Code(k)
               /\ bridge.at = "sending" /\ bridge.claim = k
               /\ k \in claimed /\ acked[k] = "no" /\ k \notin rejected
               /\ handed[k] = IF work.at = "waiting" THEN 1 ELSE 0
<1> DEFINE k == work.job.of
<1>1. k \in Claims /\ work.job = Code(k)
  BY JobFact
<1>2. bridge.at = "sending" /\ bridge.claim = k
  BY <1>1 DEF CodeInv, CodeOfBridge, Present
<1>3. /\ k \in claimed /\ handed[k] = Left(k) /\ acked[k] = "no"
      /\ k \notin rejected
  BY <1>2 DEF CodeInv, StillOpen
<1>4. Left(k) = IF work.at = "waiting" THEN 1 ELSE 0
  BY <1>1 DEF Left
<1> QED
  BY <1>1, <1>2, <1>3, <1>4

(* The job of a code ends: its outcome is that it was sent only if it      *)
(* left and was not refused.                                               *)
LEMMA CodeEnds ==
    ASSUME TypeOK, QueueInv, CodeInv, work.job \in Job, work.job.as = "code",
           NEW sent \in BOOLEAN, Finish(sent), UNCHANGED queue,
           UNCHANGED <<claimed, acked>>,
           \A x \in (Messages \cup Claims) \ {work.job.of} :
                handed'[x] = handed[x],
           handed'[work.job.of] \in {0, 1},
           sent => handed'[work.job.of] = 1 /\ rejected' = rejected,
           rejected' \subseteq rejected \cup {work.job.of}
    PROVE  CodeInv'
<1> DEFINE k == work.job.of
<1>1. /\ k \in Claims /\ work.job = Code(k)
      /\ bridge.at = "sending" /\ bridge.claim = k
      /\ k \in claimed /\ acked[k] = "no" /\ k \notin rejected
  BY WorkedOn
<1>2. bridge' = [at |-> "acking", claim |-> k, sent |-> sent]
  BY DEF Finish
<1>3. bridge'.at = "acking" /\ bridge'.claim = k /\ bridge'.sent = sent
  BY <1>2
<1>4. k # Nobody
  BY <1>1, CodeTypes
<1>5. \A c \in Claims : c # k => handed'[c] = handed[c]
  OBVIOUS
<1>6. CodeOfBridge'
  <2>1. \A c \in Claims : Present(Code(c)) => c = k
    BY <1>1 DEF CodeInv, CodeOfBridge
  <2>2. /\ \A j \in Job : Queued(j)' <=> Queued(j)
        /\ work'.job \notin Job /\ ~Queued(Code(k))
    BY <1>1, FinishFact
  <2>3. \A c \in Claims : ~Present(Code(c))'
    BY <2>1, <2>2, CodeTypes DEF Present
  <2> QED
    BY <2>3 DEF CodeOfBridge
<1>7. StillOpen'
  BY <1>3 DEF StillOpen
<1>8. Unheard'
  BY <1>1, <1>5 DEF CodeInv, Unheard
<1>9. PendingIsTrue'
  BY <1>1, <1>3 DEF PendingIsTrue
<1>10. BridgeHasClaim'
  BY <1>3, <1>4 DEF BridgeHasClaim
<1>11. CodeSentOncePerClaim'
  BY <1>1, <1>5 DEF CodeInv, CodeSentOncePerClaim
<1> QED
  BY <1>6, <1>7, <1>8, <1>9, <1>10, <1>11 DEF CodeInv

(* The job of a message ends or goes on.                                   *)
LEMMA MessageJob ==
    ASSUME TypeOK, QueueInv, CodeInv, work.job \in Job, work.job.as # "code",
           UNCHANGED queue, UNCHANGED codeVars,
           work'.job = work.job \/ work'.job \notin Job,
           \A x \in (Messages \cup Claims) \ {work.job.of} :
                handed'[x] = handed[x]
    PROVE  CodeInv'
<1>1. work.job.of \notin Claims
  BY OfFact
<1>2. ASSUME NEW k \in Claims
      PROVE  /\ work.job # Code(k) /\ work'.job # Code(k)
             /\ handed'[k] = handed[k]
  <2>1. work.job # Code(k)
    BY JobsDiffer
  <2>2. work'.job # Code(k)
    BY <2>1, CodeTypes
  <2> QED
    BY <1>1, <2>1, <2>2
<1>3. \A k \in Claims : Present(Code(k))' <=> Present(Code(k))
  BY <1>2 DEF Present, Queued
<1>4. \A k \in Claims : Left(k)' = Left(k)
  BY <1>2 DEF Left
<1> QED
  BY <1>2, <1>3, <1>4, CodeFrame

(* The job of a code goes on.                                              *)
LEMMA CodeGoesOn ==
    ASSUME TypeOK, QueueInv, CodeInv, work.job \in Job, work.job.as = "code",
           NEW at \in {"sending", "waiting", "again"}, GoesOn(at),
           UNCHANGED queue, UNCHANGED codeVars,
           \A x \in (Messages \cup Claims) \ {work.job.of} :
                handed'[x] = handed[x],
           handed'[work.job.of] = IF at = "waiting" THEN 1 ELSE 0
    PROVE  CodeInv'
<1>0. PICK k \in Claims : k = work.job.of
  BY WorkedOn
<1>1. /\ k \in Claims /\ work.job = Code(k)
      /\ bridge.at = "sending" /\ bridge.claim = k
      /\ k \in claimed /\ acked[k] = "no" /\ k \notin rejected
  BY <1>0, WorkedOn
<1>2. /\ bridge' = bridge /\ claimed' = claimed /\ acked' = acked
      /\ rejected' = rejected
  BY DEF codeVars
<1>3. /\ work'.job = Code(k) /\ work'.at = at
      /\ \A j \in Job : Queued(j)' <=> Queued(j)
  BY <1>1, GoesOnKeeps
<1>4. \A c \in Claims : c # k => handed'[c] = handed[c]
  BY <1>0
<1>5. CodeOfBridge'
  <2>1. \A c \in Claims : Present(Code(c))' <=> Present(Code(c))
    BY <1>1, <1>3, CodeTypes DEF Present
  <2> QED
    BY <1>2, <2>1 DEF CodeInv, CodeOfBridge
<1>6. StillOpen'
  <2>1. Left(k)' = handed'[k]
    BY <1>0, <1>3 DEF Left
  <2> QED
    BY <1>1, <1>2, <2>1 DEF StillOpen
<1>7. Unheard'
  BY <1>1, <1>2, <1>4 DEF CodeInv, Unheard
<1>8. PendingIsTrue' /\ BridgeHasClaim'
  BY <1>1, <1>2 DEF CodeInv, PendingIsTrue, BridgeHasClaim
<1>9. CodeSentOncePerClaim'
  BY <1>1, <1>2, <1>4 DEF CodeInv, CodeSentOncePerClaim
<1> QED
  BY <1>5, <1>6, <1>7, <1>8, <1>9 DEF CodeInv
LEMMA FinishBridge ==
    ASSUME work.job.as # "code", NEW sent \in BOOLEAN, Finish(sent)
    PROVE  UNCHANGED bridge /\ work'.job = NoJob
BY DEF Finish

(* The steps of the queue.                                                 *)
LEMMA QueueStepCodeInv ==
    ASSUME TypeOK, QueueInv, CodeInv, QueueStep, ~NextJob
    PROVE  CodeInv'
<1> USE DEF service, mailVars, codeVars
<1> DEFINE k == work.job.of
<1>1. work.job \in Job /\ UNCHANGED queue
  BY QueueStepFact
<1>2. k \in Messages \cup Claims
  BY <1>1, OfFact
<1>3. CASE work.job.as = "code"
  <2>1. /\ k \in Claims /\ work.job = Code(k) /\ k \notin rejected
        /\ handed[k] = IF work.at = "waiting" THEN 1 ELSE 0
    BY <1>1, <1>3, WorkedOn
  <2>2. CASE TurnedDown
    BY <1>1, <1>3, <2>1, <2>2, CodeEnds DEF TurnedDown
  <2>3. CASE Dispatch
    <3>1. GoesOn("sending")
      BY <2>3 DEF Dispatch, GoesOn
    <3> QED
      BY <1>1, <1>3, <2>1, <2>3, <3>1, CodeGoesOn DEF Dispatch
  <2>4. CASE Sent
    <3>1. GoesOn("waiting") /\ UNCHANGED <<queue, codeVars>>
      BY <1>3, <2>4 DEF Sent, GoesOn
    <3>2. /\ handed'[k] = 1
          /\ \A x \in (Messages \cup Claims) \ {k} : handed'[x] = handed[x]
      BY <1>1, <2>1, <2>4, HandFact DEF Sent
    <3> QED
      BY <1>1, <1>3, <2>1, <3>1, <3>2, CodeGoesOn
  <2>5. CASE Threw
    <3>1. Finish(FALSE) /\ UNCHANGED <<claimed, acked, rejected>>
      BY <1>3, <2>5 DEF Threw, Resends
    <3>2. /\ handed'[k] \in {0, 1}
          /\ \A x \in (Messages \cup Claims) \ {k} : handed'[x] = handed[x]
      BY <1>1, <2>1, <2>5, LostFact DEF Threw
    <3> QED
      BY <1>1, <1>3, <2>1, <3>1, <3>2, CodeEnds
  <2>6. CASE SentAgain \/ ThrewAgain
    BY <1>3, <2>6 DEF SentAgain, ThrewAgain, QueueInv, AtWork
  <2>7. CASE Rejected
    BY <1>1, <1>3, <2>1, <2>7, CodeEnds DEF Rejected
  <2>8. CASE Accepted
    BY <1>1, <1>3, <2>1, <2>8, CodeEnds DEF Accepted
  <2> QED
    BY <2>2, <2>3, <2>4, <2>5, <2>6, <2>7, <2>8 DEF QueueStep
<1>4. CASE work.job.as # "code"
  <2>1. k \notin Claims
    BY <1>1, <1>4, OfFact
  <2>2. work'.job = work.job \/ work'.job \notin Job
    BY <1>1, <1>4, QueueStepFact, GoesOnKeeps, FinishBridge, JobFact
  <2>3. UNCHANGED codeVars
    <3>1. UNCHANGED <<claimed, acked>>
      BY DEF QueueStep, TurnedDown, Dispatch, Sent, Threw, SentAgain,
             ThrewAgain, Rejected, Accepted
    <3>2. UNCHANGED rejected
      BY <2>1 DEF QueueStep, TurnedDown, Dispatch, Sent, Threw, SentAgain,
                  ThrewAgain, Rejected, Accepted
    <3>3. UNCHANGED bridge
      BY <1>4, FinishBridge DEF QueueStep, TurnedDown, Dispatch, Sent, Threw,
         SentAgain, ThrewAgain, Rejected, Accepted
    <3> QED
      BY <3>1, <3>2, <3>3
  <2>4. Hand \/ Lost \/ UNCHANGED handed
    BY DEF QueueStep, TurnedDown, Dispatch, Sent, Threw, SentAgain, ThrewAgain,
           Rejected, Accepted
  <2>5. \A x \in (Messages \cup Claims) \ {k} : handed'[x] = handed[x]
    BY <1>1, <2>4, HandFact, LostFact
  <2> QED
    BY <1>1, <1>4, <2>2, <2>3, <2>5, MessageJob
<1> QED
  BY <1>3, <1>4

(* The next job has not left.                                              *)
LEMMA NextJobCodeInv ==
    ASSUME TypeOK, QueueInv, CodeInv, NextJob
    PROVE  CodeInv'
<1>1. /\ work.job \notin Job /\ work'.at # "waiting"
      /\ \A j \in Job : Queued(j) <=> Present(j)'
  BY NextJobFact
<1>2. \A k \in Claims : Present(Code(k))' => Present(Code(k))
  BY <1>1, CodeTypes DEF Present
<1>3. \A k \in Claims : Left(k) = 0 /\ Left(k)' = 0
  BY <1>1, CodeTypes DEF Left
<1> QED
  BY <1>2, <1>3, CodeFrame DEF NextJob, codeVars

(* The steps of the bridge.                                                *)
LEMMA BridgeCodeInv ==
    ASSUME TypeOK, QueueInv, CodeInv,
           bridge.at # "sending", bridge'.at # "sending",
           UNCHANGED sendVars, UNCHANGED <<handed, rejected>>
    PROVE  CodeOfBridge' /\ StillOpen' /\ \A k \in Claims : ~Present(Code(k))
<1>1. \A k \in Claims : ~Present(Code(k))
  BY DEF CodeInv, CodeOfBridge
<1>2. \A k \in Claims : Present(Code(k))' <=> Present(Code(k))
  BY DEF sendVars, Present, Queued
<1> QED
  BY <1>1, <1>2 DEF CodeOfBridge, StillOpen

LEMMA TickCodeInv ==
    ASSUME TypeOK, QueueInv, CodeInv, Tick
    PROVE  CodeInv'
<1>1. /\ UNCHANGED <<sendVars, handed, rejected, claimed, acked>>
      /\ bridge.at = "rest"
  BY DEF Tick
<1>2. PICK at \in {"claiming", "acking"} :
        /\ at = "claiming" <=> bridge.claim = Nobody
        /\ bridge' = [bridge EXCEPT !.at = at]
  BY DEF Tick
<1>3. bridge'.at = at /\ bridge'.claim = bridge.claim
        /\ bridge'.sent = bridge.sent
  <2>1. BridgeOK
    BY TypeParts
  <2> QED
    BY <1>2, <2>1 DEF BridgeOK
<1>4. CodeOfBridge' /\ StillOpen'
  BY <1>1, <1>3, BridgeCodeInv
<1>5. PendingIsTrue'
  <2>1. bridge.claim # Nobody =>
            /\ bridge.claim \in claimed
            /\ bridge.sent =>
                handed[bridge.claim] = 1 /\ bridge.claim \notin rejected
            /\ acked[bridge.claim] \in
                {"no", IF bridge.sent THEN "sent" ELSE "not sent"}
    BY <1>1 DEF CodeInv, PendingIsTrue
  <2>2. bridge.claim # Nobody => bridge'.at = "acking"
    BY <1>2, <1>3
  <2> QED
    BY <1>1, <1>3, <2>1, <2>2 DEF PendingIsTrue
<1>6. BridgeHasClaim'
  BY <1>2, <1>3 DEF BridgeHasClaim
<1>7. Unheard' /\ CodeSentOncePerClaim'
  BY <1>1 DEF CodeInv, Unheard, CodeSentOncePerClaim
<1> QED
  BY <1>4, <1>5, <1>6, <1>7 DEF CodeInv

LEMMA NothingClaimedCodeInv ==
    ASSUME TypeOK, QueueInv, CodeInv, NothingClaimed
    PROVE  CodeInv'
<1>1. /\ UNCHANGED <<sendVars, handed, rejected, acked>>
      /\ bridge.at = "claiming" /\ claimed \subseteq claimed'
  BY DEF NothingClaimed
<1>2. bridge'.at = "rest" /\ bridge'.claim = Nobody
  BY DEF NothingClaimed, Resting
<1>3. CodeOfBridge' /\ StillOpen'
  BY <1>1, <1>2, BridgeCodeInv
<1>4. PendingIsTrue' /\ BridgeHasClaim'
  <2>1. BridgeHasClaim'
    BY <1>2 DEF BridgeHasClaim
  <2>2. PendingIsTrue'
    BY <1>2, Zenon DEF PendingIsTrue
  <2> QED
    BY <2>1, <2>2
<1>5. Unheard' /\ CodeSentOncePerClaim'
  BY <1>1 DEF CodeInv, Unheard, CodeSentOncePerClaim
<1> QED
  BY <1>3, <1>4, <1>5 DEF CodeInv

LEMMA ClaimedCodeInv ==
    ASSUME TypeOK, QueueInv, CodeInv, NEW k \in Claims,
           NEW connected \in BOOLEAN, Claimed(k, connected)
    PROVE  CodeInv'
<1>1. /\ UNCHANGED <<handed, rejected, acked>>
      /\ bridge.at = "claiming" /\ k \notin claimed
      /\ claimed' = claimed \cup {k}
  BY DEF Claimed
<1>2. handed[k] = 0 /\ acked[k] = "no" /\ k \notin rejected /\ k # Nobody
  BY <1>1, CodeTypes DEF CodeInv, Unheard
<1>3. \A c \in Claims : ~Present(Code(c))
  BY <1>1 DEF CodeInv, CodeOfBridge
<1>4. Unheard' /\ CodeSentOncePerClaim'
  BY <1>1 DEF CodeInv, Unheard, CodeSentOncePerClaim
<1>5. CASE /\ bridge' = [at |-> "sending", claim |-> k, sent |-> FALSE]
           /\ Enqueue([of |-> k, as |-> "code"])
  <2>1. bridge'.at = "sending" /\ bridge'.claim = k
    BY <1>5
  <2>2. /\ work'.job = Code(k) => work'.at # "waiting"
        /\ \A i \in Job \ {Code(k)} :
            /\ Queued(i)' <=> Queued(i)
            /\ work'.job = i <=> work.job = i
    BY <1>3, <1>5, CodeTypes, EnqueueFact DEF Code
  <2>3. \A c \in Claims : c # k => Code(c) \in Job \ {Code(k)}
    <3>1. \A c : Code(c) = Code(k) => c = k
      BY JobsDiffer
    <3> QED
      BY <3>1, CodeTypes
  <2>4. \A c \in Claims : c # k => ~Present(Code(c))'
    BY <1>3, <2>2, <2>3 DEF Present
  <2>5. CodeOfBridge'
    BY <2>1, <2>4 DEF CodeOfBridge
  <2>6. Left(k)' = 0
    BY <2>2 DEF Left
  <2>7. StillOpen'
    BY <1>1, <1>2, <2>1, <2>6 DEF StillOpen
  <2>8. PendingIsTrue' /\ BridgeHasClaim'
    BY <1>2, <2>1 DEF PendingIsTrue, BridgeHasClaim
  <2> QED
    BY <1>4, <2>5, <2>7, <2>8 DEF CodeInv
<1>6. CASE /\ bridge' = [at |-> "acking", claim |-> k, sent |-> FALSE]
           /\ UNCHANGED sendVars
  <2>1. bridge'.at = "acking" /\ bridge'.claim = k /\ bridge'.sent = FALSE
    BY <1>6
  <2>2. CodeOfBridge' /\ StillOpen'
    BY <1>1, <1>6, <2>1, BridgeCodeInv
  <2>3. PendingIsTrue' /\ BridgeHasClaim'
    BY <1>1, <1>2, <2>1 DEF PendingIsTrue, BridgeHasClaim
  <2> QED
    BY <1>4, <2>2, <2>3 DEF CodeInv
<1> QED
  BY <1>5, <1>6 DEF Claimed

(* What the cloud is told is what it was told before.                      *)
LEMMA ToldFact ==
    ASSUME TypeOK, CodeInv, bridge.at = "acking"
    PROVE  /\ bridge.claim \in claimed /\ bridge.claim \in Claims
           /\ \A k \in Claims : Told[k] =
                IF k # bridge.claim THEN acked[k]
                ELSE IF bridge.sent THEN "sent" ELSE "not sent"
           /\ acked[bridge.claim] \in
                {"no", IF bridge.sent THEN "sent" ELSE "not sent"}
           /\ bridge.sent =>
                handed[bridge.claim] = 1 /\ bridge.claim \notin rejected
<1>1. bridge.claim \in Claims /\ bridge.claim # Nobody
  BY CodeTypes DEF CodeInv, BridgeHasClaim
<1>2. acked \in [Claims -> {"no", "sent", "not sent"}]
  BY TypeParts DEF OthersOK
<1> QED
  BY <1>1, <1>2 DEF CodeInv, PendingIsTrue, Told

LEMMA AckCodeInv ==
    ASSUME TypeOK, QueueInv, CodeInv, AckAnswered \/ AckLost
    PROVE  CodeInv'
<1>1. /\ UNCHANGED <<sendVars, handed, rejected, claimed>>
      /\ bridge.at = "acking" /\ acked' \in {acked, Told}
  BY DEF AckAnswered, AckLost
<1>2. /\ bridge'.at = "rest"
      /\ \/ bridge'.claim = Nobody
         \/ bridge'.claim = bridge.claim /\ bridge'.sent = bridge.sent
  <2>1. BridgeOK
    BY TypeParts
  <2>2. CASE bridge' = Resting
    BY <2>2 DEF Resting
  <2>3. CASE bridge' = [bridge EXCEPT !.at = "rest"]
    BY <2>1, <2>3 DEF BridgeOK
  <2> QED
    BY <2>2, <2>3 DEF AckAnswered, AckLost, PendingKept
<1>3. CodeOfBridge' /\ StillOpen'
  BY <1>1, <1>2, BridgeCodeInv
<1>4. /\ bridge.claim \in claimed
      /\ \A k \in Claims : k # bridge.claim => acked'[k] = acked[k]
      /\ acked'[bridge.claim] \in
            {"no", IF bridge.sent THEN "sent" ELSE "not sent"}
      /\ bridge.sent =>
            handed[bridge.claim] = 1 /\ bridge.claim \notin rejected
  BY <1>1, ToldFact
<1>5. Unheard'
  BY <1>1, <1>4 DEF CodeInv, Unheard
<1>6. PendingIsTrue'
  BY <1>1, <1>2, <1>4 DEF PendingIsTrue
<1>7. BridgeHasClaim'
  BY <1>2 DEF BridgeHasClaim
<1>8. CodeSentOncePerClaim'
  BY <1>1, <1>4 DEF CodeInv, CodeSentOncePerClaim
<1> QED
  BY <1>3, <1>5, <1>6, <1>7, <1>8 DEF CodeInv

(* The process ends: a code that was being sent may have left, but the     *)
(* bridge does not know of it any more.                                    *)
LEMMA ExitCodeInv ==
    ASSUME TypeOK, QueueInv, CodeInv, Exit
    PROVE  CodeInv'
<1>1. UNCHANGED <<claimed, acked, rejected>>
  BY DEF Exit
<1>2. /\ bridge'.at = "rest" /\ bridge'.claim = Nobody
      /\ work'.job = NoJob /\ Len(queue') = 0
  BY DEF Exit, Resting, NoWork
<1>3. CodeOfBridge'
  <2>1. \A k \in Claims : ~Present(Code(k))'
    BY <1>2, JobsDiffer DEF Present, Queued
  <2> QED
    BY <2>1 DEF CodeOfBridge
<1>4. StillOpen' /\ PendingIsTrue' /\ BridgeHasClaim'
  BY <1>2 DEF StillOpen, PendingIsTrue, BridgeHasClaim
<1>5. ASSUME NEW k \in Claims
      PROVE  \/ handed'[k] = handed[k]
             \/ /\ handed[k] = 0 /\ handed'[k] = 1
                /\ k \in claimed /\ acked[k] = "no"
  <2>1. CASE handed' = handed
    BY <2>1
  <2>2. CASE /\ work.job \in Job /\ work.at \in {"sending", "again"}
             /\ handed'[work.job.of] = handed[work.job.of] + 1
             /\ \A x \in (Messages \cup Claims) \ {work.job.of} :
                    handed'[x] = handed[x]
    <3>1. CASE k # work.job.of
      BY <2>2, <3>1
    <3>2. CASE k = work.job.of
      <4>1. work.job.as = "code"
        BY <2>2, <3>2, OfFact
      <4> QED
        BY <2>2, <3>2, <4>1, WorkedOn
    <3> QED
      BY <3>1, <3>2
  <2> QED
    BY <2>1, <2>2, ExitFact
<1>6. Unheard'
  BY <1>1, <1>5 DEF CodeInv, Unheard
<1>7. CodeSentOncePerClaim'
  BY <1>1, <1>5 DEF CodeInv, CodeSentOncePerClaim
<1> QED
  BY <1>3, <1>4, <1>6, <1>7 DEF CodeInv

LEMMA NextCodeInv == IInv /\ [Next]_vars => CodeInv'
<1> SUFFICES ASSUME IInv, [Next]_vars PROVE CodeInv'
  OBVIOUS
<1>1. TypeOK /\ QueueInv /\ CodeInv
  BY DEF IInv
<1>2. ASSUME NEW m \in Messages, NEW as \in {"media", "text"},
             NEW connected \in BOOLEAN, Ask(m, as, connected)
      PROVE  CodeInv'
  <2>1. UNCHANGED codeVars /\ UNCHANGED handed
    BY <1>2 DEF Ask
  <2>2. \/ Enqueue(Text(m)) /\ log[m] \in {"none", "fallback"}
        \/ UNCHANGED sendVars
    BY <1>2 DEF Ask, Text
  <2>3. Text(m) \in Job /\ Text(m).as # "code"
    BY JobFact, JobsDiffer
  <2> QED
    BY <1>1, <2>1, <2>2, <2>3, NewJobs, CodeEnqueue, CodeStill
<1>3. ASSUME NEW m \in Messages, Prepared(m) PROVE CodeInv'
  <2>1. UNCHANGED codeVars /\ UNCHANGED handed
    BY <1>3 DEF Prepared
  <2>2. m \in preparing /\ (Enqueue(Media(m)) \/ UNCHANGED sendVars)
    BY <1>3 DEF Prepared, Media
  <2>3. Media(m) \in Job /\ Media(m).as # "code"
    BY JobFact, JobsDiffer
  <2> QED
    BY <1>1, <2>1, <2>2, <2>3, NewJobs, CodeEnqueue, CodeStill
<1>4. CASE QueueStep /\ ~NextJob
  BY <1>1, <1>4, QueueStepCodeInv
<1>5. CASE NextJob
  BY <1>1, <1>5, NextJobCodeInv
<1>6. CASE Tick
  BY <1>1, <1>6, TickCodeInv
<1>7. CASE CloudAnswers
  BY <1>1, <1>7, NothingClaimedCodeInv, ClaimedCodeInv DEF CloudAnswers
<1>8. CASE AckAnswered \/ AckLost
  BY <1>1, <1>8, AckCodeInv
<1>9. CASE Exit
  BY <1>1, <1>9, ExitCodeInv
<1>10. CASE Shutdown \/ \E m \in Messages : GiveUp(m)
  BY <1>1, <1>10, CodeStill DEF Shutdown, GiveUp
<1>11. CASE UNCHANGED vars
  BY <1>1, <1>11, CodeStill DEF vars
<1> QED
  BY <1>2, <1>3, <1>4, <1>5, <1>6, <1>7, <1>8, <1>9, <1>10, <1>11
  DEF Next, QueueStep
-----------------------------------------------------------------------------
(* The messages.                                                           *)

LEMMA MessageTypes ==
    ASSUME TypeOK, NEW m \in Messages
    PROVE  /\ handed[m] \in Nat /\ doubts[m] \in Nat
           /\ log[m] \in {"none", "media", "fallback", "text", "sent", "failed"}
           /\ Media(m) \in Job /\ Text(m) \in Job
<1>1. HandedOK /\ DoubtsOK /\ LogOK
  BY TypeParts
<1>2. handed[m] \in Nat /\ doubts[m] \in Nat
  BY <1>1 DEF HandedOK, DoubtsOK
<1>3. log[m] \in {"none", "media", "fallback", "text", "sent", "failed"}
  BY <1>1 DEF LogOK
<1> QED
  BY <1>2, <1>3, JobFact

(* What there is to do for a message.                                      *)
SameDue(m) ==
    /\ m \in preparing' <=> m \in preparing
    /\ Queued(Media(m))' <=> Queued(Media(m))
    /\ Queued(Text(m))' <=> Queued(Text(m))
    /\ work'.job = Media(m) <=> work.job = Media(m)
    /\ work'.job = Text(m) <=> work.job = Text(m)
    /\ work.job = Text(m) => (work'.at = "waiting" <=> work.at = "waiting")

SameStory(m) ==
    log'[m] = log[m] /\ handed'[m] = handed[m] /\ doubts'[m] = doubts[m]

LEMMA SoundFrame ==
    ASSUME NEW m \in Messages, Sound(m), SameDue(m), SameStory(m)
    PROVE  Sound(m)'
<1>1. AskedFirst(m)'
  BY DEF Sound, SameDue, SameStory, AskedFirst, Present
<1>2. MediaDue(m)' <=> MediaDue(m)
  BY DEF SameDue, MediaDue
<1>3. TextDue(m)' <=> TextDue(m)
  BY DEF SameDue, TextDue
<1>4. Accounted(m)'
  BY <1>2, <1>3 DEF Sound, SameStory, Accounted, One
<1>5. LeftIfSent(m)'
  BY DEF Sound, SameDue, SameStory, LeftIfSent
<1> QED
  BY <1>1, <1>4, <1>5 DEF Sound

LEMMA SameDueIf ==
    ASSUME UNCHANGED sendVars, UNCHANGED preparing, NEW m
    PROVE  SameDue(m)
BY DEF sendVars, SameDue, Queued

LEMMA EnqueueOthers ==
    ASSUME TypeOK, QueueInv, NEW j \in Job, ~Present(j), Enqueue(j),
           NEW m \in Messages, m # j.of, m \in preparing' <=> m \in preparing
    PROVE  SameDue(m)
<1>1. Media(m) \in Job \ {j} /\ Text(m) \in Job \ {j}
  BY MessageTypes, JobsDiffer
<1>2. \A i \in Job \ {j} :
        /\ Queued(i)' <=> Queued(i)
        /\ work'.job = i <=> work.job = i
        /\ work.job = i => work' = work
  BY EnqueueFact
<1> QED
  BY <1>1, <1>2 DEF SameDue

(* Of every step of the queue but its own job, a message notices nothing.  *)
LEMMA QueueOthers ==
    ASSUME TypeOK, QueueInv, QueueStep, ~NextJob, NEW m \in Messages,
           m # work.job.of
    PROVE  SameDue(m) /\ SameStory(m)
<1> USE DEF service, mailVars, codeVars
<1>1. work.job \in Job /\ UNCHANGED <<queue, preparing>>
  BY QueueStepFact
<1>2. work.job # Media(m) /\ work.job # Text(m)
  BY JobsDiffer
<1>3. work'.job = work.job \/ work'.job \notin Job
  BY <1>1, QueueStepFact, GoesOnKeeps, FinishFact
<1>4. SameDue(m)
  BY <1>1, <1>2, <1>3, MessageTypes DEF SameDue, Queued
<1>5. handed'[m] = handed[m] /\ doubts'[m] = doubts[m]
  <2>1. Hand \/ Lost \/ UNCHANGED handed
    BY DEF QueueStep, TurnedDown, Dispatch, Sent, Threw, SentAgain, ThrewAgain,
           Rejected, Accepted
  <2>2. Lost \/ UNCHANGED doubts
    BY DEF QueueStep, TurnedDown, Dispatch, Sent, Threw, SentAgain, ThrewAgain,
           Rejected, Accepted
  <2> QED
    BY <1>1, <2>1, <2>2, HandFact, LostFact
<1>6. log'[m] = log[m]
  <2>1. (\E sent \in BOOLEAN : Finish(sent)) \/ UNCHANGED log
    BY DEF QueueStep, TurnedDown, Dispatch, Sent, Threw, SentAgain, ThrewAgain,
           Rejected, Accepted
  <2>2. ASSUME NEW sent \in BOOLEAN, Finish(sent) PROVE log'[m] = log[m]
    BY <1>1, <2>2, AnswerFact DEF Finish
  <2> QED
    BY <2>1, <2>2
<1> QED
  BY <1>4, <1>5, <1>6 DEF SameStory

(* The job of a message ends.                                              *)
LEMMA MessageEnds ==
    ASSUME TypeOK, QueueInv, NEW m \in Messages,
           work.job = Media(m) \/ work.job = Text(m),
           NEW sent \in BOOLEAN, Finish(sent), UNCHANGED <<queue, preparing>>
    PROVE  /\ ~Queued(work.job)
           /\ work'.job # Media(m) /\ work'.job # Text(m)
           /\ Queued(Media(m))' <=> Queued(Media(m))
           /\ Queued(Text(m))' <=> Queued(Text(m))
           /\ log[m] # work.job.as => log'[m] = log[m]
           /\ log[m] = work.job.as =>
                log'[m] = IF sent THEN "sent"
                          ELSE IF work.job = Media(m) THEN "fallback"
                          ELSE "failed"
<1>1. /\ Media(m) \in Job /\ Text(m) \in Job
      /\ Media(m).as = "media" /\ Text(m).as = "text"
      /\ Media(m).of = m /\ Text(m).of = m /\ Media(m) # Text(m)
  BY MessageTypes, JobsDiffer
<1>2. work.job \in Job /\ work.job.as # "code" /\ work.job.of = m
  BY <1>1
<1>3. Answer(work.job, sent)
  BY <1>2 DEF Finish
<1>4. /\ log[m] # work.job.as => log'[m] = log[m]
      /\ log[m] = work.job.as =>
            log'[m] = IF sent THEN "sent" ELSE GivenUp(work.job.as)
      /\ GivenUp(work.job.as) = "fallback" <=> work.job.as = "media"
      /\ GivenUp(work.job.as) \in {"fallback", "failed"}
  BY <1>2, <1>3, AnswerFact
<1>5. /\ work'.job \notin Job /\ ~Queued(work.job)
      /\ \A j \in Job : Queued(j)' <=> Queued(j)
  BY <1>2, FinishFact
<1>6. work.job = Media(m) <=> work.job.as = "media"
  BY <1>1
<1> QED
  BY <1>1, <1>4, <1>5, <1>6
(* The next step of a picture.                                             *)
LEMMA MediaSound ==
    ASSUME TypeOK, QueueInv, QueueStep, ~NextJob, NEW m \in Messages, Sound(m),
           work.job = Media(m)
    PROVE  Sound(m)'
<1> USE DEF service, mailVars, codeVars
<1>1. /\ Media(m) \in Job /\ Media(m).as = "media" /\ Media(m).of = m
      /\ Media(m) # Text(m)
  BY MessageTypes, JobsDiffer
<1>2. work.job \in Job /\ UNCHANGED <<queue, preparing>>
  BY QueueStepFact
<1>3. m \notin preparing /\ log[m] # "none" /\ MediaDue(m)
  BY DEF Sound, AskedFirst, Present, MediaDue
<1>4. CASE Dispatch
  <2>1. GoesOn("sending")
    BY <1>4 DEF Dispatch, GoesOn
  <2>2. /\ work'.job = work.job
        /\ \A j \in Job : Queued(j)' <=> Queued(j)
    BY <1>2, <2>1, GoesOnKeeps
  <2>3. SameDue(m)
    BY <1>1, <1>2, <2>2, MessageTypes DEF SameDue
  <2>4. SameStory(m)
    BY <1>4 DEF Dispatch, SameStory
  <2> QED
    BY <2>3, <2>4, SoundFrame
<1>5. ASSUME NEW sent \in BOOLEAN, Finish(sent),
             \/ sent /\ handed'[m] = handed[m] + 1 /\ doubts'[m] = doubts[m]
             \/ /\ handed'[m] \in Nat /\ doubts'[m] \in Nat
                /\ handed'[m] >= handed[m]
                /\ handed'[m] - handed[m] = doubts'[m] - doubts[m]
                /\ ~sent
      PROVE  Sound(m)'
  <2>1. /\ ~Queued(Media(m)) /\ ~Queued(Media(m))'
        /\ work'.job # Media(m) /\ work'.job # Text(m)
        /\ Queued(Text(m))' <=> Queued(Text(m))
        /\ log[m] # "media" => log'[m] = log[m]
        /\ log[m] = "media" => log'[m] = IF sent THEN "sent" ELSE "fallback"
    BY <1>1, <1>2, <1>5, MessageEnds
  <2>2. ~MediaDue(m)'
    BY <1>2, <1>3, <2>1 DEF MediaDue
  <2>3. TextDue(m)' <=> TextDue(m)
    BY <1>1, <2>1 DEF TextDue
  <2>4. AskedFirst(m)'
    BY <1>2, <1>3, <2>1 DEF Sound, AskedFirst, Present
  <2>5. handed[m] \in Nat /\ doubts[m] \in Nat
    BY MessageTypes
  <2>6. Accounted(m)'
    BY <1>3, <1>5, <2>1, <2>2, <2>3, <2>5 DEF Sound, Accounted, One
  <2>7. LeftIfSent(m)'
    BY <1>5, <2>1, <2>5 DEF Sound, LeftIfSent
  <2> QED
    BY <2>4, <2>6, <2>7 DEF Sound
<1>6. CASE Sent
  <2>1. handed'[m] = handed[m] + 1 /\ doubts'[m] = doubts[m] /\ Finish(TRUE)
    BY <1>1, <1>2, <1>6, HandFact DEF Sent
  <2> QED
    BY <1>5, <2>1
<1>7. CASE Threw
  <2>1. Finish(FALSE)
    BY <1>1, <1>7 DEF Threw, Resends
  <2>2. /\ HandedOK' /\ DoubtsOK' /\ handed'[m] \in {handed[m], handed[m] + 1}
        /\ handed'[m] - handed[m] = doubts'[m] - doubts[m]
    BY <1>1, <1>2, <1>7, LostFact DEF Threw
  <2>3. handed'[m] \in Nat /\ doubts'[m] \in Nat /\ handed[m] \in Nat
    BY <2>2, MessageTypes DEF HandedOK, DoubtsOK
  <2>4. handed'[m] >= handed[m]
    BY <2>2, <2>3
  <2> QED
    BY <1>5, <2>1, <2>2, <2>3, <2>4
<1>8. CASE TurnedDown \/ SentAgain \/ ThrewAgain \/ Rejected \/ Accepted
  BY <1>1, <1>8 DEF TurnedDown, SentAgain, ThrewAgain, Rejected, Accepted,
     QueueInv, AtWork
<1> QED
  BY <1>4, <1>6, <1>7, <1>8 DEF QueueStep

(* The next step of a text.                                                *)
LEMMA TextSound ==
    ASSUME TypeOK, QueueInv, QueueStep, ~NextJob, NEW m \in Messages, Sound(m),
           work.job = Text(m)
    PROVE  Sound(m)'
<1> USE DEF service, mailVars, codeVars
<1>1. /\ Text(m) \in Job /\ Text(m).as = "text" /\ Text(m).of = m
      /\ Media(m) \in Job /\ Media(m) # Text(m)
  BY MessageTypes, JobsDiffer
<1>2. work.job \in Job /\ UNCHANGED <<queue, preparing>>
  BY QueueStepFact
<1>3. log[m] \notin {"none", "media", "fallback"}
  BY DEF Sound, AskedFirst, Present
<1>4. ~Queued(Text(m))
  BY DEF QueueInv, EachJobOnce, Queued
<1>5. /\ TextDue(m) <=> work.at # "waiting"
      /\ handed[m] \in Nat /\ doubts[m] \in Nat
  BY <1>4, MessageTypes DEF TextDue
<1>6. ASSUME NEW at \in {"sending", "waiting", "again"}, GoesOn(at),
             work.at # "waiting", UNCHANGED log,
             handed'[m] \in Nat, doubts'[m] \in Nat,
             handed'[m] >= handed[m],
             at = "waiting" =>
                handed'[m] = handed[m] + 1 /\ doubts'[m] = doubts[m],
             at # "waiting" =>
                handed'[m] - handed[m] = doubts'[m] - doubts[m]
      PROVE  Sound(m)'
  <2>1. /\ work'.job = Text(m) /\ work'.at = at
        /\ \A j \in Job : Queued(j)' <=> Queued(j)
    BY <1>2, <1>6, GoesOnKeeps
  <2>2. MediaDue(m)' <=> MediaDue(m)
    BY <1>1, <1>2, <2>1 DEF MediaDue
  <2>3. TextDue(m)' <=> at # "waiting"
    BY <1>1, <1>4, <2>1 DEF TextDue
  <2>4. AskedFirst(m)'
    BY <1>1, <1>2, <1>3, <1>6, <2>1 DEF Sound, AskedFirst, Present
  <2>5. Accounted(m)'
    BY <1>5, <1>6, <2>2, <2>3 DEF Sound, Accounted, One
  <2>6. LeftIfSent(m)'
    BY <1>5, <1>6, <2>1 DEF Sound, LeftIfSent
  <2> QED
    BY <2>4, <2>5, <2>6 DEF Sound
<1>7. ASSUME NEW sent \in BOOLEAN, Finish(sent),
             handed'[m] \in Nat, doubts'[m] \in Nat,
             handed'[m] >= handed[m],
             sent => handed'[m] >= 1,
             \/ handed'[m] - handed[m] = doubts'[m] - doubts[m]
             \/ /\ handed'[m] = handed[m] + 1 /\ doubts'[m] = doubts[m]
                /\ work.at # "waiting"
      PROVE  Sound(m)'
  <2>1. /\ ~Queued(Text(m))'
        /\ work'.job # Media(m) /\ work'.job # Text(m)
        /\ Queued(Media(m))' <=> Queued(Media(m))
        /\ log[m] # "text" => log'[m] = log[m]
        /\ log[m] = "text" => log'[m] = IF sent THEN "sent" ELSE "failed"
    BY <1>1, <1>2, <1>7, MessageEnds
  <2>2. MediaDue(m)' <=> MediaDue(m)
    BY <1>1, <1>2, <2>1 DEF MediaDue
  <2>3. ~TextDue(m)'
    BY <2>1 DEF TextDue
  <2>4. AskedFirst(m)'
    BY <1>1, <1>2, <1>3, <2>1 DEF Sound, AskedFirst, Present
  <2>5. Accounted(m)'
    BY <1>3, <1>5, <1>7, <2>1, <2>2, <2>3 DEF Sound, Accounted, One
  <2>6. LeftIfSent(m)'
    BY <1>5, <1>7, <2>1 DEF Sound, LeftIfSent
  <2> QED
    BY <2>4, <2>5, <2>6 DEF Sound
<1>8. CASE Dispatch
  <2>1. GoesOn("sending")
    BY <1>8 DEF Dispatch, GoesOn
  <2>2. /\ work.at # "waiting" /\ UNCHANGED log
        /\ handed'[m] = handed[m] /\ doubts'[m] = doubts[m]
    BY <1>8 DEF Dispatch
  <2>3. /\ handed'[m] \in Nat /\ doubts'[m] \in Nat
        /\ handed'[m] >= handed[m]
        /\ handed'[m] - handed[m] = doubts'[m] - doubts[m]
    BY <1>5, <2>2
  <2> QED
    BY <1>6, <2>1, <2>2, <2>3
<1>9. Hand => handed'[m] = handed[m] + 1
  BY <1>1, <1>2, HandFact
<1>10. Lost => /\ handed'[m] \in Nat /\ doubts'[m] \in Nat
               /\ handed'[m] >= handed[m]
               /\ handed'[m] - handed[m] = doubts'[m] - doubts[m]
  <2> SUFFICES ASSUME Lost
               PROVE  /\ handed'[m] \in Nat /\ doubts'[m] \in Nat
                      /\ handed'[m] >= handed[m]
                      /\ handed'[m] - handed[m] = doubts'[m] - doubts[m]
    OBVIOUS
  <2>1. /\ HandedOK' /\ DoubtsOK' /\ handed'[m] \in {handed[m], handed[m] + 1}
        /\ handed'[m] - handed[m] = doubts'[m] - doubts[m]
    BY <1>1, <1>2, LostFact
  <2>2. handed'[m] \in Nat /\ doubts'[m] \in Nat
    BY <2>1 DEF HandedOK, DoubtsOK
  <2> QED
    BY <1>5, <2>1, <2>2
<1>11. CASE Sent
  <2>1. GoesOn("waiting") /\ UNCHANGED <<log, doubts>>
    BY <1>1, <1>11 DEF Sent, GoesOn
  <2>2. work.at = "sending" /\ handed'[m] = handed[m] + 1
    BY <1>9, <1>11 DEF Sent
  <2> QED
    BY <1>5, <1>6, <2>1, <2>2
<1>12. CASE Threw
  <2>1. GoesOn("again") /\ UNCHANGED log /\ Lost /\ work.at = "sending"
    BY <1>1, <1>12 DEF Threw, Resends, GoesOn
  <2> QED
    BY <1>6, <1>10, <2>1
<1>13. CASE SentAgain
  <2>1. /\ Finish(TRUE) /\ doubts'[m] = doubts[m] /\ work.at # "waiting"
        /\ handed'[m] = handed[m] + 1
    BY <1>9, <1>13 DEF SentAgain
  <2>2. /\ handed'[m] \in Nat /\ doubts'[m] \in Nat
        /\ handed'[m] >= handed[m] /\ handed'[m] >= 1
    BY <1>5, <2>1
  <2> QED
    BY <1>7, <2>1, <2>2
<1>14. CASE ThrewAgain
  <2>1. Finish(FALSE) /\ Lost
    BY <1>14 DEF ThrewAgain
  <2> QED
    BY <1>7, <1>10, <2>1
<1>15. CASE Rejected
  <2>1. Finish(FALSE) /\ handed'[m] = handed[m] /\ doubts'[m] = doubts[m]
    BY <1>15 DEF Rejected
  <2>2. /\ handed'[m] \in Nat /\ doubts'[m] \in Nat
        /\ handed'[m] >= handed[m]
        /\ handed'[m] - handed[m] = doubts'[m] - doubts[m]
    BY <1>5, <2>1
  <2> QED
    BY <1>7, <2>1, <2>2
<1>16. CASE Accepted
  <2>1. Finish(TRUE) /\ handed'[m] = handed[m] /\ doubts'[m] = doubts[m]
    BY <1>16 DEF Accepted
  <2>2. handed[m] >= 1
    BY <1>16 DEF Accepted, Sound, LeftIfSent
  <2>3. /\ handed'[m] \in Nat /\ doubts'[m] \in Nat
        /\ handed'[m] >= handed[m] /\ handed'[m] >= 1
        /\ handed'[m] - handed[m] = doubts'[m] - doubts[m]
    BY <1>5, <2>1, <2>2
  <2> QED
    BY <1>7, <2>1, <2>3
<1>17. CASE TurnedDown
  BY <1>1, <1>17 DEF TurnedDown
<1> QED
  BY <1>8, <1>11, <1>12, <1>13, <1>14, <1>15, <1>16, <1>17 DEF QueueStep
LEMMA NextJobSound ==
    ASSUME TypeOK, QueueInv, NextJob, NEW m \in Messages, Sound(m)
    PROVE  Sound(m)'
<1>1. /\ work.job \notin Job /\ work'.at # "waiting"
      /\ \A j \in Job : Queued(j) <=> Present(j)'
  BY NextJobFact
<1>2. Media(m) \in Job /\ Text(m) \in Job
  BY MessageTypes
<1>3. /\ Queued(Media(m)) <=> Present(Media(m))
      /\ Queued(Text(m)) <=> Present(Text(m))
      /\ Present(Media(m))' <=> Present(Media(m))
      /\ Present(Text(m))' <=> Present(Text(m))
      /\ work.job # Text(m) /\ work.job # Media(m)
  BY <1>1, <1>2 DEF Present
<1>4. SameStory(m) /\ UNCHANGED preparing
  BY DEF NextJob, mailVars, service, SameStory
<1>5. AskedFirst(m)'
  BY <1>3, <1>4 DEF Sound, AskedFirst, SameStory
<1>6. MediaDue(m)' <=> MediaDue(m)
  BY <1>3, <1>4 DEF MediaDue, Present
<1>7. TextDue(m)' <=> TextDue(m)
  BY <1>1, <1>3 DEF TextDue, Present
<1>8. Accounted(m)'
  BY <1>4, <1>6, <1>7 DEF Sound, Accounted, SameStory, One
<1>9. LeftIfSent(m)'
  BY <1>1, <1>4 DEF Sound, LeftIfSent, SameStory
<1> QED
  BY <1>5, <1>8, <1>9 DEF Sound

(* A message is asked for: its text is queued, its picture is prepared, or *)
(* the request fails at once.                                              *)
LEMMA AskSound ==
    ASSUME IInv, NEW m \in Messages, NEW as \in {"media", "text"},
           NEW connected \in BOOLEAN, Ask(m, as, connected), Sound(m)
    PROVE  Sound(m)'
<1>1. TypeOK /\ QueueInv
  BY DEF IInv
<1>2. /\ handed[m] \in Nat /\ doubts[m] \in Nat
      /\ Media(m) \in Job /\ Text(m) \in Job /\ Media(m) # Text(m)
  BY <1>1, MessageTypes, JobsDiffer
<1>3. handed'[m] = handed[m] /\ doubts'[m] = doubts[m]
  BY DEF Ask
<1>4. log[m] \in {"none", "fallback"} /\ ~Present(Text(m))
  BY NewJobs DEF Ask
<1>5. ~TextDue(m)
  BY <1>4 DEF TextDue, Present
<1>6. log'[m] = IF connected THEN as ELSE GivenUp(as)
  BY <1>1, TypeParts DEF Ask, LogOK
<1>7. CASE connected /\ as = "text"
  <2>1. Enqueue(Text(m)) /\ UNCHANGED preparing /\ log'[m] = "text"
    BY <1>6, <1>7 DEF Ask, Text
  <2>2. /\ Present(Text(m))'
        /\ work'.job = Text(m) => work'.at # "waiting"
        /\ Queued(Media(m))' <=> Queued(Media(m))
        /\ work'.job = Media(m) <=> work.job = Media(m)
    BY <1>1, <1>2, <1>4, <2>1, EnqueueFact
  <2>3. MediaDue(m)' <=> MediaDue(m)
    BY <2>1, <2>2 DEF MediaDue
  <2>4. AskedFirst(m)'
    BY <2>1, <2>2 DEF Sound, AskedFirst, Present
  <2>5. Accounted(m)'
    BY <1>2, <1>3, <1>4, <1>5, <2>1, <2>3 DEF Sound, Accounted, One
  <2>6. LeftIfSent(m)'
    BY <2>1, <2>2 DEF LeftIfSent
  <2> QED
    BY <2>4, <2>5, <2>6 DEF Sound
<1>8. CASE ~(connected /\ as = "text")
  <2>1. UNCHANGED sendVars
    BY <1>8 DEF Ask
  <2>2. /\ Queued(Media(m))' <=> Queued(Media(m))
        /\ Queued(Text(m))' <=> Queued(Text(m))
        /\ work' = work
    BY <2>1 DEF sendVars, Queued
  <2>3. ~TextDue(m)' /\ ~Present(Text(m))'
    BY <1>4, <2>2 DEF TextDue, Present
  <2>4. CASE as = "text"
    <3>1. log'[m] = "failed" /\ UNCHANGED preparing
      BY <1>6, <1>8, <2>4 DEF GivenUp, Ask
    <3>2. MediaDue(m)' <=> MediaDue(m)
      BY <2>2, <3>1 DEF MediaDue
    <3>3. AskedFirst(m)'
      BY <2>2, <3>1 DEF Sound, AskedFirst, Present
    <3>4. Accounted(m)'
      BY <1>2, <1>3, <1>4, <1>5, <2>3, <3>1, <3>2 DEF Sound, Accounted, One
    <3>5. LeftIfSent(m)'
      BY <1>4, <2>2, <3>1 DEF LeftIfSent, Present
    <3> QED
      BY <3>3, <3>4, <3>5 DEF Sound
  <2>5. CASE as = "media"
    <3>1. /\ log[m] = "none" /\ m \notin preparing /\ ~Present(Media(m))
      BY <2>5 DEF Ask, Sound, AskedFirst
    <3>2. ~MediaDue(m) /\ ~Present(Media(m))'
      BY <2>2, <3>1 DEF MediaDue, Present
    <3>3. /\ log'[m] \in {"media", "fallback"}
          /\ log'[m] = "fallback" => preparing' = preparing
      BY <1>6, <2>5 DEF GivenUp, Ask
    <3>4. AskedFirst(m)'
      BY <2>3, <3>2, <3>3 DEF AskedFirst
    <3>5. log'[m] = "fallback" => ~MediaDue(m)'
      BY <3>1, <3>2, <3>3 DEF MediaDue, Present
    <3>6. Accounted(m)'
      BY <1>2, <1>3, <1>5, <2>3, <3>1, <3>2, <3>3, <3>5
      DEF Sound, Accounted, One
    <3>7. LeftIfSent(m)'
      BY <1>4, <2>2, <3>3 DEF LeftIfSent, Present
    <3> QED
      BY <3>4, <3>6, <3>7 DEF Sound
  <2> QED
    BY <2>4, <2>5
<1> QED
  BY <1>7, <1>8

(* A picture is ready, or it fails.                                        *)
LEMMA PreparedSound ==
    ASSUME IInv, NEW m \in Messages, Prepared(m), Sound(m)
    PROVE  Sound(m)'
<1>1. TypeOK /\ QueueInv
  BY DEF IInv
<1>2. /\ handed[m] \in Nat /\ doubts[m] \in Nat
      /\ Media(m) \in Job /\ Text(m) \in Job /\ Media(m) # Text(m)
      /\ Media(m).as = "media" /\ Media(m).of = m
  BY <1>1, MessageTypes, JobsDiffer
<1>3. /\ handed'[m] = handed[m] /\ doubts'[m] = doubts[m]
      /\ m \in preparing /\ m \notin preparing'
  BY DEF Prepared
<1>4. ~Present(Media(m)) /\ log[m] # "none" /\ MediaDue(m)
  BY <1>3 DEF Sound, AskedFirst, MediaDue
<1>5. CASE Enqueue(Media(m)) /\ UNCHANGED log
  <2>1. /\ Present(Media(m))'
        /\ Queued(Text(m))' <=> Queued(Text(m))
        /\ work'.job = Text(m) <=> work.job = Text(m)
        /\ work.job = Text(m) => work' = work
    BY <1>1, <1>2, <1>4, <1>5, EnqueueFact
  <2>2. AskedFirst(m)'
    BY <1>3, <1>4, <1>5, <2>1 DEF Sound, AskedFirst, Present
  <2>3. TextDue(m)' <=> TextDue(m)
    BY <2>1 DEF TextDue
  <2>4. Accounted(m)'
    BY <1>2, <1>3, <1>4, <1>5, <2>3 DEF Sound, Accounted, One
  <2>5. LeftIfSent(m)'
    BY <1>3, <1>5, <2>1 DEF Sound, LeftIfSent
  <2> QED
    BY <2>2, <2>4, <2>5 DEF Sound
<1>6. CASE Answer(Media(m), FALSE) /\ UNCHANGED sendVars
  <2>1. /\ log[m] # "media" => log'[m] = log[m]
        /\ log[m] = "media" => log'[m] = "fallback"
    BY <1>1, <1>2, <1>6, AnswerFact
  <2>2. /\ Queued(Media(m))' <=> Queued(Media(m))
        /\ Queued(Text(m))' <=> Queued(Text(m))
        /\ work' = work
    BY <1>6 DEF sendVars, Queued
  <2>3. ~MediaDue(m)'
    BY <1>3, <1>4, <2>2 DEF MediaDue, Present
  <2>4. TextDue(m)' <=> TextDue(m)
    BY <2>2 DEF TextDue
  <2>5. AskedFirst(m)'
    BY <1>3, <1>4, <2>1, <2>2 DEF Sound, AskedFirst, Present
  <2>6. Accounted(m)'
    BY <1>2, <1>3, <1>4, <2>1, <2>3, <2>4 DEF Sound, Accounted, One
  <2>7. LeftIfSent(m)'
    BY <1>3, <2>1, <2>2 DEF Sound, LeftIfSent
  <2> QED
    BY <2>5, <2>6, <2>7 DEF Sound
<1> QED
  BY <1>5, <1>6 DEF Prepared, Media

(* The back end stops waiting.                                             *)
LEMMA GiveUpSound ==
    ASSUME TypeOK, QueueInv, NEW m \in Messages, GiveUp(m), Sound(m)
    PROVE  Sound(m)'
<1>1. SameDue(m)
  BY SameDueIf DEF GiveUp, service
<1>2. /\ handed'[m] = handed[m] /\ doubts'[m] = doubts[m] + 1
      /\ handed[m] \in Nat /\ doubts[m] \in Nat
  BY DoubtFact, MessageTypes DEF GiveUp
<1>3. /\ log[m] \in {"media", "text"}
      /\ log'[m] = IF log[m] = "media" THEN "fallback" ELSE "failed"
  BY TypeParts DEF GiveUp, GivenUp, LogOK
<1>4. MediaDue(m)' <=> MediaDue(m)
  BY <1>1 DEF SameDue, MediaDue
<1>5. TextDue(m)' <=> TextDue(m)
  BY <1>1 DEF SameDue, TextDue
<1>6. AskedFirst(m)'
  BY <1>1, <1>3 DEF Sound, SameDue, AskedFirst, Present
<1>7. Accounted(m)'
  BY <1>2, <1>3, <1>4, <1>5 DEF Sound, Accounted, One
<1>8. LeftIfSent(m)'
  BY <1>1, <1>2, <1>3 DEF Sound, SameDue, LeftIfSent
<1> QED
  BY <1>6, <1>7, <1>8 DEF Sound

(* The process ends: nothing is to be done any more, and whoever waited    *)
(* is in doubt.                                                            *)
LEMMA ExitSound ==
    ASSUME TypeOK, QueueInv, NEW m \in Messages, Exit, Sound(m)
    PROVE  Sound(m)'
<1>1. /\ work'.job = NoJob /\ Len(queue') = 0 /\ preparing' = {}
  BY DEF Exit, NoWork
<1>2. /\ Media(m) \in Job /\ Text(m) \in Job
      /\ handed[m] \in Nat /\ doubts[m] \in Nat
      /\ Media(m).of = m /\ Text(m).of = m
  BY MessageTypes, JobsDiffer
<1>3. ~Present(Media(m))' /\ ~Present(Text(m))'
  BY <1>1, JobsDiffer DEF Present, Queued
<1>4. ~MediaDue(m)' /\ ~TextDue(m)'
  BY <1>1, <1>3 DEF MediaDue, TextDue, Present
<1>5. \/ log'[m] = log[m] /\ doubts'[m] = doubts[m]
      \/ log'[m] \in {"fallback", "failed"} /\ doubts'[m] = doubts[m] + 1
  BY ExitFact
<1>6. AskedFirst(m)'
  BY <1>1, <1>3 DEF AskedFirst
<1>7. \/ handed'[m] = handed[m]
      \/ /\ handed'[m] = handed[m] + 1
         /\ work.job = Media(m) \/ work.job = Text(m)
         /\ work.at # "waiting"
  <2>1. CASE handed' = handed
    BY <2>1
  <2>2. CASE /\ work.job \in Job /\ work.at \in {"sending", "again"}
             /\ handed'[work.job.of] = handed[work.job.of] + 1
             /\ \A x \in (Messages \cup Claims) \ {work.job.of} :
                    handed'[x] = handed[x]
    <3>1. CASE work.job.of = m
      <4>1. work.job = Media(m) \/ work.job = Text(m)
        BY <2>2, <3>1, OfFact, JobFact
      <4> QED
        BY <2>2, <3>1, <4>1
    <3>2. CASE work.job.of # m
      BY <2>2, <3>2
    <3> QED
      BY <3>1, <3>2
  <2> QED
    BY <2>1, <2>2, ExitFact
<1>8. Accounted(m)'
  <2>1. handed'[m] = handed[m] + 1 => MediaDue(m) \/ TextDue(m)
    BY <1>2, <1>7 DEF MediaDue, TextDue
  <2>2. handed'[m] <= 1 + doubts[m]
    BY <1>2, <1>7, <2>1 DEF Sound, Accounted, One
  <2>3. log'[m] \in {"none", "fallback"} =>
            handed'[m] + 1 <= 1 + doubts'[m]
    BY <1>2, <1>5, <1>7, <2>1, <2>2 DEF Sound, Accounted, One
  <2> QED
    BY <1>2, <1>4, <1>5, <1>7, <2>2, <2>3 DEF Accounted, One
<1>9. LeftIfSent(m)'
  BY <1>1, <1>2, <1>3, <1>5, <1>7 DEF Sound, LeftIfSent, Present
<1> QED
  BY <1>6, <1>8, <1>9 DEF Sound

LEMMA NextMessageInv == IInv /\ [Next]_vars => MessageInv'
<1> SUFFICES ASSUME IInv, [Next]_vars, NEW m \in Messages PROVE Sound(m)'
  BY DEF MessageInv
<1>1. TypeOK /\ QueueInv /\ Sound(m)
  BY DEF IInv, MessageInv
<1>2. ASSUME NEW n \in Messages, NEW as \in {"media", "text"},
             NEW connected \in BOOLEAN, Ask(n, as, connected)
      PROVE  Sound(m)'
  <2>1. CASE n = m
    BY <1>1, <1>2, <2>1, AskSound
  <2>2. CASE n # m
    <3>1. SameStory(m) /\ (m \in preparing' <=> m \in preparing)
      BY <1>1, <1>2, <2>2, TypeParts DEF Ask, SameStory, LogOK
    <3>2. UNCHANGED sendVars
          \/ (Enqueue(Text(n)) /\ log[n] \in {"none", "fallback"})
      BY <1>2 DEF Ask, Text
    <3>3. SameDue(m)
      <4>1. CASE UNCHANGED sendVars
        BY <3>1, <4>1 DEF sendVars, SameDue, Queued
      <4>2. CASE Enqueue(Text(n)) /\ log[n] \in {"none", "fallback"}
        <5>1. Text(n) \in Job /\ Text(n).of = n /\ ~Present(Text(n))
          BY <4>2, JobFact, JobsDiffer, NewJobs
        <5> QED
          BY <1>1, <2>2, <3>1, <4>2, <5>1, EnqueueOthers
      <4> QED
        BY <3>2, <4>1, <4>2
    <3> QED
      BY <1>1, <3>1, <3>3, SoundFrame
  <2> QED
    BY <2>1, <2>2
<1>3. ASSUME NEW n \in Messages, Prepared(n) PROVE Sound(m)'
  <2>1. CASE n = m
    BY <1>1, <1>3, <2>1, PreparedSound
  <2>2. CASE n # m
    <3>1. /\ n \in preparing /\ ~Present(Media(n))
          /\ Media(n) \in Job /\ Media(n).of = n /\ Media(n).as = "media"
          /\ m \in preparing' <=> m \in preparing
          /\ handed'[m] = handed[m] /\ doubts'[m] = doubts[m]
      BY <1>3, <2>2, NewJobs, JobFact, JobsDiffer DEF Prepared
    <3>2. log'[m] = log[m]
      BY <1>1, <1>3, <2>2, <3>1, AnswerFact DEF Prepared, Media
    <3>3. SameDue(m)
      <4>1. CASE UNCHANGED sendVars
        BY <3>1, <4>1 DEF sendVars, SameDue, Queued
      <4>2. CASE Enqueue(Media(n))
        BY <1>1, <2>2, <3>1, <4>2, EnqueueOthers
      <4> QED
        BY <1>3, <4>1, <4>2 DEF Prepared, Media
    <3> QED
      BY <1>1, <3>1, <3>2, <3>3, SoundFrame DEF SameStory
  <2> QED
    BY <2>1, <2>2
<1>4. ASSUME NEW n \in Messages, GiveUp(n) PROVE Sound(m)'
  <2>1. CASE n = m
    BY <1>1, <1>4, <2>1, GiveUpSound
  <2>2. CASE n # m
    <3>1. SameDue(m)
      BY <1>4, SameDueIf DEF GiveUp, service
    <3>2. SameStory(m)
      BY <1>1, <1>4, <2>2, DoubtFact, TypeParts DEF GiveUp, SameStory, LogOK
    <3> QED
      BY <1>1, <3>1, <3>2, SoundFrame
  <2> QED
    BY <2>1, <2>2
<1>5. CASE QueueStep /\ ~NextJob
  <2>1. work.job \in Job
    BY <1>1, <1>5, QueueStepFact
  <2>2. CASE work.job.of # m
    BY <1>1, <1>5, <2>2, QueueOthers, SoundFrame
  <2>3. CASE work.job.of = m
    <3>1. work.job = Media(m) \/ work.job = Text(m)
      BY <2>1, <2>3, OfFact, JobFact
    <3> QED
      BY <1>1, <1>5, <3>1, MediaSound, TextSound
  <2> QED
    BY <2>2, <2>3
<1>6. CASE NextJob
  BY <1>1, <1>6, NextJobSound
<1>7. CASE Exit
  BY <1>1, <1>7, ExitSound
<1>8. CASE Tick \/ NothingClaimed \/ AckAnswered \/ AckLost \/ Shutdown
           \/ UNCHANGED vars
  <2>1. UNCHANGED <<sendVars, preparing, log, doubts, handed>>
    BY <1>8 DEF Tick, NothingClaimed, AckAnswered, AckLost, Shutdown, service,
       mailVars, vars
  <2>2. SameDue(m) /\ SameStory(m)
    BY <2>1, SameDueIf DEF SameStory
  <2> QED
    BY <1>1, <2>2, SoundFrame
<1>9. ASSUME NEW k \in Claims, NEW connected \in BOOLEAN,
             Claimed(k, connected)
      PROVE  Sound(m)'
  <2>1. UNCHANGED <<preparing, log, doubts, handed>> /\ bridge.at = "claiming"
    BY <1>9 DEF Claimed, service, mailVars
  <2>2. SameStory(m)
    BY <2>1 DEF SameStory
  <2>3. CASE UNCHANGED sendVars
    BY <1>1, <2>1, <2>2, <2>3, SameDueIf, SoundFrame
  <2>4. CASE Enqueue(Code(k))
    <3>1. Code(k) \in Job /\ Code(k).of = k /\ ~Present(Code(k)) /\ m # k
      BY <2>1, JobFact, JobsDiffer, NewJobs, JobsAssumption
    <3> QED
      BY <1>1, <2>1, <2>2, <2>4, <3>1, EnqueueOthers, SoundFrame
  <2> QED
    BY <1>9, <2>3, <2>4 DEF Claimed, Code
<1> QED
  BY <1>2, <1>3, <1>4, <1>5, <1>6, <1>7, <1>8, <1>9
  DEF Next, QueueStep, CloudAnswers

-----------------------------------------------------------------------------
(* The theorems.                                                           *)

LEMMA InitIInv == Init => IInv
<1> SUFFICES ASSUME Init PROVE IInv
  OBVIOUS
<1>1. /\ work.at = "idle" /\ work.job = NoJob /\ Len(queue) = 0
      /\ queue \in Seq(Job) /\ WorkOK
  BY DEF Init, NoWork, WorkOK
<1>2. TypeOK
  <2>1. BridgeOK
    BY DEF Init, Resting, BridgeOK
  <2>2. LogOK /\ HandedOK /\ DoubtsOK
    BY DEF Init, LogOK, HandedOK, DoubtsOK
  <2>3. OthersOK
    <3>1. 0 \in 0..MaxExits
      BY JobsAssumption
    <3> QED
      BY <3>1 DEF Init, OthersOK
  <2> QED
    BY <1>1, <2>1, <2>2, <2>3, TypeParts
<1>3. QueueInv
  BY <1>1, JobFact DEF QueueInv, AtWork, EachJobOnce
<1>4. \A j \in Job : ~Present(j)
  BY <1>1, JobFact DEF Present, Queued
<1>5. CodeInv
  <2>1. bridge.at = "rest" /\ bridge.claim = Nobody
    BY DEF Init, Resting
  <2>2. CodeOfBridge
    BY <1>4, JobFact DEF CodeOfBridge
  <2>3. StillOpen /\ PendingIsTrue /\ BridgeHasClaim
    BY <2>1 DEF StillOpen, PendingIsTrue, BridgeHasClaim
  <2>4. Unheard /\ CodeSentOncePerClaim
    BY DEF Init, Unheard, CodeSentOncePerClaim
  <2> QED
    BY <2>2, <2>3, <2>4 DEF CodeInv
<1>6. ASSUME NEW m \in Messages PROVE Sound(m)
  <2>1. ~Present(Media(m)) /\ ~Present(Text(m))
    BY <1>4, JobFact
  <2>2. /\ log[m] = "none" /\ handed[m] = 0 /\ doubts[m] = 0
        /\ m \notin preparing
    BY DEF Init
  <2>3. ~MediaDue(m) /\ ~TextDue(m)
    BY <2>1, <2>2 DEF MediaDue, TextDue, Present
  <2>4. AskedFirst(m) /\ LeftIfSent(m)
    BY <1>1, <2>1, <2>2 DEF AskedFirst, LeftIfSent
  <2>5. Accounted(m)
    BY <2>2, <2>3 DEF Accounted, One
  <2> QED
    BY <2>4, <2>5 DEF Sound
<1> QED
  BY <1>2, <1>3, <1>5, <1>6 DEF IInv, MessageInv

LEMMA NextIInv == IInv /\ [Next]_vars => IInv'
BY NextTypeOK, NextQueueOK, NextCodeInv, NextMessageInv DEF IInv, QueueOK

LEMMA Invariance == Spec => []IInv
BY InitIInv, NextIInv, PTL DEF Spec

(* Every variable keeps its type, whatever fails or stops.                 *)
THEOREM TypeCorrect == Spec => []TypeOK
<1>1. IInv => TypeOK
  BY DEF IInv
<1> QED
  BY <1>1, Invariance, PTL

(* The bridge never sends a claimed code twice, and never tells the cloud  *)
(* of a send that did not happen or was refused, for any number of codes,  *)
(* lost acknowledgements and restarts (portal-bridge.js:24).               *)
THEOREM CodeSentOnce == Spec => []CodeSentOncePerClaim
<1>1. IInv => CodeSentOncePerClaim
  BY DEF IInv, CodeInv
<1> QED
  BY <1>1, Invariance, PTL

(* An acknowledgement that is repeated repeats what the cloud was told.    *)
THEOREM OneStory == Spec => OneStoryPerClaim
<1>1. ASSUME IInv, [Next]_vars, NEW k \in Claims, acked[k] # "no"
      PROVE  acked'[k] = acked[k]
  <2>1. TypeOK /\ CodeInv
    BY <1>1 DEF IInv
  <2>2. CASE AckAnswered \/ AckLost
    <3>1. bridge.at = "acking" /\ acked' \in {acked, Told}
      BY <2>2 DEF AckAnswered, AckLost
    <3> QED
      BY <1>1, <2>1, <3>1, ToldFact
  <2>3. CASE ~(AckAnswered \/ AckLost)
    <3>1. UNCHANGED acked
      BY <1>1, <2>3 DEF Next, Ask, Prepared, GiveUp, QueueStep, TurnedDown,
         Dispatch, Sent, Threw, SentAgain, ThrewAgain, Rejected, Accepted,
         NextJob, Tick, CloudAnswers, NothingClaimed, Claimed, Shutdown, Exit,
         codeVars, vars
    <3> QED
      BY <3>1
  <2> QED
    BY <2>2, <2>3
<1>2. IInv /\ [Next]_vars =>
        [\A k \in Claims : acked[k] # "no" => acked'[k] = acked[k]]_vars
  BY <1>1
<1> QED
  BY <1>2, Invariance, PTL DEF Spec, OneStoryPerClaim

(* A customer gets a message more than once only where the outcome of an   *)
(* earlier send was unknown, and the back end never records as sent what   *)
(* never left: for any number of messages, fallbacks and restarts.         *)
THEOREM MessageAgain == Spec => []MessageAgainOnlyInDoubt
<1>1. IInv => MessageAgainOnlyInDoubt
  <2> SUFFICES ASSUME IInv, NEW m \in Messages
               PROVE  /\ handed[m] <= 1 + doubts[m]
                      /\ log[m] = "sent" => handed[m] >= 1
    BY DEF MessageAgainOnlyInDoubt
  <2>1. Sound(m) /\ handed[m] \in Nat /\ doubts[m] \in Nat
    BY MessageTypes DEF IInv, MessageInv
  <2> QED
    BY <2>1 DEF Sound, Accounted, LeftIfSent, One
<1> QED
  BY <1>1, Invariance, PTL
=============================================================================
