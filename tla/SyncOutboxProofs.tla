-------------------------- MODULE SyncOutboxProofs --------------------------
(***************************************************************************)
(* Theorems about the outbox, for any number of documents, threads and     *)
(* retries and for batches and pages of any size: what overlapping         *)
(* flushes, lost answers and crashes can never do to a row.                *)
(***************************************************************************)
EXTENDS SyncOutbox, FiniteSetTheorems, TLAPS

(* What a session may have made of a row it read.                          *)
Outcome(r, n, e) ==
    \/ n = r
    \/ n.status = "synced" /\ n.retries = r.retries /\ e \in accepted
    \/ n.status = "failed" /\ n.retries # r.retries /\ n.retries < MaxRetries
    \/ n.status = "dead_letter"

(* Each row a thread holds was open to a retry when it was read; the rows  *)
(* it has not pushed yet are as they were read.                            *)
HeldRow(j, e) ==
    /\ j.read[e].status \in Unfinished
    /\ j.read[e].retries < MaxRetries
    /\ Outcome(j.read[e], j.new[e], e)
    /\ e \in j.todo => j.new[e] = j.read[e]

HeldRows == \A f \in Threads : \A e \in DOMAIN job[f].read : HeldRow(job[f], e)

IInv == TypeOK /\ HeldRows /\ SyncedWasAccepted /\ NeverStuck

-----------------------------------------------------------------------------
(* What a push makes of a row.                                             *)
LEMMA AnswerFacts ==
    ASSUME NEW row \in Row, row.status \in Unfinished, row.retries < MaxRetries
    PROVE  /\ Synced(row) \in Row
           /\ Synced(row).status = "synced"
           /\ Synced(row).retries = row.retries
           /\ Failed(row) \in Row
           /\ \/ Failed(row).status = "dead_letter"
              \/ /\ Failed(row).status = "failed"
                 /\ Failed(row).retries # row.retries
                 /\ Failed(row).retries < MaxRetries
           /\ Rejected(row) \in Row
           /\ Rejected(row).status = "dead_letter"
<1>1. row.retries + 1 \in 0..MaxRetries
  BY BoundsAssumption DEF Row
<1>2. Synced(row) \in Row /\ Rejected(row) \in Row
  BY <1>1 DEF Synced, Rejected, Row, Unfinished, Settled
<1>3. Failed(row) \in Row
  BY <1>1 DEF Failed, FailedIgnoringLimit, Row, Unfinished, Settled
<1>4. \/ Failed(row).status = "dead_letter"
      \/ /\ Failed(row).status = "failed"
         /\ Failed(row).retries # row.retries
         /\ Failed(row).retries < MaxRetries
  <2>1. CASE row.retries + 1 >= MaxRetries
    BY <2>1 DEF Failed, Row
  <2>2. CASE ~ (row.retries + 1 >= MaxRetries)
    <3>1. Failed(row) = FailedIgnoringLimit(row)
      BY <2>2 DEF Failed
    <3>2. /\ FailedIgnoringLimit(row).status = "failed"
          /\ FailedIgnoringLimit(row).retries = row.retries + 1
      BY DEF FailedIgnoringLimit, Row
    <3> QED
      BY <2>2, <3>1, <3>2, BoundsAssumption DEF Row
  <2> QED
    BY <2>1, <2>2
<1>5. /\ Synced(row).status = "synced"
      /\ Synced(row).retries = row.retries
      /\ Rejected(row).status = "dead_letter"
  BY DEF Synced, Rejected, Row
<1> QED
  BY <1>2, <1>3, <1>4, <1>5

(* Writing a held row over the row as it is now.                           *)
LEMMA WrittenFacts ==
    ASSUME NEW read \in Row, NEW new \in Row, NEW now \in Row, NEW e,
           read.status \in Unfinished, Outcome(read, new, e),
           now.status \in Unfinished => now.retries < MaxRetries,
           now.status = "synced" => e \in accepted
    PROVE  LET w == Written(read, new, now) IN
           /\ w \in Row
           /\ w.status \in Unfinished => w.retries < MaxRetries
           /\ w.status = "synced" => e \in accepted
<1> DEFINE w == Written(read, new, now)
<1>1. w \in Row
  BY DEF Written, Put, Row
<1>2. /\ w.status = Put(read.status, new.status, now.status)
      /\ w.retries = Put(read.retries, new.retries, now.retries)
  BY DEF Written, Row
<1>3. CASE new = read
  BY <1>1, <1>2, <1>3 DEF Put
<1>4. CASE new.status = "synced" /\ new.retries = read.retries
           /\ e \in accepted
  BY <1>1, <1>2, <1>4 DEF Put, Unfinished
<1>5. CASE new.status = "failed" /\ new.retries # read.retries
           /\ new.retries < MaxRetries
  BY <1>1, <1>2, <1>5 DEF Put
<1>6. CASE new.status = "dead_letter"
  BY <1>1, <1>2, <1>6 DEF Put, Unfinished
<1> HIDE DEF w
<1> QED
  BY <1>1, <1>3, <1>4, <1>5, <1>6 DEF Outcome, w

LEMMA EventFacts ==
    ASSUME NEW kind \in {"invoice", "cloudflare_invoice"},
           NEW doc \in Documents, NEW v \in 1..MaxVersion
    PROVE  /\ Event(kind, doc, v) \in Row
           /\ Event(kind, doc, v).status = "pending"
           /\ Event(kind, doc, v).retries = 0
BY BoundsAssumption DEF Event, Row, Unfinished, Settled

-----------------------------------------------------------------------------
(* The invariant holds initially.                                          *)
LEMMA InitIInv == Init => IInv
<1> SUFFICES ASSUME Init PROVE IInv
  OBVIOUS
<1>1. Sales \subseteq Documents
  BY DEF Documents
<1>2. TypeOK
  <2>1. /\ version \in [Documents -> 0..MaxVersion]
        /\ session \subseteq Documents
        /\ outbox \in Seq(Row)
        /\ checkpoint \in [Sales -> 0..MaxVersion]
        /\ accepted \subseteq DOMAIN outbox
    BY BoundsAssumption DEF Init
  <2>2. cursor \in 0..NumSales /\ failures \in 0..MaxFailures
    BY BoundsAssumption DEF Init
  <2>3. job = [f \in Threads |-> job[f]]
    BY DEF Init
  <2>4. \A f \in Threads : JobOK(job[f])
    <3> TAKE f \in Threads
    <3>1. job[f] = Idle
      BY DEF Init
    <3> QED
      BY <3>1 DEF JobOK, Idle
  <2> QED
    BY <2>1, <2>2, <2>3, <2>4 DEF TypeOK
<1>3. HeldRows
  BY DEF Init, HeldRows, Idle
<1> QED
  BY <1>2, <1>3 DEF IInv, Init, SyncedWasAccepted, NeverStuck

(* Appending events keeps the rows there are.                              *)
LEMMA Appended ==
    ASSUME IInv, NEW more \in Seq(Row),
           \A n \in DOMAIN more : more[n].status = "pending"
                                  /\ more[n].retries = 0,
           outbox' = outbox \o more, accepted' = accepted
    PROVE  /\ outbox' \in Seq(Row)
           /\ DOMAIN outbox \subseteq DOMAIN outbox'
           /\ SyncedWasAccepted'
           /\ NeverStuck'
<1>1. outbox \in Seq(Row)
  BY DEF IInv, TypeOK
<1>2. /\ outbox' \in Seq(Row)
      /\ DOMAIN outbox = 1..Len(outbox)
      /\ Len(outbox') = Len(outbox) + Len(more)
      /\ DOMAIN outbox' = 1..(Len(outbox) + Len(more))
      /\ Len(outbox) \in Nat /\ Len(more) \in Nat
      /\ DOMAIN more = 1..Len(more)
  BY <1>1
<1>3. ASSUME NEW e \in DOMAIN outbox'
      PROVE  \/ e \in DOMAIN outbox /\ outbox'[e] = outbox[e]
             \/ outbox'[e].status = "pending" /\ outbox'[e].retries = 0
  <2>1. CASE e <= Len(outbox)
    BY <1>1, <1>2, <2>1
  <2>2. CASE e > Len(outbox)
    <3>1. e - Len(outbox) \in DOMAIN more
      BY <1>2, <2>2
    <3>2. outbox'[e] = more[e - Len(outbox)]
      BY <1>1, <1>2, <2>2
    <3> QED
      BY <3>1, <3>2
  <2> QED
    BY <1>2, <2>1, <2>2
<1>4. SyncedWasAccepted'
  BY <1>3 DEF IInv, SyncedWasAccepted
<1>5. NeverStuck'
  BY <1>3, BoundsAssumption DEF IInv, NeverStuck
<1> QED
  BY <1>2, <1>4, <1>5

(* The invariant looks at other threads' jobs and the accepted rows only   *)
(* in ways that more accepted rows and more outbox rows do not disturb.    *)
LEMMA KeepHeld ==
    ASSUME IInv, accepted \subseteq accepted',
           DOMAIN outbox \subseteq DOMAIN outbox', NEW f \in Threads,
           job'[f] = job[f]
    PROVE  /\ JobOK(job[f])'
           /\ \A e \in DOMAIN job'[f].read : HeldRow(job[f], e)'
BY DEF IInv, TypeOK, JobOK, HeldRows, HeldRow, Outcome

(* A thread without a flush.                                               *)
LEMMA IdleHolds ==
    ASSUME NEW f \in Threads, job'[f] = Idle
    PROVE  /\ JobOK(job[f])'
           /\ \A e \in DOMAIN job'[f].read : HeldRow(job[f], e)'
BY DEF JobOK, Idle

-----------------------------------------------------------------------------
(* Requests and the reconciliation only add rows.                          *)

LEMMA Requests ==
    ASSUME IInv, NEW d \in Documents,
           Record(d) \/ Change(d) \/ CloseSession(d)
    PROVE  IInv'
<1>1. /\ UNCHANGED <<outbox, checkpoint, cursor, accepted, job, failures>>
      /\ version' \in [Documents -> 0..MaxVersion]
      /\ session' \subseteq Documents
  <2>1. version \in [Documents -> 0..MaxVersion] /\ session \subseteq Documents
    BY DEF IInv, TypeOK
  <2>2. CASE Record(d)
    BY <2>1, <2>2, BoundsAssumption DEF Record
  <2>3. CASE Change(d)
    <3>1. version[d] + 1 \in 0..MaxVersion
      BY <2>1, <2>3, BoundsAssumption DEF Change
    <3> QED
      BY <2>1, <2>3, <3>1 DEF Change
  <2>4. CASE CloseSession(d)
    BY <2>1, <2>4 DEF CloseSession
  <2> QED
    BY <2>2, <2>3, <2>4
<1>2. TypeOK'
  BY <1>1 DEF IInv, TypeOK, JobOK
<1>3. HeldRows' /\ SyncedWasAccepted' /\ NeverStuck'
  BY <1>1 DEF IInv, HeldRows, HeldRow, Outcome, SyncedWasAccepted, NeverStuck
<1> QED
  BY <1>2, <1>3 DEF IInv

LEMMA Enqueues == ASSUME IInv, NEW s \in Sales, EnqueueSale(s) PROVE IInv'
<1> DEFINE event == Event(IF PortalEnabled THEN "cloudflare_invoice"
                          ELSE "invoice", s, 1)
<1>1. /\ event \in Row
      /\ event.status = "pending"
      /\ event.retries = 0
  <2>1. s \in Documents /\ 1 \in 1..MaxVersion
    BY BoundsAssumption DEF Documents
  <2> QED
    BY <2>1, EventFacts
<1> HIDE DEF event
<1>2. /\ outbox' = outbox \o <<event>>
      /\ session' \subseteq Documents
      /\ UNCHANGED <<version, checkpoint, cursor, accepted, job, failures>>
  <2>1. outbox' = Append(outbox, event) /\ outbox \in Seq(Row)
    BY DEF EnqueueSale, event, IInv, TypeOK
  <2> QED
    BY <1>1, <2>1 DEF EnqueueSale, IInv, TypeOK
<1>3. /\ outbox' \in Seq(Row)
      /\ DOMAIN outbox \subseteq DOMAIN outbox'
      /\ SyncedWasAccepted'
      /\ NeverStuck'
  <2>1. <<event>> \in Seq(Row)
    BY <1>1
  <2>2. \A n \in DOMAIN <<event>> : <<event>>[n].status = "pending"
                                   /\ <<event>>[n].retries = 0
    BY <1>1
  <2> QED
    BY <1>2, <2>1, <2>2, Appended
<1>4. \A f \in Threads : /\ JobOK(job[f])'
                         /\ \A e \in DOMAIN job'[f].read : HeldRow(job[f], e)'
  BY <1>2, <1>3, KeepHeld
<1>5. TypeOK'
  BY <1>2, <1>3, <1>4 DEF IInv, TypeOK
<1> QED
  BY <1>3, <1>4, <1>5 DEF IInv, HeldRows

LEMMA Reconciles == ASSUME IInv, Reconcile PROVE IInv'
<1> DEFINE changed == Stale(Page)
<1>1. changed \subseteq Sales /\ Page \subseteq Sales
      /\ Sales \subseteq Documents
  BY DEF Stale, Page, FirstOf, Documents
<1>2. \A s \in changed : version[s] \in 1..MaxVersion
  BY <1>1, BoundsAssumption DEF Stale, Page, FirstOf, IInv, TypeOK
<1>3. PICK order \in Ascending(changed) :
        outbox' = outbox \o
            [n \in DOMAIN order |->
                Event("cloudflare_invoice", order[n], version[order[n]])]
  BY DEF Reconcile
<1> DEFINE more ==
      [n \in DOMAIN order |->
          Event("cloudflare_invoice", order[n], version[order[n]])]
<1>4. /\ order \in [1..Cardinality(changed) -> changed]
      /\ Cardinality(changed) \in Nat
  <2>1. IsFiniteSet(Sales)
    BY FS_Interval, BoundsAssumption DEF Sales
  <2>2. IsFiniteSet(changed)
    BY <1>1, <2>1, FS_Subset
  <2> QED
    BY <1>3, <2>2, FS_CardinalityType DEF Ascending
<1>5. /\ more \in Seq(Row)
      /\ \A n \in DOMAIN more : more[n].status = "pending"
                                /\ more[n].retries = 0
  <2>1. \A n \in 1..Cardinality(changed) :
            /\ more[n] \in Row
            /\ more[n].status = "pending"
            /\ more[n].retries = 0
    <3> TAKE n \in 1..Cardinality(changed)
    <3>1. /\ order[n] \in Documents
          /\ version[order[n]] \in 1..MaxVersion
      BY <1>1, <1>2, <1>4
    <3>2. more[n] = Event("cloudflare_invoice", order[n], version[order[n]])
      BY <1>4
    <3> HIDE DEF more
    <3> QED
      BY <3>1, <3>2, EventFacts
  <2>2. DOMAIN more = 1..Cardinality(changed)
    BY <1>4
  <2>3. more = [n \in 1..Cardinality(changed) |-> more[n]]
    BY <2>2
  <2> HIDE DEF more
  <2> QED
    BY <1>4, <2>1, <2>2, <2>3
<1>6. outbox' = outbox \o more /\ accepted' = accepted
  BY <1>3 DEF Reconcile
<1> HIDE DEF more, changed
<1>7. /\ outbox' \in Seq(Row)
      /\ DOMAIN outbox \subseteq DOMAIN outbox'
      /\ SyncedWasAccepted'
      /\ NeverStuck'
  BY <1>5, <1>6, Appended
<1>8. \A f \in Threads : /\ JobOK(job[f])'
                         /\ \A e \in DOMAIN job'[f].read : HeldRow(job[f], e)'
  <2> TAKE f \in Threads
  <2>1. /\ job'[f].todo = job[f].todo
        /\ job'[f].read = job[f].read
        /\ job'[f].new = job[f].new
        /\ job'[f].phase \in {"idle", "reconciled", "pushing"}
        /\ job'[f] = [phase |-> job'[f].phase, todo |-> job'[f].todo,
                      read |-> job'[f].read, new |-> job'[f].new]
    <3>1. /\ job' = [job EXCEPT ![Scheduler].phase = "reconciled"]
          /\ job = [g \in Threads |-> job[g]]
          /\ JobOK(job[f])
      BY DEF Reconcile, IInv, TypeOK
    <3>2. job'[f] = IF f = Scheduler
                    THEN [job[f] EXCEPT !.phase = "reconciled"] ELSE job[f]
      BY <3>1
    <3>3. /\ job[f] = [phase |-> job[f].phase, todo |-> job[f].todo,
                       read |-> job[f].read, new |-> job[f].new]
          /\ job[f].phase \in {"idle", "reconciled", "pushing"}
      BY <3>1 DEF JobOK
    <3>4. CASE f = Scheduler
      <4>1. job'[f] = [phase |-> "reconciled", todo |-> job[f].todo,
                       read |-> job[f].read, new |-> job[f].new]
        BY <3>2, <3>3, <3>4
      <4> QED
        BY <4>1
    <3>5. CASE f # Scheduler
      BY <3>2, <3>3, <3>5
    <3> QED
      BY <3>4, <3>5
  <2> QED
    BY <1>6, <1>7, <2>1 DEF IInv, TypeOK, JobOK, HeldRows, HeldRow, Outcome
<1>9. TypeOK'
  <2>1. checkpoint' \in [Sales -> 0..MaxVersion]
    BY <1>1 DEF Reconcile, IInv, TypeOK
  <2>2. cursor' \in 0..NumSales
    BY <1>1, BoundsAssumption DEF Reconcile, NextCursor, Last, Sales
  <2>3. job' = [f \in Threads |-> job'[f]]
    BY DEF Reconcile, IInv, TypeOK
  <2> QED
    BY <1>6, <1>7, <1>8, <2>1, <2>2, <2>3 DEF Reconcile, IInv, TypeOK
<1> QED
  BY <1>7, <1>8, <1>9 DEF IInv, HeldRows

-----------------------------------------------------------------------------
(* The steps of a flush.                                                   *)

LEMMA Starts == ASSUME IInv, NEW f \in Threads, StartFlush(f) PROVE IInv'
<1> DEFINE batch == FirstOf(BatchSize, Eligible(f))
<1>1. /\ batch \subseteq DOMAIN outbox
      /\ \A e \in batch : /\ outbox[e].status \in Unfinished
                          /\ outbox[e].retries < MaxRetries
                          /\ outbox[e] \in Row
  BY DEF FirstOf, Eligible, IInv, TypeOK
<1>2. job' = [job EXCEPT ![f] =
        IF batch = {} THEN Idle
        ELSE [phase |-> "pushing", todo |-> batch,
              read |-> Restrict(outbox, batch),
              new |-> Restrict(outbox, batch)]]
      /\ UNCHANGED <<version, session, outbox, checkpoint, cursor, accepted,
                     failures>>
  BY DEF StartFlush
<1> HIDE DEF batch
<1>3. \A g \in Threads : /\ JobOK(job[g])'
                         /\ \A e \in DOMAIN job'[g].read : HeldRow(job[g], e)'
  <2> TAKE g \in Threads
  <2>1. CASE g # f
    BY <1>2, <2>1, KeepHeld DEF IInv, TypeOK
  <2>2. CASE g = f /\ batch = {}
    BY <1>2, <2>2, IdleHolds DEF IInv, TypeOK
  <2>3. CASE g = f /\ batch # {}
    <3>1. job'[f] = [phase |-> "pushing", todo |-> batch,
                     read |-> Restrict(outbox, batch),
                     new |-> Restrict(outbox, batch)]
      BY <1>2, <2>3 DEF IInv, TypeOK
    <3>2. /\ DOMAIN Restrict(outbox, batch) = batch
          /\ Restrict(outbox, batch) \in [batch -> Row]
          /\ \A e \in batch : Restrict(outbox, batch)[e] = outbox[e]
      BY <1>1 DEF Restrict
    <3> QED
      BY <1>1, <1>2, <2>3, <3>1, <3>2 DEF JobOK, HeldRow, Outcome
  <2> QED
    BY <2>1, <2>2, <2>3
<1>4. TypeOK'
  BY <1>2, <1>3 DEF IInv, TypeOK
<1> QED
  BY <1>2, <1>3, <1>4 DEF IInv, HeldRows, SyncedWasAccepted, NeverStuck

LEMMA Pushes == ASSUME IInv, NEW f \in Threads, Push(f) PROVE IInv'
<1>0. PICK e \in job[f].todo : \E row :
        /\ row \in {Synced(job[f].new[e]), Failed(job[f].new[e]),
                    Rejected(job[f].new[e])}
        /\ job' = [job EXCEPT ![f].todo = @ \ {e}, ![f].new[e] = row]
        /\ accepted' \in {accepted, accepted \cup {e}}
        /\ row = Synced(job[f].new[e]) => e \in accepted'
        /\ UNCHANGED <<version, session, outbox, checkpoint, cursor,
                       failures>>
  <2>1. PICK e \in job[f].todo :
            LET row == job[f].new[e]
                answered(r) == job' = [job EXCEPT ![f].todo = @ \ {e},
                                                  ![f].new[e] = r]
            IN
            \/ answered(Synced(row)) /\ accepted' = accepted \cup {e}
            \/ /\ answered(Failed(row))
               /\ accepted' \in {accepted, accepted \cup {e}}
            \/ answered(Rejected(row)) /\ UNCHANGED accepted
    BY DEF Push
  <2>2. UNCHANGED <<version, session, outbox, checkpoint, cursor, failures>>
    BY DEF Push
  <2> DEFINE old == job[f].new[e]
  <2>3. CASE /\ job' = [job EXCEPT ![f].todo = @ \ {e},
                                   ![f].new[e] = Synced(old)]
             /\ accepted' = accepted \cup {e}
    <3> HIDE DEF Synced
    <3> QED
      BY <2>2, <2>3
  <2>4. CASE /\ job' = [job EXCEPT ![f].todo = @ \ {e},
                                   ![f].new[e] = Failed(old)]
             /\ accepted' \in {accepted, accepted \cup {e}}
    <3>1. JobOK(job[f]) /\ HeldRow(job[f], e)
      BY DEF IInv, TypeOK, JobOK, HeldRows
    <3>2. old \in Row /\ old.status \in Unfinished /\ old.retries < MaxRetries
      BY <3>1 DEF JobOK, HeldRow
    <3>3. Failed(old) # Synced(old)
      BY <3>2, AnswerFacts
    <3> QED
      BY <2>2, <2>4, <3>3
  <2>5. CASE /\ job' = [job EXCEPT ![f].todo = @ \ {e},
                                   ![f].new[e] = Rejected(old)]
             /\ UNCHANGED accepted
    <3>1. JobOK(job[f]) /\ HeldRow(job[f], e)
      BY DEF IInv, TypeOK, JobOK, HeldRows
    <3>2. old \in Row /\ old.status \in Unfinished /\ old.retries < MaxRetries
      BY <3>1 DEF JobOK, HeldRow
    <3>3. Rejected(old) # Synced(old)
      BY <3>2, AnswerFacts
    <3> QED
      BY <2>2, <2>5, <3>3
  <2> QED
    BY <2>1, <2>3, <2>4, <2>5
<1>1. PICK row :
        /\ row \in {Synced(job[f].new[e]), Failed(job[f].new[e]),
                    Rejected(job[f].new[e])}
        /\ job' = [job EXCEPT ![f].todo = @ \ {e}, ![f].new[e] = row]
        /\ accepted' \in {accepted, accepted \cup {e}}
        /\ row = Synced(job[f].new[e]) => e \in accepted'
        /\ UNCHANGED <<version, session, outbox, checkpoint, cursor,
                       failures>>
  BY <1>0
<1> DEFINE old == job[f].new[e]
<1>2. /\ JobOK(job[f])
      /\ e \in DOMAIN job[f].read
      /\ DOMAIN job[f].new = DOMAIN job[f].read
      /\ old \in Row
      /\ old = job[f].read[e]
      /\ old.status \in Unfinished
      /\ old.retries < MaxRetries
  BY <1>1 DEF IInv, TypeOK, JobOK, HeldRows, HeldRow
<1>3. /\ row \in Row
      /\ \/ /\ row.status = "synced"
            /\ row.retries = old.retries
            /\ e \in accepted'
         \/ /\ row.status = "failed"
            /\ row.retries # old.retries
            /\ row.retries < MaxRetries
         \/ row.status = "dead_letter"
  BY <1>1, <1>2, AnswerFacts
<1>4. /\ job'[f] = [phase |-> job[f].phase, todo |-> job[f].todo \ {e},
                    read |-> job[f].read,
                    new |-> [job[f].new EXCEPT ![e] = row]]
      /\ \A g \in Threads \ {f} : job'[g] = job[g]
      /\ job' = [g \in Threads |-> job'[g]]
  <2>1. job[f] = [phase |-> job[f].phase, todo |-> job[f].todo,
                  read |-> job[f].read, new |-> job[f].new]
    BY <1>2 DEF JobOK
  <2> HIDE DEF old
  <2> QED
    BY <1>1, <2>1 DEF IInv, TypeOK
<1>5. accepted \subseteq accepted' /\ e \in DOMAIN outbox
      /\ accepted' \subseteq DOMAIN outbox /\ outbox' = outbox
  BY <1>1, <1>2 DEF IInv, TypeOK, JobOK
<1>6. \A g \in Threads : /\ JobOK(job[g])'
                         /\ \A d \in DOMAIN job'[g].read : HeldRow(job[g], d)'
  <2> TAKE g \in Threads
  <2>1. CASE g # f
    BY <1>4, <1>5, <2>1, KeepHeld
  <2>2. CASE g = f
    <3>1. JobOK(job[f])'
      <4>1. /\ job'[f].phase = job[f].phase
            /\ job'[f].todo = job[f].todo \ {e}
            /\ job'[f].read = job[f].read
            /\ job'[f].new = [job[f].new EXCEPT ![e] = row]
        BY <1>4
      <4>2. /\ job[f].phase \in {"idle", "reconciled", "pushing"}
            /\ job[f].todo \subseteq DOMAIN job[f].read
            /\ DOMAIN job[f].read \subseteq DOMAIN outbox
            /\ job[f].read \in [DOMAIN job[f].read -> Row]
            /\ job[f].new \in [DOMAIN job[f].read -> Row]
        BY <1>2 DEF JobOK
      <4>3. job'[f].new \in [DOMAIN job[f].read -> Row]
        BY <1>3, <4>1, <4>2
      <4> HIDE DEF old
      <4> QED
        BY <1>4, <1>5, <4>1, <4>2, <4>3 DEF JobOK
    <3>2. ASSUME NEW d \in DOMAIN job[f].read
          PROVE  HeldRow(job[f], d)'
      <4>1. HeldRow(job[f], d)
        BY DEF IInv, HeldRows
      <4>2. CASE d = e
        <5>1. job'[f].new[e] = row
          BY <1>2, <1>4
        <5>2. /\ e \notin job'[f].todo
              /\ job'[f].read[e] = old
          BY <1>2, <1>4
        <5> HIDE DEF old
        <5> QED
          BY <1>2, <1>3, <4>2, <5>1, <5>2 DEF HeldRow, Outcome
      <4>3. CASE d # e
        BY <1>2, <1>4, <1>5, <4>1, <4>3 DEF HeldRow, Outcome
      <4> QED
        BY <4>2, <4>3
    <3> QED
      BY <1>4, <2>2, <3>1, <3>2
  <2> QED
    BY <2>1, <2>2
<1>7. TypeOK'
  BY <1>1, <1>4, <1>5, <1>6 DEF IInv, TypeOK
<1> QED
  BY <1>5, <1>6, <1>7 DEF IInv, HeldRows, SyncedWasAccepted, NeverStuck

LEMMA Commits == ASSUME IInv, NEW f \in Threads, Commit(f) PROVE IInv'
<1> DEFINE j == job[f]
<1>1. /\ outbox' = [e \in DOMAIN outbox |->
            IF e \in DOMAIN j.read
            THEN Written(j.read[e], j.new[e], outbox[e])
            ELSE outbox[e]]
      /\ job' = [job EXCEPT ![f] = Idle]
      /\ UNCHANGED <<version, session, checkpoint, cursor, accepted,
                     failures>>
  BY DEF Commit
<1>2. \A e \in DOMAIN outbox :
          /\ outbox'[e] \in Row
          /\ outbox'[e].status \in Unfinished => outbox'[e].retries < MaxRetries
          /\ outbox'[e].status = "synced" => e \in accepted
  <2> TAKE e \in DOMAIN outbox
  <2>1. /\ outbox[e] \in Row
        /\ outbox[e].status \in Unfinished => outbox[e].retries < MaxRetries
        /\ outbox[e].status = "synced" => e \in accepted
    BY DEF IInv, TypeOK, SyncedWasAccepted, NeverStuck
  <2>2. CASE e \in DOMAIN j.read
    <3>1. /\ j.read[e] \in Row /\ j.new[e] \in Row
          /\ j.read[e].status \in Unfinished
          /\ Outcome(j.read[e], j.new[e], e)
      BY <2>2 DEF IInv, TypeOK, JobOK, HeldRows, HeldRow
    <3>2. outbox'[e] = Written(j.read[e], j.new[e], outbox[e])
      BY <1>1, <2>2
    <3> HIDE DEF j
    <3> QED
      BY <2>1, <3>1, <3>2, WrittenFacts
  <2>3. CASE e \notin DOMAIN j.read
    BY <1>1, <2>1, <2>3
  <2> QED
    BY <2>2, <2>3
<1>3. DOMAIN outbox' = DOMAIN outbox /\ outbox' \in Seq(Row)
  <2>1. /\ Len(outbox) \in Nat
        /\ DOMAIN outbox = 1..Len(outbox)
    BY DEF IInv, TypeOK
  <2>2. outbox' = [e \in 1..Len(outbox) |-> outbox'[e]]
    BY <1>1, <2>1
  <2> QED
    BY <1>2, <2>1, <2>2
<1> HIDE DEF j
<1>4. \A g \in Threads : /\ JobOK(job[g])'
                         /\ \A e \in DOMAIN job'[g].read : HeldRow(job[g], e)'
  <2> TAKE g \in Threads
  <2>1. CASE g # f
    BY <1>1, <1>3, <2>1, KeepHeld DEF IInv, TypeOK
  <2>2. CASE g = f
    BY <1>1, <2>2, IdleHolds DEF IInv, TypeOK
  <2> QED
    BY <2>1, <2>2
<1>5. TypeOK'
  BY <1>1, <1>3, <1>4 DEF IInv, TypeOK
<1> QED
  BY <1>1, <1>2, <1>3, <1>4, <1>5
  DEF IInv, HeldRows, SyncedWasAccepted, NeverStuck

(* A failed commit and a crash leave threads without a flush.              *)
LEMMA Losses ==
    ASSUME IInv, Crash \/ \E f \in Threads : RollBack(f)
    PROVE  IInv'
<1>1. /\ UNCHANGED <<version, outbox, checkpoint, cursor, accepted>>
      /\ session' \subseteq Documents
      /\ failures' \in 0..MaxFailures
      /\ \A g \in Threads : job'[g] \in {Idle, job[g]}
      /\ job' = [g \in Threads |-> job'[g]]
  BY BoundsAssumption DEF Crash, RollBack, IInv, TypeOK
<1>2. \A g \in Threads : /\ JobOK(job[g])'
                         /\ \A e \in DOMAIN job'[g].read : HeldRow(job[g], e)'
  <2> TAKE g \in Threads
  <2>1. CASE job'[g] = job[g]
    BY <1>1, <2>1, KeepHeld
  <2>2. CASE job'[g] = Idle
    BY <2>2, IdleHolds
  <2> QED
    BY <1>1, <2>1, <2>2
<1>3. TypeOK'
  BY <1>1, <1>2 DEF IInv, TypeOK
<1> QED
  BY <1>1, <1>2, <1>3 DEF IInv, HeldRows, SyncedWasAccepted, NeverStuck

LEMMA Dues == ASSUME IInv, NEW d \in DOMAIN outbox, BecomeDue(d) PROVE IInv'
<1>1. /\ outbox' = [outbox EXCEPT ![d].due = TRUE]
      /\ UNCHANGED <<version, session, checkpoint, cursor, accepted, job,
                     failures>>
  BY DEF BecomeDue
<1>2. /\ DOMAIN outbox' = DOMAIN outbox
      /\ outbox' \in Seq(Row)
      /\ \A e \in DOMAIN outbox : outbox'[e].status = outbox[e].status
                                  /\ outbox'[e].retries = outbox[e].retries
  <2>1. outbox \in Seq(Row)
    BY DEF IInv, TypeOK
  <2>2. /\ Len(outbox) \in Nat
        /\ DOMAIN outbox = 1..Len(outbox)
        /\ \A e \in DOMAIN outbox : outbox[e] \in Row
    BY <2>1
  <2>3. [outbox[d] EXCEPT !.due = TRUE] \in Row
    BY <2>2 DEF Row
  <2>4. \A e \in DOMAIN outbox :
            /\ outbox'[e] \in Row
            /\ outbox'[e].status = outbox[e].status
            /\ outbox'[e].retries = outbox[e].retries
    BY <1>1, <2>2, <2>3 DEF Row
  <2>5. outbox' = [e \in 1..Len(outbox) |-> outbox'[e]]
    BY <1>1, <2>2
  <2> QED
    BY <2>2, <2>4, <2>5
<1>3. \A g \in Threads : /\ JobOK(job[g])'
                         /\ \A e \in DOMAIN job'[g].read : HeldRow(job[g], e)'
  BY <1>1, <1>2, KeepHeld
<1>4. TypeOK'
  BY <1>1, <1>2, <1>3 DEF IInv, TypeOK
<1> QED
  BY <1>1, <1>2, <1>3, <1>4
  DEF IInv, HeldRows, SyncedWasAccepted, NeverStuck

-----------------------------------------------------------------------------
LEMMA NextIInv == IInv /\ [Next]_vars => IInv'
<1> SUFFICES ASSUME IInv, [Next]_vars PROVE IInv'
  OBVIOUS
<1>1. CASE \E d \in Documents : Record(d) \/ Change(d) \/ CloseSession(d)
  BY <1>1, Requests
<1>2. CASE \E s \in Sales : EnqueueSale(s)
  BY <1>2, Enqueues
<1>3. CASE Reconcile
  BY <1>3, Reconciles
<1>4. CASE \E f \in Threads : StartFlush(f)
  BY <1>4, Starts
<1>5. CASE \E f \in Threads : Push(f)
  BY <1>5, Pushes
<1>6. CASE \E f \in Threads : Commit(f)
  BY <1>6, Commits
<1>7. CASE Crash \/ \E f \in Threads : RollBack(f)
  BY <1>7, Losses
<1>8. CASE \E e \in DOMAIN outbox : BecomeDue(e)
  BY <1>8, Dues
<1>9. CASE UNCHANGED vars
  BY <1>9 DEF vars, IInv, TypeOK, JobOK, HeldRows, HeldRow, Outcome,
     SyncedWasAccepted, NeverStuck
<1> QED
  BY <1>1, <1>2, <1>3, <1>4, <1>5, <1>6, <1>7, <1>8, <1>9 DEF Next

LEMMA Invariance == Spec => []IInv
BY InitIInv, NextIInv, PTL DEF Spec

(* Every variable keeps its type: a retry count never passes MaxRetries, a *)
(* flush only holds rows that exist (process_offline_outbox_queue).        *)
THEOREM TypeCorrect == Spec => []TypeOK
<1>1. IInv => TypeOK
  BY DEF IInv
<1> QED
  BY <1>1, Invariance, PTL

(* A row marked synced is stored by the cloud, however many flushers       *)
(* overlap and whatever they write over each other.                        *)
THEOREM SyncedIsAccepted == Spec => []SyncedWasAccepted
<1>1. IInv => SyncedWasAccepted
  BY DEF IInv
<1> QED
  BY <1>1, Invariance, PTL

(* No row is left unfinished with its retries used up: the query of        *)
(* process_offline_outbox_queue selects it again once it is due.           *)
THEOREM NothingStuck == Spec => []NeverStuck
<1>1. IInv => NeverStuck
  BY DEF IInv
<1> QED
  BY <1>1, Invariance, PTL
=============================================================================
