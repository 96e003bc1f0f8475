----------------------------- MODULE SyncOutbox -----------------------------
(***************************************************************************)
(* The outbox that carries bills and repair tickets to the cloud portal    *)
(* (src/backend/app/services/supabase_pos_sync.py and                      *)
(* portal_reconciliation.py, called from the POS and repair routers and    *)
(* from the scheduler).                                                    *)
(*                                                                         *)
(* A request commits its sale or ticket first and enqueues the event       *)
(* afterwards, in a second transaction of the same session.  Flushers read *)
(* a batch of rows, push them one by one with no lock and no mark in the   *)
(* database, and write all the outcomes in one commit at the end, over     *)
(* whatever other flushers wrote meanwhile.  When the Cloudflare portal is *)
(* enabled, a job that the scheduler runs every minute compares bills with *)
(* the last version it queued, queues the changed ones and flushes.        *)
(*                                                                         *)
(* The cloud answers as it likes.  Not modelled: revocation of a receipt   *)
(* whose customer changed, deletion of synced rows after seven days.       *)
(***************************************************************************)
EXTENDS Naturals, Sequences, FiniteSets, Functions

CONSTANTS
    NumSales,       \* sales have the ids 1..NumSales, in order of insertion
    Repairs,        \* repair tickets
    Flushers,       \* threads that flush: checkout, repair, endpoint
    Scheduler,      \* the scheduler's thread, which runs the minute job
    PortalEnabled,  \* CLOUDFLARE_PORTAL_ENABLED
    PageSize,       \* bills one reconciliation looks at
    BatchSize,      \* rows one flush takes
    MaxRetries,     \* max_retries: 5, or 1440 for portal bills
    Changing,       \* bound: documents that change after they are recorded
    MaxVersion,     \* bound: versions of one document
    MaxFailures     \* bound: crashes, and flushes that cannot commit

Sales == 1..NumSales
Documents == Sales \cup Repairs
Threads == Flushers \cup {Scheduler}

ASSUME BoundsAssumption ==
    /\ NumSales \in Nat
    /\ PageSize \in Nat \ {0}
    /\ BatchSize \in Nat \ {0}
    /\ MaxRetries \in Nat \ {0}
    /\ MaxVersion \in Nat \ {0}
    /\ MaxFailures \in Nat
    /\ PortalEnabled \in BOOLEAN

VARIABLES
    version,    \* version of each committed document, 0 when there is none
    session,    \* documents whose request has committed but not yet enqueued
    outbox,     \* sync_outbox, in the order of created_at
    checkpoint, \* version last queued by the reconciliation, per sale
    cursor,     \* id of the last sale the reconciliation looked at
    accepted,   \* rows whose payload the cloud has stored
    job,        \* the flush each thread is in
    failures    \* crashes and failed commits so far

vars == <<version, session, outbox, checkpoint, cursor, accepted, job,
          failures>>

Unfinished == {"pending", "failed"}
Settled == {"synced", "dead_letter"}
Row == [kind : {"invoice", "cloudflare_invoice"}, doc : Documents,
        version : 1..MaxVersion, status : Unfinished \cup Settled,
        retries : 0..MaxRetries, due : BOOLEAN]
Event(kind, doc, v) == [kind |-> kind, doc |-> doc, version |-> v,
                        status |-> "pending", retries |-> 0, due |-> TRUE]

(* A flush: the rows still to push, its rows as they were read, and its    *)
(* rows with the session's changes.                                        *)
Idle == [phase |-> "idle", todo |-> {}, read |-> <<>>, new |-> <<>>]
JobOK(j) ==
    /\ j = [phase |-> j.phase, todo |-> j.todo, read |-> j.read, new |-> j.new]
    /\ j.phase \in {"idle", "reconciled", "pushing"}
    /\ j.todo \subseteq DOMAIN j.read
    /\ DOMAIN j.read \subseteq DOMAIN outbox
    /\ j.read \in [DOMAIN j.read -> Row]
    /\ j.new \in [DOMAIN j.read -> Row]

TypeOK ==
    /\ version \in [Documents -> 0..MaxVersion]
    /\ session \subseteq Documents
    /\ outbox \in Seq(Row)
    /\ checkpoint \in [Sales -> 0..MaxVersion]
    /\ cursor \in 0..NumSales
    /\ accepted \subseteq DOMAIN outbox
    /\ job = [f \in Threads |-> job[f]]
    /\ \A f \in Threads : JobOK(job[f])
    /\ failures \in 0..MaxFailures

Init ==
    /\ version = [d \in Documents |-> 0]
    /\ session = {}
    /\ outbox = <<>>
    /\ checkpoint = [s \in Sales |-> 0]
    /\ cursor = 0
    /\ accepted = {}
    /\ job = [f \in Threads |-> Idle]
    /\ failures = 0

-----------------------------------------------------------------------------
(* Requests.                                                               *)

(* Checkout or repair intake: the first commit.                            *)
Record(d) ==
    /\ version[d] = 0
    /\ d \in Sales => \A s \in Sales : s < d => version[s] > 0
    /\ version' = [version EXCEPT ![d] = 1]
    /\ session' = session \cup {d}
    /\ UNCHANGED <<outbox, checkpoint, cursor, accepted, job, failures>>

(* A payment, refund, void or status change: a new version of a document.  *)
(* Changing a repair's status enqueues like the intake, a sale never does. *)
Change(d) ==
    /\ d \in Changing
    /\ version[d] \in 1..(MaxVersion - 1)
    /\ version' = [version EXCEPT ![d] = @ + 1]
    /\ session' = IF d \in Repairs THEN session \cup {d} ELSE session
    /\ UNCHANGED <<outbox, checkpoint, cursor, accepted, job, failures>>

(* Checkout's second commit: the event, with the bill as checked out.      *)
EnqueueSale(s) ==
    /\ s \in session
    /\ outbox' = Append(outbox,
            Event(IF PortalEnabled THEN "cloudflare_invoice" ELSE "invoice",
                  s, 1))
    /\ session' = session \ {s}
    /\ UNCHANGED <<version, checkpoint, cursor, accepted, job, failures>>

(* The request ends without an event: in a checkout an error is logged and *)
(* rolled back; a repair request never commits what it enqueued.           *)
CloseSession(d) ==
    /\ d \in session
    /\ session' = session \ {d}
    /\ UNCHANGED <<version, outbox, checkpoint, cursor, accepted, job,
                   failures>>

-----------------------------------------------------------------------------
(* The minute job, first half: reconcile_customer_bills.                   *)

FirstOf(n, ids) == {e \in ids : Cardinality({d \in ids : d < e}) < n}

Page == FirstOf(PageSize, {s \in Sales : version[s] > 0 /\ s > cursor})
Stale(page) == {s \in page : checkpoint[s] # version[s]}
Ascending(ids) ==
    {order \in [1..Cardinality(ids) -> ids] :
        \A m, n \in DOMAIN order : m < n => order[m] < order[n]}
Last(ids) == {s \in ids : \A t \in ids : t <= s}

(* Past the last bill the pages start again.                               *)
NextCursorSkips(page) == IF page = {} THEN {0} ELSE {s + 1 : s \in Last(page)}
NextCursor(page) == IF page = {} THEN {0} ELSE Last(page)

(* Events, checkpoints and cursor commit together.                         *)
Reconcile ==
    LET changed == Stale(Page) IN
    /\ PortalEnabled
    /\ job[Scheduler].phase = "idle"
    /\ \E order \in Ascending(changed) :
        outbox' = outbox \o
            [n \in DOMAIN order |->
                Event("cloudflare_invoice", order[n], version[order[n]])]
    /\ checkpoint' = [s \in Sales |->
        IF s \in changed THEN version[s] ELSE checkpoint[s]]
    /\ cursor' \in NextCursor(Page)
    /\ job' = [job EXCEPT ![Scheduler].phase = "reconciled"]
    /\ UNCHANGED <<version, session, accepted, failures>>

-----------------------------------------------------------------------------
(* process_offline_outbox_queue.                                           *)

(* The rows a flush may take; the minute job takes portal bills only.      *)
Eligible(f) ==
    {e \in DOMAIN outbox :
        /\ outbox[e].status \in Unfinished
        /\ outbox[e].due
        /\ outbox[e].retries < MaxRetries
        /\ f = Scheduler => outbox[e].kind = "cloudflare_invoice"}

StartFlush(f) ==
    LET batch == FirstOf(BatchSize, Eligible(f)) IN
    /\ job[f].phase = IF f = Scheduler THEN "reconciled" ELSE "idle"
    /\ f = Scheduler \/ batch # {}
    /\ job' = [job EXCEPT ![f] =
        IF batch = {} THEN Idle
        ELSE [phase |-> "pushing", todo |-> batch,
              read |-> Restrict(outbox, batch),
              new |-> Restrict(outbox, batch)]]
    /\ UNCHANGED <<version, session, outbox, checkpoint, cursor, accepted,
                   failures>>

(* What the session makes of a row after an answer: a success, a failure   *)
(* to be retried later, or the end of the retries.                         *)
Synced(row) == [row EXCEPT !.status = "synced"]
FailedIgnoringLimit(row) ==
    [row EXCEPT !.status = "failed", !.retries = @ + 1, !.due = FALSE]
FailureSwallowed(row) == Synced(row)
FailedOneLate(row) ==
    IF row.retries >= MaxRetries
    THEN [row EXCEPT !.status = "dead_letter", !.retries = @ + 1]
    ELSE FailedIgnoringLimit(row)
Failed(row) ==
    IF row.retries + 1 >= MaxRetries
    THEN [row EXCEPT !.status = "dead_letter", !.retries = @ + 1]
    ELSE FailedIgnoringLimit(row)
Rejected(row) == [row EXCEPT !.status = "dead_letter", !.retries = @ + 1]

(* One push.  An answer may be lost: the cloud has stored the payload and  *)
(* the flusher sees a timeout.  Only portal bills know a final rejection.  *)
Push(f) ==
    /\ job[f].phase = "pushing"
    /\ \E e \in job[f].todo :
        LET row == job[f].new[e]
            answered(r) == job' = [job EXCEPT ![f].todo = @ \ {e},
                                              ![f].new[e] = r]
        IN
        /\ \A d \in job[f].todo : e <= d
        /\ \/ /\ answered(Synced(row))
              /\ accepted' = accepted \cup {e}
           \/ /\ answered(Failed(row))
              /\ accepted' \in {accepted, accepted \cup {e}}
           \/ /\ row.kind = "cloudflare_invoice"
              /\ answered(Rejected(row))
              /\ UNCHANGED accepted
    /\ UNCHANGED <<version, session, outbox, checkpoint, cursor, failures>>

(* A column is written only if it differs from what the session read.      *)
Put(read, new, now) == IF new = read THEN now ELSE new
Written(read, new, now) ==
    [now EXCEPT !.status = Put(read.status, new.status, @),
                !.retries = Put(read.retries, new.retries, @),
                !.due = Put(read.due, new.due, @)]

Commit(f) ==
    LET j == job[f] IN
    /\ j.phase = "pushing"
    /\ j.todo = {}
    /\ outbox' = [e \in DOMAIN outbox |->
        IF e \in DOMAIN j.read THEN Written(j.read[e], j.new[e], outbox[e])
        ELSE outbox[e]]
    /\ job' = [job EXCEPT ![f] = Idle]
    /\ UNCHANGED <<version, session, checkpoint, cursor, accepted, failures>>

(* The commit fails, or the flush is cut short: its outcomes are lost.     *)
RollBack(f) ==
    /\ failures < MaxFailures
    /\ job[f].phase = "pushing"
    /\ job' = [job EXCEPT ![f] = Idle]
    /\ failures' = failures + 1
    /\ UNCHANGED <<version, session, outbox, checkpoint, cursor, accepted>>

(* The process stops and starts again.                                     *)
Crash ==
    /\ failures < MaxFailures
    /\ session' = {}
    /\ job' = [f \in Threads |-> Idle]
    /\ failures' = failures + 1
    /\ UNCHANGED <<version, outbox, checkpoint, cursor, accepted>>

(* next_retry_at passes.                                                   *)
BecomeDue(e) ==
    /\ ~ outbox[e].due
    /\ outbox' = [outbox EXCEPT ![e].due = TRUE]
    /\ UNCHANGED <<version, session, checkpoint, cursor, accepted, job,
                   failures>>

-----------------------------------------------------------------------------
Next ==
    \/ \E d \in Documents : Record(d) \/ Change(d) \/ CloseSession(d)
    \/ \E s \in Sales : EnqueueSale(s)
    \/ Reconcile
    \/ \E f \in Threads : StartFlush(f) \/ Push(f) \/ Commit(f) \/ RollBack(f)
    \/ Crash
    \/ \E e \in DOMAIN outbox : BecomeDue(e)

(* The scheduler runs the job every minute, a push ends with an answer or  *)
(* a timeout of 15 seconds, and the back-off ends.  Nothing is assumed of  *)
(* the other flushers, of the requests, or of what the cloud answers.      *)
MinuteJob == Reconcile \/ StartFlush(Scheduler) \/ Push(Scheduler)
             \/ Commit(Scheduler)
Fairness ==
    /\ WF_vars(MinuteJob)
    /\ WF_vars(\E e \in DOMAIN outbox : BecomeDue(e))

Spec == Init /\ [][Next]_vars
FairSpec == Spec /\ Fairness

-----------------------------------------------------------------------------
(* Properties.                                                             *)

(* A row is only ever marked synced when the cloud has stored its payload, *)
(* whatever flushes overlap, are cut short or write over each other.       *)
SyncedWasAccepted ==
    \A e \in DOMAIN outbox : outbox[e].status = "synced" => e \in accepted

(* A row that is not finished will be tried again: stale retry counts that *)
(* overlapping flushes write over each other never leave a row that the    *)
(* query no longer selects and nobody has given up.                        *)
NeverStuck ==
    \A e \in DOMAIN outbox :
        outbox[e].status \in Unfinished => outbox[e].retries < MaxRetries

(* Every version of a committed bill is superseded, or an event carries it *)
(* to the end of its retries: the rotating reconciliation makes up for the *)
(* checkout that stopped between its commits, whatever the other flushers  *)
(* do and however the cloud answers.                                       *)
Finished(s, v) ==
    \E e \in DOMAIN outbox :
        /\ outbox[e].doc = s
        /\ outbox[e].version = v
        /\ outbox[e].status \in Settled
BillsSettle ==
    \A s \in Sales, v \in 1..MaxVersion :
        version[s] = v ~> (version[s] # v \/ Finished(s, v))
=============================================================================
