--------------------------- MODULE AdvancePayments ---------------------------
(***************************************************************************)
(* Customer advances of the iStore back end: money taken before a sale,    *)
(* applied to an invoice, refunded or cancelled (routers/advance_router,   *)
(* services/advance_service), the invoices they settle (pos_router,        *)
(* advance_router, payments_router) and the totals kept on reservations.   *)
(*                                                                         *)
(* As in StockLedger a request has two halves: it reads rows without a     *)
(* lock, and writes alone from its first DML statement on.  Its copies are *)
(* a snapshot of the tables at the moment it reads (variable job); rows it *)
(* did not load it reads at the moment it writes.  Which endpoint it is    *)
(* and what the client asked for is only chosen when it writes, since the  *)
(* first half does not depend on them.  All rows belong to one customer;   *)
(* amounts are whole units.                                                *)
(***************************************************************************)
EXTENDS Integers, FiniteSets, Sums

CONSTANTS
    Advances,       \* rows of advance_payments
    Invoices,       \* rows of sales
    Reservations,   \* rows of product_reservations
    Workers,        \* threads that serve requests
    Endpoints,      \* the endpoints a scenario exercises
    MaxAmount,      \* bound: amount of one advance
    MaxPrice,       \* bound: price of one invoice
    MaxPaid,        \* bound: later payments to an invoice stop here
    NoRef           \* the null of a nullable column

AllEndpoints == {"create", "apply", "refund", "cancel", "settle", "pay", "void"}

ASSUME BoundsAssumption ==
    /\ MaxAmount \in Nat \ {0}
    /\ MaxPrice \in Nat \ {0}
    /\ MaxPaid \in Nat
    /\ Endpoints \subseteq AllEndpoints

ASSUME FiniteAssumption == IsFiniteSet(Advances) /\ IsFiniteSet(Invoices)

ASSUME NoRefAssumption == NoRef \notin Invoices \cup Reservations

VARIABLES
    adv,        \* advance_payments
    inv,        \* sales: whether voided, and amount_paid
    applied,    \* sums of the advance_applied rows of invoice_payments
    received,   \* sums of the other rows of invoice_payments
    total,      \* product_reservations.advance_paid_total
    short,      \* history: booked as paid at the counter, without a payment
    cancelled,  \* history: advances that have been cancelled
    job         \* what each worker has read for the request it serves

data == <<adv, inv, applied, received, total, short, cancelled>>
vars == <<adv, inv, applied, received, total, short, cancelled, job>>

Amounts == 1..MaxAmount

Status == {"none", "received", "partially_applied", "applied",
           "partially_refunded", "refunded", "cancelled"}
NotApplicable == {"none", "cancelled", "refunded"}

Row(status, amount, used, refunded, invoice, resv) ==
    [status |-> status, amount |-> amount, applied |-> used,
     refunded |-> refunded, invoice |-> invoice, resv |-> resv]
NoAdvance == Row("none", 0, 0, 0, NoRef, NoRef)
AdvanceRow == [status : Status, amount : 0..MaxAmount, applied : Nat,
               refunded : Nat, invoice : Invoices \cup {NoRef},
               resv : Reservations \cup {NoRef}]

InvoiceRow == [state : {"none", "open", "voided"}, paid : Nat]

(* A worker's copies of the tables; an idle one has none.                  *)
Idle == [busy |-> FALSE]
Job == [busy : {TRUE}, adv : [Advances -> AdvanceRow],
        inv : [Invoices -> InvoiceRow], total : [Reservations -> Nat]]

TypeOK ==
    /\ adv \in [Advances -> AdvanceRow]
    /\ inv \in [Invoices -> InvoiceRow]
    /\ applied \in [Advances -> [Invoices -> Nat]]
    /\ received \in [Invoices -> Nat]
    /\ total \in [Reservations -> Nat]
    /\ short \in [Invoices -> Nat]
    /\ cancelled \in SUBSET Advances
    /\ job \in [Workers -> Job \cup {Idle}]

Init ==
    /\ adv = [a \in Advances |-> NoAdvance]
    /\ inv = [i \in Invoices |-> [state |-> "none", paid |-> 0]]
    /\ applied = [a \in Advances |-> [i \in Invoices |-> 0]]
    /\ received = [i \in Invoices |-> 0]
    /\ total = [r \in Reservations |-> 0]
    /\ short = [i \in Invoices |-> 0]
    /\ cancelled = {}
    /\ job = [w \in Workers |-> Idle]

-----------------------------------------------------------------------------
(* Shared pieces of the handlers.                                          *)

(* Any endpoint's first half.                                              *)
Reads(w) ==
    /\ job[w] = Idle
    /\ job' = [job EXCEPT ![w] = [busy |-> TRUE, adv |-> adv, inv |-> inv,
                                  total |-> total]]
    /\ UNCHANGED data

(* Its second half, for the endpoint that w turns out to serve.            *)
Serving(w, endpoint) == job[w] # Idle /\ endpoint \in Endpoints

Done(w) == job' = [job EXCEPT ![w] = Idle]

(* A request refused, failed or crashed before its commit.                 *)
Abort(w) ==
    /\ job[w] # Idle
    /\ Done(w)
    /\ UNCHANGED data

AtLeastZero(n) == IF n > 0 THEN n ELSE 0

(* calc_advance_remaining and calc_advance_effective_paid.                 *)
RemainingIgnoringRefunds(row) == AtLeastZero(row.amount - row.applied)
RemainingIgnoringUse(row) == AtLeastZero(row.amount - row.refunded)
Remaining(row) == AtLeastZero(row.amount - row.applied - row.refunded)
Effective(row) == AtLeastZero(row.amount - row.refunded)

(* A column is in the UPDATE only if it differs from what was read.        *)
Put(read, new, now) == IF new = read THEN now ELSE new
Save(read, new, now) ==
    Row(Put(read.status, new.status, now.status), now.amount,
        Put(read.applied, new.applied, now.applied),
        Put(read.refunded, new.refunded, now.refunded),
        Put(read.invoice, new.invoice, now.invoice), now.resv)

(* sync_reservation_advance_totals: the query decides which rows count by  *)
(* the status in the database (found); their amounts are those the session *)
(* holds (rows), since nothing is flushed before the query.                *)
Live(found, r) ==
    {a \in Advances :
        found[a].resv = r /\ found[a].status \notin {"none", "cancelled"}}
PaidTotal(found, rows, r) ==
    Cardinality({c \in Live(found, r) \X Amounts :
                    c[2] <= Effective(rows[c[1]])})

NoResync(touched, found, rows, read) == UNCHANGED total
Resync(touched, found, rows, read) ==
    total' = [r \in Reservations |->
                IF r \in touched
                THEN Put(read[r], PaidTotal(found, rows, r), total[r])
                ELSE total[r]]

(* The checks of apply_advance_to_invoice on the row it was given.         *)
MayApplyAnywhere(row, n, i) ==
    /\ row.status \notin NotApplicable
    /\ n <= Remaining(row)
MayApply(row, n, i) ==
    /\ row.status \notin NotApplicable
    /\ n <= Remaining(row)
    /\ row.invoice \in {NoRef, i}

(* What it makes of the row.                                               *)
AppliedInFull(row, n, i) ==
    Row("applied", row.amount, row.amount, row.refunded, i, row.resv)
Applied(row, n, i) ==
    LET used == row.applied + n
        status == IF row.amount - used - row.refunded <= 0
                  THEN "applied" ELSE "partially_applied"
    IN Row(status, row.amount, used, row.refunded, i, row.resv)

(* amount_paid once n more has come in, from the invoice as read.          *)
PaidAnew(j, i, n) == n
PaidLess(j, i, n) == j.inv[i].paid - n
PaidAfter(j, i, n) == j.inv[i].paid + n

(* The session's view once it holds the write lock: copies of the rows it  *)
(* loaded at the start, current values of the others.                      *)
Session(j, loaded) ==
    [a \in Advances |-> IF a \in loaded THEN j.adv[a] ELSE adv[a]]

-----------------------------------------------------------------------------
(* POST /advance-payments: the number is drawn before the row is written   *)
(* and flushed, so all of it happens under the lock.                       *)
CreateAdvance(w) ==
    /\ job[w] = Idle
    /\ "create" \in Endpoints
    /\ \E a \in Advances, n \in Amounts, r \in Reservations \cup {NoRef},
          i \in {NoRef} \cup {k \in Invoices : inv[k].state # "none"} :
        /\ adv[a].status = "none"
        /\ adv' = [adv EXCEPT ![a] = Row("received", n, 0, 0, i, r)]
        /\ Resync({r}, adv', adv', total)
    /\ UNCHANGED <<inv, applied, received, short, cancelled, job>>

(* PATCH .../apply: to any invoice, a voided one included.                 *)
ApplyWrites(w) ==
    LET j == job[w] IN
    /\ Serving(w, "apply")
    /\ \E a \in Advances, i \in Invoices, n \in Amounts :
        /\ j.inv[i].state # "none"
        /\ MayApply(j.adv[a], n, i)
        /\ adv' = [adv EXCEPT ![a] =
                    Save(j.adv[a], Applied(j.adv[a], n, i), adv[a])]
        /\ inv' = [inv EXCEPT ![i].paid = PaidAfter(j, i, n)]
        /\ applied' = [applied EXCEPT ![a][i] = @ + n]
        /\ Resync({adv[a].resv}, adv, Session(j, {a}), total)
    /\ Done(w)
    /\ UNCHANGED <<received, short, cancelled>>

(* What a refund of n makes of the row.                                    *)
Refunded(row, n) ==
    LET refunded == row.refunded + n
        status == IF refunded >= row.amount /\ row.applied = 0
                  THEN "refunded" ELSE "partially_refunded"
    IN Row(status, row.amount, row.applied, refunded, row.invoice, row.resv)

(* PATCH .../refund: whatever the status, also of a cancelled advance; the *)
(* totals are computed from what was read, before the first DML statement. *)
RefundWrites(w) ==
    LET j == job[w] IN
    /\ Serving(w, "refund")
    /\ \E a \in Advances, n \in Amounts :
        LET after == Refunded(j.adv[a], n) IN
        /\ j.adv[a].status # "none"
        /\ n <= Remaining(j.adv[a])
        /\ adv' = [adv EXCEPT ![a] = Save(j.adv[a], after, adv[a])]
        /\ Resync({adv[a].resv}, j.adv, [j.adv EXCEPT ![a] = after], j.total)
    /\ Done(w)
    /\ UNCHANGED <<inv, applied, received, short, cancelled>>

(* PATCH .../cancel: an applied advance with a manager's override.  The    *)
(* status is not in the database yet when the totals are computed.         *)
CancelWrites(w) ==
    LET j == job[w] IN
    /\ Serving(w, "cancel")
    /\ \E a \in Advances :
        /\ j.adv[a].status \notin {"none", "cancelled"}
        /\ adv' = [adv EXCEPT ![a].status = "cancelled"]
        /\ cancelled' = cancelled \cup {a}
        /\ Resync({adv[a].resv}, j.adv, j.adv, j.total)
    /\ Done(w)
    /\ UNCHANGED <<inv, applied, received, short>>

(* The advances a list of shares draws on, and what they cover together.   *)
Used(share) == {a \in Advances : share[a] > 0}
Covered(share) == Total(share)

(* The new invoice and the payments at the counter.  paidNow is booked as  *)
(* paid; a "mixed" tender that is too small while the invoice is marked    *)
(* paid leaves payments of only tendered.                                  *)
NewInvoice(i, covered, price) ==
    /\ inv[i].state = "none"
    /\ covered <= price
    /\ \E paidNow \in 0..(price - covered) : \E tendered \in 0..paidNow :
        /\ tendered < paidNow => paidNow = price - covered
        /\ inv' = [inv EXCEPT ![i] = [state |-> "open",
                                      paid |-> covered + paidNow]]
        /\ received' = [received EXCEPT ![i] = tendered]
        /\ short' = [short EXCEPT ![i] = paidNow - tendered]

(* A new invoice that advances help to pay: POS checkout with a list of    *)
(* advances or auto_apply_advances, and create-invoice of reservation r.   *)
SettleWrites(w) ==
    LET j == job[w] IN
    /\ Serving(w, "settle")
    /\ \E i \in Invoices, share \in [Advances -> 0..MaxAmount],
          r \in Reservations \cup {NoRef}, price \in 1..MaxPrice :
        /\ NewInvoice(i, Covered(share), price)
        /\ \A a \in Used(share) :
            /\ MayApply(j.adv[a], share[a], i)
            /\ r # NoRef => j.adv[a].resv \in {NoRef, r}
        /\ adv' = [a \in Advances |->
                    IF a \in Used(share)
                    THEN Save(j.adv[a], Applied(j.adv[a], share[a], i), adv[a])
                    ELSE adv[a]]
        /\ applied' = [a \in Advances |-> [applied[a] EXCEPT ![i] = share[a]]]
        /\ Resync({adv[a].resv : a \in Used(share)} \cup {r}, adv,
                  Session(j, Used(share)), [total EXCEPT ![r] = j.total[r]])
    /\ Done(w)
    /\ UNCHANGED cancelled

(* POST /payments and /payments/split, for an invoice not voided.          *)
PayWrites(w) ==
    LET j == job[w] IN
    /\ Serving(w, "pay")
    /\ \E i \in Invoices, n \in Amounts :
        /\ j.inv[i].state = "open"
        /\ received[i] + n <= MaxPaid
        /\ inv' = [inv EXCEPT ![i].paid = PaidAfter(j, i, n)]
        /\ received' = [received EXCEPT ![i] = @ + n]
    /\ Done(w)
    /\ UNCHANGED <<adv, applied, total, short, cancelled>>

(* Voiding an invoice keeps its payments, and the advances stay applied.   *)
VoidWrites(w) ==
    LET j == job[w] IN
    /\ Serving(w, "void")
    /\ \E i \in Invoices :
        /\ j.inv[i].state = "open"
        /\ inv' = [inv EXCEPT ![i].state = "voided"]
    /\ Done(w)
    /\ UNCHANGED <<adv, applied, received, total, short, cancelled>>

-----------------------------------------------------------------------------
Next ==
    \E w \in Workers :
        \/ CreateAdvance(w) \/ Reads(w)        \/ ApplyWrites(w)
        \/ RefundWrites(w)  \/ CancelWrites(w) \/ SettleWrites(w)
        \/ PayWrites(w)     \/ VoidWrites(w)   \/ Abort(w)

Spec == Init /\ [][Next]_vars

-----------------------------------------------------------------------------
(* Properties.                                                             *)

(* The comment in refund_advance_payment: "Only unapplied balance can be   *)
(* refunded directly to preserve invoice integrity."  What is applied and  *)
(* what is refunded never exceed the advance together.                     *)
OnlyUnappliedRefunded ==
    \A a \in Advances : adv[a].applied + adv[a].refunded <= adv[a].amount

(* However requests interleave, neither exceeds it alone.                  *)
EachWithinAmount ==
    \A a \in Advances : /\ adv[a].applied <= adv[a].amount
                        /\ adv[a].refunded <= adv[a].amount

AppliedSum(a) == Total(applied[a])
ReceivedFor(i) == received[i] + Total([a \in Advances |-> applied[a][i]])

(* One request at a time, applied_amount is what the payments of the       *)
(* advance add up to, all on the one invoice it is linked to.              *)
AppliedToItsInvoice ==
    \A a \in Advances :
        /\ adv[a].applied = AppliedSum(a)
        /\ \A i \in Invoices : applied[a][i] > 0 => adv[a].invoice = i

(* However requests interleave, an advance never claims to be applied for  *)
(* more than the payments it made, and an invoice never claims to be paid  *)
(* more than its payments (short tenders aside): updates may be lost, but  *)
(* money is not invented.                                                  *)
NothingInvented ==
    /\ \A a \in Advances : adv[a].applied <= AppliedSum(a)
    /\ \A i \in Invoices : inv[i].paid <= ReceivedFor(i) + short[i]

(* One request at a time, amount_paid is the sum of the invoice's payments *)
(* and of what a short mixed tender was credited for.                      *)
PaidExplained ==
    \A i \in Invoices : inv[i].paid = ReceivedFor(i) + short[i]

(* One request at a time, the total on a reservation is what its advances  *)
(* still hold after refunds, as long as none of them was cancelled.        *)
TotalsFollowAdvances ==
    \A r \in Reservations :
        (\A a \in cancelled : adv[a].resv # r) =>
            total[r] = PaidTotal(adv, adv, r)

=============================================================================
