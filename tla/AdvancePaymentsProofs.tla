------------------------ MODULE AdvancePaymentsProofs ------------------------
(* What AdvancePayments guarantees for every value of its constants.       *)
EXTENDS AdvancePayments, SumsProofs

-----------------------------------------------------------------------------
(* Facts about the pieces the handlers are built from.                     *)

(* The total of a reservation's advances is a natural number, whatever     *)
(* rows the query finds and whatever the session holds.                    *)
LEMMA PaidTotalType ==
    ASSUME NEW found, NEW rows, NEW r
    PROVE  PaidTotal(found, rows, r) \in Nat
<1>. DEFINE units == {c \in Live(found, r) \X Amounts :
                        c[2] <= Effective(rows[c[1]])}
<1>1. Live(found, r) \in SUBSET Advances
  BY DEF Live
<1>2. IsFiniteSet(Live(found, r)) /\ IsFiniteSet(Amounts)
  BY <1>1, BoundsAssumption, FiniteAssumption, FS_Subset, FS_Interval
  DEF Amounts
<1>3. IsFiniteSet(Live(found, r) \X Amounts)
  BY <1>2, FS_Product
<1>4. units \in SUBSET (Live(found, r) \X Amounts)
  OBVIOUS
<1>5. IsFiniteSet(units)
  BY <1>3, <1>4, FS_Subset
<1>. QED BY <1>5, FS_CardinalityType DEF PaidTotal

(* Recomputing totals, from current or from stale copies, keeps the type.  *)
LEMMA ResyncType ==
    ASSUME total \in [Reservations -> Nat],
           NEW touched, NEW found, NEW rows, NEW read,
           Resync(touched, found, rows, read)
    PROVE  total' \in [Reservations -> Nat]
BY PaidTotalType DEF Resync, Put

(* A row with an amount applied, if the checks let it.                     *)
LEMMA AppliedFacts ==
    ASSUME NEW row \in AdvanceRow, NEW n \in Nat, NEW i \in Invoices
    PROVE  LET new == Applied(row, n, i) IN
           /\ new \in AdvanceRow
           /\ new.status # "none"
           /\ new.applied = row.applied + n
           /\ new.refunded = row.refunded
BY DEF Applied, Row, AdvanceRow, Status

(* A row with an amount refunded.                                          *)
LEMMA RefundedFacts ==
    ASSUME NEW row \in AdvanceRow, NEW n \in Nat
    PROVE  LET new == Refunded(row, n) IN
           /\ new \in AdvanceRow
           /\ new.status # "none"
           /\ new.applied = row.applied
           /\ new.refunded = row.refunded + n
BY DEF Refunded, Row, AdvanceRow, Status

(* A saved row has each of its columns from one of three versions.         *)
LEMMA SaveFacts ==
    ASSUME NEW read \in AdvanceRow, NEW new \in AdvanceRow,
           NEW now \in AdvanceRow
    PROVE  LET saved == Save(read, new, now) IN
           /\ saved \in AdvanceRow
           /\ saved.status \in {now.status, new.status}
           /\ saved.amount = now.amount
           /\ saved.applied \in {now.applied, new.applied}
           /\ saved.refunded \in {now.refunded, new.refunded}
           /\ (read = now) =>
                saved.applied = new.applied /\ saved.refunded = new.refunded
BY DEF Save, Row, Put, AdvanceRow

(* What may be applied or refunded fits beside what already was.           *)
LEMMA RemainingFits ==
    ASSUME NEW row \in AdvanceRow, NEW n \in Amounts, n <= Remaining(row)
    PROVE  row.applied + row.refunded + n <= row.amount
<1>. n \in Nat /\ n > 0
  BY BoundsAssumption DEF Amounts
<1>. row.applied \in Nat /\ row.refunded \in Nat /\ row.amount \in Nat
  BY BoundsAssumption DEF AdvanceRow
<1>. QED BY DEF Remaining, AtLeastZero

(* What advances cover of a price is a natural number.                     *)
LEMMA CoveredType ==
    ASSUME NEW share \in [Advances -> 0..MaxAmount]
    PROVE  Covered(share) \in Nat
<1>1. share \in [Advances -> Nat]
  BY BoundsAssumption
<1>. QED BY <1>1, FiniteAssumption, TotalNat DEF Covered

-----------------------------------------------------------------------------
(* What a step can do to one advance, whichever endpoint takes it.         *)

Creates(a) ==
    /\ adv[a].status = "none"
    /\ \E n \in Amounts, i \in Invoices \cup {NoRef},
          r \in Reservations \cup {NoRef} :
        adv'[a] = Row("received", n, 0, 0, i, r)

Uses == {"apply", "settle"}

AppliesFrom(a, copy) ==
    /\ Endpoints \cap Uses # {}
    /\ \E n \in Amounts, i \in Invoices :
            /\ n <= Remaining(copy)
            /\ adv'[a] = Save(copy, Applied(copy, n, i), adv[a])

RefundsFrom(a, copy) ==
    /\ "refund" \in Endpoints
    /\ \E n \in Amounts :
            /\ n <= Remaining(copy)
            /\ adv'[a] = Save(copy, Refunded(copy, n), adv[a])

Cancels(a) == adv'[a] = [adv[a] EXCEPT !.status = "cancelled"]

(* A write that acts on a copy of the advance.                             *)
WritesFrom(w, a) ==
    /\ job[w] \in Job
    /\ job[w].adv[a].status # "none"
    /\ \/ AppliesFrom(a, job[w].adv[a])
       \/ RefundsFrom(a, job[w].adv[a])
       \/ Cancels(a)

AdvanceStep(a) ==
    \/ adv'[a] = adv[a]
    \/ Creates(a)
    \/ \E w \in Workers : WritesFrom(w, a)

(* A worker that serves a request has a full set of copies.                *)
LEMMA ServingJob ==
    ASSUME TypeOK, NEW w \in Workers, job[w] # Idle
    PROVE  job[w] \in Job
BY DEF TypeOK

(* Every step treats every advance in one of those ways.                   *)
LEMMA StepsOfAdvances ==
    ASSUME TypeOK, Next, NEW a \in Advances
    PROVE  AdvanceStep(a)
<1>. USE DEF AdvanceStep
<1>0. adv \in [Advances -> AdvanceRow]
  BY DEF TypeOK
<1>1. ASSUME NEW w \in Workers, CreateAdvance(w) PROVE AdvanceStep(a)
  <2>1. PICK b \in Advances, n \in Amounts, r \in Reservations \cup {NoRef},
             i \in {NoRef} \cup Invoices :
          /\ adv[b].status = "none"
          /\ adv' = [adv EXCEPT ![b] = Row("received", n, 0, 0, i, r)]
    BY <1>1 DEF CreateAdvance
  <2>2. CASE a = b
    BY <1>0, <2>1, <2>2 DEF Creates
  <2>3. CASE a # b
    BY <1>0, <2>1, <2>3
  <2>. QED BY <2>2, <2>3
<1>2. ASSUME NEW w \in Workers, ApplyWrites(w) PROVE AdvanceStep(a)
  <2>1. job[w] \in Job
    BY <1>2, ServingJob DEF ApplyWrites, Serving
  <2>2. PICK b \in Advances, i \in Invoices, n \in Amounts :
          /\ MayApply(job[w].adv[b], n, i)
          /\ adv' = [adv EXCEPT ![b] =
                Save(job[w].adv[b], Applied(job[w].adv[b], n, i), adv[b])]
    BY <1>2 DEF ApplyWrites
  <2>3. CASE a = b
    BY <1>0, <1>2, <2>1, <2>2, <2>3
    DEF WritesFrom, AppliesFrom, MayApply, NotApplicable, ApplyWrites,
        Serving, Uses
  <2>4. CASE a # b
    BY <1>0, <2>2, <2>4
  <2>. QED BY <2>3, <2>4
<1>3. ASSUME NEW w \in Workers, RefundWrites(w) PROVE AdvanceStep(a)
  <2>1. job[w] \in Job
    BY <1>3, ServingJob DEF RefundWrites, Serving
  <2>2. PICK b \in Advances, n \in Amounts :
          /\ job[w].adv[b].status # "none"
          /\ n <= Remaining(job[w].adv[b])
          /\ adv' = [adv EXCEPT ![b] =
                Save(job[w].adv[b], Refunded(job[w].adv[b], n), adv[b])]
    BY <1>3 DEF RefundWrites
  <2>3. CASE a = b
    BY <1>0, <1>3, <2>1, <2>2, <2>3
    DEF WritesFrom, RefundsFrom, RefundWrites, Serving
  <2>4. CASE a # b
    BY <1>0, <2>2, <2>4
  <2>. QED BY <2>3, <2>4
<1>4. ASSUME NEW w \in Workers, CancelWrites(w) PROVE AdvanceStep(a)
  <2>1. job[w] \in Job
    BY <1>4, ServingJob DEF CancelWrites, Serving
  <2>2. PICK b \in Advances :
          /\ job[w].adv[b].status # "none"
          /\ adv' = [adv EXCEPT ![b].status = "cancelled"]
    BY <1>4 DEF CancelWrites
  <2>3. CASE a = b
    BY <1>0, <2>1, <2>2, <2>3 DEF WritesFrom, Cancels
  <2>4. CASE a # b
    BY <1>0, <2>2, <2>4
  <2>. QED BY <2>3, <2>4
<1>5. ASSUME NEW w \in Workers, SettleWrites(w) PROVE AdvanceStep(a)
  <2>. DEFINE j == job[w]
  <2>1. job[w] \in Job
    BY <1>5, ServingJob DEF SettleWrites, Serving
  <2>2. PICK i \in Invoices, share \in [Advances -> 0..MaxAmount] :
          /\ \A b \in Used(share) :
                MayApply(j.adv[b], share[b], i)
          /\ adv' = [b \in Advances |->
                IF b \in Used(share)
                THEN Save(j.adv[b], Applied(j.adv[b], share[b], i), adv[b])
                ELSE adv[b]]
    BY <1>5 DEF SettleWrites
  <2>3. CASE share[a] > 0
    <3>1. share[a] \in Amounts
      BY <2>3, BoundsAssumption DEF Amounts
    <3>2. MayApply(j.adv[a], share[a], i)
      BY <2>2, <2>3 DEF Used
    <3>3. adv'[a] = Save(j.adv[a], Applied(j.adv[a], share[a], i), adv[a])
      BY <2>2, <2>3 DEF Used
    <3>4. Endpoints \cap Uses # {}
      BY <1>5 DEF SettleWrites, Serving, Uses
    <3>. QED BY <2>1, <3>1, <3>2, <3>3, <3>4
             DEF WritesFrom, AppliesFrom, MayApply, NotApplicable
  <2>4. CASE ~ (share[a] > 0)
    BY <2>2, <2>4 DEF Used
  <2>. QED BY <2>3, <2>4
<1>6. ASSUME NEW w \in Workers,
             Reads(w) \/ PayWrites(w) \/ VoidWrites(w) \/ Abort(w)
      PROVE  adv' = adv
  BY <1>6 DEF Reads, PayWrites, VoidWrites, Abort, data
<1>. QED BY <1>1, <1>2, <1>3, <1>4, <1>5, <1>6 DEF Next

(* A new advance has nothing applied or refunded.                          *)
LEMMA CreatedRow ==
    ASSUME NEW a \in Advances, Creates(a)
    PROVE  /\ adv'[a].amount \in Nat
           /\ adv'[a].applied = 0 /\ adv'[a].refunded = 0
<1>1. PICK n \in Amounts, i \in Invoices \cup {NoRef},
           r \in Reservations \cup {NoRef} :
        adv'[a] = Row("received", n, 0, 0, i, r)
  BY DEF Creates
<1>2. n \in Nat
  BY BoundsAssumption DEF Amounts
<1>. QED BY <1>1, <1>2 DEF Row

(* None of them leaves the row format, and only a creation makes an amount.*)
LEMMA AdvanceStepType ==
    ASSUME NEW a \in Advances, adv[a] \in AdvanceRow, AdvanceStep(a)
    PROVE  /\ adv'[a] \in AdvanceRow
           /\ adv[a].status # "none" =>
                adv'[a].status # "none" /\ adv'[a].amount = adv[a].amount
<1>. Amounts \subseteq 0..MaxAmount /\ Amounts \subseteq Nat
  BY BoundsAssumption DEF Amounts
<1>1. CASE Creates(a)
  <2>1. PICK n \in Amounts, i \in Invoices \cup {NoRef},
             r \in Reservations \cup {NoRef} :
          adv'[a] = Row("received", n, 0, 0, i, r)
    BY <1>1 DEF Creates
  <2>2. n \in 0..MaxAmount
    OBVIOUS
  <2>3. Row("received", n, 0, 0, i, r) \in AdvanceRow
    BY <2>2 DEF Row, AdvanceRow, Status
  <2>. QED BY <1>1, <2>1, <2>3 DEF Creates
<1>2. ASSUME NEW w \in Workers, WritesFrom(w, a)
      PROVE  /\ adv'[a] \in AdvanceRow
             /\ adv[a].status # "none" =>
                    adv'[a].status # "none" /\ adv'[a].amount = adv[a].amount
  <2>. DEFINE copy == job[w].adv[a]
  <2>1. copy \in AdvanceRow
    BY <1>2 DEF WritesFrom, Job
  <2>2. CASE AppliesFrom(a, copy)
    <3>1. PICK n \in Amounts, i \in Invoices :
            adv'[a] = Save(copy, Applied(copy, n, i), adv[a])
      BY <2>2 DEF AppliesFrom
    <3>2. /\ Applied(copy, n, i) \in AdvanceRow
          /\ Applied(copy, n, i).status # "none"
      BY <2>1, AppliedFacts
    <3>. HIDE DEF copy
    <3>. QED BY <2>1, <3>1, <3>2, SaveFacts
  <2>3. CASE RefundsFrom(a, copy)
    <3>1. PICK n \in Amounts :
            adv'[a] = Save(copy, Refunded(copy, n), adv[a])
      BY <2>3 DEF RefundsFrom
    <3>2. /\ Refunded(copy, n) \in AdvanceRow
          /\ Refunded(copy, n).status # "none"
      BY <2>1, RefundedFacts
    <3>. HIDE DEF copy
    <3>. QED BY <2>1, <3>1, <3>2, SaveFacts
  <2>4. CASE Cancels(a)
    BY <2>4 DEF Cancels, AdvanceRow, Status
  <2>. QED BY <1>2, <2>2, <2>3, <2>4 DEF WritesFrom
<1>. QED BY <1>1, <1>2 DEF AdvanceStep

-----------------------------------------------------------------------------
(* Type correctness.                                                       *)

LEMMA TypeInit == Init => TypeOK
BY BoundsAssumption
DEF Init, TypeOK, NoAdvance, Row, AdvanceRow, Status, InvoiceRow

(* The table of advances stays a table of well-formed rows.                *)
LEMMA TypeAdv == TypeOK /\ Next => adv' \in [Advances -> AdvanceRow]
<1>. SUFFICES ASSUME TypeOK, Next PROVE adv' \in [Advances -> AdvanceRow]
  OBVIOUS
<1>0. adv \in [Advances -> AdvanceRow]
  BY DEF TypeOK
<1>1. \A a \in Advances : adv'[a] \in AdvanceRow
  BY <1>0, StepsOfAdvances, AdvanceStepType
<1>2. adv' = [a \in Advances |-> adv'[a]]
  <2>1. ASSUME NEW w \in Workers, CreateAdvance(w)
        PROVE  adv' = [a \in Advances |-> adv'[a]]
    BY <1>0, <2>1 DEF CreateAdvance
  <2>2. ASSUME NEW w \in Workers, ApplyWrites(w)
        PROVE  adv' = [a \in Advances |-> adv'[a]]
    BY <1>0, <2>2 DEF ApplyWrites
  <2>3. ASSUME NEW w \in Workers, RefundWrites(w)
        PROVE  adv' = [a \in Advances |-> adv'[a]]
    BY <1>0, <2>3 DEF RefundWrites
  <2>4. ASSUME NEW w \in Workers, CancelWrites(w)
        PROVE  adv' = [a \in Advances |-> adv'[a]]
    BY <1>0, <2>4 DEF CancelWrites
  <2>5. ASSUME NEW w \in Workers, SettleWrites(w)
        PROVE  adv' = [a \in Advances |-> adv'[a]]
    BY <1>0, <2>5 DEF SettleWrites
  <2>6. ASSUME NEW w \in Workers,
               Reads(w) \/ PayWrites(w) \/ VoidWrites(w) \/ Abort(w)
        PROVE  adv' = [a \in Advances |-> adv'[a]]
    BY <1>0, <2>6 DEF Reads, PayWrites, VoidWrites, Abort, data
  <2>. QED BY <2>1, <2>2, <2>3, <2>4, <2>5, <2>6 DEF Next
<1>. QED BY <1>1, <1>2

(* An endpoint's second half leaves its worker idle.                       *)
LEMMA DoneType ==
    ASSUME TypeOK, NEW w \in Workers, Done(w)
    PROVE  job' \in [Workers -> Job \cup {Idle}]
BY DEF TypeOK, Done

LEMMA TypeNext == TypeOK /\ [Next]_vars => TypeOK'
<1>. SUFFICES ASSUME TypeOK, [Next]_vars PROVE TypeOK'
  OBVIOUS
<1>1. CASE UNCHANGED vars
  BY <1>1 DEF TypeOK, vars
<1>2. CASE Next
  <2>0. /\ adv \in [Advances -> AdvanceRow] /\ inv \in [Invoices -> InvoiceRow]
        /\ applied \in [Advances -> [Invoices -> Nat]]
        /\ received \in [Invoices -> Nat] /\ short \in [Invoices -> Nat]
        /\ total \in [Reservations -> Nat] /\ cancelled \in SUBSET Advances
        /\ job \in [Workers -> Job \cup {Idle}]
    BY DEF TypeOK
  <2>1. adv' \in [Advances -> AdvanceRow]
    BY <1>2, TypeAdv
  <2>2. Amounts \subseteq Nat
    BY BoundsAssumption DEF Amounts
  <2>3. ASSUME NEW w \in Workers, NEW i \in Invoices, NEW n \in Amounts,
               job[w] \in Job, inv' = [inv EXCEPT ![i].paid =
                                        PaidAfter(job[w], i, n)]
        PROVE  inv' \in [Invoices -> InvoiceRow]
    <3>1. job[w].inv \in [Invoices -> InvoiceRow]
      BY <2>3 DEF Job
    <3>2. job[w].inv[i].paid \in Nat
      BY <3>1 DEF InvoiceRow
    <3>3. PaidAfter(job[w], i, n) \in Nat
      BY <2>2, <3>2 DEF PaidAfter
    <3>. QED BY <2>0, <2>3, <3>3 DEF InvoiceRow
  <2>4. ASSUME NEW w \in Workers, CreateAdvance(w) PROVE TypeOK'
    <3>1. total' \in [Reservations -> Nat]
      BY <2>0, <2>4, ResyncType DEF CreateAdvance
    <3>. QED BY <2>0, <2>1, <2>4, <3>1 DEF CreateAdvance, TypeOK
  <2>5. ASSUME NEW w \in Workers, Reads(w) PROVE TypeOK'
    <3>1. [busy |-> TRUE, adv |-> adv, inv |-> inv, total |-> total] \in Job
      BY <2>0 DEF Job
    <3>. QED BY <2>0, <2>5, <3>1 DEF Reads, data, TypeOK
  <2>6. ASSUME NEW w \in Workers, ApplyWrites(w) PROVE TypeOK'
    <3>1. job[w] \in Job
      BY <2>6, ServingJob DEF ApplyWrites, Serving
    <3>2. PICK a \in Advances, i \in Invoices, n \in Amounts :
            /\ inv' = [inv EXCEPT ![i].paid = PaidAfter(job[w], i, n)]
            /\ applied' = [applied EXCEPT ![a][i] = @ + n]
            /\ Resync({adv[a].resv}, adv, Session(job[w], {a}), total)
      BY <2>6 DEF ApplyWrites
    <3>3. inv' \in [Invoices -> InvoiceRow]
      BY <2>3, <3>1, <3>2
    <3>4. applied' \in [Advances -> [Invoices -> Nat]]
      BY <2>0, <2>2, <3>2
    <3>5. total' \in [Reservations -> Nat]
      BY <2>0, <3>2, ResyncType
    <3>6. job' \in [Workers -> Job \cup {Idle}]
      BY <2>6, DoneType DEF ApplyWrites
    <3>. QED BY <2>0, <2>1, <2>6, <3>3, <3>4, <3>5, <3>6
             DEF ApplyWrites, TypeOK
  <2>7. ASSUME NEW w \in Workers, RefundWrites(w) PROVE TypeOK'
    <3>1. total' \in [Reservations -> Nat]
      BY <2>0, <2>7, ResyncType DEF RefundWrites
    <3>2. job' \in [Workers -> Job \cup {Idle}]
      BY <2>7, DoneType DEF RefundWrites
    <3>. QED BY <2>0, <2>1, <2>7, <3>1, <3>2 DEF RefundWrites, TypeOK
  <2>8. ASSUME NEW w \in Workers, CancelWrites(w) PROVE TypeOK'
    <3>1. total' \in [Reservations -> Nat]
      BY <2>0, <2>8, ResyncType DEF CancelWrites
    <3>2. job' \in [Workers -> Job \cup {Idle}]
      BY <2>8, DoneType DEF CancelWrites
    <3>3. cancelled' \in SUBSET Advances
      BY <2>0, <2>8 DEF CancelWrites
    <3>. QED BY <2>0, <2>1, <2>8, <3>1, <3>2, <3>3 DEF CancelWrites, TypeOK
  <2>9. ASSUME NEW w \in Workers, SettleWrites(w) PROVE TypeOK'
    <3>. DEFINE j == job[w]
    <3>1. PICK i \in Invoices, share \in [Advances -> 0..MaxAmount],
               r \in Reservations \cup {NoRef}, price \in 1..MaxPrice :
            /\ NewInvoice(i, Covered(share), price)
            /\ applied' = [a \in Advances |->
                            [applied[a] EXCEPT ![i] = share[a]]]
            /\ Resync({adv[a].resv : a \in Used(share)} \cup {r}, adv,
                      Session(j, Used(share)),
                      [total EXCEPT ![r] = j.total[r]])
      BY <2>9 DEF SettleWrites
    <3>2. PICK paidNow \in 0..(price - Covered(share)) :
          \E tendered \in 0..paidNow :
            /\ inv' = [inv EXCEPT ![i] =
                    [state |-> "open", paid |-> Covered(share) + paidNow]]
            /\ received' = [received EXCEPT ![i] = tendered]
            /\ short' = [short EXCEPT ![i] = paidNow - tendered]
      BY <3>1 DEF NewInvoice
    <3>3. PICK tendered \in 0..paidNow :
            /\ inv' = [inv EXCEPT ![i] =
                    [state |-> "open", paid |-> Covered(share) + paidNow]]
            /\ received' = [received EXCEPT ![i] = tendered]
            /\ short' = [short EXCEPT ![i] = paidNow - tendered]
      BY <3>2
    <3>4. Covered(share) \in Nat
      BY CoveredType
    <3>5. Covered(share) + paidNow \in Nat /\ paidNow - tendered \in Nat
      BY <3>4
    <3>6. /\ inv' \in [Invoices -> InvoiceRow]
          /\ received' \in [Invoices -> Nat] /\ short' \in [Invoices -> Nat]
      BY <2>0, <3>3, <3>5 DEF InvoiceRow
    <3>7. applied' \in [Advances -> [Invoices -> Nat]]
      BY <2>0, <3>1
    <3>8. total' \in [Reservations -> Nat]
      BY <2>0, <3>1, ResyncType
    <3>9. job' \in [Workers -> Job \cup {Idle}] /\ cancelled' = cancelled
      BY <2>9, DoneType DEF SettleWrites
    <3>. QED BY <2>0, <2>1, <3>6, <3>7, <3>8, <3>9 DEF TypeOK
  <2>10. ASSUME NEW w \in Workers, PayWrites(w) PROVE TypeOK'
    <3>1. job[w] \in Job
      BY <2>10, ServingJob DEF PayWrites, Serving
    <3>2. PICK i \in Invoices, n \in Amounts :
            /\ inv' = [inv EXCEPT ![i].paid = PaidAfter(job[w], i, n)]
            /\ received' = [received EXCEPT ![i] = @ + n]
      BY <2>10 DEF PayWrites
    <3>3. inv' \in [Invoices -> InvoiceRow]
      BY <2>3, <3>1, <3>2
    <3>4. received' \in [Invoices -> Nat]
      BY <2>0, <2>2, <3>2
    <3>5. job' \in [Workers -> Job \cup {Idle}]
      BY <2>10, DoneType DEF PayWrites
    <3>. QED BY <2>0, <2>10, <3>3, <3>4, <3>5 DEF PayWrites, TypeOK
  <2>11. ASSUME NEW w \in Workers, VoidWrites(w) PROVE TypeOK'
    <3>1. inv' \in [Invoices -> InvoiceRow]
      BY <2>0, <2>11 DEF VoidWrites, InvoiceRow
    <3>2. job' \in [Workers -> Job \cup {Idle}]
      BY <2>11, DoneType DEF VoidWrites
    <3>. QED BY <2>0, <2>11, <3>1, <3>2 DEF VoidWrites, TypeOK
  <2>12. ASSUME NEW w \in Workers, Abort(w) PROVE TypeOK'
    <3>1. job' \in [Workers -> Job \cup {Idle}]
      BY <2>12, DoneType DEF Abort
    <3>. QED BY <2>0, <2>12, <3>1 DEF Abort, data, TypeOK
  <2>. QED BY <1>2, <2>4, <2>5, <2>6, <2>7, <2>8, <2>9, <2>10, <2>11, <2>12
           DEF Next
<1>. QED BY <1>1, <1>2

(* Whatever the requests and their interleaving, every row and every copy  *)
(* is well-formed, and no amount or total is ever negative.                *)
THEOREM TypeCorrect == Spec => []TypeOK
BY TypeInit, TypeNext, PTL DEF Spec

-----------------------------------------------------------------------------
(* Safety.                                                                 *)

(* A copy of a row that exists is a copy of a row that still exists, with  *)
(* the same amount: only status and the two sums change after creation.    *)
SameAmounts ==
    \A w \in Workers : job[w] \in Job =>
        \A a \in Advances : job[w].adv[a].status # "none" =>
            adv[a].status # "none" /\ job[w].adv[a].amount = adv[a].amount

(* A step gives a worker the current rows, or nothing, or leaves it alone. *)
LEMMA StepsOfJobs ==
    ASSUME TypeOK, Next, NEW v \in Workers
    PROVE  \/ job'[v] = job[v]
           \/ job'[v] = Idle
           \/ job'[v].adv = adv /\ adv' = adv
<1>1. ASSUME NEW w \in Workers, Reads(w)
      PROVE  job'[v] = job[v] \/ (job'[v].adv = adv /\ adv' = adv)
  BY <1>1 DEF Reads, TypeOK, data
<1>2. ASSUME NEW w \in Workers, Done(w)
      PROVE  job'[v] \in {job[v], Idle}
  BY <1>2 DEF Done, TypeOK
<1>3. ASSUME NEW w \in Workers, CreateAdvance(w) PROVE job' = job
  BY <1>3 DEF CreateAdvance
<1>. QED BY <1>1, <1>2, <1>3
         DEF Next, ApplyWrites, RefundWrites, CancelWrites, SettleWrites,
             PayWrites, VoidWrites, Abort

(* Idle is no request.                                                     *)
LEMMA IdleIsNoJob == Idle \notin Job
BY DEF Idle, Job

LEMMA SameAmountsNext ==
    TypeOK /\ SameAmounts /\ [Next]_vars => SameAmounts'
<1>. SUFFICES ASSUME TypeOK, SameAmounts, [Next]_vars,
                     NEW w \in Workers, job'[w] \in Job, NEW a \in Advances,
                     job'[w].adv[a].status # "none"
              PROVE  /\ adv'[a].status # "none"
                     /\ job'[w].adv[a].amount = adv'[a].amount
  BY DEF SameAmounts
<1>1. CASE UNCHANGED vars
  BY <1>1 DEF vars, SameAmounts
<1>2. CASE Next
  <2>1. adv[a] \in AdvanceRow /\ AdvanceStep(a)
    BY <1>2, StepsOfAdvances DEF TypeOK
  <2>2. adv[a].status # "none" =>
            adv'[a].status # "none" /\ adv'[a].amount = adv[a].amount
    BY <2>1, AdvanceStepType
  <2>3. CASE job'[w] = job[w]
    BY <2>2, <2>3 DEF SameAmounts
  <2>4. CASE job'[w] = Idle
    BY <2>4, IdleIsNoJob
  <2>5. CASE job'[w].adv = adv /\ adv' = adv
    BY <2>5
  <2>. QED BY <1>2, <2>3, <2>4, <2>5, StepsOfJobs
<1>. QED BY <1>1, <1>2

(* What a write makes of an advance, in numbers: from a copy of the same   *)
(* amount, each sum either stays or becomes what the copy's balance allows.*)
LEMMA WriteInNumbers ==
    ASSUME NEW a \in Advances, adv[a] \in AdvanceRow,
           NEW w \in Workers, WritesFrom(w, a)
    PROVE  LET copy == job[w].adv[a] IN
           /\ copy \in AdvanceRow
           /\ adv'[a].amount = adv[a].amount
           /\ \/ /\ adv'[a].applied = adv[a].applied
                 /\ adv'[a].refunded = adv[a].refunded
              \/ \E n \in Nat :
                    /\ copy.applied + copy.refunded + n <= copy.amount
                    /\ adv'[a].applied \in {adv[a].applied, copy.applied + n}
                    /\ adv'[a].refunded \in {adv[a].refunded, copy.refunded}
                    /\ copy = adv[a] =>
                        /\ adv'[a].applied = copy.applied + n
                        /\ adv'[a].refunded = copy.refunded
              \/ \E n \in Nat :
                    /\ copy.applied + copy.refunded + n <= copy.amount
                    /\ adv'[a].applied \in {adv[a].applied, copy.applied}
                    /\ adv'[a].refunded \in {adv[a].refunded, copy.refunded + n}
                    /\ copy = adv[a] =>
                        /\ adv'[a].applied = copy.applied
                        /\ adv'[a].refunded = copy.refunded + n
<1>. DEFINE copy == job[w].adv[a]
<1>1. copy \in AdvanceRow
  BY DEF WritesFrom, Job
<1>2. Amounts \subseteq Nat
  BY BoundsAssumption DEF Amounts
<1>3. CASE AppliesFrom(a, copy)
  <2>1. PICK n \in Amounts, i \in Invoices :
          /\ n <= Remaining(copy)
          /\ adv'[a] = Save(copy, Applied(copy, n, i), adv[a])
    BY <1>3 DEF AppliesFrom
  <2>2. copy.applied + copy.refunded + n <= copy.amount
    BY <1>1, <2>1, RemainingFits
  <2>3. /\ Applied(copy, n, i) \in AdvanceRow
        /\ Applied(copy, n, i).applied = copy.applied + n
        /\ Applied(copy, n, i).refunded = copy.refunded
    BY <1>1, <1>2, AppliedFacts
  <2>. HIDE DEF copy
  <2>4. /\ adv'[a].amount = adv[a].amount
        /\ adv'[a].applied \in {adv[a].applied, copy.applied + n}
        /\ adv'[a].refunded \in {adv[a].refunded, copy.refunded}
        /\ copy = adv[a] => /\ adv'[a].applied = copy.applied + n
                            /\ adv'[a].refunded = copy.refunded
    BY <1>1, <2>1, <2>3, SaveFacts
  <2>. QED BY <1>1, <1>2, <2>2, <2>4 DEF copy
<1>4. CASE RefundsFrom(a, copy)
  <2>1. PICK n \in Amounts :
          /\ n <= Remaining(copy)
          /\ adv'[a] = Save(copy, Refunded(copy, n), adv[a])
    BY <1>4 DEF RefundsFrom
  <2>2. copy.applied + copy.refunded + n <= copy.amount
    BY <1>1, <2>1, RemainingFits
  <2>3. /\ Refunded(copy, n) \in AdvanceRow
        /\ Refunded(copy, n).applied = copy.applied
        /\ Refunded(copy, n).refunded = copy.refunded + n
    BY <1>1, <1>2, RefundedFacts
  <2>. HIDE DEF copy
  <2>4. /\ adv'[a].amount = adv[a].amount
        /\ adv'[a].applied \in {adv[a].applied, copy.applied}
        /\ adv'[a].refunded \in {adv[a].refunded, copy.refunded + n}
        /\ copy = adv[a] => /\ adv'[a].applied = copy.applied
                            /\ adv'[a].refunded = copy.refunded + n
    BY <1>1, <2>1, <2>3, SaveFacts
  <2>. QED BY <1>1, <1>2, <2>2, <2>4 DEF copy
<1>5. CASE Cancels(a)
  BY <1>1, <1>5 DEF Cancels, AdvanceRow
<1>. QED BY <1>3, <1>4, <1>5 DEF WritesFrom

(* However requests interleave, no advance is applied, and none refunded,  *)
(* for more than its amount.                                               *)
THEOREM EachBounded == Spec => []EachWithinAmount
<1>1. Init => SameAmounts /\ EachWithinAmount
  BY IdleIsNoJob DEF Init, SameAmounts, EachWithinAmount, NoAdvance, Row
<1>2. TypeOK /\ SameAmounts /\ EachWithinAmount /\ [Next]_vars
        => EachWithinAmount'
  <2>. SUFFICES ASSUME TypeOK, SameAmounts, EachWithinAmount, [Next]_vars,
                       NEW a \in Advances
                PROVE  /\ adv'[a].applied <= adv'[a].amount
                       /\ adv'[a].refunded <= adv'[a].amount
    BY DEF EachWithinAmount
  <2>0. /\ adv[a].applied <= adv[a].amount /\ adv[a].refunded <= adv[a].amount
        /\ adv[a] \in AdvanceRow /\ Amounts \subseteq Nat
    BY BoundsAssumption DEF EachWithinAmount, TypeOK, Amounts
  <2>1. CASE adv'[a] = adv[a]
    BY <2>0, <2>1
  <2>2. CASE Creates(a)
    BY <2>0, <2>2, CreatedRow
  <2>3. ASSUME NEW w \in Workers, WritesFrom(w, a)
        PROVE  /\ adv'[a].applied <= adv'[a].amount
               /\ adv'[a].refunded <= adv'[a].amount
    <3>. DEFINE copy == job[w].adv[a]
    <3>1. copy.amount = adv[a].amount
      BY <2>3 DEF WritesFrom, SameAmounts
    <3>2. copy.applied \in Nat /\ copy.refunded \in Nat /\ copy.amount \in Nat
      BY <2>0, <2>3, WriteInNumbers, BoundsAssumption DEF AdvanceRow
    <3>. QED BY <2>0, <2>3, <3>1, <3>2, WriteInNumbers
  <2>4. CASE UNCHANGED vars
    BY <2>0, <2>4 DEF vars
  <2>. QED BY <2>1, <2>2, <2>3, <2>4, StepsOfAdvances DEF AdvanceStep
<1>. QED BY <1>1, <1>2, TypeInit, TypeNext, SameAmountsNext, PTL DEF Spec

(* One request at a time, a request in progress has the current rows.      *)
CurrentCopies ==
    \A w \in Workers :
        job[w] \in Job =>
            job[w].adv = adv /\ job[w].inv = inv /\ job[w].total = total

LEMMA CurrentCopiesNext ==
    ASSUME \A v, w \in Workers : v = w,
           TypeOK, CurrentCopies, [Next]_vars
    PROVE  CurrentCopies'
<1>. SUFFICES ASSUME NEW w \in Workers, job'[w] \in Job
              PROVE  /\ job'[w].adv = adv' /\ job'[w].inv = inv'
                     /\ job'[w].total = total'
  BY DEF CurrentCopies
<1>1. ASSUME CreateAdvance(w) PROVE FALSE
  BY <1>1, IdleIsNoJob DEF CreateAdvance
<1>2. ASSUME Done(w) PROVE FALSE
  BY <1>2, IdleIsNoJob DEF Done, TypeOK
<1>3. CASE Reads(w)
  BY <1>3 DEF Reads, TypeOK, data
<1>4. CASE UNCHANGED vars
  BY <1>4 DEF vars, CurrentCopies
<1>5. ASSUME Next PROVE CreateAdvance(w) \/ Done(w) \/ Reads(w)
  <2>1. PICK v \in Workers :
          \/ CreateAdvance(v) \/ Reads(v) \/ ApplyWrites(v)
          \/ RefundWrites(v) \/ CancelWrites(v) \/ SettleWrites(v)
          \/ PayWrites(v) \/ VoidWrites(v) \/ Abort(v)
    BY <1>5 DEF Next
  <2>2. CreateAdvance(v) \/ Reads(v) \/ Done(v)
    BY <2>1 DEF ApplyWrites, RefundWrites, CancelWrites, SettleWrites,
                PayWrites, VoidWrites, Abort
  <2>. QED BY <2>2
<1>. QED BY <1>1, <1>2, <1>3, <1>4, <1>5

(* Served one request at a time, refunds and applications never exceed an  *)
(* advance together: a copy is then always current.                        *)
THEOREM SerialOnlyUnappliedRefunded ==
    ASSUME \A v, w \in Workers : v = w
    PROVE  Spec => []OnlyUnappliedRefunded
<1>1. Init => CurrentCopies /\ OnlyUnappliedRefunded
  BY IdleIsNoJob DEF Init, CurrentCopies, OnlyUnappliedRefunded, NoAdvance, Row
<1>2. TypeOK /\ CurrentCopies /\ OnlyUnappliedRefunded /\ [Next]_vars
        => OnlyUnappliedRefunded'
  <2>. SUFFICES ASSUME TypeOK, CurrentCopies, OnlyUnappliedRefunded,
                       [Next]_vars, NEW a \in Advances
                PROVE  adv'[a].applied + adv'[a].refunded <= adv'[a].amount
    BY DEF OnlyUnappliedRefunded
  <2>0. /\ adv[a].applied + adv[a].refunded <= adv[a].amount
        /\ adv[a] \in AdvanceRow /\ Amounts \subseteq Nat
    BY BoundsAssumption DEF OnlyUnappliedRefunded, TypeOK, Amounts
  <2>1. CASE adv'[a] = adv[a]
    BY <2>0, <2>1
  <2>2. CASE Creates(a)
    BY <2>0, <2>2, CreatedRow
  <2>3. ASSUME NEW w \in Workers, WritesFrom(w, a)
        PROVE  adv'[a].applied + adv'[a].refunded <= adv'[a].amount
    <3>1. job[w].adv[a] = adv[a]
      BY <2>3 DEF WritesFrom, CurrentCopies
    <3>2. /\ adv[a].applied \in Nat /\ adv[a].refunded \in Nat
          /\ adv[a].amount \in Nat
      BY <2>0, BoundsAssumption DEF AdvanceRow
    <3>. QED BY <2>0, <2>3, <3>1, <3>2, WriteInNumbers
  <2>4. CASE UNCHANGED vars
    BY <2>0, <2>4 DEF vars
  <2>. QED BY <2>1, <2>2, <2>3, <2>4, StepsOfAdvances DEF AdvanceStep
<1>. QED BY <1>1, <1>2, TypeInit, TypeNext, CurrentCopiesNext, PTL DEF Spec

(* Where a scenario has no refunds nothing is refunded, and where it has   *)
(* no way to use an advance none is applied, in the rows and in what was   *)
(* read of them.                                                           *)
OneSided(row) ==
    /\ "refund" \notin Endpoints => row.refunded = 0
    /\ Endpoints \cap Uses = {} => row.applied = 0
RowsOneSided == \A a \in Advances : OneSided(adv[a])
CopiesOneSided ==
    \A w \in Workers : job[w] \in Job =>
        \A a \in Advances : OneSided(job[w].adv[a])

LEMMA RowsOneSidedNext ==
    TypeOK /\ RowsOneSided /\ CopiesOneSided /\ [Next]_vars => RowsOneSided'
<1>. SUFFICES ASSUME TypeOK, RowsOneSided, CopiesOneSided, [Next]_vars,
                     NEW a \in Advances
              PROVE  OneSided(adv'[a])
  BY DEF RowsOneSided, OneSided
<1>0. OneSided(adv[a]) /\ adv[a] \in AdvanceRow /\ Amounts \subseteq Nat
  BY BoundsAssumption DEF RowsOneSided, TypeOK, Amounts
<1>1. CASE adv'[a] = adv[a]
  BY <1>0, <1>1
<1>2. CASE Creates(a)
  BY <1>2, CreatedRow DEF OneSided
<1>3. ASSUME NEW w \in Workers, WritesFrom(w, a) PROVE OneSided(adv'[a])
  <2>. DEFINE copy == job[w].adv[a]
  <2>1. OneSided(copy) /\ copy \in AdvanceRow
    BY <1>3 DEF CopiesOneSided, WritesFrom, Job
  <2>. HIDE DEF copy
  <2>2. CASE AppliesFrom(a, copy)
    <3>1. PICK n \in Amounts, i \in Invoices :
            adv'[a] = Save(copy, Applied(copy, n, i), adv[a])
      BY <2>2 DEF AppliesFrom
    <3>2. adv'[a].refunded \in {adv[a].refunded, copy.refunded}
      BY <1>0, <2>1, <3>1, AppliedFacts, SaveFacts
    <3>. QED BY <1>0, <2>1, <2>2, <3>2 DEF OneSided, AppliesFrom
  <2>3. CASE RefundsFrom(a, copy)
    <3>1. PICK n \in Amounts :
            adv'[a] = Save(copy, Refunded(copy, n), adv[a])
      BY <2>3 DEF RefundsFrom
    <3>2. adv'[a].applied \in {adv[a].applied, copy.applied}
      BY <1>0, <2>1, <3>1, RefundedFacts, SaveFacts
    <3>. QED BY <1>0, <2>1, <2>3, <3>2 DEF OneSided, RefundsFrom
  <2>4. CASE Cancels(a)
    BY <1>0, <2>4 DEF Cancels, OneSided, AdvanceRow
  <2>. QED BY <1>3, <2>2, <2>3, <2>4 DEF WritesFrom, copy
<1>4. CASE UNCHANGED vars
  BY <1>0, <1>4 DEF vars
<1>. QED BY <1>1, <1>2, <1>3, <1>4, StepsOfAdvances DEF AdvanceStep

LEMMA CopiesOneSidedNext ==
    TypeOK /\ RowsOneSided /\ CopiesOneSided /\ [Next]_vars
        => CopiesOneSided'
<1>. SUFFICES ASSUME TypeOK, RowsOneSided, CopiesOneSided, [Next]_vars,
                     NEW w \in Workers, job'[w] \in Job, NEW a \in Advances
              PROVE  OneSided(job'[w].adv[a])
  BY DEF CopiesOneSided, OneSided
<1>1. CASE job'[w] = job[w]
  BY <1>1 DEF CopiesOneSided
<1>2. CASE job'[w] = Idle
  BY <1>2, IdleIsNoJob
<1>3. CASE job'[w].adv = adv
  BY <1>3 DEF RowsOneSided
<1>4. CASE UNCHANGED vars
  BY <1>1, <1>4 DEF vars
<1>. QED BY <1>1, <1>2, <1>3, <1>4, StepsOfJobs

(* However requests interleave, refunds and applications do not exceed an  *)
(* advance together in a shop that only refunds advances or only uses      *)
(* them: it takes a refund that races a use to break the promise of        *)
(* refund_advance_payment, never two refunds or two uses.                  *)
THEOREM OneSidedOnlyUnappliedRefunded ==
    ASSUME "refund" \notin Endpoints \/ Endpoints \cap Uses = {}
    PROVE  Spec => []OnlyUnappliedRefunded
<1>1. Init => RowsOneSided /\ CopiesOneSided
  BY IdleIsNoJob
  DEF Init, RowsOneSided, CopiesOneSided, OneSided, NoAdvance, Row
<1>2. TypeOK /\ RowsOneSided /\ EachWithinAmount => OnlyUnappliedRefunded
  <2>. SUFFICES ASSUME TypeOK, RowsOneSided, EachWithinAmount,
                       NEW a \in Advances
                PROVE  adv[a].applied + adv[a].refunded <= adv[a].amount
    BY DEF OnlyUnappliedRefunded
  <2>1. /\ adv[a].applied \in Nat /\ adv[a].refunded \in Nat
        /\ adv[a].amount \in Nat
    BY BoundsAssumption DEF TypeOK, AdvanceRow
  <2>2. adv[a].refunded = 0 \/ adv[a].applied = 0
    BY DEF RowsOneSided, OneSided
  <2>. QED BY <2>1, <2>2 DEF EachWithinAmount
<1>. QED BY <1>1, <1>2, TypeInit, TypeNext, RowsOneSidedNext,
            CopiesOneSidedNext, EachBounded, PTL DEF Spec

-----------------------------------------------------------------------------
(* Totals.                                                                 *)

(* Saving over the row that was read makes it the new one, in its place.   *)
LEMMA SaveOverRead ==
    ASSUME NEW row \in AdvanceRow, NEW new \in AdvanceRow
    PROVE  Save(row, new, row) =
                [status |-> new.status, amount |-> row.amount,
                 applied |-> new.applied, refunded |-> new.refunded,
                 invoice |-> new.invoice, resv |-> row.resv]
BY DEF Save, Put, Row, AdvanceRow

(* Whether a row counts for a reservation.                                 *)
Counts(row, r) == row.resv = r /\ row.status \notin {"none", "cancelled"}

(* Totals over rows that count alike and hold the same are the same.       *)
LEMMA SamePaid ==
    ASSUME NEW r, NEW found, NEW rows, NEW found2, NEW rows2,
           \A a \in Advances :
              /\ Counts(found[a], r) <=> Counts(found2[a], r)
              /\ Counts(found[a], r) =>
                    Effective(rows[a]) = Effective(rows2[a])
    PROVE  PaidTotal(found, rows, r) = PaidTotal(found2, rows2, r)
<1>1. Live(found, r) = Live(found2, r)
  BY DEF Live, Counts
<1>2. \A a \in Live(found, r) : Effective(rows[a]) = Effective(rows2[a])
  BY DEF Live, Counts
<1>3. {c \in Live(found, r) \X Amounts : c[2] <= Effective(rows[c[1]])}
        = {c \in Live(found2, r) \X Amounts : c[2] <= Effective(rows2[c[1]])}
  <2>1. \A c \in Live(found, r) \X Amounts : c[1] \in Live(found, r)
    OBVIOUS
  <2>. QED BY <1>1, <1>2, <2>1
<1>. QED BY <1>3 DEF PaidTotal

(* Recomputing over the current rows gives their total.                    *)
LEMMA ResyncCurrent ==
    ASSUME NEW touched, NEW found, NEW rows, NEW r \in Reservations,
           Resync(touched, found, rows, total)
    PROVE  total'[r] = IF r \in touched THEN PaidTotal(found, rows, r)
                                        ELSE total[r]
BY DEF Resync, Put

(* An application leaves the row in its place, with the same to hold.      *)
LEMMA AppliedStays ==
    ASSUME NEW row \in AdvanceRow, NEW n \in Nat, NEW i \in Invoices,
           MayApply(row, n, i), NEW r
    PROVE  LET saved == Save(row, Applied(row, n, i), row) IN
           /\ Counts(saved, r) <=> Counts(row, r)
           /\ Effective(saved) = Effective(row)
           /\ saved.resv = row.resv
           /\ saved.status \notin {"none", "cancelled"}
<1>. DEFINE new == Applied(row, n, i)
<1>1. /\ new \in AdvanceRow /\ new.refunded = row.refunded
      /\ new.status \notin {"none", "cancelled"}
  BY AppliedFacts DEF Applied, Row
<1>2. row.status \notin {"none", "cancelled"}
  BY DEF MayApply, NotApplicable
<1>. HIDE DEF new
<1>3. Save(row, new, row) =
        [status |-> new.status, amount |-> row.amount,
         applied |-> new.applied, refunded |-> new.refunded,
         invoice |-> new.invoice, resv |-> row.resv]
  BY <1>1, SaveOverRead
<1>. QED BY <1>1, <1>2, <1>3 DEF Counts, Effective, new

(* A cancelled advance is remembered, and only advances are cancelled.     *)
CancelledKnown ==
    \A a \in Advances :
        /\ adv[a].status = "cancelled" => a \in cancelled
        /\ a \in cancelled => adv[a].status # "none"

(* What a step owes that invariant, and the totals.                        *)
Remembers ==
    /\ cancelled \subseteq cancelled'
    /\ \A a \in Advances :
        /\ adv[a].status # "none" =>
                adv'[a].status # "none" /\ adv'[a].resv = adv[a].resv
        /\ adv'[a].status = "cancelled" => a \in cancelled'
        /\ a \in cancelled' => adv'[a].status # "none"

NoneCancelled(r) == \A a \in cancelled : adv[a].resv # r
KeepsTotal(r) ==
    (/\ r \in Reservations
     /\ NoneCancelled(r) /\ NoneCancelled(r)'
     /\ total[r] = PaidTotal(adv, adv, r)) =>
        total'[r] = PaidTotal(adv', adv', r)

(* A new advance counts for the reservation it was taken for, and the      *)
(* total is computed with it.                                              *)
LEMMA CreateKeeps ==
    ASSUME TypeOK, CancelledKnown, NEW w \in Workers, CreateAdvance(w),
           NEW r
    PROVE  Remembers /\ KeepsTotal(r)
<1>0. adv \in [Advances -> AdvanceRow] /\ cancelled' = cancelled
  BY DEF TypeOK, CreateAdvance
<1>1. PICK b \in Advances, n \in Amounts, q \in Reservations \cup {NoRef},
           i \in {NoRef} \cup Invoices :
        /\ adv[b].status = "none"
        /\ adv' = [adv EXCEPT ![b] = Row("received", n, 0, 0, i, q)]
        /\ Resync({q}, adv', adv', total)
  BY DEF CreateAdvance
<1>2. /\ adv'[b].status = "received" /\ adv'[b].resv = q
      /\ \A a \in Advances \ {b} : adv'[a] = adv[a]
  BY <1>0, <1>1 DEF Row
<1>3. Remembers
  BY <1>0, <1>1, <1>2 DEF Remembers, CancelledKnown
<1>4. r \in Reservations =>
        total'[r] = IF r = q THEN PaidTotal(adv', adv', r) ELSE total[r]
  BY <1>1, ResyncCurrent
<1>5. ASSUME r # q PROVE PaidTotal(adv, adv, r) = PaidTotal(adv', adv', r)
  <2>1. \A a \in Advances :
            /\ Counts(adv[a], r) <=> Counts(adv'[a], r)
            /\ Counts(adv[a], r) => Effective(adv[a]) = Effective(adv'[a])
    BY <1>1, <1>2, <1>5 DEF Counts
  <2>. QED BY <2>1, SamePaid
<1>. QED BY <1>3, <1>4, <1>5 DEF KeepsTotal

(* An application moves no advance and frees nothing: recomputed or not,   *)
(* the total stays what it was.                                            *)
LEMMA ApplyKeeps ==
    ASSUME TypeOK, CurrentCopies, CancelledKnown,
           NEW w \in Workers, ApplyWrites(w), NEW r
    PROVE  Remembers /\ KeepsTotal(r)
<1>. DEFINE j == job[w]
<1>0. adv \in [Advances -> AdvanceRow] /\ cancelled' = cancelled
  BY DEF TypeOK, ApplyWrites
<1>1. j.adv = adv /\ j.total = total
  BY ServingJob DEF ApplyWrites, Serving, CurrentCopies
<1>2. PICK b \in Advances, i \in Invoices, n \in Amounts :
        /\ MayApply(j.adv[b], n, i)
        /\ adv' = [adv EXCEPT ![b] =
                    Save(j.adv[b], Applied(j.adv[b], n, i), adv[b])]
        /\ Resync({adv[b].resv}, adv, Session(j, {b}), total)
  BY DEF ApplyWrites
<1>3. n \in Nat
  BY BoundsAssumption DEF Amounts
<1>4. /\ adv'[b] = Save(adv[b], Applied(adv[b], n, i), adv[b])
      /\ MayApply(adv[b], n, i)
      /\ \A a \in Advances \ {b} : adv'[a] = adv[a]
  BY <1>0, <1>1, <1>2
<1>5. Session(j, {b}) = adv
  BY <1>0, <1>1 DEF Session
<1>. HIDE DEF j
<1>6. /\ Counts(adv'[b], r) <=> Counts(adv[b], r)
      /\ Effective(adv'[b]) = Effective(adv[b])
      /\ adv'[b].resv = adv[b].resv
      /\ adv'[b].status \notin {"none", "cancelled"}
  BY <1>0, <1>3, <1>4, AppliedStays
<1>7. Remembers
  BY <1>0, <1>4, <1>6 DEF Remembers, CancelledKnown
<1>8. PaidTotal(adv, adv, r) = PaidTotal(adv', adv', r)
  <2>1. \A a \in Advances :
            /\ Counts(adv[a], r) <=> Counts(adv'[a], r)
            /\ Counts(adv[a], r) => Effective(adv[a]) = Effective(adv'[a])
    BY <1>4, <1>6
  <2>. QED BY <2>1, SamePaid
<1>9. r \in Reservations => total'[r] \in {total[r], PaidTotal(adv, adv, r)}
  BY <1>2, <1>5, ResyncCurrent
<1>. QED BY <1>7, <1>8, <1>9 DEF KeepsTotal

(* A refund is in the total at once: the advance still counts, unless it   *)
(* had been cancelled, and holds less.                                     *)
LEMMA RefundKeeps ==
    ASSUME TypeOK, CurrentCopies, CancelledKnown,
           NEW w \in Workers, RefundWrites(w), NEW r
    PROVE  Remembers /\ KeepsTotal(r)
<1>. DEFINE j == job[w]
<1>0. adv \in [Advances -> AdvanceRow] /\ cancelled' = cancelled
  BY DEF TypeOK, RefundWrites
<1>1. j.adv = adv /\ j.total = total
  BY ServingJob DEF RefundWrites, Serving, CurrentCopies
<1>2. PICK b \in Advances, n \in Amounts :
        LET after == Refunded(j.adv[b], n) IN
        /\ j.adv[b].status # "none"
        /\ adv' = [adv EXCEPT ![b] = Save(j.adv[b], after, adv[b])]
        /\ Resync({adv[b].resv}, j.adv, [j.adv EXCEPT ![b] = after], j.total)
  BY DEF RefundWrites
<1>. DEFINE after == Refunded(adv[b], n)
            rows == [adv EXCEPT ![b] = after]
<1>3. n \in Nat
  BY BoundsAssumption DEF Amounts
<1>4. /\ adv[b].status # "none"
      /\ adv' = [adv EXCEPT ![b] = Save(adv[b], after, adv[b])]
      /\ Resync({adv[b].resv}, adv, rows, total)
  BY <1>1, <1>2
<1>5. /\ after \in AdvanceRow /\ after.amount = adv[b].amount
      /\ after.status \notin {"none", "cancelled"}
  BY <1>0, <1>3, RefundedFacts DEF Refunded, Row
<1>6. /\ adv'[b].status = after.status /\ adv'[b].resv = adv[b].resv
      /\ adv'[b].amount = after.amount /\ adv'[b].refunded = after.refunded
      /\ \A a \in Advances \ {b} : adv'[a] = adv[a] /\ rows[a] = adv[a]
      /\ rows[b] = after
  <2>1. adv'[b] = Save(adv[b], after, adv[b])
    BY <1>0, <1>4
  <2>2. adv'[b] = [status |-> after.status, amount |-> adv[b].amount,
                   applied |-> after.applied, refunded |-> after.refunded,
                   invoice |-> after.invoice, resv |-> adv[b].resv]
    BY <1>0, <1>5, <2>1, SaveOverRead
  <2>. QED BY <1>0, <1>4, <1>5, <2>2
<1>. HIDE DEF j, after, rows
<1>7. Remembers
  BY <1>0, <1>4, <1>5, <1>6 DEF Remembers, CancelledKnown
<1>8. r \in Reservations =>
        total'[r] = IF r = adv[b].resv THEN PaidTotal(adv, rows, r)
                                       ELSE total[r]
  BY <1>4, ResyncCurrent
<1>9. ASSUME r # adv[b].resv
      PROVE  PaidTotal(adv, adv, r) = PaidTotal(adv', adv', r)
  <2>1. \A a \in Advances :
            /\ Counts(adv[a], r) <=> Counts(adv'[a], r)
            /\ Counts(adv[a], r) => Effective(adv[a]) = Effective(adv'[a])
    BY <1>6, <1>9 DEF Counts
  <2>. QED BY <2>1, SamePaid
<1>10. ASSUME r = adv[b].resv, NoneCancelled(r)
       PROVE  PaidTotal(adv, rows, r) = PaidTotal(adv', adv', r)
  <2>1. adv[b].status # "cancelled"
    BY <1>10 DEF NoneCancelled, CancelledKnown
  <2>2. Effective(rows[b]) = Effective(adv'[b])
    BY <1>6 DEF Effective
  <2>3. \A a \in Advances :
            /\ Counts(adv[a], r) <=> Counts(adv'[a], r)
            /\ Counts(adv[a], r) => Effective(rows[a]) = Effective(adv'[a])
    BY <1>4, <1>5, <1>6, <1>10, <2>1, <2>2 DEF Counts
  <2>. QED BY <2>3, SamePaid
<1>. QED BY <1>7, <1>8, <1>9, <1>10 DEF KeepsTotal

(* Cancelling concerns the one reservation that is then out of the claim.  *)
LEMMA CancelKeeps ==
    ASSUME TypeOK, CurrentCopies, CancelledKnown,
           NEW w \in Workers, CancelWrites(w), NEW r
    PROVE  Remembers /\ KeepsTotal(r)
<1>. DEFINE j == job[w]
<1>0. adv \in [Advances -> AdvanceRow]
  BY DEF TypeOK
<1>1. j.adv = adv /\ j.total = total
  BY ServingJob DEF CancelWrites, Serving, CurrentCopies
<1>2. PICK b \in Advances :
        /\ j.adv[b].status \notin {"none", "cancelled"}
        /\ adv' = [adv EXCEPT ![b].status = "cancelled"]
        /\ cancelled' = cancelled \cup {b}
        /\ Resync({adv[b].resv}, j.adv, j.adv, j.total)
  BY DEF CancelWrites
<1>3. /\ adv[b].status # "none" /\ Resync({adv[b].resv}, adv, adv, total)
  BY <1>1, <1>2
<1>4. /\ adv'[b].status = "cancelled" /\ adv'[b].resv = adv[b].resv
      /\ \A a \in Advances \ {b} : adv'[a] = adv[a]
  BY <1>0, <1>2 DEF AdvanceRow
<1>. HIDE DEF j
<1>5. Remembers
  BY <1>2, <1>4 DEF Remembers, CancelledKnown
<1>6. r \in Reservations =>
        total'[r] = IF r = adv[b].resv THEN PaidTotal(adv, adv, r)
                                       ELSE total[r]
  BY <1>3, ResyncCurrent
<1>7. ASSUME NoneCancelled(r)'
      PROVE  /\ r # adv[b].resv
             /\ PaidTotal(adv, adv, r) = PaidTotal(adv', adv', r)
  <2>1. r # adv[b].resv
    BY <1>2, <1>4, <1>7 DEF NoneCancelled
  <2>2. \A a \in Advances :
            /\ Counts(adv[a], r) <=> Counts(adv'[a], r)
            /\ Counts(adv[a], r) => Effective(adv[a]) = Effective(adv'[a])
    BY <1>4, <2>1 DEF Counts
  <2>. QED BY <2>1, <2>2, SamePaid
<1>. QED BY <1>5, <1>6, <1>7 DEF KeepsTotal

(* An invoice settled from advances is an application of each of them.     *)
LEMMA SettleKeeps ==
    ASSUME TypeOK, CurrentCopies, CancelledKnown,
           NEW w \in Workers, SettleWrites(w), NEW r
    PROVE  Remembers /\ KeepsTotal(r)
<1>. DEFINE j == job[w]
<1>0. adv \in [Advances -> AdvanceRow] /\ cancelled' = cancelled
  BY DEF TypeOK, SettleWrites
<1>1. j.adv = adv /\ j.total = total
  BY ServingJob DEF SettleWrites, Serving, CurrentCopies
<1>2. PICK i \in Invoices, share \in [Advances -> 0..MaxAmount],
           q \in Reservations \cup {NoRef} :
        /\ \A a \in Used(share) : MayApply(j.adv[a], share[a], i)
        /\ adv' = [a \in Advances |->
                    IF a \in Used(share)
                    THEN Save(j.adv[a], Applied(j.adv[a], share[a], i), adv[a])
                    ELSE adv[a]]
        /\ Resync({adv[a].resv : a \in Used(share)} \cup {q}, adv,
                  Session(j, Used(share)), [total EXCEPT ![q] = j.total[q]])
  BY DEF SettleWrites
<1>3. Session(j, Used(share)) = adv
  BY <1>0, <1>1 DEF Session
<1>4. [total EXCEPT ![q] = j.total[q]] = total
  BY <1>1 DEF TypeOK
<1>5. /\ \A a \in Used(share) :
            /\ MayApply(adv[a], share[a], i)
            /\ adv'[a] = Save(adv[a], Applied(adv[a], share[a], i), adv[a])
      /\ \A a \in Advances \ Used(share) : adv'[a] = adv[a]
  BY <1>1, <1>2 DEF Used
<1>. HIDE DEF j
<1>6. \A a \in Used(share) :
        /\ Counts(adv'[a], r) <=> Counts(adv[a], r)
        /\ Effective(adv'[a]) = Effective(adv[a])
        /\ adv'[a].resv = adv[a].resv
        /\ adv'[a].status \notin {"none", "cancelled"}
  <2>. SUFFICES ASSUME NEW a \in Used(share)
                PROVE  /\ Counts(adv'[a], r) <=> Counts(adv[a], r)
                       /\ Effective(adv'[a]) = Effective(adv[a])
                       /\ adv'[a].resv = adv[a].resv
                       /\ adv'[a].status \notin {"none", "cancelled"}
    OBVIOUS
  <2>1. a \in Advances /\ share[a] \in Nat
    BY BoundsAssumption DEF Used
  <2>. QED BY <1>0, <1>5, <2>1, AppliedStays
<1>7. Remembers
  BY <1>0, <1>5, <1>6 DEF Remembers, CancelledKnown
<1>8. PaidTotal(adv, adv, r) = PaidTotal(adv', adv', r)
  <2>1. \A a \in Advances :
            /\ Counts(adv[a], r) <=> Counts(adv'[a], r)
            /\ Counts(adv[a], r) => Effective(adv[a]) = Effective(adv'[a])
    BY <1>5, <1>6
  <2>. QED BY <2>1, SamePaid
<1>9. r \in Reservations => total'[r] \in {total[r], PaidTotal(adv, adv, r)}
  BY <1>2, <1>3, <1>4, ResyncCurrent
<1>. QED BY <1>7, <1>8, <1>9 DEF KeepsTotal

LEMMA StepKeeps ==
    ASSUME TypeOK, CurrentCopies, CancelledKnown, [Next]_vars,
           NEW r
    PROVE  Remembers /\ KeepsTotal(r)
<1>1. ASSUME UNCHANGED <<adv, total, cancelled>>
      PROVE  Remembers /\ KeepsTotal(r)
  BY <1>1 DEF Remembers, KeepsTotal, CancelledKnown
<1>2. ASSUME NEW w \in Workers,
             Reads(w) \/ PayWrites(w) \/ VoidWrites(w) \/ Abort(w)
      PROVE  UNCHANGED <<adv, total, cancelled>>
  BY <1>2 DEF Reads, PayWrites, VoidWrites, Abort, data
<1>3. CASE UNCHANGED vars
  BY <1>1, <1>3 DEF vars
<1>. QED BY <1>1, <1>2, <1>3, CreateKeeps, ApplyKeeps, RefundKeeps,
            CancelKeeps, SettleKeeps DEF Next

(* Served one request at a time, the total on a reservation is what its    *)
(* advances still hold after refunds, while none of them was cancelled.    *)
THEOREM SerialTotalsFollowAdvances ==
    ASSUME \A v, w \in Workers : v = w
    PROVE  Spec => []TotalsFollowAdvances
<1>1. Init => CurrentCopies /\ CancelledKnown
  BY IdleIsNoJob DEF Init, CurrentCopies, CancelledKnown, NoAdvance, Row
<1>2. Init => TotalsFollowAdvances
  <2>. SUFFICES ASSUME Init, NEW r \in Reservations
                PROVE  total[r] = PaidTotal(adv, adv, r)
    BY DEF TotalsFollowAdvances
  <2>1. Live(adv, r) = {}
    BY DEF Live, Init, NoAdvance, Row
  <2>2. PaidTotal(adv, adv, r) = 0
    BY <2>1, FS_EmptySet DEF PaidTotal
  <2>. QED BY <2>2 DEF Init
<1>3. TypeOK /\ CurrentCopies /\ CancelledKnown /\ [Next]_vars
        => CancelledKnown'
  <2>. SUFFICES ASSUME TypeOK, CurrentCopies, CancelledKnown, [Next]_vars
                PROVE  CancelledKnown'
    OBVIOUS
  <2>1. Remembers
    BY StepKeeps
  <2>. QED BY <2>1 DEF Remembers, CancelledKnown
<1>4. TypeOK /\ CurrentCopies /\ CancelledKnown /\ TotalsFollowAdvances
        /\ [Next]_vars => TotalsFollowAdvances'
  <2>. SUFFICES ASSUME TypeOK, CurrentCopies, CancelledKnown,
                       TotalsFollowAdvances, [Next]_vars,
                       NEW r \in Reservations,
                       NoneCancelled(r)'
                PROVE  total'[r] = PaidTotal(adv', adv', r)
    BY DEF TotalsFollowAdvances, NoneCancelled
  <2>1. Remembers /\ KeepsTotal(r)
    BY StepKeeps
  <2>2. NoneCancelled(r)
    BY <2>1 DEF NoneCancelled, Remembers, CancelledKnown, TypeOK
  <2>3. total[r] = PaidTotal(adv, adv, r)
    BY <2>2 DEF TotalsFollowAdvances, NoneCancelled
  <2>. QED BY <2>1, <2>2, <2>3 DEF KeepsTotal
<1>. QED BY <1>1, <1>2, <1>3, <1>4, TypeInit, TypeNext, CurrentCopiesNext, PTL
         DEF Spec

-----------------------------------------------------------------------------
(* Payments: what tables and copies say against the payments recorded.     *)

(* The sums are natural, and none is less than what it adds up.            *)
LEMMA SumTypes ==
    ASSUME TypeOK
    PROVE  /\ \A a \in Advances :
                /\ AppliedSum(a) \in Nat
                /\ \A i \in Invoices : applied[a][i] <= AppliedSum(a)
           /\ \A i \in Invoices :
                /\ ReceivedFor(i) \in Nat
                /\ \A a \in Advances : applied[a][i] <= ReceivedFor(i)
<1>1. ASSUME NEW a \in Advances
      PROVE  /\ AppliedSum(a) \in Nat
             /\ \A i \in Invoices : applied[a][i] <= AppliedSum(a)
  <2>1. applied[a] \in [Invoices -> Nat]
    BY DEF TypeOK
  <2>. QED BY <2>1, FiniteAssumption, TotalNat DEF AppliedSum
<1>2. ASSUME NEW i \in Invoices
      PROVE  /\ ReceivedFor(i) \in Nat
             /\ \A a \in Advances : applied[a][i] <= ReceivedFor(i)
  <2>. DEFINE column == [a \in Advances |-> applied[a][i]]
  <2>1. column \in [Advances -> Nat] /\ received[i] \in Nat
    BY DEF TypeOK
  <2>2. \A a \in Advances : column[a] = applied[a][i]
    OBVIOUS
  <2>. HIDE DEF column
  <2>3. Total(column) \in Nat /\ \A a \in Advances : column[a] <= Total(column)
    BY <2>1, FiniteAssumption, TotalNat
  <2>4. ReceivedFor(i) = received[i] + Total(column)
    BY DEF ReceivedFor, column
  <2>5. \A a \in Advances : applied[a][i] \in Nat
    BY DEF TypeOK
  <2>. QED BY <2>1, <2>2, <2>3, <2>4, <2>5
<1>. QED BY <1>1, <1>2

(* The sums when applied payments change.                                  *)
LEMMA AppliedMore ==
    ASSUME TypeOK, NEW a \in Advances, NEW i \in Invoices, NEW n \in Nat,
           applied' = [applied EXCEPT ![a][i] = @ + n], received' = received
    PROVE  /\ AppliedSum(a)' = AppliedSum(a) + n
           /\ \A b \in Advances \ {a} : AppliedSum(b)' = AppliedSum(b)
           /\ ReceivedFor(i)' = ReceivedFor(i) + n
           /\ \A k \in Invoices \ {i} : ReceivedFor(k)' = ReceivedFor(k)
<1>0. applied \in [Advances -> [Invoices -> Nat]]
  BY DEF TypeOK
<1>1. /\ applied[a] \in [Invoices -> Int] /\ applied'[a] \in [Invoices -> Int]
      /\ \A k \in Invoices \ {i} : applied'[a][k] = applied[a][k]
      /\ applied'[a][i] = applied[a][i] + n
  BY <1>0
<1>2. Total(applied'[a]) = Total(applied[a]) + applied'[a][i] - applied[a][i]
  BY <1>1, FiniteAssumption, TotalChange
<1>3. Total(applied[a]) \in Int /\ applied[a][i] \in Int
  BY <1>1, FiniteAssumption, TotalType
<1>4. AppliedSum(a)' = AppliedSum(a) + n
  BY <1>1, <1>2, <1>3 DEF AppliedSum
<1>5. \A b \in Advances \ {a} : applied'[b] = applied[b]
  BY <1>0
<1>6. \A b \in Advances \ {a} : AppliedSum(b)' = AppliedSum(b)
  BY <1>5 DEF AppliedSum
<1>. DEFINE before(k) == [b \in Advances |-> applied[b][k]]
            after(k) == [b \in Advances |-> applied'[b][k]]
<1>7. \A k \in Invoices \ {i} : after(k) = before(k)
  BY <1>0
<1>8. /\ before(i) \in [Advances -> Int] /\ after(i) \in [Advances -> Int]
      /\ \A b \in Advances \ {a} : after(i)[b] = before(i)[b]
      /\ after(i)[a] = before(i)[a] + n
      /\ before(i)[a] \in Int
  BY <1>0
<1>9. \A k \in Invoices :
        /\ ReceivedFor(k) = received[k] + Total(before(k))
        /\ ReceivedFor(k)' = received[k] + Total(after(k))
  BY DEF ReceivedFor
<1>. HIDE DEF before, after
<1>10. Total(after(i)) = Total(before(i)) + after(i)[a] - before(i)[a]
  BY <1>8, FiniteAssumption, TotalChange
<1>11. Total(before(i)) \in Int /\ received[i] \in Int
  BY <1>8, FiniteAssumption, TotalType DEF TypeOK
<1>12. ReceivedFor(i)' = ReceivedFor(i) + n
  BY <1>8, <1>9, <1>10, <1>11
<1>. QED BY <1>4, <1>6, <1>7, <1>9, <1>12

LEMMA AppliedAnew ==
    ASSUME TypeOK, NEW i \in Invoices,
           NEW share \in [Advances -> 0..MaxAmount],
           NEW n,
           applied' = [a \in Advances |-> [applied[a] EXCEPT ![i] = share[a]]],
           received' = [received EXCEPT ![i] = n]
    PROVE  /\ \A a \in Advances :
                AppliedSum(a)' = AppliedSum(a) + share[a] - applied[a][i]
           /\ ReceivedFor(i)' = n + Covered(share)
           /\ \A k \in Invoices \ {i} : ReceivedFor(k)' = ReceivedFor(k)
<1>0. /\ applied \in [Advances -> [Invoices -> Nat]]
      /\ \A a \in Advances : share[a] \in Nat
      /\ received \in [Invoices -> Nat]
  BY BoundsAssumption DEF TypeOK
<1>1. ASSUME NEW a \in Advances
      PROVE  AppliedSum(a)' = AppliedSum(a) + share[a] - applied[a][i]
  <2>1. /\ applied[a] \in [Invoices -> Int]
        /\ applied'[a] \in [Invoices -> Int]
        /\ \A k \in Invoices \ {i} : applied'[a][k] = applied[a][k]
        /\ applied'[a][i] = share[a]
    BY <1>0
  <2>2. Total(applied'[a]) = Total(applied[a]) + applied'[a][i] - applied[a][i]
    BY <2>1, FiniteAssumption, TotalChange
  <2>. QED BY <2>1, <2>2 DEF AppliedSum
<1>2. [a \in Advances |-> applied'[a][i]] = share
  BY <1>0
<1>3. ReceivedFor(i)' = n + Covered(share)
  BY <1>0, <1>2 DEF ReceivedFor, Covered
<1>4. ASSUME NEW k \in Invoices \ {i} PROVE ReceivedFor(k)' = ReceivedFor(k)
  <2>1. /\ [a \in Advances |-> applied'[a][k]]
              = [a \in Advances |-> applied[a][k]]
        /\ received'[k] = received[k]
    BY <1>0
  <2>. QED BY <2>1 DEF ReceivedFor
<1>. QED BY <1>1, <1>3, <1>4

(* What an invoice can say was paid.                                       *)
Backing(i) == ReceivedFor(i) + short[i]

LEMMA BackingType ==
    ASSUME TypeOK, NEW i \in Invoices
    PROVE  Backing(i) \in Nat /\ short[i] \in Nat /\ ReceivedFor(i) \in Nat
BY SumTypes DEF Backing, TypeOK

(* An invoice that does not exist has no payments.                         *)
UnusedClean ==
    \A i \in Invoices :
        inv[i].state = "none" => ReceivedFor(i) = 0 /\ short[i] = 0

(* A write pays n into invoice i, and makes it n more than in a copy of it. *)
PaysInto(i, n, copy) ==
    /\ ReceivedFor(i)' = ReceivedFor(i) + n
    /\ Backing(i)' = Backing(i) + n
    /\ inv'[i].state = inv[i].state /\ inv'[i].paid = copy.paid + n
    /\ short' = short
    /\ \A k \in Invoices \ {i} : /\ ReceivedFor(k)' = ReceivedFor(k)
                                 /\ Backing(k)' = Backing(k)
                                 /\ inv'[k] = inv[k]

LEMMA PaysIntoOne ==
    ASSUME TypeOK, NEW w \in Workers, NEW i \in Invoices, NEW n \in Nat,
           inv' = [inv EXCEPT ![i].paid = PaidAfter(job[w], i, n)],
           short' = short,
           ReceivedFor(i)' = ReceivedFor(i) + n,
           \A k \in Invoices \ {i} : ReceivedFor(k)' = ReceivedFor(k)
    PROVE  PaysInto(i, n, job[w].inv[i])
<1>1. /\ Backing(i)' = Backing(i) + n
      /\ \A k \in Invoices \ {i} : Backing(k)' = Backing(k)
  BY BackingType DEF Backing
<1>2. inv \in [Invoices -> InvoiceRow]
  BY DEF TypeOK
<1>3. /\ inv'[i].state = inv[i].state
      /\ inv'[i].paid = job[w].inv[i].paid + n
      /\ \A k \in Invoices \ {i} : inv'[k] = inv[k]
  BY <1>2 DEF InvoiceRow, PaidAfter
<1>. QED BY <1>1, <1>3 DEF PaysInto

(* An application adds to what the advance paid and what the invoice got.  *)
LEMMA ApplyEffect ==
    ASSUME TypeOK, NEW w \in Workers, ApplyWrites(w)
    PROVE  \E a \in Advances, i \in Invoices, n \in Amounts :
            /\ job[w].inv[i].state # "none"
            /\ MayApply(job[w].adv[a], n, i)
            /\ adv' = [adv EXCEPT ![a] = Save(job[w].adv[a],
                            Applied(job[w].adv[a], n, i), adv[a])]
            /\ applied' = [applied EXCEPT ![a][i] = @ + n]
            /\ AppliedSum(a)' = AppliedSum(a) + n
            /\ \A b \in Advances \ {a} : AppliedSum(b)' = AppliedSum(b)
            /\ PaysInto(i, n, job[w].inv[i])
<1>. DEFINE j == job[w]
<1>1. PICK a \in Advances, i \in Invoices, n \in Amounts :
        /\ j.inv[i].state # "none"
        /\ MayApply(j.adv[a], n, i)
        /\ adv' = [adv EXCEPT ![a] =
                    Save(j.adv[a], Applied(j.adv[a], n, i), adv[a])]
        /\ inv' = [inv EXCEPT ![i].paid = PaidAfter(j, i, n)]
        /\ applied' = [applied EXCEPT ![a][i] = @ + n]
        /\ Resync({adv[a].resv}, adv, Session(j, {a}), total)
  BY DEF ApplyWrites
<1>2. n \in Nat /\ UNCHANGED <<received, short>>
  BY BoundsAssumption DEF Amounts, ApplyWrites
<1>3. /\ AppliedSum(a)' = AppliedSum(a) + n
      /\ \A b \in Advances \ {a} : AppliedSum(b)' = AppliedSum(b)
      /\ ReceivedFor(i)' = ReceivedFor(i) + n
      /\ \A k \in Invoices \ {i} : ReceivedFor(k)' = ReceivedFor(k)
  BY <1>1, <1>2, AppliedMore
<1>4. PaysInto(i, n, j.inv[i])
  BY <1>1, <1>2, <1>3, PaysIntoOne
<1>. QED BY <1>1, <1>3, <1>4

(* A new invoice of i: the advances pay their shares, the counter the rest. *)
SettlesWith(i, share, paid) ==
    /\ inv[i].state = "none"
    /\ Backing(i)' = paid
    /\ inv'[i].state = "open" /\ inv'[i].paid = paid
    /\ \A k \in Invoices \ {i} : /\ ReceivedFor(k)' = ReceivedFor(k)
                                 /\ Backing(k)' = Backing(k)
                                 /\ short'[k] = short[k]
                                 /\ inv'[k] = inv[k]
    /\ \A a \in Advances : /\ applied'[a] = [applied[a] EXCEPT ![i] = share[a]]
                           /\ AppliedSum(a)' = AppliedSum(a) + share[a]

LEMMA SettleEffect ==
    ASSUME TypeOK, UnusedClean, NEW w \in Workers, SettleWrites(w)
    PROVE  \E i \in Invoices, share \in [Advances -> 0..MaxAmount], n \in Nat :
            /\ \A a \in Used(share) : MayApply(job[w].adv[a], share[a], i)
            /\ adv' = [a \in Advances |->
                        IF a \in Used(share)
                        THEN Save(job[w].adv[a],
                                  Applied(job[w].adv[a], share[a], i), adv[a])
                        ELSE adv[a]]
            /\ SettlesWith(i, share, n)
<1>. DEFINE j == job[w]
<1>0. inv \in [Invoices -> InvoiceRow]
  BY DEF TypeOK
<1>1. PICK i \in Invoices, share \in [Advances -> 0..MaxAmount],
           price \in 1..MaxPrice :
        /\ NewInvoice(i, Covered(share), price)
        /\ \A a \in Used(share) : MayApply(j.adv[a], share[a], i)
        /\ adv' = [a \in Advances |->
                    IF a \in Used(share)
                    THEN Save(j.adv[a], Applied(j.adv[a], share[a], i), adv[a])
                    ELSE adv[a]]
        /\ applied' = [a \in Advances |->
                        [applied[a] EXCEPT ![i] = share[a]]]
  BY DEF SettleWrites
<1>2. PICK paidNow \in 0..(price - Covered(share)) :
        \E tendered \in 0..paidNow :
            /\ inv' = [inv EXCEPT ![i] =
                        [state |-> "open", paid |-> Covered(share) + paidNow]]
            /\ received' = [received EXCEPT ![i] = tendered]
            /\ short' = [short EXCEPT ![i] = paidNow - tendered]
  BY <1>1 DEF NewInvoice
<1>3. PICK tendered \in 0..paidNow :
        /\ inv' = [inv EXCEPT ![i] =
                    [state |-> "open", paid |-> Covered(share) + paidNow]]
        /\ received' = [received EXCEPT ![i] = tendered]
        /\ short' = [short EXCEPT ![i] = paidNow - tendered]
  BY <1>2
<1>. HIDE DEF j
<1>4. /\ inv[i].state = "none" /\ ReceivedFor(i) = 0
      /\ \A a \in Advances : applied[a][i] = 0 /\ share[a] \in Nat
  <2>1. ReceivedFor(i) = 0 /\ inv[i].state = "none"
    BY <1>1 DEF UnusedClean, NewInvoice
  <2>2. \A a \in Advances : applied[a][i] <= 0 /\ applied[a][i] \in Nat
    BY <2>1, SumTypes DEF TypeOK
  <2>3. \A a \in Advances : share[a] \in Nat
    BY BoundsAssumption
  <2>. QED BY <2>1, <2>2, <2>3
<1>5. /\ \A a \in Advances : AppliedSum(a)' = AppliedSum(a) + share[a]
      /\ ReceivedFor(i)' = tendered + Covered(share)
      /\ \A k \in Invoices \ {i} : ReceivedFor(k)' = ReceivedFor(k)
  <2>1. /\ \A a \in Advances :
                AppliedSum(a)' = AppliedSum(a) + share[a] - applied[a][i]
        /\ ReceivedFor(i)' = tendered + Covered(share)
        /\ \A k \in Invoices \ {i} : ReceivedFor(k)' = ReceivedFor(k)
    BY <1>1, <1>3, AppliedAnew
  <2>2. \A a \in Advances : AppliedSum(a) + share[a] - 0
                                = AppliedSum(a) + share[a]
    BY <1>4, SumTypes
  <2>. QED BY <1>4, <2>1, <2>2
<1>6. Covered(share) \in Nat /\ paidNow \in Nat /\ tendered \in Nat
  BY CoveredType
<1>7. /\ short'[i] = paidNow - tendered
      /\ \A k \in Invoices \ {i} : short'[k] = short[k]
      /\ inv'[i].state = "open" /\ inv'[i].paid = Covered(share) + paidNow
      /\ \A k \in Invoices \ {i} : inv'[k] = inv[k]
  BY <1>0, <1>3 DEF TypeOK
<1>8. /\ Backing(i)' = Covered(share) + paidNow
      /\ \A k \in Invoices \ {i} : Backing(k)' = Backing(k)
  BY <1>5, <1>6, <1>7 DEF Backing
<1>9. \A a \in Advances : applied'[a] = [applied[a] EXCEPT ![i] = share[a]]
  BY <1>1
<1>10. SettlesWith(i, share, Covered(share) + paidNow)
  BY <1>4, <1>5, <1>7, <1>8, <1>9 DEF SettlesWith
<1>11. Covered(share) + paidNow \in Nat
  BY <1>6
<1>. QED BY <1>1, <1>10, <1>11 DEF j

(* A payment at the counter.                                               *)
LEMMA PayEffect ==
    ASSUME TypeOK, NEW w \in Workers, PayWrites(w)
    PROVE  \E i \in Invoices, n \in Amounts :
            job[w].inv[i].state = "open" /\ PaysInto(i, n, job[w].inv[i])
<1>1. PICK i \in Invoices, n \in Amounts :
        /\ job[w].inv[i].state = "open"
        /\ inv' = [inv EXCEPT ![i].paid = PaidAfter(job[w], i, n)]
        /\ received' = [received EXCEPT ![i] = @ + n]
  BY DEF PayWrites
<1>2. n \in Nat /\ UNCHANGED <<applied, short>>
  BY BoundsAssumption DEF Amounts, PayWrites
<1>3. /\ received'[i] = received[i] + n /\ received[i] \in Nat
      /\ \A k \in Invoices \ {i} : received'[k] = received[k]
  BY <1>1 DEF TypeOK
<1>. DEFINE column(k) == Total([a \in Advances |-> applied[a][k]])
<1>4. \A k \in Invoices : /\ ReceivedFor(k) = received[k] + column(k)
                          /\ ReceivedFor(k)' = received'[k] + column(k)
  BY <1>2 DEF ReceivedFor
<1>5. column(i) \in Int
  <2>1. [a \in Advances |-> applied[a][i]] \in [Advances -> Int]
    BY DEF TypeOK
  <2>. QED BY <2>1, FiniteAssumption, TotalType
<1>. HIDE DEF column
<1>6. /\ ReceivedFor(i)' = ReceivedFor(i) + n
      /\ \A k \in Invoices \ {i} : ReceivedFor(k)' = ReceivedFor(k)
  BY <1>2, <1>3, <1>4, <1>5
<1>7. PaysInto(i, n, job[w].inv[i])
  BY <1>1, <1>2, <1>6, PaysIntoOne
<1>. QED BY <1>1, <1>7

-----------------------------------------------------------------------------
(* Nothing is invented, however requests interleave.                       *)

(* What a request has read was backed by payments, and payments stay.      *)
CopyBacked(j) ==
    /\ \A a \in Advances : j.adv[a].applied <= AppliedSum(a)
    /\ \A i \in Invoices :
        /\ j.inv[i].paid <= Backing(i)
        /\ j.inv[i].state # "none" => inv[i].state # "none"
CopiesBacked == \A w \in Workers : job[w] \in Job => CopyBacked(job[w])

Books == UnusedClean /\ CopiesBacked /\ NothingInvented

(* No step takes a payment back or an invoice away.                        *)
PaymentsStay ==
    /\ \A a \in Advances : AppliedSum(a)' >= AppliedSum(a)
    /\ \A i \in Invoices :
        /\ Backing(i)' >= Backing(i)
        /\ inv[i].state # "none" => inv'[i].state # "none"

BooksStep == PaymentsStay /\ UnusedClean' /\ NothingInvented'

(* A step that leaves payments and invoices alone raises no applied amount.*)
LEMMA QuietStep ==
    ASSUME TypeOK, Books, UNCHANGED <<inv, applied, received, short>>,
           \A a \in Advances :
                adv'[a].applied = adv[a].applied
                \/ adv'[a].applied <= AppliedSum(a)
    PROVE  BooksStep
<1>1. /\ \A a \in Advances : AppliedSum(a)' = AppliedSum(a)
      /\ \A i \in Invoices : ReceivedFor(i)' = ReceivedFor(i)
      /\ \A i \in Invoices : Backing(i)' = Backing(i)
  BY DEF AppliedSum, ReceivedFor, Backing
<1>2. PaymentsStay
  BY <1>1, SumTypes, BackingType DEF PaymentsStay
<1>3. UnusedClean'
  BY <1>1 DEF Books, UnusedClean
<1>4. NothingInvented'
  BY <1>1 DEF Books, NothingInvented
<1>. QED BY <1>2, <1>3, <1>4 DEF BooksStep

(* A payment into an invoice, from whatever copy of it, backs what it adds. *)
LEMMA PaysIntoBooks ==
    ASSUME TypeOK, Books, NEW w \in Workers, job[w] \in Job,
           NEW i \in Invoices, NEW n \in Nat,
           job[w].inv[i].state # "none", PaysInto(i, n, job[w].inv[i]),
           \A a \in Advances : AppliedSum(a)' >= AppliedSum(a),
           \A a \in Advances : adv'[a].applied <= AppliedSum(a)'
    PROVE  BooksStep
<1>1. CopyBacked(job[w]) /\ UnusedClean /\ NothingInvented
  BY DEF Books, CopiesBacked
<1>2. job[w].inv[i].paid \in Nat /\ inv[i].state # "none"
  BY <1>1 DEF Job, InvoiceRow, CopyBacked
<1>3. PaymentsStay
  BY BackingType DEF PaymentsStay, PaysInto
<1>4. UnusedClean'
  BY <1>1, <1>2 DEF UnusedClean, PaysInto
<1>5. \A k \in Invoices : inv'[k].paid <= Backing(k)'
  <2>1. job[w].inv[i].paid + n <= Backing(i) + n
    BY <1>1, <1>2, BackingType DEF CopyBacked
  <2>2. \A k \in Invoices : inv[k].paid <= Backing(k)
    BY <1>1 DEF NothingInvented, Backing
  <2>. QED BY <2>1, <2>2 DEF PaysInto
<1>6. NothingInvented'
  BY <1>5 DEF NothingInvented, Backing
<1>. QED BY <1>3, <1>4, <1>6 DEF BooksStep

(* An application, from whatever copy, pays what it adds.                  *)
LEMMA ApplyBooks ==
    ASSUME TypeOK, Books, NEW w \in Workers, ApplyWrites(w)
    PROVE  BooksStep
<1>. DEFINE j == job[w]
<1>0. adv \in [Advances -> AdvanceRow] /\ inv \in [Invoices -> InvoiceRow]
  BY DEF TypeOK
<1>1. j \in Job
  BY ServingJob DEF ApplyWrites, Serving
<1>2. PICK a \in Advances, i \in Invoices, n \in Amounts :
        /\ j.inv[i].state # "none"
        /\ adv' = [adv EXCEPT ![a] =
                    Save(j.adv[a], Applied(j.adv[a], n, i), adv[a])]
        /\ AppliedSum(a)' = AppliedSum(a) + n
        /\ \A b \in Advances \ {a} : AppliedSum(b)' = AppliedSum(b)
        /\ PaysInto(i, n, j.inv[i])
  BY ApplyEffect
<1>3. n \in Nat
  BY BoundsAssumption DEF Amounts
<1>4. CopyBacked(j) /\ UnusedClean /\ NothingInvented
  BY <1>1 DEF Books, CopiesBacked
<1>5. j.adv[a] \in AdvanceRow
  BY <1>1 DEF Job
<1>. HIDE DEF j
<1>6. \A b \in Advances : AppliedSum(b)' >= AppliedSum(b)
  BY <1>2, <1>3, SumTypes
<1>7. adv'[a].applied \in {adv[a].applied, j.adv[a].applied + n}
  <2>1. adv'[a] = Save(j.adv[a], Applied(j.adv[a], n, i), adv[a])
    BY <1>0, <1>2
  <2>2. /\ Applied(j.adv[a], n, i) \in AdvanceRow
        /\ Applied(j.adv[a], n, i).applied = j.adv[a].applied + n
    BY <1>3, <1>5, AppliedFacts
  <2>. QED BY <1>0, <1>5, <2>1, <2>2, SaveFacts
<1>8. \A b \in Advances : adv'[b].applied <= AppliedSum(b)'
  <2>. SUFFICES ASSUME NEW b \in Advances
                PROVE  adv'[b].applied <= AppliedSum(b)'
    OBVIOUS
  <2>1. CASE b = a
    <3>1. /\ adv[a].applied <= AppliedSum(a)
          /\ j.adv[a].applied <= AppliedSum(a)
      BY <1>4 DEF NothingInvented, CopyBacked
    <3>2. /\ adv[a].applied \in Nat /\ j.adv[a].applied \in Nat
          /\ AppliedSum(a) \in Nat
      BY <1>0, <1>5, SumTypes DEF AdvanceRow
    <3>. QED BY <1>2, <1>3, <1>7, <2>1, <3>1, <3>2
  <2>2. CASE b # a
    BY <1>0, <1>2, <1>4, <2>2 DEF NothingInvented
  <2>. QED BY <2>1, <2>2
<1>. QED BY <1>1, <1>2, <1>3, <1>6, <1>8, PaysIntoBooks DEF j

(* A new invoice is paid by what advances cover and the counter took.      *)
LEMMA SettleBooks ==
    ASSUME TypeOK, Books, NEW w \in Workers, SettleWrites(w)
    PROVE  BooksStep
<1>. DEFINE j == job[w]
<1>0. adv \in [Advances -> AdvanceRow]
  BY DEF TypeOK
<1>1. j \in Job
  BY ServingJob DEF SettleWrites, Serving
<1>2. PICK i \in Invoices, share \in [Advances -> 0..MaxAmount], n \in Nat :
        /\ adv' = [a \in Advances |->
                    IF a \in Used(share)
                    THEN Save(j.adv[a], Applied(j.adv[a], share[a], i), adv[a])
                    ELSE adv[a]]
        /\ SettlesWith(i, share, n)
  BY SettleEffect DEF Books
<1>3. CopyBacked(j) /\ UnusedClean /\ NothingInvented
  BY <1>1 DEF Books, CopiesBacked
<1>4. \A a \in Advances : share[a] \in Nat /\ j.adv[a] \in AdvanceRow
  <2>1. j.adv \in [Advances -> AdvanceRow]
    BY <1>1 DEF Job
  <2>2. \A a \in Advances : share[a] \in Nat
    BY BoundsAssumption
  <2>. QED BY <2>1, <2>2
<1>. HIDE DEF j
<1>5. \A a \in Advances : AppliedSum(a)' = AppliedSum(a) + share[a]
  BY <1>2 DEF SettlesWith
<1>6. PaymentsStay
  <2>1. Backing(i) = 0
    BY <1>2, <1>3 DEF SettlesWith, UnusedClean, Backing
  <2>2. \A k \in Invoices : /\ Backing(k)' >= Backing(k)
                            /\ inv[k].state # "none" => inv'[k].state # "none"
    BY <1>2, <2>1, BackingType DEF SettlesWith
  <2>3. \A a \in Advances : AppliedSum(a)' >= AppliedSum(a)
    BY <1>4, <1>5, SumTypes
  <2>. QED BY <2>2, <2>3 DEF PaymentsStay
<1>7. UnusedClean'
  BY <1>2, <1>3 DEF UnusedClean, SettlesWith
<1>8. NothingInvented'
  <2>1. ASSUME NEW a \in Advances PROVE adv'[a].applied <= AppliedSum(a)'
    <3>1. /\ adv[a].applied <= AppliedSum(a)
          /\ j.adv[a].applied <= AppliedSum(a)
      BY <1>3 DEF NothingInvented, CopyBacked
    <3>2. /\ adv[a].applied \in Nat /\ j.adv[a].applied \in Nat
          /\ AppliedSum(a) \in Nat /\ share[a] \in Nat
      BY <1>0, <1>4, SumTypes DEF AdvanceRow
    <3>3. adv'[a].applied \in {adv[a].applied, j.adv[a].applied + share[a]}
      <4>1. CASE a \in Used(share)
        <5>1. adv'[a] = Save(j.adv[a], Applied(j.adv[a], share[a], i), adv[a])
          BY <1>2, <4>1
        <5>2. /\ Applied(j.adv[a], share[a], i) \in AdvanceRow
              /\ Applied(j.adv[a], share[a], i).applied
                    = j.adv[a].applied + share[a]
          BY <1>4, AppliedFacts
        <5>. QED BY <1>0, <1>4, <5>1, <5>2, SaveFacts
      <4>2. CASE a \notin Used(share)
        BY <1>2, <4>2
      <4>. QED BY <4>1, <4>2
    <3>. QED BY <1>5, <3>1, <3>2, <3>3
  <2>2. ASSUME NEW k \in Invoices PROVE inv'[k].paid <= Backing(k)'
    BY <1>2, <1>3 DEF NothingInvented, Backing, SettlesWith
  <2>. QED BY <2>1, <2>2 DEF NothingInvented, Backing
<1>. QED BY <1>6, <1>7, <1>8 DEF BooksStep

(* A payment at the counter adds to both sides.                            *)
LEMMA PayBooks ==
    ASSUME TypeOK, Books, NEW w \in Workers, PayWrites(w)
    PROVE  BooksStep
<1>1. job[w] \in Job /\ UNCHANGED <<adv, applied>>
  BY ServingJob DEF PayWrites, Serving
<1>2. PICK i \in Invoices, n \in Amounts :
        job[w].inv[i].state = "open" /\ PaysInto(i, n, job[w].inv[i])
  BY PayEffect
<1>3. n \in Nat
  BY BoundsAssumption DEF Amounts
<1>4. \A a \in Advances : AppliedSum(a)' = AppliedSum(a)
  BY <1>1 DEF AppliedSum
<1>5. /\ \A a \in Advances : AppliedSum(a)' >= AppliedSum(a)
      /\ \A a \in Advances : adv'[a].applied <= AppliedSum(a)'
  BY <1>1, <1>4, SumTypes DEF Books, NothingInvented
<1>. QED BY <1>1, <1>2, <1>3, <1>5, PaysIntoBooks

(* Every other step: refunds, cancellations, creations, voids, reads.      *)
LEMMA OtherBooks ==
    ASSUME TypeOK, Books, NEW w \in Workers,
           \/ CreateAdvance(w) \/ RefundWrites(w) \/ CancelWrites(w)
           \/ Reads(w) \/ Abort(w)
    PROVE  BooksStep
<1>0. adv \in [Advances -> AdvanceRow]
  BY DEF TypeOK
<1>1. CASE Reads(w) \/ Abort(w)
  <2>1. UNCHANGED data
    BY <1>1 DEF Reads, Abort
  <2>. QED BY <2>1, QuietStep DEF data
<1>2. CASE CreateAdvance(w)
  <2>1. \A a \in Advances : adv'[a].applied \in {adv[a].applied, 0}
    BY <1>0, <1>2 DEF CreateAdvance, Row
  <2>. QED BY <1>2, <2>1, SumTypes, QuietStep DEF CreateAdvance
<1>3. CASE CancelWrites(w)
  <2>1. \A a \in Advances : adv'[a].applied = adv[a].applied
    BY <1>0, <1>3 DEF CancelWrites, AdvanceRow
  <2>. QED BY <1>3, <2>1, QuietStep DEF CancelWrites
<1>4. CASE RefundWrites(w)
  <2>. DEFINE j == job[w]
  <2>1. j \in Job
    BY <1>4, ServingJob DEF RefundWrites, Serving
  <2>2. PICK a \in Advances, n \in Amounts :
            adv' = [adv EXCEPT ![a] =
                        Save(j.adv[a], Refunded(j.adv[a], n), adv[a])]
    BY <1>4 DEF RefundWrites
  <2>3. j.adv[a] \in AdvanceRow /\ n \in Nat
    <3>1. j.adv \in [Advances -> AdvanceRow]
      BY <2>1 DEF Job
    <3>2. n \in Nat
      BY BoundsAssumption DEF Amounts
    <3>. QED BY <3>1, <3>2
  <2>4. j.adv[a].applied <= AppliedSum(a)
    BY <2>1 DEF Books, CopiesBacked, CopyBacked
  <2>. HIDE DEF j
  <2>5. /\ Refunded(j.adv[a], n) \in AdvanceRow
        /\ Refunded(j.adv[a], n).applied = j.adv[a].applied
    BY <2>3, RefundedFacts
  <2>6. adv'[a].applied \in {adv[a].applied, j.adv[a].applied}
    <3>1. adv'[a] = Save(j.adv[a], Refunded(j.adv[a], n), adv[a])
      BY <1>0, <2>2
    <3>. QED BY <1>0, <2>3, <2>5, <3>1, SaveFacts
  <2>7. \A b \in Advances \ {a} : adv'[b] = adv[b]
    BY <1>0, <2>2
  <2>. QED BY <1>4, <2>4, <2>6, <2>7, QuietStep DEF RefundWrites
<1>. QED BY <1>1, <1>2, <1>3, <1>4

LEMMA VoidBooks ==
    ASSUME TypeOK, Books, NEW w \in Workers, VoidWrites(w)
    PROVE  BooksStep
<1>1. PICK i \in Invoices :
        /\ job[w].inv[i].state = "open"
        /\ inv' = [inv EXCEPT ![i].state = "voided"]
        /\ UNCHANGED <<adv, applied, received, short>>
  BY DEF VoidWrites
<1>2. /\ inv'[i].state = "voided"
      /\ \A k \in Invoices : inv'[k].paid = inv[k].paid
      /\ \A k \in Invoices \ {i} : inv'[k] = inv[k]
  BY <1>1 DEF TypeOK, InvoiceRow
<1>3. /\ \A a \in Advances : AppliedSum(a)' = AppliedSum(a)
      /\ \A k \in Invoices : ReceivedFor(k)' = ReceivedFor(k)
      /\ \A k \in Invoices : Backing(k)' = Backing(k)
  BY <1>1 DEF AppliedSum, ReceivedFor, Backing
<1>4. PaymentsStay
  BY <1>2, <1>3, SumTypes, BackingType DEF PaymentsStay
<1>5. UnusedClean'
  BY <1>1, <1>2, <1>3 DEF Books, UnusedClean
<1>6. NothingInvented'
  BY <1>1, <1>2, <1>3 DEF Books, NothingInvented
<1>. QED BY <1>4, <1>5, <1>6 DEF BooksStep

(* A request in progress gets the current rows, or keeps its copies.       *)
LEMMA CopiesOf ==
    ASSUME TypeOK, Next, NEW v \in Workers
    PROVE  \/ job'[v] = job[v]
           \/ job'[v] = Idle
           \/ job'[v].adv = adv' /\ job'[v].inv = inv'
<1>1. ASSUME NEW w \in Workers, Reads(w)
      PROVE  \/ job'[v] = job[v]
             \/ job'[v].adv = adv' /\ job'[v].inv = inv'
  BY <1>1 DEF Reads, TypeOK, data
<1>2. ASSUME NEW w \in Workers, Done(w)
      PROVE  job'[v] \in {job[v], Idle}
  BY <1>2 DEF Done, TypeOK
<1>3. ASSUME NEW w \in Workers, CreateAdvance(w) PROVE job' = job
  BY <1>3 DEF CreateAdvance
<1>. QED BY <1>1, <1>2, <1>3
         DEF Next, ApplyWrites, RefundWrites, CancelWrites, SettleWrites,
             PayWrites, VoidWrites, Abort

LEMMA BooksNext == TypeOK /\ Books /\ [Next]_vars => Books'
<1>. SUFFICES ASSUME TypeOK, Books, [Next]_vars PROVE Books'
  OBVIOUS
<1>1. CASE UNCHANGED vars
  BY <1>1 DEF vars, Books, UnusedClean, CopiesBacked, CopyBacked,
              NothingInvented, Backing, ReceivedFor, AppliedSum
<1>2. CASE Next
  <2>1. BooksStep
    BY <1>2, ApplyBooks, SettleBooks, PayBooks, VoidBooks, OtherBooks DEF Next
  <2>2. TypeOK'
    BY TypeNext
  <2>3. /\ \A a \in Advances : AppliedSum(a) \in Int /\ AppliedSum(a)' \in Int
        /\ \A i \in Invoices : Backing(i) \in Int /\ Backing(i)' \in Int
    <3>1. \A a \in Advances : AppliedSum(a) \in Int /\ AppliedSum(a)' \in Int
      <4>1. \A a \in Advances : /\ applied[a] \in [Invoices -> Int]
                                /\ applied'[a] \in [Invoices -> Int]
        BY <2>2 DEF TypeOK
      <4>. QED BY <4>1, FiniteAssumption, TotalType DEF AppliedSum
    <3>2. \A i \in Invoices : Backing(i) \in Int /\ Backing(i)' \in Int
      <4>1. \A i \in Invoices :
              /\ [a \in Advances |-> applied[a][i]] \in [Advances -> Int]
              /\ [a \in Advances |-> applied'[a][i]] \in [Advances -> Int]
        BY <2>2 DEF TypeOK
      <4>2. \A i \in Invoices :
              /\ Total([a \in Advances |-> applied[a][i]]) \in Int
              /\ Total([a \in Advances |-> applied'[a][i]]) \in Int
        BY <4>1, FiniteAssumption, TotalType
      <4>3. \A i \in Invoices : /\ received[i] \in Int /\ received'[i] \in Int
                                /\ short[i] \in Int /\ short'[i] \in Int
        BY <2>2 DEF TypeOK
      <4>. QED BY <4>2, <4>3 DEF Backing, ReceivedFor
    <3>. QED BY <3>1, <3>2
  <2>4. ASSUME NEW w \in Workers, job'[w] \in Job
        PROVE  /\ \A a \in Advances : job'[w].adv[a].applied <= AppliedSum(a)'
               /\ \A i \in Invoices :
                    /\ job'[w].inv[i].paid <= Backing(i)'
                    /\ job'[w].inv[i].state # "none" => inv'[i].state # "none"
    <3>1. CASE job'[w] = job[w]
      <4>1. CopyBacked(job[w]) /\ PaymentsStay
        BY <2>1, <2>4, <3>1 DEF Books, CopiesBacked, BooksStep
      <4>2. /\ \A a \in Advances : job[w].adv[a].applied \in Int
            /\ \A i \in Invoices : job[w].inv[i].paid \in Int
        <5>1. job[w] \in Job
          BY <2>4, <3>1
        <5>2. /\ job[w].adv \in [Advances -> AdvanceRow]
              /\ job[w].inv \in [Invoices -> InvoiceRow]
          BY <5>1 DEF Job
        <5>. QED BY <5>2 DEF AdvanceRow, InvoiceRow
      <4>3. \A a \in Advances : job[w].adv[a].applied <= AppliedSum(a)'
        BY <2>3, <4>1, <4>2 DEF CopyBacked, PaymentsStay
      <4>4. \A i \in Invoices : job[w].inv[i].paid <= Backing(i)'
        BY <2>3, <4>1, <4>2 DEF CopyBacked, PaymentsStay
      <4>. QED BY <3>1, <4>1, <4>3, <4>4 DEF CopyBacked, PaymentsStay
    <3>2. CASE job'[w].adv = adv' /\ job'[w].inv = inv'
      BY <2>1, <3>2 DEF BooksStep, NothingInvented, Backing
    <3>3. CASE job'[w] = Idle
      BY <2>4, <3>3, IdleIsNoJob
    <3>. QED BY <1>2, <3>1, <3>2, <3>3, CopiesOf
  <2>. QED BY <2>1, <2>4 DEF BooksStep, Books, CopiesBacked, CopyBacked
<1>. QED BY <1>1, <1>2

LEMMA BooksInit == Init => Books
<1>. SUFFICES ASSUME Init PROVE Books
  OBVIOUS
<1>1. TypeOK
  BY TypeInit
<1>2. \A a \in Advances : applied[a] \in [Invoices -> Int]
                          /\ \A i \in Invoices : applied[a][i] = 0
  BY DEF Init
<1>3. \A i \in Invoices : ReceivedFor(i) = 0
  <2>. SUFFICES ASSUME NEW i \in Invoices PROVE ReceivedFor(i) = 0
    OBVIOUS
  <2>. DEFINE column == [a \in Advances |-> applied[a][i]]
  <2>1. column \in [Advances -> Int] /\ \A a \in Advances : column[a] = 0
    BY <1>2
  <2>. HIDE DEF column
  <2>2. Total(column) = 0
    BY <2>1, TotalZero
  <2>. QED BY <2>2 DEF ReceivedFor, column, Init
<1>4. UnusedClean
  BY <1>3 DEF UnusedClean, Init
<1>5. CopiesBacked
  BY IdleIsNoJob DEF CopiesBacked, Init
<1>6. NothingInvented
  <2>1. \A a \in Advances : adv[a].applied = 0 /\ AppliedSum(a) >= 0
    BY <1>1, SumTypes DEF Init, NoAdvance, Row
  <2>2. \A i \in Invoices : inv[i].paid = 0 /\ short[i] = 0
    BY DEF Init
  <2>. QED BY <1>3, <2>1, <2>2 DEF NothingInvented
<1>. QED BY <1>4, <1>5, <1>6 DEF Books

LEMMA BooksKept == Spec => []Books
BY BooksInit, BooksNext, TypeInit, TypeNext, PTL DEF Spec

(* However requests interleave, no advance claims more than the payments   *)
(* it made, no invoice more than the payments it got: a stale copy that is *)
(* written back was backed when it was read, and payments stay.            *)
THEOREM NothingIsInvented == Spec => []NothingInvented
<1>1. Books => NothingInvented
  BY DEF Books
<1>. QED BY <1>1, BooksKept, PTL

-----------------------------------------------------------------------------
(* One request at a time, every amount is explained by payments.           *)

(* A write over a current copy adds what it pays and links the advance.    *)
LEMMA AppliedCurrent ==
    ASSUME NEW row \in AdvanceRow, NEW n \in Nat, NEW i \in Invoices
    PROVE  LET new == Save(row, Applied(row, n, i), row) IN
           new.applied = row.applied + n /\ new.invoice = i
<1>1. /\ Applied(row, n, i) \in AdvanceRow
      /\ Applied(row, n, i).applied = row.applied + n
      /\ Applied(row, n, i).invoice = i
  BY AppliedFacts DEF Applied, Row
<1>. QED BY <1>1, SaveOverRead

(* What is applied is paid, to the one invoice the advance is linked to.   *)
ItsInvoice(a) ==
    /\ adv[a].applied = AppliedSum(a)
    /\ \A i \in Invoices : applied[a][i] > 0 => adv[a].invoice = i

NoneUnused ==
    \A a \in Advances : adv[a].status = "none" => adv[a].applied = 0

(* An application of n of the advance to i, from a current copy.           *)
LEMMA AppliesToIts ==
    ASSUME TypeOK, NEW a \in Advances, NEW i \in Invoices, NEW n \in Nat,
           ItsInvoice(a), MayApply(adv[a], n, i),
           adv'[a] = Save(adv[a], Applied(adv[a], n, i), adv[a]),
           AppliedSum(a)' = AppliedSum(a) + n,
           \A k \in Invoices \ {i} : applied'[a][k] = applied[a][k]
    PROVE  /\ adv'[a].applied = AppliedSum(a)'
           /\ \A k \in Invoices : applied'[a][k] > 0 => adv'[a].invoice = k
<1>0. adv[a] \in AdvanceRow
  BY DEF TypeOK
<1>1. adv'[a].applied = adv[a].applied + n /\ adv'[a].invoice = i
  BY <1>0, AppliedCurrent
<1>2. \A k \in Invoices \ {i} : ~ (applied'[a][k] > 0)
  BY NoRefAssumption DEF MayApply, ItsInvoice
<1>. QED BY <1>1, <1>2 DEF ItsInvoice

(* A write that leaves the payments of the advance and its row, up to      *)
(* status and refunds, alone.                                              *)
LEMMA LeavesIts ==
    ASSUME NEW a \in Advances, ItsInvoice(a), applied'[a] = applied[a],
           adv'[a].applied = adv[a].applied, adv'[a].invoice = adv[a].invoice
    PROVE  /\ adv'[a].applied = AppliedSum(a)'
           /\ \A k \in Invoices : applied'[a][k] > 0 => adv'[a].invoice = k
BY DEF ItsInvoice, AppliedSum

LEMMA ApplyIts ==
    ASSUME TypeOK, CurrentCopies, AppliedToItsInvoice,
           NEW w \in Workers, ApplyWrites(w)
    PROVE  AppliedToItsInvoice'
<1>. DEFINE j == job[w]
<1>0. /\ adv \in [Advances -> AdvanceRow] /\ j.adv = adv
      /\ applied \in [Advances -> [Invoices -> Nat]]
  BY ServingJob DEF ApplyWrites, Serving, CurrentCopies, TypeOK
<1>1. PICK b \in Advances, i \in Invoices, n \in Amounts :
        /\ MayApply(j.adv[b], n, i)
        /\ adv' = [adv EXCEPT ![b] =
                    Save(j.adv[b], Applied(j.adv[b], n, i), adv[b])]
        /\ applied' = [applied EXCEPT ![b][i] = @ + n]
        /\ AppliedSum(b)' = AppliedSum(b) + n
  BY ApplyEffect
<1>2. n \in Nat
  BY BoundsAssumption DEF Amounts
<1>. SUFFICES ASSUME NEW a \in Advances
              PROVE  /\ adv'[a].applied = AppliedSum(a)'
                     /\ \A k \in Invoices :
                            applied'[a][k] > 0 => adv'[a].invoice = k
  BY DEF AppliedToItsInvoice
<1>3. ItsInvoice(a)
  BY DEF AppliedToItsInvoice, ItsInvoice
<1>4. CASE a = b
  <2>1. /\ MayApply(adv[a], n, i)
        /\ adv'[a] = Save(adv[a], Applied(adv[a], n, i), adv[a])
        /\ AppliedSum(a)' = AppliedSum(a) + n
    BY <1>0, <1>1, <1>4
  <2>2. \A k \in Invoices \ {i} : applied'[a][k] = applied[a][k]
    BY <1>0, <1>1, <1>4
  <2>. QED BY <1>2, <1>3, <2>1, <2>2, AppliesToIts
<1>5. CASE a # b
  <2>1. adv'[a] = adv[a] /\ applied'[a] = applied[a]
    BY <1>0, <1>1, <1>5
  <2>. QED BY <1>3, <2>1, LeavesIts
<1>. QED BY <1>4, <1>5

LEMMA SettleIts ==
    ASSUME TypeOK, CurrentCopies, UnusedClean, AppliedToItsInvoice,
           NEW w \in Workers, SettleWrites(w)
    PROVE  AppliedToItsInvoice'
<1>. DEFINE j == job[w]
<1>0. /\ adv \in [Advances -> AdvanceRow] /\ j.adv = adv
      /\ applied \in [Advances -> [Invoices -> Nat]]
  BY ServingJob DEF SettleWrites, Serving, CurrentCopies, TypeOK
<1>1. PICK i \in Invoices, share \in [Advances -> 0..MaxAmount], n \in Nat :
        /\ \A a \in Used(share) : MayApply(j.adv[a], share[a], i)
        /\ adv' = [a \in Advances |->
                    IF a \in Used(share)
                    THEN Save(j.adv[a], Applied(j.adv[a], share[a], i), adv[a])
                    ELSE adv[a]]
        /\ SettlesWith(i, share, n)
  BY SettleEffect
<1>. SUFFICES ASSUME NEW a \in Advances
              PROVE  /\ adv'[a].applied = AppliedSum(a)'
                     /\ \A k \in Invoices :
                            applied'[a][k] > 0 => adv'[a].invoice = k
  BY DEF AppliedToItsInvoice
<1>2. ItsInvoice(a) /\ share[a] \in Nat
  BY BoundsAssumption DEF AppliedToItsInvoice, ItsInvoice
<1>3. /\ applied'[a] = [applied[a] EXCEPT ![i] = share[a]]
      /\ AppliedSum(a)' = AppliedSum(a) + share[a]
  BY <1>1 DEF SettlesWith
<1>4. CASE a \in Used(share)
  <2>1. /\ MayApply(adv[a], share[a], i)
        /\ adv'[a] = Save(adv[a], Applied(adv[a], share[a], i), adv[a])
    BY <1>0, <1>1, <1>4
  <2>2. \A k \in Invoices \ {i} : applied'[a][k] = applied[a][k]
    BY <1>0, <1>3
  <2>. QED BY <1>2, <1>3, <2>1, <2>2, AppliesToIts
<1>5. CASE a \notin Used(share)
  <2>1. share[a] = 0
    BY <1>2, <1>5 DEF Used
  <2>2. applied[a][i] = 0
    <3>1. ReceivedFor(i) = 0
      BY <1>1 DEF SettlesWith, UnusedClean
    <3>2. applied[a][i] <= 0 /\ applied[a][i] \in Nat
      BY <1>0, <3>1, SumTypes
    <3>. QED BY <3>2
  <2>3. applied'[a] = applied[a]
    BY <1>0, <1>3, <2>1, <2>2
  <2>4. adv'[a] = adv[a]
    BY <1>1, <1>5
  <2>. QED BY <1>2, <2>3, <2>4, LeavesIts
<1>. QED BY <1>4, <1>5

LEMMA RefundIts ==
    ASSUME TypeOK, CurrentCopies, AppliedToItsInvoice,
           NEW w \in Workers, RefundWrites(w)
    PROVE  AppliedToItsInvoice'
<1>. DEFINE j == job[w]
<1>0. /\ adv \in [Advances -> AdvanceRow] /\ j.adv = adv /\ applied' = applied
  BY ServingJob DEF RefundWrites, Serving, CurrentCopies, TypeOK
<1>1. PICK b \in Advances, n \in Amounts :
        adv' = [adv EXCEPT ![b] =
                    Save(j.adv[b], Refunded(j.adv[b], n), adv[b])]
  BY DEF RefundWrites
<1>2. n \in Nat
  BY BoundsAssumption DEF Amounts
<1>3. adv'[b].applied = adv[b].applied /\ adv'[b].invoice = adv[b].invoice
  <2>1. adv'[b] = Save(adv[b], Refunded(adv[b], n), adv[b])
    BY <1>0, <1>1
  <2>2. /\ Refunded(adv[b], n) \in AdvanceRow
        /\ Refunded(adv[b], n).applied = adv[b].applied
        /\ Refunded(adv[b], n).invoice = adv[b].invoice
    BY <1>0, <1>2, RefundedFacts DEF Refunded, Row
  <2>. QED BY <1>0, <2>1, <2>2, SaveOverRead
<1>4. \A a \in Advances \ {b} : adv'[a] = adv[a]
  BY <1>0, <1>1
<1>5. \A a \in Advances : ItsInvoice(a)
  BY DEF AppliedToItsInvoice, ItsInvoice
<1>. QED BY <1>0, <1>3, <1>4, <1>5, LeavesIts DEF AppliedToItsInvoice

(* A new row claims nothing, and has paid nothing.                         *)
LEMMA CreateIts ==
    ASSUME TypeOK, NoneUnused, AppliedToItsInvoice,
           NEW w \in Workers, CreateAdvance(w)
    PROVE  AppliedToItsInvoice'
<1>0. /\ adv \in [Advances -> AdvanceRow] /\ applied' = applied
      /\ applied \in [Advances -> [Invoices -> Nat]]
  BY DEF TypeOK, CreateAdvance
<1>1. PICK b \in Advances, n \in Amounts, r \in Reservations \cup {NoRef},
           i \in {NoRef} \cup {k \in Invoices : inv[k].state # "none"} :
        /\ adv[b].status = "none"
        /\ adv' = [adv EXCEPT ![b] = Row("received", n, 0, 0, i, r)]
  BY DEF CreateAdvance
<1>2. AppliedSum(b) = 0 /\ adv'[b].applied = 0
  BY <1>0, <1>1 DEF NoneUnused, AppliedToItsInvoice, Row
<1>3. \A k \in Invoices : ~ (applied[b][k] > 0)
  BY <1>0, <1>2, SumTypes
<1>4. \A a \in Advances : AppliedSum(a)' = AppliedSum(a)
  BY <1>0 DEF AppliedSum
<1>5. \A a \in Advances \ {b} : adv'[a] = adv[a]
  BY <1>0, <1>1
<1>. QED BY <1>0, <1>2, <1>3, <1>4, <1>5 DEF AppliedToItsInvoice

LEMMA OtherIts ==
    ASSUME TypeOK, AppliedToItsInvoice, NEW w \in Workers,
           \/ CancelWrites(w) \/ PayWrites(w) \/ VoidWrites(w)
           \/ Reads(w) \/ Abort(w)
    PROVE  AppliedToItsInvoice'
<1>0. adv \in [Advances -> AdvanceRow]
  BY DEF TypeOK
<1>1. applied' = applied
  BY DEF CancelWrites, PayWrites, VoidWrites, Reads, Abort, data
<1>2. \A a \in Advances : /\ adv'[a].applied = adv[a].applied
                          /\ adv'[a].invoice = adv[a].invoice
  <2>1. CASE CancelWrites(w)
    BY <1>0, <2>1 DEF CancelWrites, AdvanceRow
  <2>2. CASE PayWrites(w) \/ VoidWrites(w) \/ Reads(w) \/ Abort(w)
    BY <2>2 DEF PayWrites, VoidWrites, Reads, Abort, data
  <2>. QED BY <2>1, <2>2
<1>3. \A a \in Advances : ItsInvoice(a)
  BY DEF AppliedToItsInvoice, ItsInvoice
<1>. QED BY <1>1, <1>2, <1>3, LeavesIts DEF AppliedToItsInvoice

(* A row that is not in use never becomes one that claims to be applied.   *)
LEMMA NoneUnusedNext ==
    TypeOK /\ SameAmounts /\ NoneUnused /\ [Next]_vars => NoneUnused'
<1>. SUFFICES ASSUME TypeOK, SameAmounts, NoneUnused, [Next]_vars,
                     NEW a \in Advances, adv'[a].status = "none"
              PROVE  adv'[a].applied = 0
  BY DEF NoneUnused
<1>1. CASE UNCHANGED vars
  BY <1>1 DEF vars, NoneUnused
<1>2. CASE Next
  <2>1. adv[a] \in AdvanceRow /\ AdvanceStep(a)
    BY <1>2, StepsOfAdvances DEF TypeOK
  <2>2. adv[a].status = "none"
    BY <2>1, AdvanceStepType
  <2>3. ASSUME NEW w \in Workers PROVE ~ WritesFrom(w, a)
    BY <2>2 DEF WritesFrom, SameAmounts
  <2>4. CASE adv'[a] = adv[a]
    BY <2>2, <2>4 DEF NoneUnused
  <2>5. CASE Creates(a)
    BY <2>5, CreatedRow
  <2>. QED BY <2>1, <2>3, <2>4, <2>5 DEF AdvanceStep
<1>. QED BY <1>1, <1>2

(* Served one request at a time, what an advance says was applied is what  *)
(* its payments add up to, all to the invoice it is linked to: the check   *)
(* of the link, on a current row, keeps it to one invoice.                 *)
THEOREM SerialAppliedToItsInvoice ==
    ASSUME \A v, w \in Workers : v = w
    PROVE  Spec => []AppliedToItsInvoice
<1>1. Init => CurrentCopies /\ SameAmounts /\ NoneUnused
  BY IdleIsNoJob DEF Init, CurrentCopies, SameAmounts, NoneUnused, NoAdvance,
                     Row
<1>2. Init => AppliedToItsInvoice
  <2>. SUFFICES ASSUME Init, NEW a \in Advances
                PROVE  /\ adv[a].applied = AppliedSum(a)
                       /\ \A i \in Invoices : ~ (applied[a][i] > 0)
    BY DEF AppliedToItsInvoice
  <2>1. /\ applied[a] \in [Invoices -> Int]
        /\ \A i \in Invoices : applied[a][i] = 0
    BY DEF Init
  <2>2. AppliedSum(a) = 0
    BY <2>1, TotalZero DEF AppliedSum
  <2>. QED BY <2>1, <2>2 DEF Init, NoAdvance, Row
<1>3. TypeOK /\ CurrentCopies /\ Books /\ NoneUnused /\ AppliedToItsInvoice
        /\ [Next]_vars => AppliedToItsInvoice'
  <2>. SUFFICES ASSUME TypeOK, CurrentCopies, Books, NoneUnused,
                       AppliedToItsInvoice, [Next]_vars
                PROVE  AppliedToItsInvoice'
    OBVIOUS
  <2>1. CASE UNCHANGED vars
    BY <2>1 DEF vars, AppliedToItsInvoice, AppliedSum
  <2>2. CASE Next
    BY <2>2, ApplyIts, SettleIts, RefundIts, CreateIts, OtherIts
       DEF Next, Books
  <2>. QED BY <2>1, <2>2
<1>. QED BY <1>1, <1>2, <1>3, TypeInit, TypeNext, CurrentCopiesNext,
            SameAmountsNext, NoneUnusedNext, BooksInit, BooksNext, PTL DEF Spec

(* Served one request at a time, what an invoice says was paid is the sum  *)
(* of its payments and of what a short tender was credited for.            *)
THEOREM SerialPaidExplained ==
    ASSUME \A v, w \in Workers : v = w
    PROVE  Spec => []PaidExplained
<1>1. Init => CurrentCopies
  BY IdleIsNoJob DEF Init, CurrentCopies
<1>2. Init => PaidExplained
  BY BooksInit DEF Books, UnusedClean, PaidExplained, Init
<1>3. TypeOK /\ CurrentCopies /\ Books /\ PaidExplained /\ [Next]_vars
        => PaidExplained'
  <2>. SUFFICES ASSUME TypeOK, CurrentCopies, Books, PaidExplained,
                       [Next]_vars
                PROVE  \A i \in Invoices : inv'[i].paid = Backing(i)'
    BY DEF PaidExplained, Backing
  <2>0. \A i \in Invoices : inv[i].paid = Backing(i)
    BY DEF PaidExplained, Backing
  <2>1. ASSUME NEW w \in Workers, ApplyWrites(w) \/ PayWrites(w)
        PROVE  \A i \in Invoices : inv'[i].paid = Backing(i)'
    <3>1. job[w].inv = inv
      BY <2>1, ServingJob DEF ApplyWrites, PayWrites, Serving, CurrentCopies
    <3>2. PICK i \in Invoices, n \in Amounts : PaysInto(i, n, job[w].inv[i])
      BY <2>1, ApplyEffect, PayEffect
    <3>. QED BY <2>0, <3>1, <3>2 DEF PaysInto
  <2>2. ASSUME NEW w \in Workers, SettleWrites(w)
        PROVE  \A i \in Invoices : inv'[i].paid = Backing(i)'
    <3>1. PICK i \in Invoices, share \in [Advances -> 0..MaxAmount],
               n \in Nat : SettlesWith(i, share, n)
      BY <2>2, SettleEffect DEF Books
    <3>. QED BY <2>0, <3>1 DEF SettlesWith
  <2>3. ASSUME UNCHANGED <<applied, received, short>>,
               \A i \in Invoices : inv'[i].paid = inv[i].paid
        PROVE  \A i \in Invoices : inv'[i].paid = Backing(i)'
    BY <2>0, <2>3 DEF Backing, ReceivedFor
  <2>4. ASSUME NEW w \in Workers, VoidWrites(w)
        PROVE  /\ UNCHANGED <<applied, received, short>>
               /\ \A i \in Invoices : inv'[i].paid = inv[i].paid
    BY <2>4 DEF VoidWrites, TypeOK, InvoiceRow
  <2>5. ASSUME NEW w \in Workers,
               \/ CreateAdvance(w) \/ RefundWrites(w) \/ CancelWrites(w)
               \/ Reads(w) \/ Abort(w)
        PROVE  UNCHANGED <<inv, applied, received, short>>
    BY <2>5 DEF CreateAdvance, RefundWrites, CancelWrites, Reads, Abort, data
  <2>6. CASE UNCHANGED vars
    BY <2>3, <2>6 DEF vars
  <2>. QED BY <2>1, <2>2, <2>3, <2>4, <2>5, <2>6 DEF Next
<1>. QED BY <1>1, <1>2, <1>3, TypeInit, TypeNext, CurrentCopiesNext,
            BooksInit, BooksNext, PTL DEF Spec

=============================================================================
