---------------------------- MODULE StockLedger ----------------------------
(***************************************************************************)
(* The stock quantities of the iStore back end, their movement history and *)
(* every endpoint that changes them (src/backend/app/routers).             *)
(*                                                                         *)
(* A FastAPI handler is a synchronous function run in a thread pool, one   *)
(* SQLAlchemy session per request.  SQLite opens a write transaction at    *)
(* the first INSERT, UPDATE or DELETE, so a handler has two halves:        *)
(*   - it READS rows, with no lock held; the session keeps these copies    *)
(*     and never refreshes them by itself (variable job);                  *)
(*   - it WRITES and commits, alone, from the first DML statement on.      *)
(* Most endpoints compute the new quantity from the copy they read.  Some  *)
(* draw a document number first (next_number is an upsert) and read the    *)
(* item under the lock, and the POS checkout lets the database subtract.   *)
(*                                                                         *)
(* Each endpoint is a pair of actions, <Name>Reads and <Name>Writes; a     *)
(* request that fails, crashes or finds the database busy Aborts between   *)
(* them and leaves no trace.  Every invoice has one stocked line; amounts  *)
(* of money are in module AdvancePayments, not here.                       *)
(***************************************************************************)
EXTENDS Integers, FiniteSets, Sums

CONSTANTS
    Items,          \* rows of inventory_items
    Sales,          \* identifiers of invoices, sale and return invoices alike
    Reservations,   \* rows of product_reservations
    Grns,           \* goods received notes
    Orders,         \* purchase orders a note can be linked to
    Parts,          \* rows of repair_part_usage
    Takes,          \* stock take sessions, opened before the first step
    Workers,        \* threads that serve requests
    Endpoints,      \* which endpoints each of them serves in a scenario
    Opening,        \* quantity of an item when the ledger starts
    MaxUnits,       \* bound: units of one request
    MaxStock,       \* bound: no request is sent that would stock more
    NoRef           \* the null of a nullable column

AllEndpoints == {"checkout", "quick_return", "void", "edit_reservation",
                 "reserve", "invoice_reservation", "create_grn", "cancel_grn",
                 "consume_part", "remove_part", "adjust", "take_count",
                 "take_post"}

(* Endpoints that read the quantity under the write lock, let the database *)
(* compute it, or do not write it.                                         *)
LockedEndpoints == {"checkout", "quick_return", "create_grn",
                    "edit_reservation", "reserve"}

ASSUME BoundsAssumption ==
    /\ Opening \in Nat
    /\ MaxUnits \in Nat \ {0}
    /\ MaxStock \in Nat
    /\ Endpoints \in [Workers -> SUBSET AllEndpoints]

ASSUME FiniteAssumption ==
    /\ IsFiniteSet(Reservations) /\ IsFiniteSet(Sales)
    /\ IsFiniteSet(Grns) /\ IsFiniteSet(Parts)

ASSUME NoRefAssumption ==
    NoRef \notin Items \cup Sales \cup Reservations \cup Grns
                 \cup Orders \cup Parts \cup Takes

VARIABLES
    qty,        \* inventory_items.quantity
    moved,      \* sum of stock_movements.quantity, per item
    refunded,   \* history: units put back by quick refunds, per item
    adjusted,   \* history: net units of adjustments and posted stock takes
    sale,       \* invoices with their one stocked line
    resv,       \* product_reservations
    grn,        \* goods_received_notes with their one line
    part,       \* repair_part_usage
    take,       \* stock take sessions with their one line
    job         \* what each worker has read for the request it serves

data == <<qty, moved, refunded, adjusted, sale, resv, grn, part, take>>
vars == <<qty, moved, refunded, adjusted, sale, resv, grn, part, take, job>>

Units == 1..MaxUnits

AllowedStatus == {"draft", "reserved", "ordered", "received", "invoiced",
                  "completed", "cancelled", "refunded"}
ReservingStatus == {"reserved", "ordered", "received", "invoiced"}

NoSale == [state |-> "none", item |-> NoRef, units |-> 0, returned |-> 0,
           resv |-> NoRef]
SaleRow == [state : {"none", "open", "voided"}, item : Items \cup {NoRef},
            units : Int, returned : Nat, resv : Reservations \cup {NoRef}]

NoResv == [status |-> "none", item |-> NoRef, units |-> 0, invoice |-> NoRef]
ResvRow == [status : AllowedStatus \cup {"none"}, item : Items \cup {NoRef},
            units : 0..MaxUnits, invoice : Sales \cup {NoRef}]

NoGrn == [state |-> "none", item |-> NoRef, units |-> 0, po |-> NoRef]
GrnRow == [state : {"none", "active", "cancelled"}, item : Items \cup {NoRef},
           units : Nat, po : Orders \cup {NoRef}]

NoPart == [item |-> NoRef, units |-> 0]
PartRow == [item : Items \cup {NoRef}, units : Nat]

NoTake == [status |-> "draft", item |-> NoRef, system |-> 0, physical |-> 0]
Reviewed == {"review", "closed"}
TakeRow == [status : {"draft", "posted"} \cup Reviewed,
            item : Items \cup {NoRef}, system : Nat, physical : Nat]

(* A session that an earlier release counted and put up for review: no     *)
(* endpoint of this one does, since the close that is served always fails  *)
(* (a copy of the price adjustment, inserted into it, uses names that are  *)
(* not defined).  Bound: counted at the opening quantity.                  *)
LegacyTake == [status : Reviewed, item : Items, system : {Opening},
               physical : 0..MaxStock]

(* A request being served: the row it is about, the item's quantity as     *)
(* read (seen), the reservation as read (copy), and its parameters.        *)
Request(op, ref, item, units, seen, status, copy) ==
    [op |-> op, ref |-> ref, item |-> item, units |-> units, seen |-> seen,
     status |-> status, copy |-> copy]
StockRequest(op, ref, item, units, seen) ==
    Request(op, ref, item, units, seen, "none", NoResv)
Idle == StockRequest("idle", NoRef, NoRef, 0, 0)
Job == [op : AllEndpoints \cup {"idle"},
        ref : UNION {Sales, Reservations, Grns, Orders, Parts, Takes, {NoRef}},
        item : Items \cup {NoRef}, units : Int, seen : Nat,
        status : AllowedStatus \cup {"none", "review"}, copy : ResvRow]

(* One type invariant: quantities never go negative (the CHECK constraint  *)
(* on inventory_items.quantity turns such a commit into a rollback).       *)
TypeOK ==
    /\ qty \in [Items -> Nat]
    /\ moved \in [Items -> Int]
    /\ refunded \in [Items -> Nat]
    /\ adjusted \in [Items -> Int]
    /\ sale \in [Sales -> SaleRow]
    /\ resv \in [Reservations -> ResvRow]
    /\ grn \in [Grns -> GrnRow]
    /\ part \in [Parts -> PartRow]
    /\ take \in [Takes -> TakeRow]
    /\ job \in [Workers -> Job]

Init ==
    /\ qty = [i \in Items |-> Opening]
    /\ moved = [i \in Items |-> 0]
    /\ refunded = [i \in Items |-> 0]
    /\ adjusted = [i \in Items |-> 0]
    /\ sale = [s \in Sales |-> NoSale]
    /\ resv = [r \in Reservations |-> NoResv]
    /\ grn = [g \in Grns |-> NoGrn]
    /\ part = [p \in Parts |-> NoPart]
    /\ take \in [Takes -> {NoTake} \cup LegacyTake]
    /\ job = [w \in Workers |-> Idle]

-----------------------------------------------------------------------------
(* Shared pieces of the handlers.                                          *)

(* The first half of a request: no lock, nothing changed in the database.  *)
Read(w, request) ==
    /\ job[w] = Idle
    /\ request.op \in Endpoints[w]
    /\ job' = [job EXCEPT ![w] = request]
    /\ UNCHANGED data

(* The quantity a session holds for an item; lines without one hold none.  *)
Quantity(i) == IF i \in Items THEN qty[i] ELSE 0

(* get_reserved_qty_for_item: units other reservations hold on an item,    *)
(* counted one by one.                                                     *)
UnitsOf(rows) == Cardinality({c \in rows \X Units : c[2] <= resv[c[1]].units})
Holding(i, except) ==
    {r \in Reservations \ {except} :
        resv[r].item = i /\ resv[r].status \in ReservingStatus}
Reserved(i, except) == UnitsOf(Holding(i, except))

(* A stock movement of delta units beside the new quantity it explains.    *)
(* The CHECK constraint refuses a negative quantity.                       *)
MoveUnconstrained(i, new, delta) ==
    IF i \in Items
    THEN /\ qty' = [qty EXCEPT ![i] = new]
         /\ moved' = [moved EXCEPT ![i] = @ + delta]
    ELSE UNCHANGED <<qty, moved>>
Move(i, new, delta) ==
    IF i \in Items
    THEN /\ new >= 0
         /\ qty' = [qty EXCEPT ![i] = new]
         /\ moved' = [moved EXCEPT ![i] = @ + delta]
    ELSE UNCHANGED <<qty, moved>>

Done(w) == job' = [job EXCEPT ![w] = Idle]

(* SQLAlchemy puts a column into the UPDATE only when it differs from the  *)
(* copy that was read; otherwise the row keeps what it has now.            *)
Put(read, new, now) == IF new = read THEN now ELSE new

(* Validation failure, busy database, crash: the session rolls back.       *)
Abort(w) ==
    /\ job[w] # Idle
    /\ Done(w)
    /\ UNCHANGED data

-----------------------------------------------------------------------------
(* Sales: checkout, quick refund, void.                                    *)

(* POST /pos/checkout: the item and the linked reservation, whose status   *)
(* is not examined; a service line has no item.                            *)
CheckoutReads(w) ==
    \E i \in Items \cup {NoRef}, u \in Units, r \in Reservations \cup {NoRef} :
        LET copy == IF r \in Reservations THEN resv[r] ELSE NoResv IN
        /\ r \in Reservations => copy.status # "none"
        /\ Read(w, Request("checkout", r, i, u, Quantity(i), "none", copy))

(* The reservation a request may draw on: its own, if it is for this item. *)
OwnHold(j) == IF j.copy.item = j.item THEN j.ref ELSE NoRef

(* Stock not held by other reservations: the quantity is the copy read at  *)
(* the start, the reservations are counted under the lock.                 *)
AvailableIgnoringHolds(j) == j.seen
Available(j) == j.seen - Reserved(j.item, OwnHold(j))

NewSale(s, j, r) ==
    /\ sale[s].state = "none"
    /\ sale' = [sale EXCEPT ![s] = [state |-> "open", item |-> j.item,
                                    units |-> j.units, returned |-> 0,
                                    resv |-> r]]

(* linked_invoice_id is always new; the status only if it was different.   *)
LinkInvoice(j, s) ==
    IF j.ref \in Reservations
    THEN \E status \in {"completed", "invoiced"} :
            resv' = [resv EXCEPT
                ![j.ref].invoice = s,
                ![j.ref].status = Put(j.copy.status, status, @)]
    ELSE UNCHANGED resv

(* UPDATE ... SET quantity = quantity - n WHERE quantity >= n.             *)
CheckoutWrites(w) ==
    LET j == job[w] IN
    /\ j.op = "checkout"
    /\ j.item \in Items => Available(j) >= j.units
    /\ Move(j.item, Quantity(j.item) - j.units, -j.units)
    /\ \E s \in Sales : NewSale(s, j, j.ref) /\ LinkInvoice(j, s)
    /\ Done(w)
    /\ UNCHANGED <<refunded, adjusted, grn, part, take>>

(* POST /pos/return: the original invoice, neither voided nor a return.    *)
QuickReturnReads(w) ==
    \E s \in Sales, u \in Units :
        /\ sale[s].state = "open"
        /\ sale[s].units > 0
        /\ sale[s].item \in Items
        /\ Read(w, StockRequest("quick_return", s, sale[s].item, u, 0))

(* The units a line can still return: sold less already returned.          *)
ReturnableIgnoringReturns(s) == sale[s].units
Returnable(s) == sale[s].units - sale[s].returned

(* apply_return_stock: the item is read and written under the lock.        *)
Restocked(j) == Quantity(j.item) + j.units

(* The return record and the handler each add a movement for the units.    *)
(* The return invoice is a sale with a negative line.                      *)
QuickReturnWrites(w) ==
    LET j == job[w] IN
    /\ j.op = "quick_return"
    /\ j.units <= Returnable(j.ref)
    /\ Move(j.item, Restocked(j), 2 * j.units)
    /\ refunded' = [refunded EXCEPT ![j.item] = @ + j.units]
    /\ \E n \in Sales :
        /\ sale[n].state = "none"
        /\ sale' = [sale EXCEPT
            ![j.ref].returned = @ + j.units,
            ![n] = [state |-> "open", item |-> j.item, units |-> -j.units,
                    returned |-> 0, resv |-> sale[j.ref].resv]]
    /\ Done(w)
    /\ UNCHANGED <<adjusted, resv, grn, part, take>>

(* void_sale and void_invoice: any invoice not voided, returns included,   *)
(* whatever was refunded before; serials and reservations keep their state.*)
VoidReads(w) ==
    \E s \in Sales :
        /\ sale[s].state = "open"
        /\ Read(w, StockRequest("void", s, sale[s].item, sale[s].units,
                                Quantity(sale[s].item)))

VoidWrites(w) ==
    LET j == job[w] IN
    /\ j.op = "void"
    /\ Move(j.item, j.seen + j.units, j.units)
    /\ sale' = [sale EXCEPT ![j.ref].state = "voided"]
    /\ Done(w)
    /\ UNCHANGED <<refunded, adjusted, resv, grn, part, take>>

-----------------------------------------------------------------------------
(* Reservations.                                                           *)

(* POST /product-reservations: a draft holds nothing.  Only the in-stock   *)
(* type compares with the available stock; special orders do not.          *)
CreateReservation(w) ==
    /\ job[w] = Idle
    /\ "edit_reservation" \in Endpoints[w]
    /\ \E r \in Reservations, i \in Items \cup {NoRef}, u \in Units :
        /\ resv[r].status = "none"
        /\ resv' = [resv EXCEPT ![r] = [status |-> "draft", item |-> i,
                                        units |-> u, invoice |-> NoRef]]
    /\ UNCHANGED <<qty, moved, refunded, adjusted, sale, grn, part, take, job>>

(* PATCH, mark-ordered, mark-received and cancel: any allowed status, no   *)
(* look at the stock.  A request that changes none of the three is left    *)
(* out: it changes nothing modelled here.                                  *)
EditReservationReads(w) ==
    \E r \in Reservations, status \in AllowedStatus,
       i \in Items \cup {NoRef}, u \in Units :
        /\ resv[r].status # "none"
        /\ <<status, i, u>> # <<resv[r].status, resv[r].item, resv[r].units>>
        /\ Read(w, Request("edit_reservation", r, i, u, 0, status, resv[r]))

EditReservationWrites(w) ==
    LET j == job[w] IN
    /\ j.op = "edit_reservation"
    /\ resv' = [resv EXCEPT
            ![j.ref].status = Put(j.copy.status, j.status, @),
            ![j.ref].item = Put(j.copy.item, j.item, @),
            ![j.ref].units = Put(j.copy.units, j.units, @)]
    /\ Done(w)
    /\ UNCHANGED <<qty, moved, refunded, adjusted, sale, grn, part, take>>

(* PATCH .../reserve: refused when other reservations leave too little.    *)
ReserveReads(w) ==
    \E r \in Reservations :
        LET copy == resv[r] IN
        /\ copy.status # "none"
        /\ copy.item \in Items =>
                Quantity(copy.item) - Reserved(copy.item, r) >= copy.units
        /\ Read(w, Request("reserve", r, NoRef, 0, 0, "none", copy))

ReserveWrites(w) ==
    LET j == job[w] IN
    /\ j.op = "reserve"
    /\ resv' = [resv EXCEPT
            ![j.ref].status = Put(j.copy.status, "reserved", @)]
    /\ Done(w)
    /\ UNCHANGED <<qty, moved, refunded, adjusted, sale, grn, part, take>>

(* A reservation already linked gets its invoice back, not a new one.      *)
Invoiceable(r) ==
    /\ resv[r].status \notin {"none", "cancelled", "refunded"}
    /\ resv[r].invoice = NoRef

(* POST .../create-invoice: the product is loaded before the number is     *)
(* drawn, so both the check and the new quantity use that copy.            *)
InvoiceReservationReads(w) ==
    \E r \in Reservations :
        LET copy == resv[r] IN
        /\ Invoiceable(r)
        /\ Read(w, Request("invoice_reservation", r, copy.item, copy.units,
                           Quantity(copy.item), "none", copy))

InvoiceReservationWrites(w) ==
    LET j == job[w] IN
    /\ j.op = "invoice_reservation"
    /\ j.item \in Items => Available(j) >= j.units
    /\ Move(j.item, j.seen - j.units, -j.units)
    /\ \E s \in Sales : NewSale(s, j, j.ref) /\ LinkInvoice(j, s)
    /\ Done(w)
    /\ UNCHANGED <<refunded, adjusted, grn, part, take>>

-----------------------------------------------------------------------------
(* Purchasing, repairs and inventory.                                      *)

OrderNotChecked(po) == TRUE
OrderUnanswered(po) ==
    po # NoRef => \A g \in Grns : ~ (grn[g].state = "active" /\ grn[g].po = po)

(* POST /inventory/grn and the purchase order's reconcile: one note per    *)
(* order, unless cancelled; the note's number is drawn before the item is  *)
(* read.                                                                   *)
CreateGrnReads(w) ==
    \E i \in Items, u \in Units, po \in Orders \cup {NoRef} :
        /\ OrderUnanswered(po)
        /\ qty[i] + u <= MaxStock
        /\ Read(w, StockRequest("create_grn", po, i, u, 0))

CreateGrnWrites(w) ==
    LET j == job[w] IN
    /\ j.op = "create_grn"
    /\ Move(j.item, Quantity(j.item) + j.units, j.units)
    /\ \E g \in Grns :
        /\ grn[g].state = "none"
        /\ grn' = [grn EXCEPT ![g] = [state |-> "active", item |-> j.item,
                                      units |-> j.units, po |-> j.ref]]
    /\ Done(w)
    /\ UNCHANGED <<refunded, adjusted, sale, resv, part, take>>

(* POST /inventory/grn/{id}/cancel: answers already_cancelled or conflict  *)
(* from the rows it read, then writes the quantity it computed from them.  *)
CancelGrnReads(w) ==
    \E g \in Grns :
        /\ grn[g].state = "active"
        /\ Quantity(grn[g].item) >= grn[g].units
        /\ Read(w, StockRequest("cancel_grn", g, grn[g].item, grn[g].units,
                                Quantity(grn[g].item)))

CancelGrnWrites(w) ==
    LET j == job[w] IN
    /\ j.op = "cancel_grn"
    /\ Move(j.item, j.seen - j.units, -j.units)
    /\ grn' = [grn EXCEPT ![j.ref].state = "cancelled"]
    /\ Done(w)
    /\ UNCHANGED <<refunded, adjusted, sale, resv, part, take>>

(* POST /repairs/{id}/consume-part, for a part from the inventory.         *)
ConsumePartReads(w) ==
    \E i \in Items, u \in Units :
        /\ qty[i] >= u
        /\ Read(w, StockRequest("consume_part", NoRef, i, u, qty[i]))

ConsumePartWrites(w) ==
    LET j == job[w] IN
    /\ j.op = "consume_part"
    /\ Move(j.item, j.seen - j.units, -j.units)
    /\ \E p \in Parts :
        /\ part[p] = NoPart
        /\ part' = [part EXCEPT ![p] = [item |-> j.item, units |-> j.units]]
    /\ Done(w)
    /\ UNCHANGED <<refunded, adjusted, sale, resv, grn, take>>

(* DELETE /repairs/{id}/parts/{usage}: deleting a row that another request *)
(* deleted meanwhile is a warning, not an error.                           *)
RemovePartReads(w) ==
    \E p \in Parts :
        /\ part[p] # NoPart
        /\ Read(w, StockRequest("remove_part", p, part[p].item,
                                part[p].units, Quantity(part[p].item)))

RemovePartWrites(w) ==
    LET j == job[w] IN
    /\ j.op = "remove_part"
    /\ Move(j.item, j.seen + j.units, j.units)
    /\ part' = [part EXCEPT ![j.ref] = NoPart]
    /\ Done(w)
    /\ UNCHANGED <<refunded, adjusted, sale, resv, grn, take>>

(* POST /inventory/adjust: up or down, never below zero as read.           *)
AdjustReads(w) ==
    \E i \in Items, u \in Units \cup {-n : n \in Units} :
        /\ qty[i] + u \in 0..MaxStock
        /\ Read(w, StockRequest("adjust", NoRef, i, u, qty[i]))

AdjustWrites(w) ==
    LET j == job[w] IN
    /\ j.op = "adjust"
    /\ Move(j.item, j.seen + j.units, j.units)
    /\ adjusted' = [adjusted EXCEPT ![j.item] = @ + j.units]
    /\ Done(w)
    /\ UNCHANGED <<refunded, sale, resv, grn, part, take>>

(* POST /stock-takes/{id}/lines: a count of the session's item; a recount  *)
(* overwrites the line and puts the session back to draft.                 *)
TakeCountReads(w) ==
    \E t \in Takes, i \in Items, n \in 0..MaxStock :
        /\ take[t].status \in {"draft", "review"}
        /\ take[t].item \in {NoRef, i}
        /\ Read(w, Request("take_count", t, i, n, qty[i], take[t].status,
                           NoResv))

TakeCountWrites(w) ==
    LET j == job[w] IN
    /\ j.op = "take_count"
    /\ take' = [take EXCEPT ![j.ref] =
            [status |-> Put(j.status, "draft", @.status), item |-> j.item,
             system |-> j.seen, physical |-> j.units]]
    /\ Done(w)
    /\ UNCHANGED <<qty, moved, refunded, adjusted, sale, resv, grn, part>>

(* A reviewed session whose item still has the quantity it was counted at. *)
ReviewedOnly(t) == take[t].status \in Reviewed
CountStands(t) ==
    /\ take[t].status \in Reviewed
    /\ qty[take[t].item] = take[t].system

(* POST /stock-takes/{id}/post: a count without difference moves nothing.  *)
TakePostReads(w) ==
    \E t \in Takes :
        /\ CountStands(t)
        /\ Read(w, StockRequest("take_post", t, take[t].item,
                                take[t].physical, take[t].system))

TakePostWrites(w) ==
    LET j == job[w]
        difference == j.units - j.seen
    IN
    /\ j.op = "take_post"
    /\ IF difference = 0
       THEN UNCHANGED <<qty, moved, adjusted>>
       ELSE /\ Move(j.item, j.units, difference)
            /\ adjusted' = [adjusted EXCEPT ![j.item] = @ + difference]
    /\ take' = [take EXCEPT ![j.ref].status = "posted"]
    /\ Done(w)
    /\ UNCHANGED <<refunded, sale, resv, grn, part>>

-----------------------------------------------------------------------------
Next ==
    \E w \in Workers :
        \/ CheckoutReads(w)           \/ CheckoutWrites(w)
        \/ QuickReturnReads(w)        \/ QuickReturnWrites(w)
        \/ VoidReads(w)               \/ VoidWrites(w)
        \/ CreateReservation(w)
        \/ EditReservationReads(w)    \/ EditReservationWrites(w)
        \/ ReserveReads(w)            \/ ReserveWrites(w)
        \/ InvoiceReservationReads(w) \/ InvoiceReservationWrites(w)
        \/ CreateGrnReads(w)          \/ CreateGrnWrites(w)
        \/ CancelGrnReads(w)          \/ CancelGrnWrites(w)
        \/ ConsumePartReads(w)        \/ ConsumePartWrites(w)
        \/ RemovePartReads(w)         \/ RemovePartWrites(w)
        \/ AdjustReads(w)             \/ AdjustWrites(w)
        \/ TakeCountReads(w)          \/ TakeCountWrites(w)
        \/ TakePostReads(w)           \/ TakePostWrites(w)
        \/ Abort(w)

Spec == Init /\ [][Next]_vars

-----------------------------------------------------------------------------
(* Properties.                                                             *)

(* docs/DATABASE.md:92: "Inventory quantity and stock movement history     *)
(* must reconcile."                                                        *)
StockReconciles == \A i \in Items : moved[i] = qty[i] - Opening

(* The units of an item that each document stands for at the moment.       *)
ReceivedUnits(i) ==
    [g \in Grns |-> IF grn[g].state = "active" /\ grn[g].item = i
                    THEN grn[g].units ELSE 0]
SoldUnits(i) ==
    [s \in Sales |-> IF sale[s].state = "open" /\ sale[s].item = i
                     THEN sale[s].units ELSE 0]
UsedUnits(i) ==
    [p \in Parts |-> IF part[p].item = i THEN part[p].units ELSE 0]

(* The quantity is what the business documents say: opening stock, notes   *)
(* received and not cancelled, invoices not voided (return invoices count  *)
(* negatively), parts in repairs, adjustments and posted counts.  No       *)
(* reversal happens twice and none is forgotten.                           *)
DocumentsExplainStock ==
    \A i \in Items :
        qty[i] = Opening + Total(ReceivedUnits(i)) - Total(SoldUnits(i))
                 - Total(UsedUnits(i)) + adjusted[i]

(* An invoice that takes stock, from the POS cart or create-invoice.       *)
Sells(s) ==
    /\ sale[s].state = "none"
    /\ sale'[s].units > 0
    /\ sale'[s].item \in Items

(* One request at a time, what an invoice leaves in stock covers all that  *)
(* other reservations hold on the item, by the code's own count.           *)
HoldsKept ==
    [][\A s \in Sales : Sells(s) =>
        qty'[sale'[s].item] >= Reserved(sale'[s].item, sale'[s].resv)]_vars

(* However quick refunds interleave, an invoice line never returns more    *)
(* than it sold.                                                           *)
ReturnedWithinSold ==
    \A s \in Sales : sale[s].units > 0 => sale[s].returned <= sale[s].units

(* A purchase order has at most one active goods received note.            *)
OrderReceivedOnce ==
    \A g, h \in Grns :
        (/\ grn[g].state = "active" /\ grn[h].state = "active"
         /\ grn[g].po = grn[h].po /\ grn[g].po # NoRef) => g = h
=============================================================================
