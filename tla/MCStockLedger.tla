--------------------------- MODULE MCStockLedger ---------------------------
(* Small instances of StockLedger for TLC.                                 *)
EXTENDS StockLedger, FiniteSetsExt, TLC

(* No action tells one row of these tables from another.                   *)
Symmetry == Permutations(Reservations) \cup Permutations(Grns)

(* The rows of invoices are numbered, and taken in the order of their      *)
(* numbers: no action tells one from another either.                       *)
Used == {s \in Sales : sale[s].state # "none"}
InOrder == Used = 1..Cardinality(Used)

(* Selling, refunding, voiding and reserving.                              *)
SalesEndpoints == {"checkout", "quick_return", "void", "edit_reservation",
                   "reserve", "invoice_reservation"}

(* Purchasing, repairs, adjustments and stock takes beside sales.          *)
InventoryEndpoints == {"checkout", "create_grn", "cancel_grn", "consume_part",
                       "remove_part", "adjust", "take_count", "take_post"}

(* Requests that may interleave: the members of LockedEndpoints that move  *)
(* stock.                                                                  *)
ConcurrentEndpoints == {"checkout", "quick_return", "create_grn"}

(* Worker 1 serves everything, worker 2 only what may interleave.          *)
EndpointsOf ==
    [w \in Workers |-> IF w = 1 THEN AllEndpoints ELSE ConcurrentEndpoints]

(* An adjustment and a cancelled note beside the checkout.                 *)
StaleEndpointsOf ==
    [w \in Workers |-> IF w = 1 THEN {"adjust", "cancel_grn"}
                       ELSE {"checkout", "create_grn"}]

-----------------------------------------------------------------------------
(* The scenarios of run stock, which explores the states of any of them.   *)

Busy == {w \in Workers : job[w] # Idle}
Serving(endpoints) == \A w \in Busy : job[w].op \in endpoints

OneAtATime == Busy \subseteq {1}
UnitByUnit ==
    /\ \A w \in Busy : job[w].op # "take_count" => job[w].units \in -1..1
    /\ \A r \in Reservations : resv[r].units <= 1
    /\ \A s \in Sales : sale[s].units \in -1..1
    /\ \A g \in Grns : grn[g].units <= 1

Reserving == {r \in Reservations : resv[r] # NoResv}
Noted == {g \in Grns : grn[g] # NoGrn}
InventoryUntouched ==
    /\ \A p \in Parts : part[p] = NoPart
    /\ \A t \in Takes : take[t] = NoTake
    /\ \A i \in Items : adjusted[i] = 0

(* Three invoices and reservations.                                        *)
Selling ==
    /\ OneAtATime /\ UnitByUnit /\ Serving(SalesEndpoints)
    /\ Cardinality(Used) + Cardinality(Reserving) <= 3
    /\ Noted = {} /\ InventoryUntouched

(* One invoice beside everything of the inventory.                         *)
Purchasing ==
    /\ OneAtATime /\ UnitByUnit /\ Serving(InventoryEndpoints)
    /\ Cardinality(Used) <= 1
    /\ Reserving = {}

(* Two requests at a time, a unit or two each.                             *)
Overlapping ==
    /\ Serving(ConcurrentEndpoints)
    /\ \A w \in Busy : job[w].op = "create_grn" => job[w].ref = NoRef
    /\ \A s \in Sales : sale[s].state # "voided"
    /\ \A g \in Noted : grn[g].state = "active" /\ grn[g].po = NoRef
    /\ Cardinality(Noted) <= 1
    /\ Reserving = {} /\ InventoryUntouched

Scenarios == InOrder /\ (Selling \/ Purchasing \/ Overlapping)

(* The sums of the properties are the usual ones.                          *)
ASSUME TotalIsSum ==
    \A f \in [1..3 -> -2..2] :
        Total(f) = MapThenSumSet(LAMBDA x : f[x], DOMAIN f)

=============================================================================
