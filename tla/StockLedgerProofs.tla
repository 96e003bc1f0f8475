------------------------- MODULE StockLedgerProofs -------------------------
(* Theorems of StockLedger, for every set of items, invoices, workers...   *)
EXTENDS StockLedger, SumsProofs

(* What a request may carry from its first half to its second, by endpoint.*)
RequestOK(j) ==
    /\ j.op \in {"checkout", "invoice_reservation"} =>
            j.ref \in Reservations \cup {NoRef}
    /\ j.op = "create_grn" => j.ref \in Orders \cup {NoRef}
    /\ j.op = "quick_return" => j.ref \in Sales
    /\ j.op = "edit_reservation" =>
            j.status \in AllowedStatus /\ j.units \in Units
    /\ j.op \notin {"void", "adjust"} => j.units \in Nat

(* When the quantity a request has read is still the item's quantity.      *)
StaleWriters == {"void", "invoice_reservation", "cancel_grn", "consume_part",
                 "remove_part", "adjust", "take_post"}
Fresh(j) ==
    (j.op \in StaleWriters /\ j.item \in Items) => j.seen = qty[j.item]

(* A request that will make an invoice still sees the item and the         *)
(* reservation as they are.                                                *)
Sellers == {"checkout", "invoice_reservation"}
SellerFresh(j) ==
    j.op \in Sellers =>
        /\ j.item \in Items => j.seen = qty[j.item]
        /\ IF j.ref \in Reservations THEN j.copy = resv[j.ref]
                                     ELSE j.ref = NoRef

JobOK == \A w \in Workers : RequestOK(job[w])

TypeInv == TypeOK /\ JobOK

-----------------------------------------------------------------------------
(* A movement keeps quantities natural and the history integer.            *)
LEMMA MoveType ==
    ASSUME qty \in [Items -> Nat], moved \in [Items -> Int],
           NEW i, NEW new \in Int, NEW delta \in Int,
           Move(i, new, delta)
    PROVE  qty' \in [Items -> Nat] /\ moved' \in [Items -> Int]
BY DEF Move

(* Writing one entry of a table keeps its type if the entry has it.        *)
LEMMA UpdateType ==
    ASSUME NEW D, NEW R, NEW f \in [D -> R], NEW a, NEW v, a \in D => v \in R
    PROVE  [f EXCEPT ![a] = v] \in [D -> R]
OBVIOUS

(* The first half of a request keeps the types if the request has its own. *)
LEMMA ReadType ==
    ASSUME TypeInv, NEW w \in Workers, NEW request \in Job,
           RequestOK(request), Read(w, request)
    PROVE  TypeInv'
<1>1. TypeOK'
  BY DEF TypeInv, TypeOK, Read, data
<1>2. JobOK'
  BY DEF TypeInv, TypeOK, JobOK, Read
<1>. QED BY <1>1, <1>2 DEF TypeInv

LEMMA IdleIsAJob == Idle \in Job
BY BoundsAssumption DEF Idle, StockRequest, Request, Job, NoResv, ResvRow

(* The second half of a request frees its worker.                          *)
LEMMA DoneType ==
    ASSUME TypeInv, NEW w \in Workers, Done(w)
    PROVE  job' \in [Workers -> Job] /\ JobOK'
<1>1. job' \in [Workers -> Job]
  BY IdleIsAJob DEF TypeInv, TypeOK, Done
<1>2. JobOK'
  BY DEF TypeInv, TypeOK, JobOK, RequestOK, Done, Idle, StockRequest, Request
<1>. QED BY <1>1, <1>2

(* Quantity of any line, with or without an item, is a natural number.     *)
LEMMA QuantityType ==
    ASSUME TypeOK, NEW i
    PROVE  Quantity(i) \in Nat
BY DEF TypeOK, Quantity

(* The units held by any set of reservations are a natural number.         *)
LEMMA UnitsOfType ==
    ASSUME NEW rows \in SUBSET Reservations
    PROVE  UnitsOf(rows) \in Nat
<1>. DEFINE held == {c \in rows \X Units : c[2] <= resv[c[1]].units}
<1>1. IsFiniteSet(rows) /\ IsFiniteSet(Units)
  BY BoundsAssumption, FiniteAssumption, FS_Subset, FS_Interval DEF Units
<1>2. IsFiniteSet(rows \X Units)
  BY <1>1, FS_Product
<1>3. held \in SUBSET (rows \X Units)
  OBVIOUS
<1>4. IsFiniteSet(held)
  BY <1>2, <1>3, FS_Subset
<1>. QED BY <1>4, FS_CardinalityType DEF UnitsOf

(* What other reservations hold on an item is a natural number.            *)
LEMMA ReservedType ==
    ASSUME NEW i, NEW except
    PROVE  Reserved(i, except) \in Nat
BY UnitsOfType DEF Reserved, Holding

-----------------------------------------------------------------------------
(* The initial state has the types.                                        *)
LEMMA TypeInit == Init => TypeInv
<1>1. Init => TypeOK
  BY BoundsAssumption, IdleIsAJob
  DEF Init, TypeOK, NoSale, SaleRow, NoResv, ResvRow, NoGrn, GrnRow,
      NoPart, PartRow, NoTake, TakeRow, LegacyTake
<1>2. Init => JobOK
  BY DEF Init, JobOK, RequestOK, Idle, StockRequest, Request
<1>. QED BY <1>1, <1>2 DEF TypeInv

(* The first halves of all endpoints.                                      *)
Reads(w) ==
    \/ CheckoutReads(w)        \/ QuickReturnReads(w)
    \/ VoidReads(w)            \/ EditReservationReads(w)
    \/ ReserveReads(w)         \/ InvoiceReservationReads(w)
    \/ CreateGrnReads(w)       \/ CancelGrnReads(w)
    \/ ConsumePartReads(w)     \/ RemovePartReads(w)
    \/ AdjustReads(w)          \/ TakeCountReads(w)
    \/ TakePostReads(w)

(* A first half starts a well-formed request with a fresh copy.            *)
LEMMA ReadsStart ==
    ASSUME TypeInv, NEW w \in Workers, Reads(w)
    PROVE  \E request \in Job :
              /\ Read(w, request) /\ RequestOK(request)
              /\ Fresh(request) /\ SellerFresh(request)
<1>. USE DEF TypeInv
<1>. NoResv \in ResvRow
  BY BoundsAssumption DEF NoResv, ResvRow
<1>. \A i : Quantity(i) \in Nat /\ (i \in Items => Quantity(i) = qty[i])
  BY QuantityType DEF Quantity
<1>. Units \subseteq Nat
  BY BoundsAssumption DEF Units
<1>1. CASE CheckoutReads(w)
  <2>1. PICK i \in Items \cup {NoRef}, u \in Units,
             r \in Reservations \cup {NoRef} :
          Read(w, Request("checkout", r, i, u, Quantity(i), "none",
                          IF r \in Reservations THEN resv[r] ELSE NoResv))
    BY <1>1 DEF CheckoutReads
  <2>. DEFINE request == Request("checkout", r, i, u, Quantity(i), "none",
                                 IF r \in Reservations THEN resv[r] ELSE NoResv)
  <2>2. IF r \in Reservations THEN resv[r] \in ResvRow ELSE TRUE
    BY DEF TypeOK
  <2>3. request \in Job /\ RequestOK(request)
    BY <2>2 DEF RequestOK, Job, Request, AllEndpoints
  <2>4. Fresh(request) /\ SellerFresh(request)
    BY DEF Fresh, StaleWriters, SellerFresh, Sellers, Request
  <2>. QED BY <2>1, <2>3, <2>4
<1>2. CASE QuickReturnReads(w)
  <2>1. PICK s \in Sales, u \in Units :
          Read(w, StockRequest("quick_return", s, sale[s].item, u, 0))
    BY <1>2 DEF QuickReturnReads
  <2>. DEFINE request == StockRequest("quick_return", s, sale[s].item, u, 0)
  <2>2. sale[s] \in SaleRow
    BY DEF TypeOK
  <2>3. /\ request \in Job /\ RequestOK(request)
        /\ Fresh(request) /\ SellerFresh(request)
    BY <2>2 DEF RequestOK, Fresh, StaleWriters, SellerFresh, Sellers,
           Job, Request, StockRequest, AllEndpoints, SaleRow
  <2>. QED BY <2>1, <2>3
<1>3. CASE VoidReads(w)
  <2>1. PICK s \in Sales :
          Read(w, StockRequest("void", s, sale[s].item, sale[s].units,
                               Quantity(sale[s].item)))
    BY <1>3 DEF VoidReads
  <2>. DEFINE request == StockRequest("void", s, sale[s].item, sale[s].units,
                                      Quantity(sale[s].item))
  <2>2. sale[s] \in SaleRow
    BY DEF TypeOK
  <2>3. /\ request \in Job /\ RequestOK(request)
        /\ Fresh(request) /\ SellerFresh(request)
    BY <2>2 DEF RequestOK, Fresh, StaleWriters, SellerFresh, Sellers,
           Job, Request, StockRequest, AllEndpoints, SaleRow
  <2>. QED BY <2>1, <2>3
<1>4. CASE EditReservationReads(w)
  <2>1. PICK r \in Reservations, status \in AllowedStatus,
             i \in Items \cup {NoRef}, u \in Units :
          Read(w, Request("edit_reservation", r, i, u, 0, status, resv[r]))
    BY <1>4 DEF EditReservationReads
  <2>. DEFINE request == Request("edit_reservation", r, i, u, 0, status,
                                 resv[r])
  <2>2. resv[r] \in ResvRow
    BY DEF TypeOK
  <2>3. /\ request \in Job /\ RequestOK(request)
        /\ Fresh(request) /\ SellerFresh(request)
    BY <2>2 DEF RequestOK, Fresh, StaleWriters, SellerFresh, Sellers,
           Job, Request, AllEndpoints
  <2>. QED BY <2>1, <2>3
<1>5. CASE ReserveReads(w)
  <2>1. PICK r \in Reservations :
          Read(w, Request("reserve", r, NoRef, 0, 0, "none", resv[r]))
    BY <1>5 DEF ReserveReads
  <2>. DEFINE request == Request("reserve", r, NoRef, 0, 0, "none", resv[r])
  <2>2. resv[r] \in ResvRow
    BY DEF TypeOK
  <2>3. /\ request \in Job /\ RequestOK(request)
        /\ Fresh(request) /\ SellerFresh(request)
    BY <2>2 DEF RequestOK, Fresh, StaleWriters, SellerFresh, Sellers,
           Job, Request, AllEndpoints
  <2>. QED BY <2>1, <2>3
<1>6. CASE InvoiceReservationReads(w)
  <2>1. PICK r \in Reservations :
          Read(w, Request("invoice_reservation", r, resv[r].item,
                          resv[r].units, Quantity(resv[r].item), "none",
                          resv[r]))
    BY <1>6 DEF InvoiceReservationReads
  <2>. DEFINE request == Request("invoice_reservation", r, resv[r].item,
                                 resv[r].units, Quantity(resv[r].item), "none",
                                 resv[r])
  <2>2. resv[r] \in ResvRow
    BY DEF TypeOK
  <2>3. /\ request \in Job /\ RequestOK(request)
        /\ Fresh(request) /\ SellerFresh(request)
    BY <2>2 DEF RequestOK, Fresh, StaleWriters, SellerFresh, Sellers,
           Job, Request, AllEndpoints, ResvRow
  <2>. QED BY <2>1, <2>3
<1>7. CASE CreateGrnReads(w)
  <2>1. PICK i \in Items, u \in Units, po \in Orders \cup {NoRef} :
          Read(w, StockRequest("create_grn", po, i, u, 0))
    BY <1>7 DEF CreateGrnReads
  <2>. DEFINE request == StockRequest("create_grn", po, i, u, 0)
  <2>2. request \in Job /\ RequestOK(request)
    BY DEF RequestOK, Job, Request, StockRequest, AllEndpoints
  <2>3. Fresh(request) /\ SellerFresh(request)
    BY DEF Fresh, StaleWriters, SellerFresh, Sellers, Request, StockRequest
  <2>. QED BY <2>1, <2>2, <2>3
<1>8. CASE CancelGrnReads(w)
  <2>1. PICK g \in Grns :
          Read(w, StockRequest("cancel_grn", g, grn[g].item,
                               grn[g].units, Quantity(grn[g].item)))
    BY <1>8 DEF CancelGrnReads
  <2>. DEFINE request == StockRequest("cancel_grn", g, grn[g].item,
                                      grn[g].units, Quantity(grn[g].item))
  <2>2. grn[g] \in GrnRow
    BY DEF TypeOK
  <2>3. /\ request \in Job /\ RequestOK(request)
        /\ Fresh(request) /\ SellerFresh(request)
    BY <2>2 DEF RequestOK, Fresh, StaleWriters, SellerFresh, Sellers,
           Job, Request, StockRequest, AllEndpoints, GrnRow
  <2>. QED BY <2>1, <2>3
<1>9. CASE ConsumePartReads(w)
  <2>1. PICK i \in Items, u \in Units :
          Read(w, StockRequest("consume_part", NoRef, i, u, qty[i]))
    BY <1>9 DEF ConsumePartReads
  <2>. DEFINE request == StockRequest("consume_part", NoRef, i, u, qty[i])
  <2>2. qty[i] \in Nat
    BY DEF TypeOK
  <2>3. /\ request \in Job /\ RequestOK(request)
        /\ Fresh(request) /\ SellerFresh(request)
    BY <2>2 DEF RequestOK, Fresh, StaleWriters, SellerFresh, Sellers,
           Job, Request, StockRequest, AllEndpoints
  <2>. QED BY <2>1, <2>3
<1>10. CASE RemovePartReads(w)
  <2>1. PICK p \in Parts :
          Read(w, StockRequest("remove_part", p, part[p].item,
                               part[p].units, Quantity(part[p].item)))
    BY <1>10 DEF RemovePartReads
  <2>. DEFINE request == StockRequest("remove_part", p, part[p].item,
                                      part[p].units, Quantity(part[p].item))
  <2>2. part[p] \in PartRow
    BY DEF TypeOK
  <2>3. /\ request \in Job /\ RequestOK(request)
        /\ Fresh(request) /\ SellerFresh(request)
    BY <2>2 DEF RequestOK, Fresh, StaleWriters, SellerFresh, Sellers,
           Job, Request, StockRequest, AllEndpoints, PartRow
  <2>. QED BY <2>1, <2>3
<1>11. CASE AdjustReads(w)
  <2>1. PICK i \in Items, u \in Units \cup {-n : n \in Units} :
          Read(w, StockRequest("adjust", NoRef, i, u, qty[i]))
    BY <1>11 DEF AdjustReads
  <2>. DEFINE request == StockRequest("adjust", NoRef, i, u, qty[i])
  <2>2. qty[i] \in Nat /\ u \in Int
    BY DEF TypeOK
  <2>3. /\ request \in Job /\ RequestOK(request)
        /\ Fresh(request) /\ SellerFresh(request)
    BY <2>2 DEF RequestOK, Fresh, StaleWriters, SellerFresh, Sellers,
           Job, Request, StockRequest, AllEndpoints
  <2>. QED BY <2>1, <2>3
<1>12. CASE TakeCountReads(w)
  <2>1. PICK t \in Takes, i \in Items, n \in 0..MaxStock :
          /\ take[t].status \in {"draft", "review"}
          /\ Read(w, Request("take_count", t, i, n, qty[i], take[t].status,
                             NoResv))
    BY <1>12 DEF TakeCountReads
  <2>. DEFINE request == Request("take_count", t, i, n, qty[i], take[t].status,
                                 NoResv)
  <2>2. qty[i] \in Nat /\ take[t].status \in AllowedStatus \cup {"review"}
    BY <2>1 DEF TypeOK, AllowedStatus
  <2>3. /\ request \in Job /\ RequestOK(request)
        /\ Fresh(request) /\ SellerFresh(request)
    BY <2>2 DEF RequestOK, Fresh, StaleWriters, SellerFresh, Sellers,
           Job, Request, AllEndpoints
  <2>. QED BY <2>1, <2>3
<1>13. CASE TakePostReads(w)
  <2>1. PICK t \in Takes :
          /\ qty[take[t].item] = take[t].system
          /\ Read(w, StockRequest("take_post", t, take[t].item,
                                  take[t].physical, take[t].system))
    BY <1>13 DEF TakePostReads, CountStands
  <2>. DEFINE request == StockRequest("take_post", t, take[t].item,
                                      take[t].physical, take[t].system)
  <2>2. take[t] \in TakeRow
    BY DEF TypeOK
  <2>3. /\ request \in Job /\ RequestOK(request)
        /\ Fresh(request) /\ SellerFresh(request)
    BY <2>1, <2>2
    DEF RequestOK, Fresh, StaleWriters, SellerFresh, Sellers, Job, Request,
        StockRequest, AllEndpoints, TakeRow
  <2>. QED BY <2>1, <2>3
<1>. QED BY <1>1, <1>2, <1>3, <1>4, <1>5, <1>6, <1>7, <1>8, <1>9, <1>10,
            <1>11, <1>12, <1>13 DEF Reads

(* Every endpoint's first half keeps the types, and the database.          *)
LEMMA TypeReads ==
    ASSUME TypeInv, NEW w \in Workers, Reads(w)
    PROVE  TypeInv' /\ UNCHANGED data
BY ReadsStart, ReadType DEF Read

(* Every endpoint's second half keeps the types.                           *)
LEMMA TypeWrites ==
    ASSUME TypeInv, NEW w \in Workers,
           \/ CheckoutWrites(w)        \/ QuickReturnWrites(w)
           \/ VoidWrites(w)            \/ EditReservationWrites(w)
           \/ ReserveWrites(w)         \/ InvoiceReservationWrites(w)
           \/ CreateGrnWrites(w)       \/ CancelGrnWrites(w)
           \/ ConsumePartWrites(w)     \/ RemovePartWrites(w)
           \/ AdjustWrites(w)          \/ TakeCountWrites(w)
           \/ TakePostWrites(w)        \/ Abort(w)
    PROVE  TypeInv'
<1>. DEFINE j == job[w]
<1>1. j \in Job /\ RequestOK(j)
  BY DEF TypeInv, TypeOK, JobOK
<1>2. /\ j.item \in Items \cup {NoRef}
      /\ j.units \in Int /\ j.seen \in Nat /\ j.copy \in ResvRow
  BY <1>1 DEF Job
<1>3. Quantity(j.item) \in Nat
  BY QuantityType DEF TypeInv
<1>4. Done(w)
  BY DEF CheckoutWrites, QuickReturnWrites, VoidWrites,
         EditReservationWrites, ReserveWrites, InvoiceReservationWrites,
         CreateGrnWrites, CancelGrnWrites, ConsumePartWrites,
         RemovePartWrites, AdjustWrites, TakeCountWrites, TakePostWrites,
         Abort
<1>5. job' \in [Workers -> Job] /\ JobOK'
  BY <1>4, DoneType
<1>6. /\ qty \in [Items -> Nat] /\ moved \in [Items -> Int]
      /\ refunded \in [Items -> Nat] /\ adjusted \in [Items -> Int]
      /\ sale \in [Sales -> SaleRow] /\ resv \in [Reservations -> ResvRow]
      /\ grn \in [Grns -> GrnRow] /\ part \in [Parts -> PartRow]
      /\ take \in [Takes -> TakeRow]
  BY DEF TypeInv, TypeOK
<1>7. SUFFICES
      /\ qty' \in [Items -> Nat] /\ moved' \in [Items -> Int]
      /\ refunded' \in [Items -> Nat] /\ adjusted' \in [Items -> Int]
      /\ sale' \in [Sales -> SaleRow] /\ resv' \in [Reservations -> ResvRow]
      /\ grn' \in [Grns -> GrnRow] /\ part' \in [Parts -> PartRow]
      /\ take' \in [Takes -> TakeRow]
  BY <1>5 DEF TypeInv, TypeOK
<1>. HIDE DEF j
<1>8. ASSUME NEW s \in Sales, NEW r \in Reservations \cup {NoRef},
             NewSale(s, j, r)
      PROVE  sale' \in [Sales -> SaleRow]
  BY <1>2, <1>6, <1>8 DEF NewSale, SaleRow
<1>9. ASSUME NEW s \in Sales, LinkInvoice(j, s)
      PROVE  resv' \in [Reservations -> ResvRow]
  <2>1. CASE j.ref \notin Reservations
    BY <1>6, <1>9, <2>1 DEF LinkInvoice
  <2>2. CASE j.ref \in Reservations
    <3>1. PICK status \in {"completed", "invoiced"} :
            resv' = [resv EXCEPT
                ![j.ref].invoice = s,
                ![j.ref].status = Put(j.copy.status, status, @)]
      BY <1>9, <2>2 DEF LinkInvoice
    <3>. DEFINE old == resv[j.ref]
                row == [old EXCEPT !.invoice = s,
                            !.status = Put(j.copy.status, status, old.status)]
    <3>2. old \in ResvRow
      BY <1>6, <2>2
    <3>3. status \in AllowedStatus
      BY DEF AllowedStatus
    <3>4. Put(j.copy.status, status, old.status) \in AllowedStatus \cup {"none"}
      BY <3>2, <3>3 DEF Put, ResvRow
    <3>5. row \in ResvRow
      BY <3>2, <3>4 DEF ResvRow
    <3>6. resv' = [resv EXCEPT ![j.ref] = row]
      BY <1>6, <2>2, <3>1
    <3>. HIDE DEF row
    <3>. QED BY <1>6, <3>5, <3>6, UpdateType
  <2>. QED BY <2>1, <2>2
<1>10. CASE CheckoutWrites(w)
  <2>1. j.ref \in Reservations \cup {NoRef}
    BY <1>1, <1>10 DEF CheckoutWrites, RequestOK, j
  <2>2. Move(j.item, Quantity(j.item) - j.units, -j.units)
    BY <1>10 DEF CheckoutWrites, j
  <2>3. qty' \in [Items -> Nat] /\ moved' \in [Items -> Int]
    BY <1>2, <1>3, <1>6, <2>2, MoveType
  <2>4. PICK s \in Sales : NewSale(s, j, j.ref) /\ LinkInvoice(j, s)
    BY <1>10 DEF CheckoutWrites, j
  <2>5. UNCHANGED <<refunded, adjusted, grn, part, take>>
    BY <1>10 DEF CheckoutWrites
  <2>. QED BY <1>6, <1>8, <1>9, <2>1, <2>3, <2>4, <2>5
<1>11. CASE InvoiceReservationWrites(w)
  <2>1. j.ref \in Reservations \cup {NoRef}
    BY <1>1, <1>11 DEF InvoiceReservationWrites, RequestOK, j
  <2>2. Move(j.item, j.seen - j.units, -j.units)
    BY <1>11 DEF InvoiceReservationWrites, j
  <2>3. qty' \in [Items -> Nat] /\ moved' \in [Items -> Int]
    BY <1>2, <1>6, <2>2, MoveType
  <2>4. PICK s \in Sales : NewSale(s, j, j.ref) /\ LinkInvoice(j, s)
    BY <1>11 DEF InvoiceReservationWrites, j
  <2>5. UNCHANGED <<refunded, adjusted, grn, part, take>>
    BY <1>11 DEF InvoiceReservationWrites
  <2>. QED BY <1>6, <1>8, <1>9, <2>1, <2>3, <2>4, <2>5
<1>12. CASE QuickReturnWrites(w)
  <2>1. j.ref \in Sales /\ j.units \in Nat
    BY <1>1, <1>12 DEF QuickReturnWrites, RequestOK, j
  <2>2. /\ Move(j.item, Restocked(j), 2 * j.units)
        /\ refunded' = [refunded EXCEPT ![j.item] = @ + j.units]
        /\ UNCHANGED <<adjusted, resv, grn, part, take>>
    BY <1>12 DEF QuickReturnWrites, j
  <2>3. Restocked(j) \in Int /\ 2 * j.units \in Int
    BY <1>3, <2>1 DEF Restocked
  <2>4. qty' \in [Items -> Nat] /\ moved' \in [Items -> Int]
    BY <1>6, <2>2, <2>3, MoveType
  <2>5. PICK n \in Sales :
          sale' = [sale EXCEPT
            ![j.ref].returned = @ + j.units,
            ![n] = [state |-> "open", item |-> j.item, units |-> -j.units,
                    returned |-> 0, resv |-> sale[j.ref].resv]]
    BY <1>12 DEF QuickReturnWrites, j
  <2>. DEFINE row == [sale[j.ref] EXCEPT !.returned = @ + j.units]
              back == [state |-> "open", item |-> j.item,
                       units |-> -j.units, returned |-> 0,
                       resv |-> sale[j.ref].resv]
              after == [sale EXCEPT ![j.ref] = row]
  <2>6. row \in SaleRow /\ back \in SaleRow
    BY <1>2, <1>6, <2>1 DEF SaleRow
  <2>7. after \in [Sales -> SaleRow]
    BY <1>6, <2>6, UpdateType
  <2>8. sale' = [after EXCEPT ![n] = back]
    BY <2>5
  <2>9. sale' \in [Sales -> SaleRow]
    <3>. HIDE DEF row, back, after
    <3>. QED BY <2>6, <2>7, <2>8, UpdateType
  <2>10. j.item \in Items => refunded[j.item] + j.units \in Nat
    BY <1>6, <2>1
  <2>11. refunded' \in [Items -> Nat]
    BY <1>6, <2>2, <2>10, UpdateType
  <2>. QED BY <1>6, <2>2, <2>4, <2>9, <2>11
<1>13. CASE VoidWrites(w)
  <2>1. /\ Move(j.item, j.seen + j.units, j.units)
        /\ sale' = [sale EXCEPT ![j.ref].state = "voided"]
        /\ UNCHANGED <<refunded, adjusted, resv, grn, part, take>>
    BY <1>13 DEF VoidWrites, j
  <2>2. qty' \in [Items -> Nat] /\ moved' \in [Items -> Int]
    <3>1. /\ j.seen + j.units \in Int /\ j.seen - j.units \in Int
          /\ -j.units \in Int
      BY <1>2
    <3>. QED BY <1>2, <1>6, <2>1, <3>1, MoveType
  <2>3. sale' \in [Sales -> SaleRow]
    BY <1>6, <2>1 DEF SaleRow
  <2>. QED BY <1>6, <2>1, <2>2, <2>3
<1>14. CASE EditReservationWrites(w)
  <2>1. j.status \in AllowedStatus /\ j.units \in 0..MaxUnits
    BY <1>1, <1>14, BoundsAssumption
    DEF EditReservationWrites, RequestOK, Units, j
  <2>2. resv' = [resv EXCEPT
            ![j.ref].status = Put(j.copy.status, j.status, @),
            ![j.ref].item = Put(j.copy.item, j.item, @),
            ![j.ref].units = Put(j.copy.units, j.units, @)]
    BY <1>14 DEF EditReservationWrites, j
  <2>. DEFINE row == [resv[j.ref] EXCEPT
                          !.status = Put(j.copy.status, j.status, @),
                          !.item = Put(j.copy.item, j.item, @),
                          !.units = Put(j.copy.units, j.units, @)]
  <2>3. resv' \in [Reservations -> ResvRow]
    <3>1. resv' = [resv EXCEPT ![j.ref] = row]
      BY <2>2
    <3>2. j.ref \in Reservations => row \in ResvRow
      BY <1>2, <1>6, <2>1 DEF ResvRow, Put
    <3>. HIDE DEF row
    <3>. QED BY <1>6, <3>1, <3>2, UpdateType
  <2>. QED BY <1>6, <1>14, <2>3 DEF EditReservationWrites
<1>15. CASE ReserveWrites(w)
  <2>1. resv' = [resv EXCEPT
            ![j.ref].status = Put(j.copy.status, "reserved", @)]
    BY <1>15 DEF ReserveWrites, j
  <2>2. resv' \in [Reservations -> ResvRow]
    BY <1>2, <1>6, <2>1 DEF ResvRow, Put, AllowedStatus
  <2>. QED BY <1>6, <1>15, <2>2 DEF ReserveWrites
<1>16. CASE CreateGrnWrites(w)
  <2>1. j.ref \in Orders \cup {NoRef} /\ j.units \in Nat
    BY <1>1, <1>16 DEF CreateGrnWrites, RequestOK, j
  <2>2. /\ Move(j.item, Quantity(j.item) + j.units, j.units)
        /\ UNCHANGED <<refunded, adjusted, sale, resv, part, take>>
    BY <1>16 DEF CreateGrnWrites, j
  <2>3. qty' \in [Items -> Nat] /\ moved' \in [Items -> Int]
    BY <1>2, <1>3, <1>6, <2>2, MoveType
  <2>4. PICK g \in Grns :
          grn' = [grn EXCEPT ![g] = [state |-> "active", item |-> j.item,
                                     units |-> j.units, po |-> j.ref]]
    BY <1>16 DEF CreateGrnWrites, j
  <2>5. grn' \in [Grns -> GrnRow]
    BY <1>2, <1>6, <2>1, <2>4 DEF GrnRow
  <2>. QED BY <1>6, <2>2, <2>3, <2>5
<1>17. CASE CancelGrnWrites(w)
  <2>1. /\ Move(j.item, j.seen - j.units, -j.units)
        /\ grn' = [grn EXCEPT ![j.ref].state = "cancelled"]
        /\ UNCHANGED <<refunded, adjusted, sale, resv, part, take>>
    BY <1>17 DEF CancelGrnWrites, j
  <2>2. qty' \in [Items -> Nat] /\ moved' \in [Items -> Int]
    <3>1. /\ j.seen + j.units \in Int /\ j.seen - j.units \in Int
          /\ -j.units \in Int
      BY <1>2
    <3>. QED BY <1>2, <1>6, <2>1, <3>1, MoveType
  <2>3. grn' \in [Grns -> GrnRow]
    BY <1>6, <2>1 DEF GrnRow
  <2>. QED BY <1>6, <2>1, <2>2, <2>3
<1>18. CASE ConsumePartWrites(w)
  <2>1. j.units \in Nat
    BY <1>1, <1>18 DEF ConsumePartWrites, RequestOK, j
  <2>2. /\ Move(j.item, j.seen - j.units, -j.units)
        /\ UNCHANGED <<refunded, adjusted, sale, resv, grn, take>>
    BY <1>18 DEF ConsumePartWrites, j
  <2>3. qty' \in [Items -> Nat] /\ moved' \in [Items -> Int]
    BY <1>2, <1>6, <2>2, MoveType
  <2>4. PICK p \in Parts :
          part' = [part EXCEPT ![p] = [item |-> j.item, units |-> j.units]]
    BY <1>18 DEF ConsumePartWrites, j
  <2>5. part' \in [Parts -> PartRow]
    BY <1>2, <1>6, <2>1, <2>4 DEF PartRow
  <2>. QED BY <1>6, <2>2, <2>3, <2>5
<1>19. CASE RemovePartWrites(w)
  <2>1. /\ Move(j.item, j.seen + j.units, j.units)
        /\ part' = [part EXCEPT ![j.ref] = NoPart]
        /\ UNCHANGED <<refunded, adjusted, sale, resv, grn, take>>
    BY <1>19 DEF RemovePartWrites, j
  <2>2. qty' \in [Items -> Nat] /\ moved' \in [Items -> Int]
    <3>1. /\ j.seen + j.units \in Int /\ j.seen - j.units \in Int
          /\ -j.units \in Int
      BY <1>2
    <3>. QED BY <1>2, <1>6, <2>1, <3>1, MoveType
  <2>3. part' \in [Parts -> PartRow]
    BY <1>6, <2>1 DEF PartRow, NoPart
  <2>. QED BY <1>6, <2>1, <2>2, <2>3
<1>20. CASE AdjustWrites(w)
  <2>1. /\ Move(j.item, j.seen + j.units, j.units)
        /\ adjusted' = [adjusted EXCEPT ![j.item] = @ + j.units]
        /\ UNCHANGED <<refunded, sale, resv, grn, part, take>>
    BY <1>20 DEF AdjustWrites, j
  <2>2. qty' \in [Items -> Nat] /\ moved' \in [Items -> Int]
    <3>1. /\ j.seen + j.units \in Int /\ j.seen - j.units \in Int
          /\ -j.units \in Int
      BY <1>2
    <3>. QED BY <1>2, <1>6, <2>1, <3>1, MoveType
  <2>3. adjusted' \in [Items -> Int]
    <3>1. j.item \in Items => adjusted[j.item] + j.units \in Int
      BY <1>2, <1>6
    <3>. QED BY <1>6, <2>1, <3>1, UpdateType
  <2>. QED BY <1>6, <2>1, <2>2, <2>3
<1>21. CASE TakeCountWrites(w)
  <2>1. j.units \in Nat
    BY <1>1, <1>21 DEF TakeCountWrites, RequestOK, j
  <2>2. take' = [take EXCEPT ![j.ref] =
            [status |-> Put(j.status, "draft", @.status), item |-> j.item,
             system |-> j.seen, physical |-> j.units]]
    BY <1>21 DEF TakeCountWrites, j
  <2>3. take' \in [Takes -> TakeRow]
    BY <1>2, <1>6, <2>1, <2>2 DEF TakeRow, Put
  <2>. QED BY <1>6, <1>21, <2>3 DEF TakeCountWrites
<1>22. CASE TakePostWrites(w)
  <2>1. /\ take' = [take EXCEPT ![j.ref].status = "posted"]
        /\ UNCHANGED <<refunded, sale, resv, grn, part>>
        /\ \/ UNCHANGED <<qty, moved, adjusted>>
           \/ /\ Move(j.item, j.units, j.units - j.seen)
              /\ adjusted' = [adjusted EXCEPT
                                ![j.item] = @ + (j.units - j.seen)]
    BY <1>22 DEF TakePostWrites, j
  <2>2. take' \in [Takes -> TakeRow]
    <3>1. take' = [take EXCEPT ![j.ref] =
                      [take[j.ref] EXCEPT !.status = "posted"]]
      BY <2>1
    <3>2. j.ref \in Takes =>
            [take[j.ref] EXCEPT !.status = "posted"] \in TakeRow
      BY <1>6 DEF TakeRow
    <3>. QED BY <1>6, <3>1, <3>2, UpdateType
  <2>3. CASE UNCHANGED <<qty, moved, adjusted>>
    BY <1>6, <2>1, <2>2, <2>3
  <2>4. CASE /\ Move(j.item, j.units, j.units - j.seen)
             /\ adjusted' = [adjusted EXCEPT
                                ![j.item] = @ + (j.units - j.seen)]
    <3>1. qty' \in [Items -> Nat] /\ moved' \in [Items -> Int]
      BY <1>2, <1>6, <2>4, MoveType
    <3>2. adjusted' \in [Items -> Int]
      <4>1. j.item \in Items => adjusted[j.item] + (j.units - j.seen) \in Int
        BY <1>2, <1>6
      <4>. QED BY <1>6, <2>4, <4>1, UpdateType
    <3>. QED BY <1>6, <2>1, <2>2, <3>1, <3>2
  <2>. QED BY <2>1, <2>3, <2>4
<1>23. CASE Abort(w)
  BY <1>6, <1>23 DEF Abort, data
<1>. QED BY <1>10, <1>11, <1>12, <1>13, <1>14, <1>15, <1>16, <1>17, <1>18,
            <1>19, <1>20, <1>21, <1>22, <1>23

(* The type invariant is inductive.                                        *)
LEMMA TypeNext == TypeInv /\ [Next]_vars => TypeInv'
<1>. SUFFICES ASSUME TypeInv, [Next]_vars PROVE TypeInv'
  OBVIOUS
<1>1. CASE UNCHANGED vars
  BY <1>1 DEF TypeInv, TypeOK, JobOK, vars
<1>2. ASSUME NEW w \in Workers, CreateReservation(w) PROVE TypeInv'
  <2>1. Units \subseteq 0..MaxUnits
    BY BoundsAssumption DEF Units
  <2>2. resv' \in [Reservations -> ResvRow]
    BY <1>2, <2>1
    DEF CreateReservation, TypeInv, TypeOK, ResvRow, AllowedStatus
  <2>. QED BY <1>2, <2>2 DEF CreateReservation, TypeInv, TypeOK, JobOK
<1>. QED BY <1>1, <1>2, TypeReads, TypeWrites DEF Next, Reads

(* Quantities stay natural numbers and every row well-formed, whatever the *)
(* endpoints, the bounds and the interleaving: the CHECK constraint and    *)
(* the row formats hold in every reachable state.                          *)
THEOREM TypeCorrect == Spec => []TypeOK
<1>1. Spec => []TypeInv
  BY TypeInit, TypeNext, PTL DEF Spec
<1>2. TypeInv => TypeOK
  BY DEF TypeInv
<1>. QED BY <1>1, <1>2, PTL

-----------------------------------------------------------------------------
(* Only invoices, refunds and voids write the sales.                       *)
LEMMA OtherStepsKeepSales ==
    ASSUME TypeInv, [Next]_vars
    PROVE  \/ UNCHANGED sale
           \/ \E w \in Workers :
                \/ CheckoutWrites(w) \/ InvoiceReservationWrites(w)
                \/ QuickReturnWrites(w) \/ VoidWrites(w)
<1>1. ASSUME NEW w \in Workers, Reads(w)
      PROVE  UNCHANGED sale
  BY <1>1, TypeReads DEF data
<1>2. ASSUME NEW w \in Workers,
             \/ CreateReservation(w) \/ EditReservationWrites(w)
             \/ ReserveWrites(w)     \/ CreateGrnWrites(w)
             \/ CancelGrnWrites(w)   \/ ConsumePartWrites(w)
             \/ RemovePartWrites(w)  \/ AdjustWrites(w)
             \/ TakeCountWrites(w)   \/ TakePostWrites(w)
             \/ Abort(w)
      PROVE  UNCHANGED sale
  BY <1>2
  DEF CreateReservation, EditReservationWrites, ReserveWrites,
      CreateGrnWrites, CancelGrnWrites, ConsumePartWrites,
      RemovePartWrites, AdjustWrites, TakeCountWrites, TakePostWrites,
      Abort, data
<1>3. CASE UNCHANGED vars
  BY <1>3 DEF vars
<1>. QED BY <1>1, <1>2, <1>3 DEF Next, Reads

(* However many refunds run at once, and whatever else does, the check of  *)
(* get_returned_qty_for_sale_item under the lock keeps each line from      *)
(* returning more than it sold.                                            *)
THEOREM ReturnsBounded == Spec => []ReturnedWithinSold
<1>1. Init => ReturnedWithinSold
  BY DEF Init, ReturnedWithinSold, NoSale
<1>2. TypeInv /\ ReturnedWithinSold /\ [Next]_vars => ReturnedWithinSold'
  <2>. SUFFICES ASSUME TypeInv, ReturnedWithinSold, [Next]_vars
                PROVE  ReturnedWithinSold'
    OBVIOUS
  <2>1. sale \in [Sales -> SaleRow]
    BY DEF TypeInv, TypeOK
  <2>2. CASE UNCHANGED sale
    BY <2>2 DEF ReturnedWithinSold
  <2>3. ASSUME NEW s \in Sales, NEW r, NEW w \in Workers,
               NewSale(s, job[w], r)
        PROVE  ReturnedWithinSold'
    <3>1. job[w].units \in Int
      BY DEF TypeInv, TypeOK, Job
    <3>2. /\ sale'[s].units = job[w].units /\ sale'[s].returned = 0
          /\ \A t \in Sales \ {s} : sale'[t] = sale[t]
      BY <2>1, <2>3 DEF NewSale
    <3>. QED BY <3>1, <3>2 DEF ReturnedWithinSold
  <2>4. ASSUME NEW w \in Workers, QuickReturnWrites(w)
        PROVE  ReturnedWithinSold'
    <3>. DEFINE j == job[w]
    <3>1. j \in Job /\ j.ref \in Sales /\ j.units \in Nat
      BY <2>4 DEF QuickReturnWrites, TypeInv, TypeOK, JobOK, RequestOK
    <3>2. j.units <= sale[j.ref].units - sale[j.ref].returned
      BY <2>4 DEF QuickReturnWrites, Returnable
    <3>3. PICK n \in Sales :
            sale' = [sale EXCEPT
              ![j.ref].returned = @ + j.units,
              ![n] = [state |-> "open", item |-> j.item, units |-> -j.units,
                      returned |-> 0, resv |-> sale[j.ref].resv]]
      BY <2>4 DEF QuickReturnWrites
    <3>. HIDE DEF j
    <3>4. SUFFICES ASSUME NEW s \in Sales, sale'[s].units > 0
                   PROVE  sale'[s].returned <= sale'[s].units
      BY DEF ReturnedWithinSold
    <3>5. CASE s = n
      BY <2>1, <3>1, <3>3, <3>4, <3>5
    <3>6. CASE s # n /\ s = j.ref
      <4>1. /\ sale'[s].units = sale[s].units
            /\ sale'[s].returned = sale[s].returned + j.units
        BY <2>1, <3>3, <3>6 DEF SaleRow
      <4>2. sale[s].units \in Int /\ sale[s].returned \in Nat
        BY <2>1 DEF SaleRow
      <4>. QED BY <3>1, <3>2, <3>6, <4>1, <4>2
    <3>7. CASE s # n /\ s # j.ref
      <4>1. sale'[s] = sale[s]
        BY <2>1, <3>3, <3>7
      <4>. QED BY <3>4, <4>1 DEF ReturnedWithinSold
    <3>. QED BY <3>5, <3>6, <3>7
  <2>5. ASSUME NEW w \in Workers, VoidWrites(w)
        PROVE  ReturnedWithinSold'
    <3>1. sale' = [sale EXCEPT ![job[w].ref].state = "voided"]
      BY <2>5 DEF VoidWrites
    <3>2. \A s \in Sales : /\ sale'[s].units = sale[s].units
                          /\ sale'[s].returned = sale[s].returned
      BY <2>1, <3>1 DEF SaleRow
    <3>. QED BY <3>2 DEF ReturnedWithinSold
  <2>6. ASSUME NEW w \in Workers, CheckoutWrites(w)
        PROVE  ReturnedWithinSold'
    BY <2>3, <2>6 DEF CheckoutWrites
  <2>7. ASSUME NEW w \in Workers, InvoiceReservationWrites(w)
        PROVE  ReturnedWithinSold'
    BY <2>3, <2>7 DEF InvoiceReservationWrites
  <2>. QED BY <2>2, <2>4, <2>5, <2>6, <2>7, OtherStepsKeepSales
<1>. QED BY <1>1, <1>2, TypeInit, TypeNext, PTL DEF Spec

-----------------------------------------------------------------------------
(* Every request in progress has a fresh copy.                             *)
FreshCopies == \A w \in Workers : Fresh(job[w])

(* The history is ahead of the quantity by the units that quick refunds    *)
(* put back, for these are booked twice.                                   *)
HistoryAhead == \A i \in Items : moved[i] = qty[i] - Opening + refunded[i]

(* A movement of as much as the quantity changes keeps the distance.       *)
LEMMA MoveDrift ==
    ASSUME TypeInv, HistoryAhead, NEW i, NEW new \in Int,
           NEW delta \in Int, Move(i, new, delta),
           i \in Items => new = qty[i] + delta, UNCHANGED refunded
    PROVE  HistoryAhead'
<1>1. /\ qty \in [Items -> Nat] /\ moved \in [Items -> Int]
      /\ refunded \in [Items -> Nat] /\ Opening \in Nat
  BY BoundsAssumption DEF TypeInv, TypeOK
<1>2. CASE i \in Items
  <2>1. /\ qty' = [qty EXCEPT ![i] = new]
        /\ moved' = [moved EXCEPT ![i] = @ + delta]
    BY <1>2 DEF Move
  <2>. SUFFICES ASSUME NEW k \in Items
                PROVE  moved'[k] = qty'[k] - Opening + refunded[k]
    BY DEF HistoryAhead
  <2>2. moved[k] = qty[k] - Opening + refunded[k]
    BY DEF HistoryAhead
  <2>3. CASE k = i
    <3>1. moved'[k] = moved[k] + delta /\ qty'[k] = qty[k] + delta
      BY <1>1, <1>2, <2>1, <2>3
    <3>2. /\ moved[k] \in Int /\ qty[k] \in Int /\ refunded[k] \in Int
      BY <1>1
    <3>. QED BY <1>1, <2>2, <3>1, <3>2
  <2>4. CASE k # i
    BY <1>1, <2>1, <2>2, <2>4
  <2>. QED BY <2>3, <2>4
<1>3. CASE i \notin Items
  BY <1>3 DEF Move, HistoryAhead
<1>. QED BY <1>2, <1>3

(* With fresh copies every step keeps it.                                  *)
LEMMA DriftNext ==
    TypeInv /\ HistoryAhead /\ FreshCopies /\ [Next]_vars
        => HistoryAhead'
<1>. SUFFICES ASSUME TypeInv, HistoryAhead, FreshCopies, [Next]_vars
              PROVE  HistoryAhead'
  OBVIOUS
<1>1. CASE UNCHANGED <<qty, moved, refunded>>
  BY <1>1 DEF HistoryAhead
<1>2. ASSUME NEW w \in Workers
      PROVE  /\ job[w].item \in Items \cup {NoRef} /\ job[w].units \in Int
             /\ job[w].seen \in Nat /\ Quantity(job[w].item) \in Nat
             /\ job[w].item \in Items =>
                    Quantity(job[w].item) = qty[job[w].item]
  <2>1. job[w] \in Job
    BY DEF TypeInv, TypeOK
  <2>2. Quantity(job[w].item) \in Nat
    BY QuantityType DEF TypeInv
  <2>. QED BY <2>1, <2>2 DEF Job, Quantity
<1>3. ASSUME NEW w \in Workers, CheckoutWrites(w)
      PROVE  HistoryAhead'
  <2>1. /\ Move(job[w].item, Quantity(job[w].item) - job[w].units,
                -job[w].units)
        /\ UNCHANGED refunded
    BY <1>3 DEF CheckoutWrites
  <2>2. /\ Quantity(job[w].item) - job[w].units \in Int
        /\ -job[w].units \in Int
        /\ Quantity(job[w].item) - job[w].units =
                Quantity(job[w].item) + (-job[w].units)
    BY <1>2
  <2>. QED BY <1>2, <2>1, <2>2, MoveDrift
<1>4. ASSUME NEW w \in Workers, CreateGrnWrites(w)
      PROVE  HistoryAhead'
  <2>1. /\ Move(job[w].item, Quantity(job[w].item) + job[w].units,
                job[w].units)
        /\ UNCHANGED refunded
    BY <1>4 DEF CreateGrnWrites
  <2>2. Quantity(job[w].item) + job[w].units \in Int
    BY <1>2
  <2>. QED BY <1>2, <2>1, <2>2, MoveDrift
<1>5. ASSUME NEW w \in Workers,
             \/ VoidWrites(w) \/ RemovePartWrites(w) \/ AdjustWrites(w)
      PROVE  HistoryAhead'
  <2>1. /\ Move(job[w].item, job[w].seen + job[w].units, job[w].units)
        /\ UNCHANGED refunded /\ job[w].op \in StaleWriters
    BY <1>5 DEF VoidWrites, RemovePartWrites, AdjustWrites, StaleWriters
  <2>2. job[w].seen + job[w].units \in Int
    BY <1>2
  <2>. QED BY <1>2, <2>1, <2>2, MoveDrift DEF FreshCopies, Fresh
<1>6. ASSUME NEW w \in Workers,
             \/ InvoiceReservationWrites(w) \/ CancelGrnWrites(w)
             \/ ConsumePartWrites(w)
      PROVE  HistoryAhead'
  <2>1. /\ Move(job[w].item, job[w].seen - job[w].units, -job[w].units)
        /\ UNCHANGED refunded /\ job[w].op \in StaleWriters
    BY <1>6 DEF InvoiceReservationWrites, CancelGrnWrites,
                ConsumePartWrites, StaleWriters
  <2>2. /\ job[w].seen - job[w].units \in Int /\ -job[w].units \in Int
        /\ job[w].seen - job[w].units = job[w].seen + (-job[w].units)
    BY <1>2
  <2>. QED BY <1>2, <2>1, <2>2, MoveDrift DEF FreshCopies, Fresh
<1>7. ASSUME NEW w \in Workers, TakePostWrites(w)
      PROVE  HistoryAhead'
  <2>1. /\ UNCHANGED refunded /\ job[w].op \in StaleWriters
        /\ \/ UNCHANGED <<qty, moved>>
           \/ Move(job[w].item, job[w].units, job[w].units - job[w].seen)
    BY <1>7 DEF TakePostWrites, StaleWriters
  <2>2. CASE UNCHANGED <<qty, moved>>
    BY <1>1, <2>1, <2>2
  <2>3. CASE Move(job[w].item, job[w].units, job[w].units - job[w].seen)
    <3>1. /\ job[w].units - job[w].seen \in Int
          /\ job[w].units = job[w].seen + (job[w].units - job[w].seen)
      BY <1>2
    <3>. QED BY <1>2, <2>1, <2>3, <3>1, MoveDrift DEF FreshCopies, Fresh
  <2>. QED BY <2>1, <2>2, <2>3
<1>8. ASSUME NEW w \in Workers, QuickReturnWrites(w)
      PROVE  HistoryAhead'
  <2>. DEFINE i == job[w].item
              u == job[w].units
  <2>1. /\ Move(i, Quantity(i) + u, 2 * u)
        /\ refunded' = [refunded EXCEPT ![i] = @ + u]
    BY <1>8 DEF QuickReturnWrites, Restocked
  <2>2. /\ qty \in [Items -> Nat] /\ moved \in [Items -> Int]
        /\ refunded \in [Items -> Nat] /\ Opening \in Nat
    BY BoundsAssumption DEF TypeInv, TypeOK
  <2>3. u \in Int /\ (i \in Items => Quantity(i) = qty[i])
    BY <1>2
  <2>. HIDE DEF i, u
  <2>. SUFFICES ASSUME NEW k \in Items
                PROVE  moved'[k] = qty'[k] - Opening + refunded'[k]
    BY DEF HistoryAhead
  <2>4. /\ moved[k] = qty[k] - Opening + refunded[k]
        /\ moved[k] \in Int /\ qty[k] \in Int /\ refunded[k] \in Int
    BY <2>2 DEF HistoryAhead
  <2>5. CASE k = i
    <3>1. /\ moved'[k] = moved[k] + 2 * u /\ qty'[k] = qty[k] + u
          /\ refunded'[k] = refunded[k] + u
      BY <2>1, <2>2, <2>3, <2>5 DEF Move
    <3>. QED BY <2>2, <2>3, <2>4, <3>1
  <2>6. CASE k # i
    <3>1. /\ moved'[k] = moved[k] /\ qty'[k] = qty[k]
          /\ refunded'[k] = refunded[k]
      BY <2>1, <2>2, <2>6 DEF Move
    <3>. QED BY <2>4, <3>1
  <2>. QED BY <2>5, <2>6
<1>9. ASSUME NEW w \in Workers, Reads(w)
      PROVE  UNCHANGED <<qty, moved, refunded>>
  BY <1>9, TypeReads DEF data
<1>10. ASSUME NEW w \in Workers,
              \/ CreateReservation(w) \/ EditReservationWrites(w)
              \/ ReserveWrites(w)     \/ TakeCountWrites(w)
              \/ Abort(w)
       PROVE  UNCHANGED <<qty, moved, refunded>>
  BY <1>10 DEF CreateReservation, EditReservationWrites, ReserveWrites,
               TakeCountWrites, Abort, data
<1>11. CASE UNCHANGED vars
  BY <1>1, <1>11 DEF vars
<1>. QED BY <1>1, <1>3, <1>4, <1>5, <1>6, <1>7, <1>8, <1>9, <1>10, <1>11
         DEF Next, Reads

(* Every other step frees its worker, or creates a draft reservation.      *)
LEMMA WritesFree ==
    ASSUME NEW w \in Workers,
           \/ CheckoutWrites(w)        \/ QuickReturnWrites(w)
           \/ VoidWrites(w)            \/ EditReservationWrites(w)
           \/ ReserveWrites(w)         \/ InvoiceReservationWrites(w)
           \/ CreateGrnWrites(w)       \/ CancelGrnWrites(w)
           \/ ConsumePartWrites(w)     \/ RemovePartWrites(w)
           \/ AdjustWrites(w)          \/ TakeCountWrites(w)
           \/ TakePostWrites(w)        \/ Abort(w)
    PROVE  Done(w)
BY DEF CheckoutWrites, QuickReturnWrites, VoidWrites, EditReservationWrites,
       ReserveWrites, InvoiceReservationWrites, CreateGrnWrites,
       CancelGrnWrites, ConsumePartWrites, RemovePartWrites, AdjustWrites,
       TakeCountWrites, TakePostWrites, Abort

(* With at most one worker, copies are fresh when they are used.           *)
LEMMA FreshSerial ==
    ASSUME \A v, w \in Workers : v = w,
           TypeInv, FreshCopies, [Next]_vars
    PROVE  FreshCopies'
<1>1. job \in [Workers -> Job]
  BY DEF TypeInv, TypeOK
<1>2. CASE UNCHANGED <<qty, job>>
  BY <1>2 DEF FreshCopies, Fresh
<1>3. ASSUME NEW w \in Workers, Done(w) PROVE FreshCopies'
  BY <1>1, <1>3 DEF Done, FreshCopies, Fresh, StaleWriters, Idle,
                    StockRequest, Request
<1>4. ASSUME NEW w \in Workers, Reads(w) PROVE FreshCopies'
  <2>1. PICK request \in Job : Read(w, request) /\ Fresh(request)
    BY <1>4, ReadsStart
  <2>2. qty' = qty /\ job' = [job EXCEPT ![w] = request]
    BY <2>1 DEF Read, data
  <2>. QED BY <1>1, <2>1, <2>2 DEF FreshCopies, Fresh
<1>5. ASSUME NEW w \in Workers, CreateReservation(w) PROVE FreshCopies'
  BY <1>2, <1>5 DEF CreateReservation
<1>. QED BY <1>2, <1>3, <1>4, <1>5, WritesFree DEF Next, Reads, vars

(* Requests in progress are for enabled endpoints.                         *)
EnabledOps == \A w \in Workers : job[w].op \in Endpoints[w] \cup {"idle"}

LEMMA EnabledNext == TypeInv /\ EnabledOps /\ [Next]_vars => EnabledOps'
<1>. SUFFICES ASSUME TypeInv, EnabledOps, [Next]_vars PROVE EnabledOps'
  OBVIOUS
<1>1. job \in [Workers -> Job]
  BY DEF TypeInv, TypeOK
<1>2. CASE UNCHANGED job
  BY <1>2 DEF EnabledOps
<1>3. ASSUME NEW w \in Workers, Done(w) PROVE EnabledOps'
  BY <1>1, <1>3 DEF Done, EnabledOps, Idle, StockRequest, Request
<1>4. ASSUME NEW w \in Workers, Reads(w) PROVE EnabledOps'
  BY <1>1, <1>4, ReadsStart DEF EnabledOps, Read
<1>5. ASSUME NEW w \in Workers, CreateReservation(w) PROVE EnabledOps'
  BY <1>2, <1>5 DEF CreateReservation
<1>. QED BY <1>2, <1>3, <1>4, <1>5, WritesFree DEF Next, Reads, vars

(* Without quick refunds nothing is booked twice.                          *)
NoRefunds == \A i \in Items : refunded[i] = 0

LEMMA NoRefundsNext ==
    ASSUME TypeInv, \A w \in Workers : "quick_return" \notin Endpoints[w],
           EnabledOps, NoRefunds, [Next]_vars
    PROVE  NoRefunds'
<1>1. ASSUME NEW w \in Workers PROVE ~ QuickReturnWrites(w)
  BY DEF EnabledOps, QuickReturnWrites
<1>2. ASSUME NEW w \in Workers, Reads(w) PROVE UNCHANGED refunded
  BY <1>2, TypeReads DEF data
<1>3. ASSUME NEW w \in Workers,
             \/ CheckoutWrites(w)    \/ CreateReservation(w)
             \/ VoidWrites(w)        \/ EditReservationWrites(w)
             \/ ReserveWrites(w)     \/ InvoiceReservationWrites(w)
             \/ CreateGrnWrites(w)   \/ CancelGrnWrites(w)
             \/ ConsumePartWrites(w) \/ RemovePartWrites(w)
             \/ AdjustWrites(w)      \/ TakeCountWrites(w)
             \/ TakePostWrites(w)    \/ Abort(w)
      PROVE  UNCHANGED refunded
  BY <1>3
  DEF CheckoutWrites, VoidWrites, CreateReservation, EditReservationWrites,
      ReserveWrites, InvoiceReservationWrites, CreateGrnWrites,
      CancelGrnWrites, ConsumePartWrites, RemovePartWrites, AdjustWrites,
      TakeCountWrites, TakePostWrites, Abort, data
<1>4. UNCHANGED vars => UNCHANGED refunded
  BY DEF vars, data
<1>5. UNCHANGED refunded
  BY <1>1, <1>2, <1>3, <1>4 DEF Next, Reads
<1>. QED BY <1>5 DEF NoRefunds

LEMMA AheadOfNothing ==
    TypeInv /\ HistoryAhead /\ NoRefunds => StockReconciles
<1>. SUFFICES ASSUME TypeInv, HistoryAhead, NoRefunds, NEW i \in Items
              PROVE  moved[i] = qty[i] - Opening
  BY DEF StockReconciles
<1>1. moved[i] = qty[i] - Opening + 0
  BY DEF HistoryAhead, NoRefunds
<1>2. qty[i] \in Int /\ Opening \in Int
  BY BoundsAssumption DEF TypeInv, TypeOK
<1>. QED BY <1>1, <1>2

LEMMA AheadInit ==
    Init => HistoryAhead /\ NoRefunds /\ EnabledOps /\ FreshCopies
BY BoundsAssumption
   DEF Init, HistoryAhead, NoRefunds, EnabledOps, FreshCopies, Fresh,
       StaleWriters, Idle, StockRequest, Request

(* Served one request at a time, and without the quick refund, quantity    *)
(* and movement history reconcile, whatever other endpoints are served:    *)
(* the double booking is the only reason why they may not.                 *)
THEOREM SerialStockReconciles ==
    ASSUME \A v, w \in Workers : v = w,
           \A w \in Workers : "quick_return" \notin Endpoints[w]
    PROVE  Spec => []StockReconciles
BY AheadInit, AheadOfNothing, TypeInit, TypeNext, DriftNext, FreshSerial,
   EnabledNext, NoRefundsNext, PTL DEF Spec

(* So do they however many requests run at once, to the other endpoints    *)
(* that take the quantity under the lock: no update is lost.               *)
THEOREM LockedStockReconciles ==
    ASSUME \A w \in Workers :
              Endpoints[w] \subseteq LockedEndpoints \ {"quick_return"}
    PROVE  Spec => []StockReconciles
<1>1. EnabledOps => FreshCopies
  BY DEF EnabledOps, FreshCopies, Fresh, StaleWriters, LockedEndpoints
<1>2. \A w \in Workers : "quick_return" \notin Endpoints[w]
  OBVIOUS
<1>3. TypeInv /\ EnabledOps /\ NoRefunds /\ [Next]_vars => NoRefunds'
  BY <1>2, NoRefundsNext
<1>. QED BY <1>1, <1>3, AheadInit, AheadOfNothing, TypeInit, TypeNext,
            DriftNext, EnabledNext, PTL DEF Spec

-----------------------------------------------------------------------------
(* Every invoice in the making sees the item and its reservation as they   *)
(* are.                                                                    *)
SellersFresh == \A w \in Workers : SellerFresh(job[w])

(* Rows of invoices not yet made sell nothing.                             *)
NoUnitsBefore == \A s \in Sales : sale[s].state = "none" => sale[s].units = 0

LEMMA SellersFreshNext ==
    ASSUME \A v, w \in Workers : v = w,
           TypeInv, SellersFresh, [Next]_vars
    PROVE  SellersFresh'
<1>1. job \in [Workers -> Job]
  BY DEF TypeInv, TypeOK
<1>2. CASE UNCHANGED <<qty, resv, job>>
  BY <1>2 DEF SellersFresh, SellerFresh
<1>3. ASSUME NEW w \in Workers, Done(w) PROVE SellersFresh'
  BY <1>1, <1>3 DEF Done, SellersFresh, SellerFresh, Sellers, Idle,
                    StockRequest, Request
<1>4. ASSUME NEW w \in Workers, CreateReservation(w) PROVE SellersFresh'
  <2>1. job[w] = Idle /\ UNCHANGED job
    BY <1>4 DEF CreateReservation
  <2>. QED BY <1>1, <2>1 DEF SellersFresh, SellerFresh, Sellers, Idle,
                             StockRequest, Request
<1>5. ASSUME NEW w \in Workers, Reads(w) PROVE SellersFresh'
  <2>1. PICK request \in Job : Read(w, request) /\ SellerFresh(request)
    BY <1>5, ReadsStart
  <2>2. qty' = qty /\ resv' = resv /\ job' = [job EXCEPT ![w] = request]
    BY <2>1 DEF Read, data
  <2>. QED BY <1>1, <2>1, <2>2 DEF SellersFresh, SellerFresh
<1>. QED BY <1>2, <1>3, <1>4, <1>5, WritesFree DEF Next, Reads, vars

LEMMA NoUnitsBeforeNext ==
    TypeInv /\ NoUnitsBefore /\ [Next]_vars => NoUnitsBefore'
<1>. SUFFICES ASSUME TypeInv, NoUnitsBefore, [Next]_vars
              PROVE  NoUnitsBefore'
  OBVIOUS
<1>1. sale \in [Sales -> SaleRow]
  BY DEF TypeInv, TypeOK
<1>2. CASE UNCHANGED sale
  BY <1>2 DEF NoUnitsBefore
<1>3. ASSUME NEW s \in Sales, NEW r, NEW j, NewSale(s, j, r)
      PROVE  NoUnitsBefore'
  BY <1>1, <1>3 DEF NewSale, NoUnitsBefore
<1>4. ASSUME NEW w \in Workers, QuickReturnWrites(w)
      PROVE  NoUnitsBefore'
  <2>. DEFINE j == job[w]
              back == [state |-> "open", item |-> j.item,
                       units |-> -j.units, returned |-> 0,
                       resv |-> sale[j.ref].resv]
  <2>1. PICK n \in Sales :
          sale' = [sale EXCEPT ![j.ref].returned = @ + j.units, ![n] = back]
    BY <1>4 DEF QuickReturnWrites
  <2>2. \A s \in Sales \ {n} : /\ sale'[s].state = sale[s].state
                               /\ sale'[s].units = sale[s].units
    BY <1>1, <2>1 DEF SaleRow
  <2>3. sale'[n].state = "open"
    BY <1>1, <2>1
  <2>. QED BY <2>2, <2>3 DEF NoUnitsBefore
<1>5. ASSUME NEW w \in Workers, VoidWrites(w)
      PROVE  NoUnitsBefore'
  <2>1. sale' = [sale EXCEPT ![job[w].ref].state = "voided"]
    BY <1>5 DEF VoidWrites
  <2>2. \A s \in Sales : /\ sale'[s].units = sale[s].units
                         /\ sale'[s].state \in {sale[s].state, "voided"}
    BY <1>1, <2>1 DEF SaleRow
  <2>. QED BY <2>2 DEF NoUnitsBefore
<1>6. ASSUME NEW w \in Workers, CheckoutWrites(w) \/
                                InvoiceReservationWrites(w)
      PROVE  NoUnitsBefore'
  BY <1>3, <1>6 DEF CheckoutWrites, InvoiceReservationWrites
<1>. QED BY <1>2, <1>4, <1>5, <1>6, OtherStepsKeepSales

(* Served one request at a time, an invoice never sells what another       *)
(* reservation holds: the copies the availability check reads are current. *)
THEOREM SerialHoldsKept ==
    ASSUME \A v, w \in Workers : v = w
    PROVE  Spec => HoldsKept
<1>. DEFINE Kept == \A s \in Sales : Sells(s) =>
        qty'[sale'[s].item] >= Reserved(sale'[s].item, sale'[s].resv)
<1>1. TypeInv /\ SellersFresh /\ NoUnitsBefore /\ [Next]_vars => [Kept]_vars
  <2>. SUFFICES ASSUME TypeInv, SellersFresh, NoUnitsBefore, [Next]_vars,
                       NEW s \in Sales, Sells(s)
                PROVE  qty'[sale'[s].item] >=
                            Reserved(sale'[s].item, sale'[s].resv)
    OBVIOUS
  <2>. DEFINE i == sale'[s].item
  <2>1. /\ sale \in [Sales -> SaleRow] /\ qty \in [Items -> Nat]
        /\ resv \in [Reservations -> ResvRow]
    BY DEF TypeInv, TypeOK
  <2>2. sale[s].state = "none" /\ sale[s].units = 0 /\ sale'[s].units > 0
        /\ i \in Items
    BY DEF Sells, NoUnitsBefore
  <2>3. ~ UNCHANGED sale
    BY <2>2
  <2>4. ASSUME NEW w \in Workers, VoidWrites(w) PROVE FALSE
    <3>1. sale' = [sale EXCEPT ![job[w].ref].state = "voided"]
      BY <2>4 DEF VoidWrites
    <3>2. sale'[s].units = sale[s].units
      BY <2>1, <3>1 DEF SaleRow
    <3>. QED BY <2>2, <3>2
  <2>5. ASSUME NEW w \in Workers, QuickReturnWrites(w) PROVE FALSE
    <3>. DEFINE j == job[w]
                back == [state |-> "open", item |-> j.item,
                         units |-> -j.units, returned |-> 0,
                         resv |-> sale[j.ref].resv]
    <3>1. j.units \in Nat
      BY <2>5 DEF QuickReturnWrites, TypeInv, JobOK, RequestOK
    <3>2. PICK n \in Sales :
            sale' = [sale EXCEPT ![j.ref].returned = @ + j.units,
                                 ![n] = back]
      BY <2>5 DEF QuickReturnWrites
    <3>3. sale'[s].units \in {sale[s].units, -j.units}
      BY <2>1, <3>2 DEF SaleRow
    <3>. QED BY <2>2, <3>1, <3>3
  <2>6. ASSUME NEW w \in Workers, job[w].op \in Sellers,
               job[w].item \in Items => Available(job[w]) >= job[w].units,
               NEW new, new = qty[job[w].item] - job[w].units,
               job[w].item \in Items =>
                    qty' = [qty EXCEPT ![job[w].item] = new],
               \E t \in Sales : NewSale(t, job[w], job[w].ref)
        PROVE  qty'[i] >= Reserved(i, sale'[s].resv)
    <3>. DEFINE j == job[w]
    <3>1. /\ j.units \in Int /\ j.seen \in Nat
          /\ j.item \in Items => j.seen = qty[j.item]
          /\ IF j.ref \in Reservations THEN j.copy = resv[j.ref]
                                       ELSE j.ref = NoRef
      BY <2>6 DEF TypeInv, TypeOK, Job, SellersFresh, SellerFresh
    <3>2. PICK t \in Sales : NewSale(t, j, j.ref)
      BY <2>6
    <3>3. t = s /\ i = j.item /\ sale'[s].resv = j.ref
      BY <2>1, <2>2, <3>2 DEF NewSale
    <3>4. Holding(j.item, OwnHold(j)) = Holding(j.item, j.ref)
      BY <3>1, NoRefAssumption DEF Holding, OwnHold
    <3>5. Reserved(j.item, OwnHold(j)) = Reserved(i, sale'[s].resv)
      BY <3>3, <3>4 DEF Reserved
    <3>6. j.seen - Reserved(i, sale'[s].resv) >= j.units
      BY <2>2, <2>6, <3>3, <3>5 DEF Available
    <3>7. qty'[i] = j.seen - j.units
      BY <2>1, <2>2, <2>6, <3>1, <3>3
    <3>8. Reserved(i, sale'[s].resv) \in Nat
      BY ReservedType
    <3>. HIDE DEF j, i
    <3>. QED BY <3>1, <3>6, <3>7, <3>8
  <2>7. ASSUME NEW w \in Workers, CheckoutWrites(w)
        PROVE  qty'[i] >= Reserved(i, sale'[s].resv)
    <3>1. job[w].item \in Items =>
            qty' = [qty EXCEPT ![job[w].item] =
                        qty[job[w].item] - job[w].units]
      BY <2>7 DEF CheckoutWrites, Move, Quantity
    <3>. QED BY <2>6, <2>7, <3>1 DEF CheckoutWrites, Sellers
  <2>8. ASSUME NEW w \in Workers, InvoiceReservationWrites(w)
        PROVE  qty'[i] >= Reserved(i, sale'[s].resv)
    <3>1. job[w].item \in Items =>
            qty' = [qty EXCEPT ![job[w].item] =
                        qty[job[w].item] - job[w].units]
      BY <2>8 DEF InvoiceReservationWrites, Move, SellersFresh, SellerFresh,
                  Sellers
    <3>. QED BY <2>6, <2>8, <3>1 DEF InvoiceReservationWrites, Sellers
  <2>. QED BY <2>3, <2>4, <2>5, <2>7, <2>8, OtherStepsKeepSales
<1>2. Init => SellersFresh
  BY DEF Init, SellersFresh, SellerFresh, Sellers, Idle, StockRequest,
         Request
<1>3. Init => NoUnitsBefore
  BY DEF Init, NoUnitsBefore, NoSale
<1>4. HoldsKept <=> [][Kept]_vars
  BY DEF HoldsKept
<1>. QED BY <1>1, <1>2, <1>3, <1>4, TypeInit, TypeNext, SellersFreshNext,
            NoUnitsBeforeNext, PTL DEF Spec

-----------------------------------------------------------------------------
(* One request at a time: what a request checked when it read still holds  *)
(* when it writes.                                                         *)

(* A first half is that of the endpoint it says.                           *)
LEMMA ReadsOp ==
    ASSUME TypeInv, NEW w \in Workers
    PROVE  /\ CheckoutReads(w) => job'[w].op = "checkout"
           /\ QuickReturnReads(w) => job'[w].op = "quick_return"
           /\ VoidReads(w) => job'[w].op = "void"
           /\ EditReservationReads(w) => job'[w].op = "edit_reservation"
           /\ ReserveReads(w) => job'[w].op = "reserve"
           /\ InvoiceReservationReads(w) =>
                job'[w].op = "invoice_reservation"
           /\ CreateGrnReads(w) => job'[w].op = "create_grn"
           /\ CancelGrnReads(w) => job'[w].op = "cancel_grn"
           /\ ConsumePartReads(w) => job'[w].op = "consume_part"
           /\ RemovePartReads(w) => job'[w].op = "remove_part"
           /\ AdjustReads(w) => job'[w].op = "adjust"
           /\ TakeCountReads(w) => job'[w].op = "take_count"
           /\ TakePostReads(w) => job'[w].op = "take_post"
<1>1. ASSUME NEW request, Read(w, request) PROVE job'[w].op = request.op
  BY <1>1 DEF TypeInv, TypeOK, Read
<1>2. \A op, ref, item, units, seen, status, copy :
        Request(op, ref, item, units, seen, status, copy).op = op
  BY DEF Request
<1>3. \A op, ref, item, units, seen :
        StockRequest(op, ref, item, units, seen).op = op
  BY DEF Request, StockRequest
<1>4. CheckoutReads(w) => job'[w].op = "checkout"
  BY <1>1, <1>2 DEF CheckoutReads
<1>5. QuickReturnReads(w) => job'[w].op = "quick_return"
  BY <1>1, <1>3 DEF QuickReturnReads
<1>6. VoidReads(w) => job'[w].op = "void"
  BY <1>1, <1>3 DEF VoidReads
<1>7. EditReservationReads(w) => job'[w].op = "edit_reservation"
  BY <1>1, <1>2 DEF EditReservationReads
<1>8. ReserveReads(w) => job'[w].op = "reserve"
  BY <1>1, <1>2 DEF ReserveReads
<1>9. InvoiceReservationReads(w) => job'[w].op = "invoice_reservation"
  BY <1>1, <1>2 DEF InvoiceReservationReads
<1>10. CreateGrnReads(w) => job'[w].op = "create_grn"
  BY <1>1, <1>3 DEF CreateGrnReads
<1>11. CancelGrnReads(w) => job'[w].op = "cancel_grn"
  BY <1>1, <1>3 DEF CancelGrnReads
<1>12. ConsumePartReads(w) => job'[w].op = "consume_part"
  BY <1>1, <1>3 DEF ConsumePartReads
<1>13. RemovePartReads(w) => job'[w].op = "remove_part"
  BY <1>1, <1>3 DEF RemovePartReads
<1>14. AdjustReads(w) => job'[w].op = "adjust"
  BY <1>1, <1>3 DEF AdjustReads
<1>15. TakeCountReads(w) => job'[w].op = "take_count"
  BY <1>1, <1>2 DEF TakeCountReads
<1>16. TakePostReads(w) => job'[w].op = "take_post"
  BY <1>1, <1>3 DEF TakePostReads
<1>. QED BY <1>4, <1>5, <1>6, <1>7, <1>8, <1>9, <1>10, <1>11, <1>12, <1>13,
            <1>14, <1>15, <1>16

(* A worker that has written is idle.                                      *)
LEMMA IdleAgain ==
    ASSUME TypeInv, NEW w \in Workers, Done(w)
    PROVE  job'[w].op = "idle"
BY DEF Done, TypeInv, TypeOK, Idle, StockRequest, Request

(* A note in the making answers an order without one.                      *)
OrdersChecked ==
    \A w \in Workers :
        job[w].op = "create_grn" => OrderUnanswered(job[w].ref)

LEMMA OrdersCheckedNext ==
    ASSUME \A v, w \in Workers : v = w,
           TypeInv, OrdersChecked, [Next]_vars
    PROVE  OrdersChecked'
<1>1. job \in [Workers -> Job]
  BY DEF TypeInv, TypeOK
<1>2. CASE UNCHANGED <<grn, job>>
  BY <1>2 DEF OrdersChecked, OrderUnanswered
<1>3. ASSUME NEW w \in Workers, job'[w].op # "create_grn"
      PROVE  OrdersChecked'
  BY <1>3 DEF OrdersChecked
<1>4. ASSUME NEW w \in Workers, Done(w) PROVE OrdersChecked'
  BY <1>3, <1>4, IdleAgain
<1>5. ASSUME NEW w \in Workers, CreateReservation(w) PROVE OrdersChecked'
  BY <1>2, <1>5 DEF CreateReservation
<1>6. ASSUME NEW w \in Workers, CreateGrnReads(w) PROVE OrdersChecked'
  <2>1. PICK i \in Items, u \in Units, po \in Orders \cup {NoRef} :
          /\ OrderUnanswered(po)
          /\ Read(w, StockRequest("create_grn", po, i, u, 0))
    BY <1>6 DEF CreateGrnReads
  <2>2. job'[w].ref = po /\ grn' = grn
    BY <1>1, <2>1 DEF Read, data, StockRequest, Request
  <2>3. po # NoRef =>
          \A g \in Grns : ~ (grn'[g].state = "active" /\ grn'[g].po = po)
    BY <2>1, <2>2 DEF OrderUnanswered
  <2>4. \A v \in Workers : job'[v].ref = po
    BY <2>2
  <2>. QED BY <2>3, <2>4 DEF OrdersChecked, OrderUnanswered
<1>7. ASSUME NEW w \in Workers, Reads(w) PROVE OrdersChecked'
  BY <1>3, <1>6, <1>7, ReadsOp DEF Reads
<1>. QED BY <1>2, <1>4, <1>5, <1>7, WritesFree DEF Next, Reads, vars

(* Only goods received and cancelled write the notes.                      *)
LEMMA OtherStepsKeepNotes ==
    ASSUME TypeInv, [Next]_vars
    PROVE  \/ UNCHANGED grn
           \/ \E w \in Workers : CreateGrnWrites(w) \/ CancelGrnWrites(w)
<1>1. ASSUME NEW w \in Workers, Reads(w)
      PROVE  UNCHANGED grn
  BY <1>1, TypeReads DEF data
<1>2. ASSUME NEW w \in Workers,
             \/ CheckoutWrites(w)    \/ QuickReturnWrites(w)
             \/ VoidWrites(w)        \/ InvoiceReservationWrites(w)
             \/ CreateReservation(w) \/ EditReservationWrites(w)
             \/ ReserveWrites(w)     \/ ConsumePartWrites(w)
             \/ RemovePartWrites(w)  \/ AdjustWrites(w)
             \/ TakeCountWrites(w)   \/ TakePostWrites(w)
             \/ Abort(w)
      PROVE  UNCHANGED grn
  BY <1>2
  DEF CheckoutWrites, QuickReturnWrites, VoidWrites,
      InvoiceReservationWrites, CreateReservation, EditReservationWrites,
      ReserveWrites, ConsumePartWrites, RemovePartWrites, AdjustWrites,
      TakeCountWrites, TakePostWrites, Abort, data
<1>3. CASE UNCHANGED vars
  BY <1>3 DEF vars
<1>. QED BY <1>1, <1>2, <1>3 DEF Next, Reads

(* Served one request at a time, no purchase order is received twice: the  *)
(* order that had no note when create_grn looked has none when it writes.  *)
THEOREM SerialOrderReceivedOnce ==
    ASSUME \A v, w \in Workers : v = w
    PROVE  Spec => []OrderReceivedOnce
<1>1. Init => OrderReceivedOnce
  BY DEF Init, OrderReceivedOnce, NoGrn
<1>2. Init => OrdersChecked
  BY DEF Init, OrdersChecked, Idle, StockRequest, Request
<1>3. TypeInv /\ OrdersChecked /\ OrderReceivedOnce /\ [Next]_vars
        => OrderReceivedOnce'
  <2>. SUFFICES ASSUME TypeInv, OrdersChecked, OrderReceivedOnce,
                       [Next]_vars
                PROVE  OrderReceivedOnce'
    OBVIOUS
  <2>0. grn \in [Grns -> GrnRow]
    BY DEF TypeInv, TypeOK
  <2>1. CASE UNCHANGED grn
    BY <2>1 DEF OrderReceivedOnce
  <2>2. ASSUME NEW w \in Workers, CreateGrnWrites(w)
        PROVE  OrderReceivedOnce'
    <3>. DEFINE j == job[w]
    <3>1. OrderUnanswered(j.ref)
      BY <2>2 DEF CreateGrnWrites, OrdersChecked
    <3>2. PICK g \in Grns :
            grn' = [grn EXCEPT ![g] = [state |-> "active", item |-> j.item,
                                       units |-> j.units, po |-> j.ref]]
      BY <2>2 DEF CreateGrnWrites
    <3>. HIDE DEF j
    <3>3. /\ grn'[g].state = "active" /\ grn'[g].po = j.ref
          /\ \A h \in Grns \ {g} : grn'[h] = grn[h]
      BY <2>0, <3>2
    <3>4. ASSUME NEW h \in Grns \ {g}, grn'[h].state = "active",
                 grn'[h].po = j.ref, j.ref # NoRef
          PROVE  FALSE
      BY <3>1, <3>3, <3>4 DEF OrderUnanswered
    <3>. QED BY <3>3, <3>4 DEF OrderReceivedOnce
  <2>3. ASSUME NEW w \in Workers, CancelGrnWrites(w)
        PROVE  OrderReceivedOnce'
    <3>1. grn' = [grn EXCEPT ![job[w].ref].state = "cancelled"]
      BY <2>3 DEF CancelGrnWrites
    <3>2. \A g \in Grns : /\ grn'[g].po = grn[g].po
                          /\ grn'[g].state \in {grn[g].state, "cancelled"}
      BY <2>0, <3>1 DEF GrnRow
    <3>. QED BY <3>2 DEF OrderReceivedOnce
  <2>. QED BY <2>1, <2>2, <2>3, OtherStepsKeepNotes
<1>. QED BY <1>1, <1>2, <1>3, TypeInit, TypeNext, OrdersCheckedNext, PTL
         DEF Spec

-----------------------------------------------------------------------------
(* Documents: what notes, invoices, parts and adjustments say is in stock. *)

(* The units of item k that a row of each table stands for.                *)
RowReceived(row, k) ==
    IF row.state = "active" /\ row.item = k THEN row.units ELSE 0
RowSold(row, k) == IF row.state = "open" /\ row.item = k THEN row.units ELSE 0
RowUsed(row, k) == IF row.item = k THEN row.units ELSE 0

Documents(k) == Total(ReceivedUnits(k)) - Total(SoldUnits(k))
                - Total(UsedUnits(k)) + adjusted[k]

(* A step books d units of item i in the documents.                        *)
Booked(i, d) ==
    \A k \in Items : Documents(k)' = Documents(k) + (IF k = i THEN d ELSE 0)

LEMMA DocumentTypes ==
    ASSUME TypeInv, NEW k \in Items
    PROVE  /\ Total(ReceivedUnits(k)) \in Int /\ Total(SoldUnits(k)) \in Int
           /\ Total(UsedUnits(k)) \in Int /\ adjusted[k] \in Int
<1>1. ReceivedUnits(k) \in [Grns -> Int]
  <2>1. \A g \in Grns : grn[g].units \in Int
    BY DEF TypeInv, TypeOK, GrnRow
  <2>. QED BY <2>1 DEF ReceivedUnits
<1>2. SoldUnits(k) \in [Sales -> Int]
  <2>1. \A s \in Sales : sale[s].units \in Int
    BY DEF TypeInv, TypeOK, SaleRow
  <2>. QED BY <2>1 DEF SoldUnits
<1>3. UsedUnits(k) \in [Parts -> Int]
  <2>1. \A p \in Parts : part[p].units \in Int
    BY DEF TypeInv, TypeOK, PartRow
  <2>. QED BY <2>1 DEF UsedUnits
<1>4. adjusted[k] \in Int
  BY DEF TypeInv, TypeOK
<1>. QED BY <1>1, <1>2, <1>3, <1>4, FiniteAssumption, TotalType

(* When one row of a table changes, the sum changes as the row does.       *)
LEMMA NotesChange ==
    ASSUME TypeInv, TypeInv', NEW x \in Grns, NEW k \in Items,
           \A g \in Grns \ {x} : RowReceived(grn'[g], k)
                                    = RowReceived(grn[g], k)
    PROVE  Total(ReceivedUnits(k))' = Total(ReceivedUnits(k))
                + RowReceived(grn'[x], k) - RowReceived(grn[x], k)
<1>. DEFINE before == [g \in Grns |-> RowReceived(grn[g], k)]
            after == [g \in Grns |-> RowReceived(grn'[g], k)]
<1>1. \A g \in Grns : grn[g].units \in Int /\ grn'[g].units \in Int
  BY DEF TypeInv, TypeOK, GrnRow
<1>2. before \in [Grns -> Int] /\ after \in [Grns -> Int]
  BY <1>1 DEF RowReceived
<1>3. ReceivedUnits(k) = before /\ ReceivedUnits(k)' = after
  BY DEF ReceivedUnits, RowReceived
<1>4. \A g \in Grns : /\ before[g] = RowReceived(grn[g], k)
                      /\ after[g] = RowReceived(grn'[g], k)
  OBVIOUS
<1>. HIDE DEF before, after
<1>5. \A g \in Grns \ {x} : after[g] = before[g]
  BY <1>4
<1>6. Total(after) = Total(before) + after[x] - before[x]
  BY <1>2, <1>5, FiniteAssumption, TotalChange
<1>. QED BY <1>3, <1>4, <1>6

LEMMA SalesChange ==
    ASSUME TypeInv, TypeInv', NEW x \in Sales, NEW k \in Items,
           \A s \in Sales \ {x} : RowSold(sale'[s], k) = RowSold(sale[s], k)
    PROVE  Total(SoldUnits(k))' = Total(SoldUnits(k))
                + RowSold(sale'[x], k) - RowSold(sale[x], k)
<1>. DEFINE before == [s \in Sales |-> RowSold(sale[s], k)]
            after == [s \in Sales |-> RowSold(sale'[s], k)]
<1>1. \A s \in Sales : sale[s].units \in Int /\ sale'[s].units \in Int
  BY DEF TypeInv, TypeOK, SaleRow
<1>2. before \in [Sales -> Int] /\ after \in [Sales -> Int]
  BY <1>1 DEF RowSold
<1>3. SoldUnits(k) = before /\ SoldUnits(k)' = after
  BY DEF SoldUnits, RowSold
<1>4. \A s \in Sales : /\ before[s] = RowSold(sale[s], k)
                       /\ after[s] = RowSold(sale'[s], k)
  OBVIOUS
<1>. HIDE DEF before, after
<1>5. \A s \in Sales \ {x} : after[s] = before[s]
  BY <1>4
<1>6. Total(after) = Total(before) + after[x] - before[x]
  BY <1>2, <1>5, FiniteAssumption, TotalChange
<1>. QED BY <1>3, <1>4, <1>6

LEMMA PartsChange ==
    ASSUME TypeInv, TypeInv', NEW x \in Parts, NEW k \in Items,
           \A p \in Parts \ {x} : RowUsed(part'[p], k) = RowUsed(part[p], k)
    PROVE  Total(UsedUnits(k))' = Total(UsedUnits(k))
                + RowUsed(part'[x], k) - RowUsed(part[x], k)
<1>. DEFINE before == [p \in Parts |-> RowUsed(part[p], k)]
            after == [p \in Parts |-> RowUsed(part'[p], k)]
<1>1. \A p \in Parts : part[p].units \in Int /\ part'[p].units \in Int
  BY DEF TypeInv, TypeOK, PartRow
<1>2. before \in [Parts -> Int] /\ after \in [Parts -> Int]
  BY <1>1 DEF RowUsed
<1>3. UsedUnits(k) = before /\ UsedUnits(k)' = after
  BY DEF UsedUnits, RowUsed
<1>4. \A p \in Parts : /\ before[p] = RowUsed(part[p], k)
                       /\ after[p] = RowUsed(part'[p], k)
  OBVIOUS
<1>. HIDE DEF before, after
<1>5. \A p \in Parts \ {x} : after[p] = before[p]
  BY <1>4
<1>6. Total(after) = Total(before) + after[x] - before[x]
  BY <1>2, <1>5, FiniteAssumption, TotalChange
<1>. QED BY <1>3, <1>4, <1>6

(* A row of one table that goes from what was to what is books the change. *)
LEMMA NoteBooked ==
    ASSUME TypeInv, TypeInv', UNCHANGED <<sale, part, adjusted>>,
           NEW x \in Grns, NEW i, NEW d \in Int,
           \A g \in Grns \ {x} : grn'[g] = grn[g],
           \A k \in Items : RowReceived(grn'[x], k) - RowReceived(grn[x], k)
                                = IF k = i THEN d ELSE 0
    PROVE  Booked(i, d)
<1>. SUFFICES ASSUME NEW k \in Items
              PROVE  Documents(k)' = Documents(k) + (IF k = i THEN d ELSE 0)
  BY DEF Booked
<1>1. Total(ReceivedUnits(k))' = Total(ReceivedUnits(k))
            + RowReceived(grn'[x], k) - RowReceived(grn[x], k)
  BY NotesChange
<1>2. /\ Total(SoldUnits(k))' = Total(SoldUnits(k))
      /\ Total(UsedUnits(k))' = Total(UsedUnits(k))
      /\ adjusted'[k] = adjusted[k]
  BY DEF SoldUnits, UsedUnits
<1>3. RowReceived(grn'[x], k) \in Int /\ RowReceived(grn[x], k) \in Int
  BY DEF RowReceived, TypeInv, TypeOK, GrnRow
<1>. QED BY <1>1, <1>2, <1>3, DocumentTypes DEF Documents

LEMMA SaleBooked ==
    ASSUME TypeInv, TypeInv', UNCHANGED <<grn, part, adjusted>>,
           NEW x \in Sales, NEW i, NEW d \in Int,
           \A s \in Sales \ {x}, k \in Items :
                RowSold(sale'[s], k) = RowSold(sale[s], k),
           \A k \in Items : RowSold(sale[x], k) - RowSold(sale'[x], k)
                                = IF k = i THEN d ELSE 0
    PROVE  Booked(i, d)
<1>. SUFFICES ASSUME NEW k \in Items
              PROVE  Documents(k)' = Documents(k) + (IF k = i THEN d ELSE 0)
  BY DEF Booked
<1>1. Total(SoldUnits(k))' = Total(SoldUnits(k))
            + RowSold(sale'[x], k) - RowSold(sale[x], k)
  BY SalesChange
<1>2. /\ Total(ReceivedUnits(k))' = Total(ReceivedUnits(k))
      /\ Total(UsedUnits(k))' = Total(UsedUnits(k))
      /\ adjusted'[k] = adjusted[k]
  BY DEF ReceivedUnits, UsedUnits
<1>3. RowSold(sale'[x], k) \in Int /\ RowSold(sale[x], k) \in Int
  BY DEF RowSold, TypeInv, TypeOK, SaleRow
<1>. QED BY <1>1, <1>2, <1>3, DocumentTypes DEF Documents

LEMMA PartBooked ==
    ASSUME TypeInv, TypeInv', UNCHANGED <<sale, grn, adjusted>>,
           NEW x \in Parts, NEW i, NEW d \in Int,
           \A p \in Parts \ {x} : part'[p] = part[p],
           \A k \in Items : RowUsed(part[x], k) - RowUsed(part'[x], k)
                                = IF k = i THEN d ELSE 0
    PROVE  Booked(i, d)
<1>. SUFFICES ASSUME NEW k \in Items
              PROVE  Documents(k)' = Documents(k) + (IF k = i THEN d ELSE 0)
  BY DEF Booked
<1>1. Total(UsedUnits(k))' = Total(UsedUnits(k))
            + RowUsed(part'[x], k) - RowUsed(part[x], k)
  BY PartsChange
<1>2. /\ Total(ReceivedUnits(k))' = Total(ReceivedUnits(k))
      /\ Total(SoldUnits(k))' = Total(SoldUnits(k))
      /\ adjusted'[k] = adjusted[k]
  BY DEF ReceivedUnits, SoldUnits
<1>3. RowUsed(part'[x], k) \in Int /\ RowUsed(part[x], k) \in Int
  BY DEF RowUsed, TypeInv, TypeOK, PartRow
<1>. QED BY <1>1, <1>2, <1>3, DocumentTypes DEF Documents

LEMMA AdjustmentBooked ==
    ASSUME TypeInv, UNCHANGED <<sale, grn, part>>, NEW i, NEW d \in Int,
           adjusted' = [adjusted EXCEPT ![i] = @ + d]
    PROVE  Booked(i, d)
<1>. SUFFICES ASSUME NEW k \in Items
              PROVE  Documents(k)' = Documents(k) + (IF k = i THEN d ELSE 0)
  BY DEF Booked
<1>1. adjusted'[k] = adjusted[k] + (IF k = i THEN d ELSE 0)
  BY DEF TypeInv, TypeOK
<1>2. /\ Total(ReceivedUnits(k))' = Total(ReceivedUnits(k))
      /\ Total(SoldUnits(k))' = Total(SoldUnits(k))
      /\ Total(UsedUnits(k))' = Total(UsedUnits(k))
  BY DEF ReceivedUnits, SoldUnits, UsedUnits
<1>. QED BY <1>1, <1>2, DocumentTypes DEF Documents

(* The quantity is the opening stock and what the documents book.          *)
Explained == \A k \in Items : qty[k] = Opening + Documents(k)

LEMMA ExplainedByDocuments ==
    ASSUME TypeInv PROVE Explained <=> DocumentsExplainStock
<1>1. Opening \in Int
  BY BoundsAssumption
<1>. QED BY <1>1, DocumentTypes DEF Explained, Documents, DocumentsExplainStock

(* What the movements say, less what quick refunds book twice.             *)
HistoryExplained == \A k \in Items : moved[k] = Documents(k) + refunded[k]

(* A step moves d units of item i in the history, and in stock.            *)
HistoryMoves(i, d) ==
    \A k \in Items : moved'[k] - refunded'[k]
                        = moved[k] - refunded[k] + (IF k = i THEN d ELSE 0)
StockMoves(i, d) ==
    \A k \in Items : qty'[k] = qty[k] + (IF k = i THEN d ELSE 0)

(* Every step moves in the history what it books in the documents, and     *)
(* moves it in stock as well if it computed from fresh copies.             *)
BooksWhatItMoves ==
    \E i \in Items \cup {NoRef}, d \in Int :
        Booked(i, d) /\ HistoryMoves(i, d) /\ (FreshCopies => StockMoves(i, d))

LEMMA MoveBooks ==
    ASSUME TypeInv, NEW i \in Items \cup {NoRef}, NEW new \in Int,
           NEW d \in Int, Move(i, new, d), UNCHANGED refunded, Booked(i, d),
           (FreshCopies /\ i \in Items) => new = qty[i] + d
    PROVE  BooksWhatItMoves
<1>1. /\ moved \in [Items -> Int] /\ refunded \in [Items -> Nat]
      /\ qty \in [Items -> Nat]
  BY DEF TypeInv, TypeOK
<1>2. \A k \in Items : moved'[k] = moved[k] + (IF k = i THEN d ELSE 0)
  BY <1>1 DEF Move
<1>3. HistoryMoves(i, d)
  BY <1>1, <1>2 DEF HistoryMoves
<1>4. FreshCopies => StockMoves(i, d)
  BY <1>1 DEF Move, StockMoves
<1>. QED BY <1>3, <1>4 DEF BooksWhatItMoves

LEMMA QuietBooks ==
    ASSUME TypeInv,
           UNCHANGED <<qty, moved, refunded, adjusted, sale, grn, part>>
    PROVE  BooksWhatItMoves
<1>1. ASSUME NEW k \in Items
      PROVE  /\ ReceivedUnits(k)' = ReceivedUnits(k)
             /\ SoldUnits(k)' = SoldUnits(k) /\ UsedUnits(k)' = UsedUnits(k)
  BY DEF ReceivedUnits, SoldUnits, UsedUnits
<1>2. ASSUME NEW k \in Items PROVE Documents(k)' = Documents(k)
  BY <1>1 DEF Documents
<1>3. ASSUME NEW k \in Items PROVE Documents(k) \in Int
  BY DocumentTypes DEF Documents
<1>4. \A k \in Items : moved[k] \in Int /\ refunded[k] \in Int /\ qty[k] \in Int
  BY DEF TypeInv, TypeOK
<1>5. Booked(NoRef, 0) /\ HistoryMoves(NoRef, 0) /\ StockMoves(NoRef, 0)
  BY <1>2, <1>3, <1>4 DEF Booked, HistoryMoves, StockMoves
<1>. QED BY <1>5 DEF BooksWhatItMoves

(* A request that reverses a document has it as it is.                     *)
Matches(j) ==
    /\ j.op = "void" => /\ j.ref \in Sales
                        /\ sale[j.ref].state = "open"
                        /\ sale[j.ref].item = j.item
                        /\ sale[j.ref].units = j.units
    /\ j.op = "cancel_grn" => /\ j.ref \in Grns
                              /\ grn[j.ref].state = "active"
                              /\ grn[j.ref].item = j.item
                              /\ grn[j.ref].units = j.units
    /\ j.op = "remove_part" => /\ j.ref \in Parts
                               /\ part[j.ref].item = j.item
                               /\ part[j.ref].units = j.units
Reversals == {"void", "cancel_grn", "remove_part"}
CurrentDocuments == \A w \in Workers : Matches(job[w])

LEMMA CurrentDocumentsNext ==
    ASSUME \A v, w \in Workers : v = w,
           TypeInv, CurrentDocuments, [Next]_vars
    PROVE  CurrentDocuments'
<1>1. job \in [Workers -> Job]
  BY DEF TypeInv, TypeOK
<1>2. CASE UNCHANGED <<sale, grn, part, job>>
  BY <1>2 DEF CurrentDocuments, Matches
<1>3. ASSUME NEW w \in Workers, job'[w].op \notin Reversals
      PROVE  CurrentDocuments'
  BY <1>3 DEF CurrentDocuments, Matches, Reversals
<1>4. ASSUME NEW w \in Workers, Done(w) PROVE CurrentDocuments'
  BY <1>3, <1>4, IdleAgain DEF Reversals
<1>5. ASSUME NEW w \in Workers, CreateReservation(w) PROVE CurrentDocuments'
  BY <1>2, <1>5 DEF CreateReservation
<1>6. ASSUME NEW w \in Workers, VoidReads(w) PROVE CurrentDocuments'
  <2>1. PICK s \in Sales :
          /\ sale[s].state = "open"
          /\ Read(w, StockRequest("void", s, sale[s].item, sale[s].units,
                                  Quantity(sale[s].item)))
    BY <1>6 DEF VoidReads
  <2>2. /\ job'[w].op = "void" /\ job'[w].ref = s
        /\ job'[w].item = sale[s].item /\ job'[w].units = sale[s].units
        /\ sale' = sale
    BY <1>1, <2>1 DEF Read, data, StockRequest, Request
  <2>3. \A v \in Workers : v = w
    OBVIOUS
  <2>. QED BY <2>1, <2>2, <2>3 DEF CurrentDocuments, Matches
<1>7. ASSUME NEW w \in Workers, CancelGrnReads(w) PROVE CurrentDocuments'
  <2>1. PICK g \in Grns :
          /\ grn[g].state = "active"
          /\ Read(w, StockRequest("cancel_grn", g, grn[g].item, grn[g].units,
                                  Quantity(grn[g].item)))
    BY <1>7 DEF CancelGrnReads
  <2>2. /\ job'[w].op = "cancel_grn" /\ job'[w].ref = g
        /\ job'[w].item = grn[g].item /\ job'[w].units = grn[g].units
        /\ grn' = grn
    BY <1>1, <2>1 DEF Read, data, StockRequest, Request
  <2>3. \A v \in Workers : v = w
    OBVIOUS
  <2>. QED BY <2>1, <2>2, <2>3 DEF CurrentDocuments, Matches
<1>8. ASSUME NEW w \in Workers, RemovePartReads(w) PROVE CurrentDocuments'
  <2>1. PICK p \in Parts :
          Read(w, StockRequest("remove_part", p, part[p].item, part[p].units,
                               Quantity(part[p].item)))
    BY <1>8 DEF RemovePartReads
  <2>2. /\ job'[w].op = "remove_part" /\ job'[w].ref = p
        /\ job'[w].item = part[p].item /\ job'[w].units = part[p].units
        /\ part' = part
    BY <1>1, <2>1 DEF Read, data, StockRequest, Request
  <2>3. \A v \in Workers : v = w
    OBVIOUS
  <2>. QED BY <2>1, <2>2, <2>3 DEF CurrentDocuments, Matches
<1>9. ASSUME NEW w \in Workers, Reads(w) PROVE CurrentDocuments'
  BY <1>3, <1>6, <1>7, <1>8, <1>9, ReadsOp DEF Reads, Reversals
<1>. QED BY <1>2, <1>4, <1>5, <1>9, WritesFree DEF Next, Reads, vars

(* A new invoice books its units out.                                      *)
LEMMA NewSaleBooked ==
    ASSUME TypeInv, TypeInv', UNCHANGED <<grn, part, adjusted>>,
           NEW w \in Workers, NEW s \in Sales, NEW r, NewSale(s, job[w], r)
    PROVE  Booked(job[w].item, -job[w].units)
<1>1. job[w].units \in Int /\ sale \in [Sales -> SaleRow]
  BY DEF TypeInv, TypeOK, Job
<1>2. /\ sale[s].state = "none"
      /\ sale'[s].state = "open" /\ sale'[s].item = job[w].item
      /\ sale'[s].units = job[w].units
      /\ \A t \in Sales \ {s} : sale'[t] = sale[t]
  BY <1>1 DEF NewSale
<1>3. \A k \in Items : RowSold(sale[s], k) - RowSold(sale'[s], k)
                            = IF k = job[w].item THEN -job[w].units ELSE 0
  BY <1>1, <1>2 DEF RowSold
<1>4. \A t \in Sales \ {s}, k \in Items :
        RowSold(sale'[t], k) = RowSold(sale[t], k)
  BY <1>2 DEF RowSold
<1>5. -job[w].units \in Int
  BY <1>1
<1>. QED BY <1>3, <1>4, <1>5, SaleBooked

(* With documents as they were read, every step books what it moves.       *)
LEMMA StepBooks ==
    ASSUME TypeInv, CurrentDocuments, [Next]_vars
    PROVE  BooksWhatItMoves
<1>1. TypeInv'
  BY TypeNext
<1>2. ASSUME NEW w \in Workers
      PROVE  /\ job[w].item \in Items \cup {NoRef} /\ job[w].units \in Int
             /\ job[w].seen \in Nat /\ Quantity(job[w].item) \in Nat
             /\ job[w].item \in Items =>
                    Quantity(job[w].item) = qty[job[w].item]
  <2>1. job[w] \in Job
    BY DEF TypeInv, TypeOK
  <2>2. Quantity(job[w].item) \in Nat
    BY QuantityType DEF TypeInv
  <2>. QED BY <2>1, <2>2 DEF Job, Quantity
<1>3. ASSUME NEW w \in Workers, NEW d \in Int, job[w].op \in StaleWriters,
             Move(job[w].item, job[w].seen + d, d), Booked(job[w].item, d),
             UNCHANGED refunded
      PROVE  BooksWhatItMoves
  <2>1. (FreshCopies /\ job[w].item \in Items) =>
            job[w].seen + d = qty[job[w].item] + d
    BY <1>3 DEF FreshCopies, Fresh
  <2>2. job[w].seen + d \in Int
    BY <1>2
  <2>. QED BY <1>2, <1>3, <2>1, <2>2, MoveBooks
<1>4. ASSUME NEW w \in Workers, CheckoutWrites(w) PROVE BooksWhatItMoves
  <2>1. /\ Move(job[w].item, Quantity(job[w].item) - job[w].units,
                -job[w].units)
        /\ UNCHANGED <<grn, part, adjusted, refunded>>
        /\ \E s \in Sales : NewSale(s, job[w], job[w].ref)
    BY <1>4 DEF CheckoutWrites
  <2>2. Booked(job[w].item, -job[w].units)
    BY <1>1, <2>1, NewSaleBooked
  <2>3. /\ Quantity(job[w].item) - job[w].units \in Int
        /\ -job[w].units \in Int
        /\ Quantity(job[w].item) - job[w].units =
                Quantity(job[w].item) + (-job[w].units)
    BY <1>2
  <2>. QED BY <1>2, <2>1, <2>2, <2>3, MoveBooks
<1>5. ASSUME NEW w \in Workers, InvoiceReservationWrites(w)
      PROVE  BooksWhatItMoves
  <2>1. /\ Move(job[w].item, job[w].seen - job[w].units, -job[w].units)
        /\ UNCHANGED <<grn, part, adjusted, refunded>>
        /\ job[w].op \in StaleWriters
        /\ \E s \in Sales : NewSale(s, job[w], job[w].ref)
    BY <1>5 DEF InvoiceReservationWrites, StaleWriters
  <2>2. Booked(job[w].item, -job[w].units)
    BY <1>1, <2>1, NewSaleBooked
  <2>3. /\ -job[w].units \in Int
        /\ job[w].seen - job[w].units = job[w].seen + (-job[w].units)
    BY <1>2
  <2>. QED BY <1>3, <2>1, <2>2, <2>3
<1>6. ASSUME NEW w \in Workers, QuickReturnWrites(w) PROVE BooksWhatItMoves
  <2>. DEFINE j == job[w]
  <2>1. PICK n \in Sales :
          /\ sale[n].state = "none"
          /\ sale' = [sale EXCEPT
              ![j.ref].returned = @ + j.units,
              ![n] = [state |-> "open", item |-> j.item, units |-> -j.units,
                      returned |-> 0, resv |-> sale[j.ref].resv]]
    BY <1>6 DEF QuickReturnWrites
  <2>2. /\ Move(j.item, Quantity(j.item) + j.units, 2 * j.units)
        /\ UNCHANGED <<grn, part, adjusted>>
        /\ refunded' = [refunded EXCEPT ![j.item] = @ + j.units]
    BY <1>6 DEF QuickReturnWrites, Restocked
  <2>3. j.units \in Int /\ sale \in [Sales -> SaleRow]
    BY <1>2 DEF TypeInv, TypeOK
  <2>4. Quantity(j.item) \in Int
        /\ (j.item \in Items => Quantity(j.item) = qty[j.item])
    BY <1>2
  <2>. HIDE DEF j
  <2>5. /\ sale'[n].state = "open" /\ sale'[n].item = j.item
        /\ sale'[n].units = -j.units
        /\ \A t \in Sales \ {n} : /\ sale'[t].state = sale[t].state
                                  /\ sale'[t].item = sale[t].item
                                  /\ sale'[t].units = sale[t].units
    BY <2>1, <2>3 DEF SaleRow
  <2>6. \A k \in Items : RowSold(sale[n], k) - RowSold(sale'[n], k)
                            = IF k = j.item THEN j.units ELSE 0
    BY <2>1, <2>3, <2>5 DEF RowSold
  <2>7. \A t \in Sales \ {n}, k \in Items :
          RowSold(sale'[t], k) = RowSold(sale[t], k)
    BY <2>5 DEF RowSold
  <2>8. Booked(j.item, j.units)
    BY <1>1, <2>2, <2>3, <2>6, <2>7, SaleBooked
  <2>9. /\ qty \in [Items -> Nat] /\ moved \in [Items -> Int]
        /\ refunded \in [Items -> Nat]
    BY DEF TypeInv, TypeOK
  <2>10. \A k \in Items :
            /\ qty'[k] = qty[k] + (IF k = j.item THEN j.units ELSE 0)
            /\ moved'[k] = moved[k] + (IF k = j.item THEN 2 * j.units ELSE 0)
            /\ refunded'[k] = refunded[k] + (IF k = j.item THEN j.units ELSE 0)
    BY <2>2, <2>3, <2>4, <2>9 DEF Move
  <2>11. HistoryMoves(j.item, j.units) /\ StockMoves(j.item, j.units)
    BY <2>3, <2>9, <2>10 DEF HistoryMoves, StockMoves
  <2>12. j.item \in Items \cup {NoRef}
    BY <1>2 DEF j
  <2>. QED BY <2>3, <2>8, <2>11, <2>12 DEF BooksWhatItMoves
<1>7. ASSUME NEW w \in Workers, VoidWrites(w) PROVE BooksWhatItMoves
  <2>. DEFINE j == job[w]
  <2>1. /\ Move(j.item, j.seen + j.units, j.units) /\ j.op \in StaleWriters
        /\ sale' = [sale EXCEPT ![j.ref].state = "voided"]
        /\ UNCHANGED <<grn, part, adjusted, refunded>>
    BY <1>7 DEF VoidWrites, StaleWriters
  <2>2. /\ j.ref \in Sales /\ sale[j.ref].state = "open"
        /\ sale[j.ref].item = j.item /\ sale[j.ref].units = j.units
    BY <1>7 DEF VoidWrites, CurrentDocuments, Matches
  <2>3. j.units \in Int /\ sale \in [Sales -> SaleRow]
    BY <1>2 DEF TypeInv, TypeOK
  <2>. HIDE DEF j
  <2>4. /\ sale'[j.ref].state = "voided"
        /\ \A t \in Sales \ {j.ref} : sale'[t] = sale[t]
    BY <2>1, <2>2, <2>3 DEF SaleRow
  <2>5. \A k \in Items : RowSold(sale[j.ref], k) - RowSold(sale'[j.ref], k)
                            = IF k = j.item THEN j.units ELSE 0
    BY <2>2, <2>3, <2>4 DEF RowSold
  <2>6. \A t \in Sales \ {j.ref}, k \in Items :
          RowSold(sale'[t], k) = RowSold(sale[t], k)
    BY <2>4
  <2>7. Booked(j.item, j.units)
    BY <1>1, <2>1, <2>2, <2>3, <2>5, <2>6, SaleBooked
  <2>. QED BY <1>3, <2>1, <2>3, <2>7 DEF j
<1>8. ASSUME NEW w \in Workers, CreateGrnWrites(w) PROVE BooksWhatItMoves
  <2>. DEFINE j == job[w]
  <2>1. /\ Move(j.item, Quantity(j.item) + j.units, j.units)
        /\ UNCHANGED <<sale, part, adjusted, refunded>>
    BY <1>8 DEF CreateGrnWrites
  <2>2. PICK g \in Grns :
          /\ grn[g].state = "none"
          /\ grn' = [grn EXCEPT ![g] = [state |-> "active", item |-> j.item,
                                        units |-> j.units, po |-> j.ref]]
    BY <1>8 DEF CreateGrnWrites
  <2>3. /\ j.units \in Int /\ Quantity(j.item) + j.units \in Int
        /\ j.item \in Items => Quantity(j.item) = qty[j.item]
        /\ grn \in [Grns -> GrnRow]
    BY <1>2 DEF TypeInv, TypeOK
  <2>. HIDE DEF j
  <2>4. /\ grn'[g].state = "active" /\ grn'[g].item = j.item
        /\ grn'[g].units = j.units
        /\ \A h \in Grns \ {g} : grn'[h] = grn[h]
    BY <2>2, <2>3
  <2>5. \A k \in Items : RowReceived(grn'[g], k) - RowReceived(grn[g], k)
                            = IF k = j.item THEN j.units ELSE 0
    BY <2>2, <2>3, <2>4 DEF RowReceived
  <2>6. Booked(j.item, j.units)
    BY <1>1, <2>1, <2>3, <2>4, <2>5, NoteBooked
  <2>. QED BY <1>2, <2>1, <2>3, <2>6, MoveBooks DEF j
<1>9. ASSUME NEW w \in Workers, CancelGrnWrites(w) PROVE BooksWhatItMoves
  <2>. DEFINE j == job[w]
  <2>1. /\ Move(j.item, j.seen - j.units, -j.units) /\ j.op \in StaleWriters
        /\ grn' = [grn EXCEPT ![j.ref].state = "cancelled"]
        /\ UNCHANGED <<sale, part, adjusted, refunded>>
    BY <1>9 DEF CancelGrnWrites, StaleWriters
  <2>2. /\ j.ref \in Grns /\ grn[j.ref].state = "active"
        /\ grn[j.ref].item = j.item /\ grn[j.ref].units = j.units
    BY <1>9 DEF CancelGrnWrites, CurrentDocuments, Matches
  <2>3. /\ j.units \in Int /\ -j.units \in Int
        /\ j.seen - j.units = j.seen + (-j.units)
        /\ grn \in [Grns -> GrnRow]
    BY <1>2 DEF TypeInv, TypeOK
  <2>. HIDE DEF j
  <2>4. /\ grn'[j.ref].state = "cancelled"
        /\ \A h \in Grns \ {j.ref} : grn'[h] = grn[h]
    BY <2>1, <2>2, <2>3 DEF GrnRow
  <2>5. \A k \in Items :
          RowReceived(grn'[j.ref], k) - RowReceived(grn[j.ref], k)
                = IF k = j.item THEN -j.units ELSE 0
    BY <2>2, <2>3, <2>4 DEF RowReceived
  <2>6. Booked(j.item, -j.units)
    BY <1>1, <2>1, <2>2, <2>3, <2>4, <2>5, NoteBooked
  <2>. QED BY <1>3, <2>1, <2>3, <2>6 DEF j
<1>10. ASSUME NEW w \in Workers, ConsumePartWrites(w) PROVE BooksWhatItMoves
  <2>. DEFINE j == job[w]
  <2>1. /\ Move(j.item, j.seen - j.units, -j.units) /\ j.op \in StaleWriters
        /\ UNCHANGED <<sale, grn, adjusted, refunded>>
    BY <1>10 DEF ConsumePartWrites, StaleWriters
  <2>2. PICK p \in Parts :
          /\ part[p] = NoPart
          /\ part' = [part EXCEPT ![p] = [item |-> j.item, units |-> j.units]]
    BY <1>10 DEF ConsumePartWrites
  <2>3. /\ j.units \in Int /\ -j.units \in Int
        /\ j.seen - j.units = j.seen + (-j.units)
        /\ part \in [Parts -> PartRow]
    BY <1>2 DEF TypeInv, TypeOK
  <2>. HIDE DEF j
  <2>4. /\ part'[p].item = j.item /\ part'[p].units = j.units
        /\ \A q \in Parts \ {p} : part'[q] = part[q]
    BY <2>2, <2>3
  <2>5. \A k \in Items : RowUsed(part[p], k) - RowUsed(part'[p], k)
                            = IF k = j.item THEN -j.units ELSE 0
    BY <2>2, <2>3, <2>4, NoRefAssumption DEF RowUsed, NoPart
  <2>6. Booked(j.item, -j.units)
    BY <1>1, <2>1, <2>3, <2>4, <2>5, PartBooked
  <2>. QED BY <1>3, <2>1, <2>3, <2>6 DEF j
<1>11. ASSUME NEW w \in Workers, RemovePartWrites(w) PROVE BooksWhatItMoves
  <2>. DEFINE j == job[w]
  <2>1. /\ Move(j.item, j.seen + j.units, j.units) /\ j.op \in StaleWriters
        /\ part' = [part EXCEPT ![j.ref] = NoPart]
        /\ UNCHANGED <<sale, grn, adjusted, refunded>>
    BY <1>11 DEF RemovePartWrites, StaleWriters
  <2>2. /\ j.ref \in Parts
        /\ part[j.ref].item = j.item /\ part[j.ref].units = j.units
    BY <1>11 DEF RemovePartWrites, CurrentDocuments, Matches
  <2>3. j.units \in Int /\ part \in [Parts -> PartRow]
    BY <1>2 DEF TypeInv, TypeOK
  <2>. HIDE DEF j
  <2>4. /\ part'[j.ref] = NoPart
        /\ \A q \in Parts \ {j.ref} : part'[q] = part[q]
    BY <2>1, <2>2, <2>3
  <2>5. \A k \in Items : RowUsed(part[j.ref], k) - RowUsed(part'[j.ref], k)
                            = IF k = j.item THEN j.units ELSE 0
    BY <2>2, <2>3, <2>4, NoRefAssumption DEF RowUsed, NoPart
  <2>6. Booked(j.item, j.units)
    BY <1>1, <2>1, <2>2, <2>3, <2>4, <2>5, PartBooked
  <2>. QED BY <1>3, <2>1, <2>3, <2>6 DEF j
<1>12. ASSUME NEW w \in Workers, AdjustWrites(w) PROVE BooksWhatItMoves
  <2>1. /\ Move(job[w].item, job[w].seen + job[w].units, job[w].units)
        /\ adjusted' = [adjusted EXCEPT ![job[w].item] = @ + job[w].units]
        /\ UNCHANGED <<sale, grn, part, refunded>>
        /\ job[w].op \in StaleWriters
    BY <1>12 DEF AdjustWrites, StaleWriters
  <2>2. Booked(job[w].item, job[w].units)
    BY <1>2, <2>1, AdjustmentBooked
  <2>. QED BY <1>2, <1>3, <2>1, <2>2
<1>13. ASSUME NEW w \in Workers, TakePostWrites(w) PROVE BooksWhatItMoves
  <2>. DEFINE d == job[w].units - job[w].seen
  <2>1. /\ UNCHANGED <<sale, grn, part, refunded>>
        /\ job[w].op \in StaleWriters
        /\ \/ UNCHANGED <<qty, moved, adjusted>>
           \/ /\ Move(job[w].item, job[w].units, d)
              /\ adjusted' = [adjusted EXCEPT ![job[w].item] = @ + d]
    BY <1>13 DEF TakePostWrites, StaleWriters
  <2>2. CASE UNCHANGED <<qty, moved, adjusted>>
    BY <2>1, <2>2, QuietBooks
  <2>3. CASE /\ Move(job[w].item, job[w].units, d)
             /\ adjusted' = [adjusted EXCEPT ![job[w].item] = @ + d]
    <3>1. d \in Int /\ job[w].units = job[w].seen + d
      BY <1>2
    <3>. HIDE DEF d
    <3>2. Booked(job[w].item, d)
      BY <2>1, <2>3, <3>1, AdjustmentBooked
    <3>3. Move(job[w].item, job[w].seen + d, d)
      BY <2>3, <3>1
    <3>. QED BY <1>3, <2>1, <3>1, <3>2, <3>3
  <2>. QED BY <2>1, <2>2, <2>3
<1>14. ASSUME NEW w \in Workers, Reads(w) PROVE BooksWhatItMoves
  BY <1>14, TypeReads, QuietBooks DEF data
<1>15. ASSUME NEW w \in Workers,
              \/ CreateReservation(w) \/ EditReservationWrites(w)
              \/ ReserveWrites(w)     \/ TakeCountWrites(w)
              \/ Abort(w)
       PROVE  BooksWhatItMoves
  <2>1. UNCHANGED <<qty, moved, refunded, adjusted, sale, grn, part>>
    BY <1>15 DEF CreateReservation, EditReservationWrites, ReserveWrites,
                 TakeCountWrites, Abort, data
  <2>. QED BY <2>1, QuietBooks
<1>16. CASE UNCHANGED vars
  BY <1>16, QuietBooks DEF vars
<1>. QED BY <1>4, <1>5, <1>6, <1>7, <1>8, <1>9, <1>10, <1>11, <1>12, <1>13,
            <1>14, <1>15, <1>16 DEF Next, Reads

LEMMA ExplainedNext ==
    TypeInv /\ Explained /\ FreshCopies /\ CurrentDocuments /\ [Next]_vars
        => Explained'
<1>. SUFFICES ASSUME TypeInv, Explained, FreshCopies, CurrentDocuments,
                     [Next]_vars, NEW k \in Items
              PROVE  qty'[k] = Opening + Documents(k)'
  BY DEF Explained
<1>1. PICK i \in Items \cup {NoRef}, d \in Int :
        Booked(i, d) /\ StockMoves(i, d)
  BY StepBooks DEF BooksWhatItMoves
<1>2. qty[k] = Opening + Documents(k)
  BY DEF Explained
<1>3. Opening \in Int /\ Documents(k) \in Int
  BY BoundsAssumption, DocumentTypes DEF Documents
<1>. QED BY <1>1, <1>2, <1>3 DEF Booked, StockMoves

LEMMA HistoryNext ==
    TypeInv /\ HistoryExplained /\ CurrentDocuments /\ [Next]_vars
        => HistoryExplained'
<1>. SUFFICES ASSUME TypeInv, HistoryExplained, CurrentDocuments, [Next]_vars,
                     NEW k \in Items
              PROVE  moved'[k] = Documents(k)' + refunded'[k]
  BY DEF HistoryExplained
<1>1. PICK i \in Items \cup {NoRef}, d \in Int :
        Booked(i, d) /\ HistoryMoves(i, d)
  BY StepBooks DEF BooksWhatItMoves
<1>2. moved[k] = Documents(k) + refunded[k]
  BY DEF HistoryExplained
<1>3. TypeInv'
  BY TypeNext
<1>4. /\ Documents(k) \in Int /\ moved[k] \in Int /\ refunded[k] \in Int
      /\ moved'[k] \in Int /\ refunded'[k] \in Int
  BY <1>3, DocumentTypes DEF Documents, TypeInv, TypeOK
<1>5. /\ Documents(k)' = Documents(k) + (IF k = i THEN d ELSE 0)
      /\ moved'[k] - refunded'[k]
            = moved[k] - refunded[k] + (IF k = i THEN d ELSE 0)
  BY <1>1 DEF Booked, HistoryMoves
<1>. QED BY <1>2, <1>4, <1>5

LEMMA ExplainedInit == Init => Explained /\ HistoryExplained
<1>. SUFFICES ASSUME Init, NEW k \in Items
              PROVE  /\ qty[k] = Opening + Documents(k)
                     /\ moved[k] = Documents(k) + refunded[k]
  BY DEF Explained, HistoryExplained
<1>1. Total(ReceivedUnits(k)) = 0
  <2>1. /\ ReceivedUnits(k) \in [Grns -> Int]
        /\ \A g \in Grns : ReceivedUnits(k)[g] = 0
    BY DEF Init, NoGrn, ReceivedUnits
  <2>. QED BY <2>1, TotalZero
<1>2. Total(SoldUnits(k)) = 0
  <2>1. /\ SoldUnits(k) \in [Sales -> Int]
        /\ \A s \in Sales : SoldUnits(k)[s] = 0
    BY DEF Init, NoSale, SoldUnits
  <2>. QED BY <2>1, TotalZero
<1>3. Total(UsedUnits(k)) = 0
  <2>1. /\ UsedUnits(k) \in [Parts -> Int]
        /\ \A p \in Parts : UsedUnits(k)[p] = 0
    BY NoRefAssumption DEF Init, NoPart, UsedUnits
  <2>. QED BY <2>1, TotalZero
<1>. QED BY <1>1, <1>2, <1>3, BoundsAssumption DEF Documents, Init

(* Served one request at a time, whatever the endpoints, every quantity is *)
(* what the documents add up to: no reversal is booked twice or forgotten. *)
THEOREM SerialDocumentsExplainStock ==
    ASSUME \A v, w \in Workers : v = w
    PROVE  Spec => []DocumentsExplainStock
<1>1. Init => FreshCopies /\ CurrentDocuments
  BY DEF Init, FreshCopies, Fresh, StaleWriters, CurrentDocuments, Matches,
         Idle, StockRequest, Request
<1>. QED BY <1>1, TypeInit, TypeNext, FreshSerial, CurrentDocumentsNext,
            ExplainedInit, ExplainedNext, ExplainedByDocuments, PTL DEF Spec

(* However many requests to the endpoints that take the quantity under the *)
(* lock run at once, the documents explain every quantity.                 *)
THEOREM LockedDocumentsExplainStock ==
    ASSUME \A w \in Workers : Endpoints[w] \subseteq LockedEndpoints
    PROVE  Spec => []DocumentsExplainStock
<1>1. Init => EnabledOps
  BY DEF Init, EnabledOps, Idle, StockRequest, Request
<1>2. EnabledOps => FreshCopies /\ CurrentDocuments
  BY DEF EnabledOps, FreshCopies, Fresh, StaleWriters, CurrentDocuments,
         Matches, LockedEndpoints
<1>. QED BY <1>1, <1>2, TypeInit, TypeNext, EnabledNext, ExplainedInit,
            ExplainedNext, ExplainedByDocuments, PTL DEF Spec

(* However many requests run at once and whatever copies they compute from,*)
(* as long as none of them reverses a document (a void, a cancelled note,  *)
(* a removed part) the movement history is what the documents book and     *)
(* what quick refunds book twice: a lost update spoils the quantity, never *)
(* the history.                                                            *)
THEOREM HistoryFollowsDocuments ==
    ASSUME \A w \in Workers : Endpoints[w] \cap Reversals = {}
    PROVE  Spec => []HistoryExplained
<1>1. Init => EnabledOps
  BY DEF Init, EnabledOps, Idle, StockRequest, Request
<1>2. EnabledOps => CurrentDocuments
  BY DEF EnabledOps, CurrentDocuments, Matches, Reversals
<1>. QED BY <1>1, <1>2, TypeInit, TypeNext, EnabledNext, ExplainedInit,
            HistoryNext, PTL DEF Spec

=============================================================================
