---------------------------- MODULE OfflineSales ----------------------------
(***************************************************************************)
(* The checkout of a till (frontend/src/pages/POS.jsx), the offline sales  *)
(* it keeps in the browser (lib/syncQueue.js) and the two endpoints that   *)
(* turn them into invoices (pos_router: checkout, checkout/batch-sync).    *)
(*                                                                         *)
(* A purchase is what one customer wants; the lines of a cart are left     *)
(* out.  Every press of the checkout button is a submission of its own,    *)
(* with its own payload and, if it goes offline, its own number.  A        *)
(* request goes to the server, is served and is answered in steps of       *)
(* their own, so the till may give up on one that is still being served.   *)
(***************************************************************************)
EXTENDS Integers, FiniteSets, FiniteSetsExt

CONSTANTS
    Purchases,      \* carts a cashier may put together
    MaxSubmissions, \* bound: presses of the checkout button
    Scarce,         \* submissions the server may refuse, for lack of stock
    Batches,        \* batch requests that may overlap on the server
    BatchLimit,     \* sales the server accepts in one batch (100)
    MaxFaults,      \* bound: lost answers, server stops and page reloads
    NoPurchase      \* an empty cart

Submissions == 1..MaxSubmissions

ASSUME BoundsAssumption ==
    /\ {MaxSubmissions, BatchLimit} \subseteq Nat \ {0}
    /\ MaxFaults \in Nat
    /\ Scarce \subseteq Submissions

ASSUME NoPurchaseAssumption == NoPurchase \notin Purchases

VARIABLES
    cart,       \* the purchase on the screen
    sub,        \* submissions, as the till and as the server see them
    clicks,     \* how many submissions there are
    stored,     \* offline_sales in the browser, by submission
    up,         \* whether the server runs
    batch,      \* batch requests on the server
    sold,       \* invoices that batches wrote for a submission
    numbered,   \* submissions whose offline number is on an invoice
    half,       \* invoices committed for a submission that was refused
    doubt,      \* history: times the batch could not know it had sold it
    lost,       \* history: submissions whose answer did not arrive
    risky,      \* history: purchases submitted or parked while in flight
    begun,      \* history: purchases put together so far
    faults      \* lost answers, stops and reloads so far

tillVars == <<cart, sub, clicks, stored, lost, risky, begun>>
batchVars == <<batch, sold, numbered, half, doubt>>
vars == <<tillVars, batchVars, up, faults>>

Submission ==
    [buys : Purchases \cup {NoPurchase},
     till : {"unused", "posting", "saving", "accepted", "refused",
             "forgotten"},
     server : {"none", "waiting", "sold", "refused", "dead"}]
NoSubmission == [buys |-> NoPurchase, till |-> "unused", server |-> "none"]

(* A batch works on the first of the sales left, and its session may hold  *)
(* what refused sales had already written.                                 *)
Batch == [at : {"idle", "look", "sell", "number"},
          left : SUBSET Submissions,
          held : SUBSET Submissions,
          overlaps : BOOLEAN]
NoBatch == [at |-> "idle", left |-> {}, held |-> {}, overlaps |-> FALSE]

TypeOK ==
    /\ cart \in Purchases \cup {NoPurchase}
    /\ sub \in [Submissions -> Submission]
    /\ clicks \in 0..MaxSubmissions
    /\ stored \in SUBSET Submissions
    /\ up \in BOOLEAN
    /\ batch \in [Batches -> Batch]
    /\ sold \in [Submissions -> Nat]
    /\ numbered \in SUBSET Submissions
    /\ half \in [Submissions -> Nat]
    /\ doubt \in [Submissions -> Nat]
    /\ lost \in SUBSET Submissions
    /\ risky \in SUBSET Purchases
    /\ begun \in SUBSET Purchases
    /\ faults \in 0..MaxFaults

Init ==
    /\ cart = NoPurchase
    /\ sub = [n \in Submissions |-> NoSubmission]
    /\ clicks = 0
    /\ stored = {}
    /\ up = TRUE
    /\ batch = [b \in Batches |-> NoBatch]
    /\ sold = [n \in Submissions |-> 0]
    /\ numbered = {}
    /\ half = [n \in Submissions |-> 0]
    /\ doubt = [n \in Submissions |-> 0]
    /\ lost = {}
    /\ risky = {}
    /\ begun = {}
    /\ faults = 0

InFlight(n) == sub[n].till \in {"posting", "saving"}
InFlightOf(p) == {n \in Submissions : sub[n].buys = p /\ InFlight(n)}

Fault == faults < MaxFaults /\ faults' = faults + 1

-----------------------------------------------------------------------------
(* The till.                                                               *)

(* The first line of a new purchase.                                       *)
Fill(p) ==
    /\ cart = NoPurchase
    /\ p \notin begun
    /\ cart' = p
    /\ begun' = begun \cup {p}
    /\ UNCHANGED <<sub, clicks, stored, lost, risky, batchVars, up, faults>>

(* The cashier throws the cart away.                                       *)
ClearCart ==
    /\ cart # NoPurchase
    /\ cart' = NoPurchase
    /\ UNCHANGED <<sub, clicks, stored, lost, risky, begun,
                   batchVars, up, faults>>

(* checkout takes a copy of the cart.  Whether the page believes that the  *)
(* server is reachable has little to do with whether it is: the ping is a  *)
(* HEAD request to a route that only knows GET.  Nothing disables the      *)
(* button meanwhile.                                                       *)
Checkout(reachable) ==
    /\ cart # NoPurchase
    /\ clicks < MaxSubmissions
    /\ clicks' = clicks + 1
    /\ sub' = [sub EXCEPT ![clicks + 1] =
                [buys |-> cart,
                 till |-> IF reachable THEN "posting" ELSE "saving",
                 server |-> IF ~reachable THEN "none"
                            ELSE IF up THEN "waiting" ELSE "dead"]]
    /\ risky' = IF InFlightOf(cart) = {} THEN risky ELSE risky \cup {cart}
    /\ UNCHANGED <<cart, stored, lost, begun, batchVars, up, faults>>

(* A sale that ends well empties the cart on the screen, whatever it is by *)
(* now.                                                                    *)
CartKept == UNCHANGED cart
EmptyCart == cart' = NoPurchase

(* The answer arrives.                                                     *)
Succeeded(n) ==
    /\ sub[n].till = "posting"
    /\ sub[n].server = "sold"
    /\ sub' = [sub EXCEPT ![n].till = "accepted"]
    /\ EmptyCart
    /\ UNCHANGED <<clicks, stored, lost, risky, begun, batchVars, up, faults>>

(* A refusal is shown, unless the browser has gone offline since: then the *)
(* purchase is kept as an offline sale, as below.                          *)
WasRefused(n, onLine) ==
    /\ sub[n].till = "posting"
    /\ sub[n].server = "refused"
    /\ sub' = [sub EXCEPT ![n].till = IF onLine THEN "refused" ELSE "saving"]
    /\ UNCHANGED <<cart, clicks, stored, lost, risky, begun,
                   batchVars, up, faults>>

(* No answer within 15 seconds, or none at all: the same purchase is kept  *)
(* as an offline sale.                                                     *)
NoAnswer(n) ==
    /\ sub[n].till = "posting"
    /\ \/ sub[n].server = "dead" /\ UNCHANGED <<lost, faults>>
       \/ sub[n].server # "dead" /\ Fault /\ lost' = lost \cup {n}
    /\ sub' = [sub EXCEPT ![n].till = "saving"]
    /\ UNCHANGED <<cart, clicks, stored, risky, begun, batchVars, up>>

(* The entry of offline_sales has the number of the submission as its key. *)
EntryByPurchase(n) == {sub[n].buys}
Entry(n) == {n}

(* saveOfflineSale; its result is not looked at, so a failure looks the    *)
(* same on the screen.                                                     *)
Save(n, kept) ==
    /\ sub[n].till = "saving"
    /\ sub' = [sub EXCEPT ![n].till = "accepted"]
    /\ stored' = IF kept THEN stored \cup Entry(n) ELSE stored
    /\ EmptyCart
    /\ UNCHANGED <<clicks, lost, risky, begun, batchVars, up, faults>>

(* The page is loaded again: what was in flight is forgotten, though a     *)
(* write to the browser's database may still complete.                     *)
Reload ==
    /\ Fault
    /\ \E kept \in SUBSET {n \in Submissions : sub[n].till = "saving"} :
        /\ stored' = stored \cup kept
        /\ sub' = [n \in Submissions |->
                    IF InFlight(n) THEN [sub[n] EXCEPT !.till = "forgotten"]
                    ELSE sub[n]]
    /\ cart' = NoPurchase
    /\ UNCHANGED <<clicks, lost, risky, begun, batchVars, up>>

-----------------------------------------------------------------------------
(* The server.                                                             *)

(* A session that has written and neither committed nor rolled back keeps  *)
(* the write lock.                                                         *)
WriteLockFree(except) ==
    \A c \in Batches \ except : batch[c].held = {}

(* POST /pos/checkout.                                                     *)
Serve(n) ==
    /\ up
    /\ sub[n].server = "waiting"
    /\ \/ /\ WriteLockFree({})
          /\ sub' = [sub EXCEPT ![n].server = "sold"]
       \/ /\ n \in Scarce
          /\ sub' = [sub EXCEPT ![n].server = "refused"]
    /\ UNCHANGED <<cart, clicks, stored, lost, risky, begun,
                   batchVars, up, faults>>

(* processQueue posts every stored sale, from a timer, from the browser's  *)
(* online event or from a page, whether or not an earlier batch is still   *)
(* being served.  A batch above the limit is refused as a whole.  The      *)
(* answer changes nothing: it is looked for where axios does not put it,   *)
(* so nothing is ever removed from the list.                               *)
StartBatch(b) ==
    /\ up
    /\ batch[b].at = "idle"
    /\ Cardinality(stored) \in 1..BatchLimit
    /\ batch' = [batch EXCEPT ![b] =
                    [at |-> "look", left |-> stored, held |-> {},
                     overlaps |-> FALSE]]
    /\ UNCHANGED <<tillVars, sold, numbered, half, doubt, up, faults>>

Current(b) == Min(batch[b].left)

(* On to the next sale, or the end of the request: the session is closed   *)
(* and what it holds is rolled back.                                       *)
NextSaleNever(b, held) == batch' = [batch EXCEPT ![b] = NoBatch]
NextSale(b, held) ==
    LET left == batch[b].left \ {Current(b)}
    IN  batch' = [batch EXCEPT ![b] =
                    IF left = {} THEN NoBatch
                    ELSE [at |-> "look", left |-> left, held |-> held,
                          overlaps |-> FALSE]]

(* Another batch has looked for n and has not yet given it its number.     *)
UnderWay(n, b) ==
    \E c \in Batches \ {b} :
        batch[c].at \in {"sell", "number"} /\ Current(c) = n

KnownNever(n) == FALSE
Known(n) == n \in numbered

(* Is there an invoice of this number?                                     *)
Look(b) ==
    /\ batch[b].at = "look"
    /\ IF Known(Current(b))
       THEN NextSale(b, batch[b].held)
       ELSE batch' = [batch EXCEPT ![b].at = "sell",
                         ![b].overlaps = UnderWay(Current(b), b)]
    /\ UNCHANGED <<tillVars, sold, numbered, half, doubt, up, faults>>

(* checkout sells under an ordinary number and commits; with it goes       *)
(* whatever the session still holds.                                       *)
SellStored(b) ==
    /\ batch[b].at = "sell"
    /\ WriteLockFree({b})
    /\ sold' = [sold EXCEPT ![Current(b)] = @ + 1]
    /\ doubt' = [doubt EXCEPT ![Current(b)] =
                    IF batch[b].overlaps THEN @ + 1 ELSE @]
    /\ half' = [n \in Submissions |->
                    IF n \in batch[b].held THEN half[n] + 1 ELSE half[n]]
    /\ batch' = [batch EXCEPT ![b].at = "number", ![b].held = {}]
    /\ UNCHANGED <<tillVars, numbered, up, faults>>

(* checkout raises, before it has written anything or after; the exception *)
(* is caught and nothing is rolled back.                                   *)
RefuseStored(b) ==
    /\ batch[b].at = "sell"
    /\ Current(b) \in Scarce
    /\ \/ NextSale(b, batch[b].held)
       \/ /\ WriteLockFree({b})
          /\ NextSale(b, batch[b].held \cup {Current(b)})
    /\ UNCHANGED <<tillVars, sold, numbered, half, doubt, up, faults>>

(* The sale gets its offline number in a second commit.  If an invoice has *)
(* it by now the session fails, and with it the rest of the batch.         *)
GiveNumber(b) ==
    /\ batch[b].at = "number"
    /\ WriteLockFree({b})
    /\ IF Known(Current(b))
       THEN batch' = [batch EXCEPT ![b] = NoBatch]
       ELSE NextSale(b, {})
    /\ numbered' = numbered \cup {Current(b)}
    /\ UNCHANGED <<tillVars, sold, half, doubt, up, faults>>

(* The server stops between two steps; what is not committed is gone.      *)
Stop ==
    /\ up
    /\ Fault
    /\ up' = FALSE
    /\ sub' = [n \in Submissions |->
                IF sub[n].server = "waiting"
                THEN [sub[n] EXCEPT !.server = "dead"] ELSE sub[n]]
    /\ doubt' = [n \in Submissions |->
                    IF \E b \in Batches :
                        batch[b].at = "number" /\ Current(b) = n
                    THEN doubt[n] + 1 ELSE doubt[n]]
    /\ batch' = [b \in Batches |-> NoBatch]
    /\ UNCHANGED <<cart, clicks, stored, lost, risky, begun, sold, numbered,
                   half>>

Start ==
    /\ ~up
    /\ up' = TRUE
    /\ UNCHANGED <<tillVars, batchVars, faults>>

-----------------------------------------------------------------------------

BatchStep(b) ==
    Look(b) \/ SellStored(b) \/ RefuseStored(b) \/ GiveNumber(b)

Next ==
    \/ \E p \in Purchases : Fill(p)
    \/ ClearCart
    \/ \E reachable \in BOOLEAN : Checkout(reachable)
    \/ \E n \in Submissions :
        \/ Succeeded(n) \/ NoAnswer(n) \/ Serve(n)
        \/ \E onLine \in BOOLEAN : WasRefused(n, onLine)
        \/ \E kept \in BOOLEAN : Save(n, kept)
    \/ Reload
    \/ \E b \in Batches : StartBatch(b) \/ BatchStep(b)
    \/ Stop
    \/ Start

(* The timer of the page goes off every minute; a request that the server  *)
(* serves goes on, and waits for the write lock for longer than anyone     *)
(* holds it; a stopped server is started again.                            *)
Fairness ==
    /\ WF_vars(Start)
    /\ \A b \in Batches :
        /\ WF_vars(StartBatch(b))
        /\ WF_vars(Look(b))
        /\ SF_vars(SellStored(b) \/ RefuseStored(b))
        /\ SF_vars(GiveNumber(b))

Spec == Init /\ [][Next]_vars /\ Fairness

-----------------------------------------------------------------------------
(* A submission is invoiced once, through checkout or through a batch,     *)
(* unless the till or a batch could not know: its answer was lost, the     *)
(* server stopped between the two commits of a batch, or another batch was *)
(* about to sell it when this one looked for the number                    *)
(* (pos_router.py:2038) and found none.  What this excuses is counted, and *)
(* BatchSellsOnce says what the code promises of it.                       *)
SoldOnceUnlessInDoubt ==
    \A n \in Submissions :
        sold[n] + (IF sub[n].server = "sold" THEN 1 ELSE 0)
            <= 1 + doubt[n] + (IF n \in lost THEN 1 ELSE 0)

(* The batches write one invoice for a submission.                         *)
(* pos_router.py:2021: "Idempotently processes batches of completed        *)
(* offline sales. Deduplicates on tenant + offline_invoice_no."            *)
BatchSellsOnce == \A n \in Submissions : sold[n] <= 1

(* One purchase is taken down once, however it went: two submissions of it *)
(* that both ended well must have been in flight together.  It is why the  *)
(* till empties the cart when a sale ends (POS.jsx:1333, 1352).            *)
TakenDownOnce ==
    \A m, n \in Submissions :
        (/\ m # n
         /\ sub[m].till = "accepted" /\ sub[n].till = "accepted"
         /\ sub[m].buys = sub[n].buys) => sub[m].buys \in risky

(* What a till has stored stays stored, is registered once under its       *)
(* number, and is registered in the end if the server need not refuse it.  *)
Register == INSTANCE SaleRegister WITH
    Sales <- Submissions, Refusable <- Scarce,
    promised <- stored, registered <- numbered
StoredSalesRegister == Register!Spec

(* A sale the server has refused leaves nothing in the books.              *)
(* docs/PRODUCTION_READINESS_AUDIT.md:47: "sale data is either fully       *)
(* committed or fully rolled back".                                        *)
NoHalfInvoice == \A n \in Submissions : half[n] = 0

(* A stored sale is registered in the end, provided that there are never   *)
(* more unregistered ones than one batch may hold.                         *)
(* frontend/src/components/NetworkStatusBar.jsx:7: "Working offline -      *)
(* changes will sync when reconnected".                                    *)
ChangesWillSync ==
    [](Cardinality(stored \ numbered) <= BatchLimit) =>
        \A n \in Submissions : n \in stored ~> n \in numbered
=============================================================================
