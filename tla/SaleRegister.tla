---------------------------- MODULE SaleRegister ----------------------------
(***************************************************************************)
(* What a till that works offline promises: a sale it has taken down stays *)
(* taken down, is registered in the books only after that, and is          *)
(* registered in the end unless the shop may have to refuse it.            *)
(***************************************************************************)
CONSTANTS
    Sales,          \* sales a till may take down
    Refusable       \* those the books may refuse, for lack of stock

VARIABLES
    promised,       \* sales taken down
    registered      \* sales in the books under the number of the promise

vars == <<promised, registered>>

Init == promised = {} /\ registered = {}

(* Several at once when a page that is left finishes its writes.           *)
Promise(some) ==
    /\ some \cap promised = {}
    /\ promised' = promised \cup some
    /\ UNCHANGED registered

Register(s) ==
    /\ s \in promised \ registered
    /\ registered' = registered \cup {s}
    /\ UNCHANGED promised

Next ==
    \/ \E some \in SUBSET Sales : Promise(some)
    \/ \E s \in Sales : Register(s)

Fairness == \A s \in Sales \ Refusable : WF_vars(Register(s))

Spec == Init /\ [][Next]_vars /\ Fairness
=============================================================================
