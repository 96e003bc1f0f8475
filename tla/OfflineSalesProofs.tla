------------------------- MODULE OfflineSalesProofs -------------------------
(***************************************************************************)
(* Theorems about the sales of a till, for any number of purchases,        *)
(* submissions, overlapping batches and faults.                            *)
(***************************************************************************)
EXTENDS OfflineSales, WellFoundedInduction, FiniteSetTheorems, TLAPS

-----------------------------------------------------------------------------
(* What the batches keep.                                                  *)

InHand(b) == batch[b].at \in {"sell", "number"}

(* A batch that works has a sale to work on, and all its sales are stored. *)
BatchesAtWork ==
    \A b \in Batches :
        /\ batch[b].left \subseteq stored
        /\ batch[b].at # "idle" => batch[b].left # {}

(* Of two batches with the same sale in hand, the later knows of the other.*)
LaterKnows ==
    \A b, c \in Batches :
        b # c /\ InHand(b) /\ InHand(c) /\ Current(b) = Current(c) =>
            batch[b].overlaps \/ batch[c].overlaps

Numbering(n) == \E b \in Batches : batch[b].at = "number" /\ Current(b) = n

(* A sale without its number has no invoice but those of doubt, unless a   *)
(* batch is about to number it.                                            *)
UnnumberedUnsold ==
    \A n \in Submissions :
        n \notin numbered /\ ~Numbering(n) => sold[n] <= doubt[n]

(* A batch that sells and has seen no other finds the sale unsold.         *)
SellsUnsold ==
    \A b \in Batches :
        batch[b].at = "sell" /\ ~batch[b].overlaps =>
            sold[Current(b)] <= doubt[Current(b)]

SoldAboutOnce == \A n \in Submissions : sold[n] <= doubt[n] + 1

-----------------------------------------------------------------------------
(* What the till keeps.                                                    *)

(* A submission that the server sells, or still may, does not go offline   *)
(* as long as its answer is not lost.                                      *)
OnlineOrOffline ==
    \A n \in Submissions :
        sub[n].server \in {"waiting", "sold"} /\ n \notin lost =>
            /\ n \notin stored
            /\ sub[n].till # "saving"
            /\ sold[n] = 0

NotYetSubmitted ==
    \A n \in Submissions :
        n > clicks => sub[n] = NoSubmission /\ n \notin stored /\ sold[n] = 0

(* Every purchase was begun, and only once.                                *)
Begun ==
    /\ cart # NoPurchase => cart \in begun
    /\ \A n \in Submissions :
        sub[n].till # "unused" => sub[n].buys \in begun

(* Two submissions of one purchase, neither of which ended badly.          *)
Same(m, n) == m # n /\ sub[m].buys = sub[n].buys
Well(n) == InFlight(n) \/ sub[n].till = "accepted"

AcceptedIsGone ==
    \A n \in Submissions : sub[n].till = "accepted" => cart # sub[n].buys

TogetherIsRisky ==
    \A m, n \in Submissions :
        Same(m, n) /\ Well(m) /\ Well(n) => sub[m].buys \in risky

BatchInv ==
    /\ BatchesAtWork /\ LaterKnows /\ UnnumberedUnsold /\ SellsUnsold
    /\ SoldAboutOnce
TillInv == OnlineOrOffline /\ NotYetSubmitted
CartInv == Begun /\ AcceptedIsGone /\ TogetherIsRisky

IInv == TypeOK /\ BatchInv /\ TillInv /\ CartInv

-----------------------------------------------------------------------------
(* Operators.                                                              *)

LEMMA MinFact ==
    ASSUME NEW S \in SUBSET Submissions, S # {}
    PROVE  Min(S) \in S
<1>1. S \subseteq Nat
  BY BoundsAssumption DEF Submissions
<1>2. PICK x \in S : \A y \in S : <<y, x>> \notin OpToRel(<, Nat)
  BY <1>1, WFMin, NatLessThanWellFounded, Zenon
<1>3. \A y \in S : x <= y
  <2> TAKE y \in S
  <2>1. ~ (y < x)
    BY <1>1, <1>2 DEF OpToRel
  <2> QED
    BY <1>1, <2>1
<1> QED
  BY <1>3 DEF Min

(* A batch that works has the first of its sales in hand.                  *)
LEMMA CurrentFact ==
    ASSUME TypeOK, BatchesAtWork, NEW b \in Batches, batch[b].at # "idle"
    PROVE  /\ Current(b) \in batch[b].left
           /\ Current(b) \in Submissions
           /\ Current(b) \in stored
<1>1. batch[b].left \in SUBSET Submissions
  BY DEF TypeOK, Batch
<1> QED
  BY <1>1, MinFact DEF BatchesAtWork, Current

(* What a batch is after a sale.                                           *)
LEMMA NextSaleFact ==
    ASSUME TypeOK, NEW b \in Batches, NEW held \in SUBSET Submissions,
           NextSale(b, held)
    PROVE  /\ batch' \in [Batches -> Batch]
           /\ \A c \in Batches \ {b} : batch'[c] = batch[c]
           /\ batch'[b].at \in {"idle", "look"}
           /\ batch'[b].left \subseteq batch[b].left
           /\ batch'[b].at # "idle" => batch'[b].left # {}
<1> DEFINE left == batch[b].left \ {Current(b)}
           new == IF left = {} THEN NoBatch
                  ELSE [at |-> "look", left |-> left, held |-> held,
                        overlaps |-> FALSE]
<1>1. batch' = [batch EXCEPT ![b] = new]
  BY DEF NextSale
<1>2. batch \in [Batches -> Batch]
  BY DEF TypeOK
<1>3. left \in SUBSET Submissions
  BY <1>2 DEF Batch
<1>4. NoBatch \in Batch
  BY Zenon DEF NoBatch, Batch
<1>5. new \in Batch
  BY <1>3, <1>4, Zenon DEF Batch
<1>6. /\ new.at \in {"idle", "look"}
      /\ new.left \subseteq batch[b].left
      /\ new.at # "idle" => new.left # {}
  BY DEF NoBatch
<1> HIDE DEF new
<1> QED
  BY <1>1, <1>2, <1>5, <1>6

-----------------------------------------------------------------------------
(* The batches, action by action.                                          *)

LEMMA BatchesUntouched ==
    ASSUME TypeOK, BatchInv, UNCHANGED batchVars, stored \subseteq stored'
    PROVE  BatchInv'
<1>1. \A b \in Batches : batch'[b] = batch[b] /\ Current(b)' = Current(b)
  BY DEF batchVars, Current
<1> QED
  BY <1>1 DEF batchVars, BatchInv, BatchesAtWork, LaterKnows, InHand,
     UnnumberedUnsold, Numbering, SellsUnsold, SoldAboutOnce

(* A batch that puts no new sale in hand takes nothing from the others.    *)
LEMMA BatchLetsGo ==
    ASSUME TypeOK, BatchInv, NEW b \in Batches,
           \A c \in Batches \ {b} : batch'[c] = batch[c],
           batch'[b].at \in {"idle", "look"},
           batch'[b].left \subseteq stored,
           batch'[b].at # "idle" => batch'[b].left # {},
           stored' = stored, sold' = sold, doubt' = doubt,
           numbered \subseteq numbered',
           batch[b].at = "number" => Current(b) \in numbered'
    PROVE  BatchInv'
<1>1. \A c \in Batches \ {b} : Current(c)' = Current(c)
  BY DEF Current
<1>2. \A c \in Batches : InHand(c)' => c # b /\ InHand(c)
  BY DEF InHand
<1>3. BatchesAtWork'
  BY DEF BatchInv, BatchesAtWork
<1>4. LaterKnows'
  BY <1>1, <1>2 DEF BatchInv, LaterKnows
<1>5. UnnumberedUnsold'
  <2> SUFFICES ASSUME NEW n \in Submissions, n \notin numbered',
                      ~Numbering(n)'
               PROVE  sold[n] <= doubt[n]
    BY DEF UnnumberedUnsold
  <2>1. ~Numbering(n)
    BY <1>1 DEF Numbering
  <2> QED
    BY <2>1 DEF BatchInv, UnnumberedUnsold
<1>6. SellsUnsold'
  BY <1>1 DEF BatchInv, SellsUnsold
<1>7. SoldAboutOnce'
  BY DEF BatchInv, SoldAboutOnce
<1> QED
  BY <1>3, <1>4, <1>5, <1>6, <1>7 DEF BatchInv

LEMMA StartBatchKeeps ==
    ASSUME TypeOK, BatchInv, NEW b \in Batches, StartBatch(b)
    PROVE  BatchInv' /\ batch' \in [Batches -> Batch]
<1> DEFINE new == [at |-> "look", left |-> stored, held |-> {},
                   overlaps |-> FALSE]
<1>1. batch \in [Batches -> Batch] /\ stored \in SUBSET Submissions
  BY DEF TypeOK
<1>3. new \in Batch
  BY <1>1, Zenon DEF Batch
<1>4. stored # {}
  BY FS_EmptySet DEF StartBatch
<1>5. batch' = [batch EXCEPT ![b] = new]
  BY DEF StartBatch
<1>6. new.at = "look" /\ new.left = stored
  OBVIOUS
<1> HIDE DEF new
<1>7. batch'[b] = new /\ \A c \in Batches \ {b} : batch'[c] = batch[c]
  BY <1>1, <1>5
<1>8. batch' \in [Batches -> Batch]
  BY <1>1, <1>3, <1>5
<1>9. /\ stored' = stored /\ sold' = sold /\ doubt' = doubt
      /\ numbered' = numbered /\ batch[b].at = "idle"
  BY DEF StartBatch, tillVars
<1> QED
  BY <1>4, <1>6, <1>7, <1>8, <1>9, BatchLetsGo

LEMMA RefuseKeeps ==
    ASSUME TypeOK, BatchInv, NEW b \in Batches, RefuseStored(b)
    PROVE  BatchInv' /\ batch' \in [Batches -> Batch]
<1>1. batch[b].at = "sell" /\ batch[b] \in Batch
  BY DEF RefuseStored, TypeOK
<1>2. Current(b) \in Submissions
  BY <1>1, CurrentFact DEF BatchInv
<1>3. PICK held \in SUBSET Submissions : NextSale(b, held)
  BY <1>1, <1>2 DEF RefuseStored, Batch
<1>4. /\ stored' = stored /\ sold' = sold /\ doubt' = doubt
      /\ numbered' = numbered
  BY DEF RefuseStored, tillVars
<1>5. batch[b].left \subseteq stored
  BY DEF BatchInv, BatchesAtWork
<1> QED
  BY <1>1, <1>3, <1>4, <1>5, NextSaleFact, BatchLetsGo

LEMMA GiveNumberKeeps ==
    ASSUME TypeOK, BatchInv, NEW b \in Batches, GiveNumber(b)
    PROVE  BatchInv' /\ batch' \in [Batches -> Batch]
<1>1. batch[b].at = "number" /\ batch \in [Batches -> Batch]
  BY DEF GiveNumber, TypeOK
<1>2. /\ stored' = stored /\ sold' = sold /\ doubt' = doubt
      /\ numbered \subseteq numbered' /\ Current(b) \in numbered'
  BY DEF GiveNumber, tillVars
<1>3. batch[b].left \subseteq stored
  BY DEF BatchInv, BatchesAtWork
<1>4. CASE Known(Current(b))
  <2>1. NoBatch \in Batch /\ NoBatch.at = "idle" /\ NoBatch.left = {}
    BY Zenon DEF NoBatch, Batch
  <2>2. batch' = [batch EXCEPT ![b] = NoBatch]
    BY <1>4 DEF GiveNumber
  <2>3. /\ batch'[b] = NoBatch /\ batch' \in [Batches -> Batch]
        /\ \A c \in Batches \ {b} : batch'[c] = batch[c]
    BY <1>1, <2>1, <2>2
  <2> QED
    BY <1>2, <2>1, <2>3, BatchLetsGo
<1>5. CASE ~Known(Current(b))
  <2>1. NextSale(b, {})
    BY <1>5 DEF GiveNumber
  <2> QED
    BY <1>2, <1>3, <2>1, NextSaleFact, BatchLetsGo
<1> QED
  BY <1>4, <1>5

(* A batch that looks finds a sale known, or puts it in hand.              *)
LEMMA LookKeeps ==
    ASSUME TypeOK, BatchInv, NEW b \in Batches, Look(b)
    PROVE  BatchInv' /\ batch' \in [Batches -> Batch]
<1> DEFINE n == Current(b)
<1>1. batch[b].at = "look" /\ batch \in [Batches -> Batch]
  BY DEF Look, TypeOK
<1>2. /\ stored' = stored /\ sold' = sold /\ doubt' = doubt
      /\ numbered' = numbered
  BY DEF Look, tillVars
<1>3. batch[b].left \subseteq stored
  BY DEF BatchInv, BatchesAtWork
<1>4. CASE Known(n)
  <2>1. NextSale(b, batch[b].held) /\ batch[b].held \in SUBSET Submissions
    BY <1>1, <1>4 DEF Look, Batch
  <2> QED
    BY <1>1, <1>2, <1>3, <2>1, NextSaleFact, BatchLetsGo
<1>5. CASE ~Known(n)
  <2>1. n \in Submissions /\ n \notin numbered
    BY <1>1, <1>5, CurrentFact DEF BatchInv, Known
  <2>2. batch' = [batch EXCEPT ![b].at = "sell",
                               ![b].overlaps = UnderWay(n, b)]
    BY <1>5 DEF Look
  <2>3. UnderWay(n, b) \in BOOLEAN
    BY DEF UnderWay
  <2>4. batch' \in [Batches -> Batch]
    BY <1>1, <2>2, <2>3, Zenon DEF Batch
  <2>5. /\ batch'[b].at = "sell" /\ batch'[b].left = batch[b].left
        /\ batch'[b].overlaps = UnderWay(n, b)
        /\ \A c \in Batches \ {b} : batch'[c] = batch[c]
    BY <1>1, <2>2 DEF Batch
  <2>6. \A c \in Batches : Current(c)' = Current(c)
    BY <2>5 DEF Current
  <2>7. BatchesAtWork'
    BY <1>1, <1>2, <2>5 DEF BatchInv, BatchesAtWork
  <2>8. LaterKnows'
    <3> SUFFICES ASSUME NEW c \in Batches, NEW d \in Batches, c # d,
                        InHand(c)', InHand(d)', Current(c) = Current(d)
                 PROVE  batch'[c].overlaps \/ batch'[d].overlaps
      BY <2>6 DEF LaterKnows
    <3>1. CASE c = b
      BY <2>5, <3>1 DEF InHand, UnderWay
    <3>2. CASE d = b
      BY <2>5, <3>2 DEF InHand, UnderWay
    <3>3. CASE c # b /\ d # b
      BY <2>5, <3>3 DEF InHand, BatchInv, LaterKnows
    <3> QED
      BY <3>1, <3>2, <3>3
  <2>9. UnnumberedUnsold'
    <3>1. \A m \in Submissions : Numbering(m) => Numbering(m)'
      BY <1>1, <2>5, <2>6 DEF Numbering
    <3> QED
      BY <1>2, <3>1 DEF BatchInv, UnnumberedUnsold
  <2>10. SellsUnsold'
    <3>1. ~UnderWay(n, b) => sold[n] <= doubt[n]
      <4>1. ~UnderWay(n, b) => ~Numbering(n)
        BY <1>1 DEF UnderWay, Numbering
      <4> QED
        BY <2>1, <4>1 DEF BatchInv, UnnumberedUnsold
    <3> QED
      BY <1>2, <2>5, <2>6, <3>1 DEF BatchInv, SellsUnsold
  <2>11. SoldAboutOnce'
    BY <1>2 DEF BatchInv, SoldAboutOnce
  <2> QED
    BY <2>4, <2>7, <2>8, <2>9, <2>10, <2>11 DEF BatchInv
<1> QED
  BY <1>4, <1>5

(* A sale is sold once more than the doubts about it only if the batch has *)
(* seen no other, and then no other may do the same.                       *)
LEMMA SellKeeps ==
    ASSUME TypeOK, BatchInv, NEW b \in Batches, SellStored(b)
    PROVE  /\ BatchInv'
           /\ batch' \in [Batches -> Batch]
           /\ sold' \in [Submissions -> Nat]
           /\ doubt' \in [Submissions -> Nat]
<1> DEFINE n == Current(b)
<1>1. batch[b].at = "sell" /\ batch \in [Batches -> Batch]
  BY DEF SellStored, TypeOK
<1>2. n \in Submissions
  BY <1>1, CurrentFact DEF BatchInv
<1>3. sold \in [Submissions -> Nat] /\ doubt \in [Submissions -> Nat]
  BY DEF TypeOK
<1>4. /\ sold' = [sold EXCEPT ![n] = @ + 1]
      /\ doubt' = [doubt EXCEPT ![n] =
                      IF batch[b].overlaps THEN @ + 1 ELSE @]
      /\ stored' = stored /\ numbered' = numbered
  BY DEF SellStored, tillVars
<1>5. /\ sold' \in [Submissions -> Nat] /\ doubt' \in [Submissions -> Nat]
      /\ sold'[n] = sold[n] + 1
      /\ doubt'[n] = IF batch[b].overlaps THEN doubt[n] + 1 ELSE doubt[n]
      /\ \A m \in Submissions \ {n} : sold'[m] = sold[m] /\ doubt'[m] = doubt[m]
  BY <1>2, <1>3, <1>4
<1>6. batch' = [batch EXCEPT ![b].at = "number", ![b].held = {}]
  BY DEF SellStored
<1>7. batch' \in [Batches -> Batch]
  BY <1>1, <1>6, Zenon DEF Batch
<1>8. /\ batch'[b].at = "number" /\ batch'[b].left = batch[b].left
      /\ batch'[b].overlaps = batch[b].overlaps
      /\ \A c \in Batches \ {b} : batch'[c] = batch[c]
  BY <1>1, <1>6 DEF Batch
<1>9. \A c \in Batches : /\ Current(c)' = Current(c)
                         /\ InHand(c)' <=> InHand(c)
                         /\ batch'[c].overlaps = batch[c].overlaps
  BY <1>1, <1>8 DEF Current, InHand
<1>10. BatchesAtWork'
  BY <1>1, <1>4, <1>8 DEF BatchInv, BatchesAtWork
<1>11. LaterKnows'
  BY <1>9 DEF BatchInv, LaterKnows
<1>12. UnnumberedUnsold'
  <2>1. \A m \in Submissions : m = n => Numbering(m)'
    BY <1>8, <1>9 DEF Numbering
  <2>2. \A m \in Submissions : Numbering(m) => Numbering(m)'
    BY <1>1, <1>8, <1>9 DEF Numbering
  <2> SUFFICES ASSUME NEW m \in Submissions, m \notin numbered,
                      ~Numbering(m)'
               PROVE  sold'[m] <= doubt'[m]
    BY <1>4 DEF UnnumberedUnsold
  <2>3. m # n /\ sold[m] <= doubt[m]
    BY <2>1, <2>2 DEF BatchInv, UnnumberedUnsold
  <2> QED
    BY <1>5, <2>3
<1>13. SellsUnsold'
  <2> SUFFICES ASSUME NEW c \in Batches, batch'[c].at = "sell",
                      ~batch'[c].overlaps
               PROVE  sold'[Current(c)] <= doubt'[Current(c)]
    BY <1>9 DEF SellsUnsold
  <2>1. c # b /\ batch[c].at = "sell" /\ ~batch[c].overlaps
    BY <1>8
  <2>2. Current(c) \in Submissions /\ sold[Current(c)] <= doubt[Current(c)]
    BY <2>1, CurrentFact DEF BatchInv, SellsUnsold
  <2>3. CASE Current(c) = n
    <3>1. batch[b].overlaps
      BY <1>1, <2>1, <2>3 DEF BatchInv, LaterKnows, InHand
    <3> QED
      BY <1>3, <1>5, <2>2, <2>3, <3>1
  <2> QED
    BY <1>5, <2>2, <2>3
<1>14. SoldAboutOnce'
  <2>1. ~batch[b].overlaps => sold[n] <= doubt[n]
    BY <1>1 DEF BatchInv, SellsUnsold
  <2>2. sold[n] <= doubt[n] + 1
    BY <1>2 DEF BatchInv, SoldAboutOnce
  <2>3. sold'[n] <= doubt'[n] + 1
    BY <1>2, <1>3, <1>5, <2>1, <2>2
  <2> QED
    BY <1>2, <1>5, <2>3 DEF BatchInv, SoldAboutOnce
<1> QED
  BY <1>5, <1>7, <1>10, <1>11, <1>12, <1>13, <1>14 DEF BatchInv

(* A stop takes all batches away, and adds a doubt about each sale that    *)
(* was to be numbered.                                                     *)
LEMMA StopKeeps ==
    ASSUME TypeOK, BatchInv, Stop
    PROVE  /\ BatchInv'
           /\ batch' \in [Batches -> Batch]
           /\ doubt' \in [Submissions -> Nat]
<1>1. sold \in [Submissions -> Nat] /\ doubt \in [Submissions -> Nat]
  BY DEF TypeOK
<1>2. /\ stored' = stored /\ sold' = sold /\ numbered' = numbered
      /\ doubt' = [n \in Submissions |->
                      IF Numbering(n) THEN doubt[n] + 1 ELSE doubt[n]]
      /\ batch' = [b \in Batches |-> NoBatch]
  BY Zenon DEF Stop, Numbering
<1>3. NoBatch \in Batch /\ NoBatch.at = "idle" /\ NoBatch.left = {}
  BY Zenon DEF NoBatch, Batch
<1>4. \A b \in Batches : batch'[b].at = "idle" /\ batch'[b].left = {}
  BY <1>2, <1>3
<1>5. doubt' \in [Submissions -> Nat]
  BY <1>1, <1>2
<1>6. \A n \in Submissions :
        /\ doubt'[n] >= doubt[n]
        /\ Numbering(n) => doubt'[n] = doubt[n] + 1
  BY <1>1, <1>2
<1>7. \A n \in Submissions : n \notin numbered => sold[n] <= doubt'[n]
  BY <1>1, <1>5, <1>6 DEF BatchInv, UnnumberedUnsold, SoldAboutOnce
<1>8. SoldAboutOnce'
  BY <1>1, <1>2, <1>5, <1>6 DEF BatchInv, SoldAboutOnce
<1>9. BatchesAtWork' /\ LaterKnows' /\ SellsUnsold'
  BY <1>4 DEF BatchesAtWork, LaterKnows, InHand, SellsUnsold
<1>10. UnnumberedUnsold'
  BY <1>2, <1>7 DEF UnnumberedUnsold
<1> QED
  BY <1>2, <1>3, <1>5, <1>8, <1>9, <1>10 DEF BatchInv

-----------------------------------------------------------------------------
(* The batches, whatever happens.                                          *)

Storing ==
    \/ \E n \in Submissions, kept \in BOOLEAN : Save(n, kept)
    \/ Reload

LEMMA NextBatchInv ==
    ASSUME TypeOK, BatchInv, [Next]_vars
    PROVE  /\ BatchInv'
           /\ batch' \in [Batches -> Batch]
           /\ sold' \in [Submissions -> Nat]
           /\ doubt' \in [Submissions -> Nat]
<1>0. /\ batch \in [Batches -> Batch]
      /\ sold \in [Submissions -> Nat]
      /\ doubt \in [Submissions -> Nat]
  BY DEF TypeOK
<1>1. CASE UNCHANGED batchVars /\ stored \subseteq stored'
  BY <1>0, <1>1, BatchesUntouched DEF batchVars
<1>2. CASE \E b \in Batches : StartBatch(b)
  <2>1. UNCHANGED <<sold, doubt>>
    BY <1>2 DEF StartBatch
  <2> QED
    BY <1>0, <1>2, <2>1, StartBatchKeeps
<1>3. CASE \E b \in Batches : Look(b)
  <2>1. UNCHANGED <<sold, doubt>>
    BY <1>3 DEF Look
  <2> QED
    BY <1>0, <1>3, <2>1, LookKeeps
<1>4. CASE \E b \in Batches : SellStored(b)
  BY <1>4, SellKeeps
<1>5. CASE \E b \in Batches : RefuseStored(b)
  <2>1. UNCHANGED <<sold, doubt>>
    BY <1>5 DEF RefuseStored
  <2> QED
    BY <1>0, <1>5, <2>1, RefuseKeeps
<1>6. CASE \E b \in Batches : GiveNumber(b)
  <2>1. UNCHANGED <<sold, doubt>>
    BY <1>6 DEF GiveNumber
  <2> QED
    BY <1>0, <1>6, <2>1, GiveNumberKeeps
<1>7. CASE Stop
  <2>1. UNCHANGED sold
    BY <1>7 DEF Stop
  <2> QED
    BY <1>0, <1>7, <2>1, StopKeeps
<1>8. CASE \/ \E p \in Purchases : Fill(p)
           \/ ClearCart
           \/ \E reachable \in BOOLEAN : Checkout(reachable)
           \/ \E n \in Submissions :
                \/ Succeeded(n) \/ (\E r \in BOOLEAN : WasRefused(n, r))
                \/ NoAnswer(n) \/ Serve(n)
  <2>1. UNCHANGED batchVars /\ stored' = stored
    BY <1>8 DEF Fill, ClearCart, Checkout, Succeeded, WasRefused, NoAnswer,
       Serve
  <2> QED
    BY <1>1, <2>1
<1>9. CASE Storing
  <2>1. UNCHANGED batchVars /\ stored \subseteq stored'
    BY <1>9 DEF Storing, Save, Reload
  <2> QED
    BY <1>1, <2>1
<1>10. CASE Start \/ UNCHANGED vars
  <2>1. UNCHANGED batchVars /\ stored' = stored
    BY <1>10 DEF Start, vars, tillVars
  <2> QED
    BY <1>1, <2>1
<1> QED
  BY <1>2, <1>3, <1>4, <1>5, <1>6, <1>7, <1>8, <1>9, <1>10
  DEF Next, BatchStep, Storing

-----------------------------------------------------------------------------
(* The submissions: what each step makes of one.                           *)

(* Steps of the till or the server on a single submission.                 *)
Till(n, to) == sub' = [sub EXCEPT ![n].till = to]
Server(n, to) == sub' = [sub EXCEPT ![n].server = to]

LEMMA TillFact ==
    ASSUME TypeOK, NEW n \in Submissions,
           NEW to \in {"saving", "accepted", "refused"}, Till(n, to)
    PROVE  /\ sub' \in [Submissions -> Submission]
           /\ sub'[n].till = to
           /\ \A m \in Submissions :
                /\ sub'[m].buys = sub[m].buys
                /\ sub'[m].server = sub[m].server
                /\ m # n => sub'[m] = sub[m]
BY DEF Till, TypeOK, Submission

LEMMA ServerFact ==
    ASSUME TypeOK, NEW n \in Submissions, NEW to \in {"sold", "refused"},
           Server(n, to)
    PROVE  /\ sub' \in [Submissions -> Submission]
           /\ sub'[n].server = to
           /\ \A m \in Submissions :
                /\ sub'[m].buys = sub[m].buys
                /\ sub'[m].till = sub[m].till
                /\ m # n => sub'[m] = sub[m]
BY DEF Server, TypeOK, Submission

LEMMA CheckoutFact ==
    ASSUME TypeOK, NEW reachable \in BOOLEAN, Checkout(reachable)
    PROVE  /\ clicks + 1 \in Submissions
           /\ clicks' = clicks + 1
           /\ clicks' \in 0..MaxSubmissions
           /\ sub' \in [Submissions -> Submission]
           /\ sub'[clicks + 1].buys = cart
           /\ sub'[clicks + 1].till \in {"posting", "saving"}
           /\ sub'[clicks + 1].till = "saving" =>
                sub'[clicks + 1].server = "none"
           /\ \A m \in Submissions \ {clicks + 1} : sub'[m] = sub[m]
<1> DEFINE new == [buys |-> cart,
                   till |-> IF reachable THEN "posting" ELSE "saving",
                   server |-> IF ~reachable THEN "none"
                              ELSE IF up THEN "waiting" ELSE "dead"]
<1>1. sub \in [Submissions -> Submission] /\ clicks \in 0..MaxSubmissions
  BY DEF TypeOK
<1>2. clicks + 1 \in Submissions /\ clicks + 1 \in 0..MaxSubmissions
  BY <1>1, BoundsAssumption DEF Checkout, Submissions
<1>3. new \in Submission
  BY DEF Checkout, TypeOK, Submission
<1>4. /\ new.buys = cart /\ new.till \in {"posting", "saving"}
      /\ new.till = "saving" => new.server = "none"
  OBVIOUS
<1>5. sub' = [sub EXCEPT ![clicks + 1] = new] /\ clicks' = clicks + 1
  BY DEF Checkout
<1> HIDE DEF new
<1> QED
  BY <1>1, <1>2, <1>3, <1>4, <1>5

LEMMA ReloadFact ==
    ASSUME TypeOK, Reload
    PROVE  /\ sub' \in [Submissions -> Submission]
           /\ \A m \in Submissions :
                /\ sub'[m].buys = sub[m].buys
                /\ sub'[m].server = sub[m].server
                /\ InFlight(m) => sub'[m].till = "forgotten"
                /\ ~InFlight(m) => sub'[m] = sub[m]
<1>1. /\ sub \in [Submissions -> Submission]
      /\ sub' = [n \in Submissions |->
                    IF InFlight(n) THEN [sub[n] EXCEPT !.till = "forgotten"]
                    ELSE sub[n]]
  BY DEF Reload, TypeOK
<1> QED
  BY <1>1 DEF Submission

LEMMA StopFact ==
    ASSUME TypeOK, Stop
    PROVE  /\ sub' \in [Submissions -> Submission]
           /\ \A m \in Submissions :
                /\ sub'[m].buys = sub[m].buys
                /\ sub'[m].till = sub[m].till
                /\ sub[m].server = "waiting" => sub'[m].server = "dead"
                /\ sub[m].server # "waiting" => sub'[m] = sub[m]
<1>1. /\ sub \in [Submissions -> Submission]
      /\ sub' = [n \in Submissions |->
                    IF sub[n].server = "waiting"
                    THEN [sub[n] EXCEPT !.server = "dead"] ELSE sub[n]]
  BY DEF Stop, TypeOK
<1> QED
  BY <1>1 DEF Submission

-----------------------------------------------------------------------------
(* Online or offline, but not both.                                        *)

LEMMA NextTillInv ==
    ASSUME TypeOK, BatchInv, TillInv, [Next]_vars
    PROVE  TillInv'
<1> USE DEF TillInv
<1>0. /\ sub \in [Submissions -> Submission] /\ clicks \in 0..MaxSubmissions
      /\ stored \in SUBSET Submissions /\ sold \in [Submissions -> Nat]
      /\ lost \in SUBSET Submissions
  BY DEF TypeOK
<1>1. CASE UNCHANGED <<sub, stored, lost, sold, clicks>>
  BY <1>1 DEF OnlineOrOffline, NotYetSubmitted
<1>2. CASE \E reachable \in BOOLEAN : Checkout(reachable)
  <2>1. PICK reachable \in BOOLEAN : Checkout(reachable)
    BY <1>2
  <2>2. UNCHANGED <<stored, lost, sold>>
    BY <2>1 DEF Checkout, batchVars
  <2>3. clicks + 1 > clicks
    BY <1>0
  <2>4. clicks + 1 \notin stored /\ sold[clicks + 1] = 0
    BY <2>1, <2>3, CheckoutFact DEF NotYetSubmitted
  <2>5. OnlineOrOffline'
    BY <2>1, <2>2, <2>4, CheckoutFact DEF OnlineOrOffline
  <2>6. NotYetSubmitted'
    <3> SUFFICES ASSUME NEW n \in Submissions, n > clicks + 1
                 PROVE  sub'[n] = NoSubmission /\ n \notin stored /\ sold[n] = 0
      BY <2>1, <2>2, CheckoutFact DEF NotYetSubmitted
    <3>1. n > clicks /\ n # clicks + 1
      BY <1>0 DEF Submissions
    <3> QED
      BY <2>1, <3>1, CheckoutFact DEF NotYetSubmitted
  <2> QED
    BY <2>5, <2>6
<1>3. CASE \E n \in Submissions :
            \/ Succeeded(n) \/ (\E r \in BOOLEAN : WasRefused(n, r))
            \/ NoAnswer(n)
  <2>1. PICK n \in Submissions :
              \/ Succeeded(n) \/ (\E r \in BOOLEAN : WasRefused(n, r))
              \/ NoAnswer(n)
    BY <1>3
  <2>2. PICK to \in {"saving", "accepted", "refused"} :
            /\ Till(n, to)
            /\ to = "saving" =>
                  sub[n].server \in {"dead", "refused"} \/ n \in lost'
    BY <2>1 DEF Succeeded, WasRefused, NoAnswer, Till
  <2>3. /\ UNCHANGED <<stored, sold, clicks>> /\ lost \subseteq lost'
        /\ sub[n].till = "posting"
    BY <2>1 DEF Succeeded, WasRefused, NoAnswer, batchVars
  <2>4. OnlineOrOffline'
    <3> SUFFICES ASSUME NEW m \in Submissions, m \notin lost',
                        sub'[m].server \in {"waiting", "sold"}
                 PROVE  m \notin stored /\ sub'[m].till # "saving" /\ sold[m] = 0
      BY <2>3 DEF OnlineOrOffline
    <3>1. sub[m].server \in {"waiting", "sold"} /\ m \notin lost
      BY <2>2, <2>3, TillFact
    <3>2. m \notin stored /\ sub[m].till # "saving" /\ sold[m] = 0
      BY <3>1 DEF OnlineOrOffline
    <3>3. sub'[m].till # "saving"
      BY <2>2, <3>1, <3>2, TillFact
    <3> QED
      BY <3>2, <3>3
  <2>5. NotYetSubmitted'
    <3>1. ~ (n > clicks)
      BY <2>3 DEF NotYetSubmitted, NoSubmission
    <3> QED
      BY <2>2, <2>3, <3>1, TillFact DEF NotYetSubmitted
  <2> QED
    BY <2>4, <2>5
<1>4. CASE \E n \in Submissions, kept \in BOOLEAN : Save(n, kept)
  <2>1. PICK n \in Submissions, kept \in BOOLEAN : Save(n, kept)
    BY <1>4
  <2>2. /\ Till(n, "accepted") /\ sub[n].till = "saving"
        /\ stored' \subseteq stored \cup {n}
        /\ UNCHANGED <<lost, sold, clicks>>
    BY <2>1 DEF Save, Till, Entry, batchVars
  <2>3. OnlineOrOffline'
    BY <2>2, TillFact DEF OnlineOrOffline
  <2>4. NotYetSubmitted'
    <3>1. ~ (n > clicks)
      BY <2>2 DEF NotYetSubmitted, NoSubmission
    <3> QED
      BY <2>2, <3>1, TillFact DEF NotYetSubmitted
  <2> QED
    BY <2>3, <2>4
<1>5. CASE Reload
  <2>1. /\ stored' \subseteq
                stored \cup {n \in Submissions : sub[n].till = "saving"}
        /\ UNCHANGED <<lost, sold, clicks>>
    BY <1>5 DEF Reload, batchVars
  <2>2. OnlineOrOffline'
    BY <1>5, <2>1, ReloadFact DEF OnlineOrOffline
  <2>3. \A n \in Submissions : n > clicks => ~InFlight(n)
    BY DEF NotYetSubmitted, NoSubmission, InFlight
  <2>4. NotYetSubmitted'
    BY <1>5, <2>1, <2>3, ReloadFact DEF NotYetSubmitted, InFlight
  <2> QED
    BY <2>2, <2>4
<1>6. CASE \E n \in Submissions : Serve(n)
  <2>1. PICK n \in Submissions : Serve(n)
    BY <1>6
  <2>2. PICK to \in {"sold", "refused"} : Server(n, to)
    BY <2>1 DEF Serve, Server
  <2>3. UNCHANGED <<stored, lost, sold, clicks>> /\ sub[n].server = "waiting"
    BY <2>1 DEF Serve, batchVars
  <2>4. OnlineOrOffline'
    BY <2>2, <2>3, ServerFact DEF OnlineOrOffline
  <2>5. ~ (n > clicks)
    BY <2>3 DEF NotYetSubmitted, NoSubmission
  <2>6. NotYetSubmitted'
    BY <2>2, <2>3, <2>5, ServerFact DEF NotYetSubmitted
  <2> QED
    BY <2>4, <2>6
<1>7. CASE \E b \in Batches : SellStored(b)
  <2>1. PICK b \in Batches : SellStored(b)
    BY <1>7
  <2>2. Current(b) \in stored
    BY <2>1, CurrentFact DEF SellStored, BatchInv
  <2>3. /\ UNCHANGED <<sub, stored, lost, clicks>>
        /\ \A m \in Submissions \ {Current(b)} : sold'[m] = sold[m]
    BY <1>0, <2>1 DEF SellStored, tillVars
  <2> QED
    BY <2>2, <2>3 DEF OnlineOrOffline, NotYetSubmitted
<1>8. CASE Stop
  <2>1. UNCHANGED <<stored, lost, sold, clicks>>
    BY <1>8 DEF Stop
  <2>2. OnlineOrOffline'
    BY <1>8, <2>1, StopFact DEF OnlineOrOffline
  <2>3. NotYetSubmitted'
    BY <1>8, <2>1, StopFact DEF NotYetSubmitted, NoSubmission
  <2> QED
    BY <2>2, <2>3
<1>9. CASE \/ \E p \in Purchases : Fill(p)
           \/ ClearCart \/ Start \/ UNCHANGED vars
  BY <1>1, <1>9 DEF Fill, ClearCart, Start, vars, tillVars, batchVars
<1>10. CASE \E b \in Batches :
            StartBatch(b) \/ Look(b) \/ RefuseStored(b) \/ GiveNumber(b)
  BY <1>1, <1>10 DEF StartBatch, Look, RefuseStored, GiveNumber, tillVars
<1> QED
  BY <1>2, <1>3, <1>4, <1>5, <1>6, <1>7, <1>8, <1>9, <1>10
  DEF Next, BatchStep

-----------------------------------------------------------------------------
(* One purchase is taken down once.                                        *)

(* What is neither in flight nor accepted after a step matters no more.    *)
LEMMA FewerWell ==
    ASSUME CartInv, risky' = risky,
           \A m \in Submissions :
                sub'[m].buys = sub[m].buys /\ (Well(m)' => Well(m))
    PROVE  TogetherIsRisky'
BY DEF CartInv, TogetherIsRisky, Same

LEMMA NextCartInv ==
    ASSUME TypeOK, CartInv, [Next]_vars
    PROVE  CartInv'
<1> USE DEF CartInv
<1>0. /\ sub \in [Submissions -> Submission] /\ begun \in SUBSET Purchases
      /\ NoPurchase \notin begun
  BY NoPurchaseAssumption DEF TypeOK
<1>1. CASE UNCHANGED <<cart, sub, risky, begun>>
  BY <1>1 DEF Begun, AcceptedIsGone, TogetherIsRisky, Same, Well, InFlight
<1>2. CASE \E p \in Purchases : Fill(p)
  <2>1. PICK p \in Purchases : Fill(p)
    BY <1>2
  <2>2. /\ p \notin begun /\ cart' = p /\ begun' = begun \cup {p}
        /\ UNCHANGED <<sub, risky>>
    BY <2>1 DEF Fill
  <2>3. Begun'
    BY <2>2 DEF Begun
  <2>4. AcceptedIsGone'
    BY <2>2 DEF Begun, AcceptedIsGone
  <2>5. TogetherIsRisky'
    BY <2>2 DEF TogetherIsRisky, Same, Well, InFlight
  <2> QED
    BY <2>3, <2>4, <2>5
<1>3. CASE ClearCart
  <2>1. cart' = NoPurchase /\ UNCHANGED <<sub, risky, begun>>
    BY <1>3 DEF ClearCart
  <2>2. AcceptedIsGone'
    BY <1>0, <2>1 DEF Begun, AcceptedIsGone
  <2> QED
    BY <2>1, <2>2 DEF Begun, TogetherIsRisky, Same, Well, InFlight
<1>4. CASE \E reachable \in BOOLEAN : Checkout(reachable)
  <2> DEFINE new == clicks + 1
  <2>1. PICK reachable \in BOOLEAN : Checkout(reachable)
    BY <1>4
  <2>2. /\ UNCHANGED <<cart, begun>> /\ cart # NoPurchase
        /\ risky \subseteq risky'
        /\ InFlightOf(cart) # {} => cart \in risky'
    BY <2>1 DEF Checkout
  <2>3. Begun'
    BY <2>1, <2>2, CheckoutFact DEF Begun
  <2>4. AcceptedIsGone'
    BY <2>1, <2>2, CheckoutFact DEF AcceptedIsGone
  <2>5. ASSUME NEW m \in Submissions, m # new, Well(m), sub[m].buys = cart
        PROVE  cart \in risky'
    <3>1. InFlight(m)
      BY <2>5 DEF Well, AcceptedIsGone
    <3> QED
      BY <2>2, <2>5, <3>1 DEF InFlightOf
  <2>6. \A m \in Submissions \ {new} : Well(m)' <=> Well(m)
    BY <2>1, CheckoutFact DEF Well, InFlight
  <2>7. TogetherIsRisky'
    <3> SUFFICES ASSUME NEW m \in Submissions, NEW n \in Submissions,
                        Same(m, n)', Well(m)', Well(n)'
                 PROVE  sub'[m].buys \in risky'
      BY DEF TogetherIsRisky
    <3>1. m # n /\ sub'[m].buys = sub'[n].buys
      BY DEF Same
    <3>2. CASE m = new
      BY <2>1, <2>5, <2>6, <3>1, <3>2, CheckoutFact
    <3>3. CASE n = new
      BY <2>1, <2>5, <2>6, <3>1, <3>3, CheckoutFact
    <3>4. CASE m # new /\ n # new
      BY <2>1, <2>2, <2>6, <3>1, <3>4, CheckoutFact
      DEF TogetherIsRisky, Same
    <3> QED
      BY <3>2, <3>3, <3>4
  <2> QED
    BY <2>3, <2>4, <2>7
<1>5. CASE \E n \in Submissions :
            \/ Succeeded(n) \/ (\E r \in BOOLEAN : WasRefused(n, r))
            \/ NoAnswer(n)
            \/ \E kept \in BOOLEAN : Save(n, kept)
  <2>1. PICK n \in Submissions :
            \/ Succeeded(n) \/ (\E r \in BOOLEAN : WasRefused(n, r))
            \/ NoAnswer(n)
            \/ \E kept \in BOOLEAN : Save(n, kept)
    BY <1>5
  <2>2. PICK to \in {"saving", "accepted", "refused"} :
            /\ Till(n, to)
            /\ to = "accepted" => cart' = NoPurchase
    BY <2>1 DEF Succeeded, WasRefused, NoAnswer, Save, Till, EmptyCart
  <2>3. /\ UNCHANGED <<risky, begun>> /\ InFlight(n)
        /\ cart' \in {cart, NoPurchase}
    BY <2>1 DEF Succeeded, WasRefused, NoAnswer, Save, InFlight, EmptyCart
  <2>4. Begun'
    BY <2>2, <2>3, TillFact DEF Begun, InFlight
  <2>5. AcceptedIsGone'
    BY <1>0, <2>2, <2>3, <2>4, TillFact DEF AcceptedIsGone, Begun
  <2>6. TogetherIsRisky'
    BY <2>2, <2>3, TillFact, FewerWell DEF Well, InFlight
  <2> QED
    BY <2>4, <2>5, <2>6
<1>6. CASE Reload
  <2>1. UNCHANGED <<risky, begun>> /\ cart' = NoPurchase
    BY <1>6 DEF Reload
  <2>2. Begun'
    BY <1>6, <2>1, ReloadFact DEF Begun, InFlight
  <2>3. AcceptedIsGone'
    BY <1>0, <2>1, <2>2 DEF AcceptedIsGone, Begun
  <2>4. TogetherIsRisky'
    BY <1>6, <2>1, ReloadFact, FewerWell DEF Well, InFlight
  <2> QED
    BY <2>2, <2>3, <2>4
<1>7. CASE Stop \/ \E n \in Submissions : Serve(n)
  <2>1. /\ UNCHANGED <<cart, risky, begun>>
        /\ \A m \in Submissions : /\ sub'[m].buys = sub[m].buys
                                  /\ sub'[m].till = sub[m].till
    <3>1. CASE Stop
      BY <3>1, StopFact DEF Stop
    <3>2. ASSUME NEW n \in Submissions, Serve(n)
          PROVE  /\ \A m \in Submissions : /\ sub'[m].buys = sub[m].buys
                                            /\ sub'[m].till = sub[m].till
                 /\ UNCHANGED <<cart, risky, begun>>
      <4>1. PICK to \in {"sold", "refused"} : Server(n, to)
        BY <3>2 DEF Serve, Server
      <4> QED
        BY <3>2, <4>1, ServerFact DEF Serve
    <3> QED
      BY <1>7, <3>1, <3>2
  <2> QED
    BY <2>1 DEF Begun, AcceptedIsGone, TogetherIsRisky, Same, Well, InFlight
<1>8. CASE Start \/ UNCHANGED vars
  BY <1>1, <1>8 DEF Start, vars, tillVars
<1>9. CASE \E b \in Batches : StartBatch(b) \/ BatchStep(b)
  BY <1>1, <1>9 DEF BatchStep, StartBatch, Look, SellStored, RefuseStored,
     GiveNumber, tillVars
<1> QED
  BY <1>2, <1>3, <1>4, <1>5, <1>6, <1>7, <1>8, <1>9 DEF Next

-----------------------------------------------------------------------------
(* The types of what is left.                                              *)

LEMMA NextTypeOK ==
    ASSUME TypeOK, BatchInv, [Next]_vars
    PROVE  TypeOK'
<1>1. /\ batch' \in [Batches -> Batch]
      /\ sold' \in [Submissions -> Nat] /\ doubt' \in [Submissions -> Nat]
  BY NextBatchInv
<1>2. sub' \in [Submissions -> Submission] /\ clicks' \in 0..MaxSubmissions
  <2>0. sub \in [Submissions -> Submission] /\ clicks \in 0..MaxSubmissions
    BY DEF TypeOK
  <2>1. CASE UNCHANGED <<sub, clicks>>
    BY <2>0, <2>1
  <2>2. CASE \E reachable \in BOOLEAN : Checkout(reachable)
    BY <2>2, CheckoutFact
  <2>3. ASSUME NEW n \in Submissions,
               \/ Succeeded(n) \/ (\E r \in BOOLEAN : WasRefused(n, r))
               \/ NoAnswer(n)
               \/ \E kept \in BOOLEAN : Save(n, kept)
        PROVE  /\ sub' \in [Submissions -> Submission]
               /\ clicks' \in 0..MaxSubmissions
    <3>1. PICK to \in {"saving", "accepted", "refused"} : Till(n, to)
      BY <2>3 DEF Succeeded, WasRefused, NoAnswer, Save, Till
    <3> QED
      BY <2>0, <2>3, <3>1, TillFact
      DEF Succeeded, WasRefused, NoAnswer, Save
  <2>4. ASSUME NEW n \in Submissions, Serve(n)
        PROVE  /\ sub' \in [Submissions -> Submission]
               /\ clicks' \in 0..MaxSubmissions
    <3>1. PICK to \in {"sold", "refused"} : Server(n, to)
      BY <2>4 DEF Serve, Server
    <3> QED
      BY <2>0, <2>4, <3>1, ServerFact DEF Serve
  <2>5. CASE Reload \/ Stop
    BY <2>0, <2>5, ReloadFact, StopFact DEF Reload, Stop
  <2>6. CASE \/ \E p \in Purchases : Fill(p)
             \/ ClearCart \/ Start \/ UNCHANGED vars
    BY <2>1, <2>6 DEF Fill, ClearCart, Start, vars, tillVars
  <2>7. CASE \E b \in Batches : StartBatch(b) \/ BatchStep(b)
    BY <2>1, <2>7 DEF BatchStep, StartBatch, Look, SellStored, RefuseStored,
       GiveNumber, tillVars
  <2> QED
    BY <2>2, <2>3, <2>4, <2>5, <2>6, <2>7 DEF Next
<1>3. /\ cart' \in Purchases \cup {NoPurchase}
      /\ begun' \in SUBSET Purchases /\ risky' \in SUBSET Purchases
  <2>0. /\ cart \in Purchases \cup {NoPurchase}
        /\ begun \in SUBSET Purchases /\ risky \in SUBSET Purchases
    BY DEF TypeOK
  <2>1. CASE UNCHANGED <<cart, begun, risky>>
    BY <2>0, <2>1
  <2>2. CASE \/ \E p \in Purchases : Fill(p)
             \/ ClearCart \/ Reload
             \/ \E reachable \in BOOLEAN : Checkout(reachable)
    BY <2>0, <2>2 DEF Fill, ClearCart, Reload, Checkout
  <2>3. CASE \E n \in Submissions :
                \/ Succeeded(n) \/ (\E r \in BOOLEAN : WasRefused(n, r))
                \/ NoAnswer(n) \/ Serve(n)
                \/ \E kept \in BOOLEAN : Save(n, kept)
    BY <2>0, <2>3
    DEF Succeeded, WasRefused, NoAnswer, Save, Serve, EmptyCart
  <2>4. CASE \E b \in Batches : StartBatch(b) \/ BatchStep(b)
    BY <2>1, <2>4 DEF BatchStep, StartBatch, Look, SellStored, RefuseStored,
       GiveNumber, tillVars
  <2>5. CASE Stop \/ Start \/ UNCHANGED vars
    BY <2>1, <2>5 DEF Stop, Start, vars, tillVars
  <2> QED
    BY <2>2, <2>3, <2>4, <2>5 DEF Next
<1>4. stored' \in SUBSET Submissions /\ lost' \in SUBSET Submissions
  <2>0. stored \in SUBSET Submissions /\ lost \in SUBSET Submissions
    BY DEF TypeOK
  <2>1. CASE UNCHANGED <<stored, lost>>
    BY <2>0, <2>1
  <2>2. CASE \E n \in Submissions :
                \/ Succeeded(n) \/ (\E r \in BOOLEAN : WasRefused(n, r))
                \/ NoAnswer(n) \/ Serve(n)
                \/ \E kept \in BOOLEAN : Save(n, kept)
    BY <2>0, <2>2
    DEF Succeeded, WasRefused, NoAnswer, Save, Serve, Entry
  <2>3. CASE Reload
    BY <2>0, <2>3 DEF Reload
  <2>4. CASE \/ \E p \in Purchases : Fill(p)
             \/ ClearCart \/ Stop \/ Start \/ UNCHANGED vars
             \/ \E reachable \in BOOLEAN : Checkout(reachable)
    BY <2>1, <2>4 DEF Fill, ClearCart, Stop, Start, Checkout, vars, tillVars
  <2>5. CASE \E b \in Batches : StartBatch(b) \/ BatchStep(b)
    BY <2>1, <2>5 DEF BatchStep, StartBatch, Look, SellStored, RefuseStored,
       GiveNumber, tillVars
  <2> QED
    BY <2>2, <2>3, <2>4, <2>5 DEF Next
<1>5. numbered' \in SUBSET Submissions /\ half' \in [Submissions -> Nat]
  <2>0. numbered \in SUBSET Submissions /\ half \in [Submissions -> Nat]
    BY DEF TypeOK
  <2>1. CASE UNCHANGED <<numbered, half>>
    BY <2>0, <2>1
  <2>2. CASE \E b \in Batches : GiveNumber(b)
    <3>1. PICK b \in Batches : GiveNumber(b)
      BY <2>2
    <3>2. Current(b) \in Submissions
      BY <3>1, CurrentFact DEF GiveNumber, BatchInv
    <3> QED
      BY <2>0, <3>1, <3>2 DEF GiveNumber
  <2>3. CASE \E b \in Batches : SellStored(b)
    BY <2>0, <2>3 DEF SellStored
  <2>4. CASE \E b \in Batches : StartBatch(b) \/ Look(b) \/ RefuseStored(b)
    BY <2>1, <2>4 DEF StartBatch, Look, RefuseStored
  <2>5. CASE \/ \E p \in Purchases : Fill(p)
             \/ ClearCart \/ Reload \/ Stop \/ Start \/ UNCHANGED vars
             \/ \E reachable \in BOOLEAN : Checkout(reachable)
             \/ \E n \in Submissions :
                    \/ Succeeded(n) \/ (\E r \in BOOLEAN : WasRefused(n, r))
                    \/ NoAnswer(n)
                    \/ Serve(n)
                    \/ \E kept \in BOOLEAN : Save(n, kept)
    BY <2>1, <2>5 DEF Fill, ClearCart, Reload, Stop, Start, Checkout,
       Succeeded, WasRefused, NoAnswer, Serve, Save, vars, batchVars
  <2> QED
    BY <2>2, <2>3, <2>4, <2>5 DEF Next, BatchStep
<1>6. up' \in BOOLEAN /\ faults' \in 0..MaxFaults
  <2>0. up \in BOOLEAN /\ faults \in 0..MaxFaults
    BY DEF TypeOK
  <2>1. CASE UNCHANGED <<up, faults>>
    BY <2>0, <2>1
  <2>2. Fault => faults' \in 0..MaxFaults
    BY <2>0, BoundsAssumption DEF Fault
  <2>3. CASE Reload \/ Stop \/ Start
    BY <2>0, <2>2, <2>3 DEF Reload, Stop, Start
  <2>4. CASE \E n \in Submissions : NoAnswer(n)
    BY <2>0, <2>2, <2>4 DEF NoAnswer
  <2>5. CASE \/ \E p \in Purchases : Fill(p)
             \/ ClearCart \/ UNCHANGED vars
             \/ \E reachable \in BOOLEAN : Checkout(reachable)
             \/ \E n \in Submissions :
                    \/ Succeeded(n) \/ (\E r \in BOOLEAN : WasRefused(n, r))
                    \/ Serve(n)
                    \/ \E kept \in BOOLEAN : Save(n, kept)
    BY <2>1, <2>5 DEF Fill, ClearCart, Checkout, Succeeded, WasRefused,
       Serve, Save, vars
  <2>6. CASE \E b \in Batches : StartBatch(b) \/ BatchStep(b)
    BY <2>1, <2>6 DEF BatchStep, StartBatch, Look, SellStored, RefuseStored,
       GiveNumber
  <2> QED
    BY <2>3, <2>4, <2>5, <2>6 DEF Next
<1> QED
  BY <1>1, <1>2, <1>3, <1>4, <1>5, <1>6 DEF TypeOK

-----------------------------------------------------------------------------
(* The theorems.                                                           *)

LEMMA InitIInv == ASSUME Init PROVE IInv
<1>1. NoBatch \in Batch /\ NoBatch.at = "idle" /\ NoBatch.left = {}
  BY Zenon DEF NoBatch, Batch
<1>2. /\ NoSubmission \in Submission /\ NoSubmission.till = "unused"
      /\ NoSubmission.server = "none"
  BY DEF NoSubmission, Submission
<1>3. \A b \in Batches : batch[b] = NoBatch
  BY DEF Init
<1>4. \A n \in Submissions :
        sub[n] = NoSubmission /\ sold[n] = 0 /\ doubt[n] = 0
  BY DEF Init
<1>5. TypeOK
  BY <1>1, <1>2, BoundsAssumption DEF Init, TypeOK
<1>6. BatchInv
  BY <1>1, <1>3, <1>4 DEF Init, BatchInv, BatchesAtWork, LaterKnows, InHand,
     UnnumberedUnsold, SellsUnsold, SoldAboutOnce
<1>7. TillInv
  BY <1>2, <1>4 DEF Init, TillInv, OnlineOrOffline, NotYetSubmitted
<1>8. CartInv
  BY <1>2, <1>4 DEF Init, CartInv, Begun, AcceptedIsGone, TogetherIsRisky,
     Well, InFlight
<1> QED
  BY <1>5, <1>6, <1>7, <1>8 DEF IInv

LEMMA Invariance == Spec => []IInv
<1>1. Init => IInv
  BY InitIInv
<1>2. IInv /\ [Next]_vars => IInv'
  BY NextTypeOK, NextBatchInv, NextTillInv, NextCartInv DEF IInv
<1> QED
  BY <1>1, <1>2, PTL DEF Spec

(* Every variable keeps its type.                                          *)
THEOREM TypeCorrect == Spec => []TypeOK
<1>1. IInv => TypeOK
  BY DEF IInv
<1> QED
  BY <1>1, Invariance, PTL

(* However a submission travels, the books hold it once, but for the       *)
(* answers that were lost and the doubts of a batch.                       *)
THEOREM SoldOnce == Spec => []SoldOnceUnlessInDoubt
<1>1. IInv => SoldOnceUnlessInDoubt
  <2> SUFFICES ASSUME IInv, NEW n \in Submissions
               PROVE  sold[n] + (IF sub[n].server = "sold" THEN 1 ELSE 0)
                        <= 1 + doubt[n] + (IF n \in lost THEN 1 ELSE 0)
    BY DEF SoldOnceUnlessInDoubt
  <2>1. /\ sold[n] \in Nat /\ doubt[n] \in Nat
        /\ sold[n] <= doubt[n] + 1
    BY DEF IInv, TypeOK, BatchInv, SoldAboutOnce
  <2>2. sub[n].server = "sold" /\ n \notin lost => sold[n] = 0
    BY DEF IInv, TillInv, OnlineOrOffline
  <2> QED
    BY <2>1, <2>2
<1> QED
  BY <1>1, Invariance, PTL

(* A purchase that ends well twice was submitted twice at a time.          *)
THEOREM TakenOnce == Spec => []TakenDownOnce
<1>1. IInv => TakenDownOnce
  BY DEF IInv, CartInv, TogetherIsRisky, TakenDownOnce, Same, Well
<1> QED
  BY <1>1, Invariance, PTL

(* Every step of the till, the browser and the server is a step of the     *)
(* register or leaves it alone.                                            *)
LEMMA StepRefines ==
    ASSUME IInv, IInv', [Next]_vars
    PROVE  [Register!Next]_(Register!vars)
<1> DEFINE still == UNCHANGED <<stored, numbered>>
<1>0. TypeOK /\ TypeOK'
  BY DEF IInv
<1>1. ASSUME stored \subseteq stored', numbered' = numbered
      PROVE  Register!Next
  <2>1. /\ stored' \ stored \in SUBSET Submissions
        /\ (stored' \ stored) \cap stored = {}
        /\ stored' = stored \cup (stored' \ stored)
    BY <1>0, <1>1 DEF TypeOK
  <2>2. Register!Promise(stored' \ stored)
    BY <1>1, <2>1 DEF Register!Promise
  <2> QED
    BY <2>1, <2>2 DEF Register!Next
<1>2. CASE \E b \in Batches : GiveNumber(b)
  <2>1. PICK b \in Batches : GiveNumber(b)
    BY <1>2
  <2>2. /\ stored' = stored /\ numbered' = numbered \cup {Current(b)}
        /\ Current(b) \in stored /\ Current(b) \in Submissions
    BY <1>0, <2>1, CurrentFact DEF GiveNumber, tillVars, IInv, BatchInv
  <2>3. CASE Current(b) \in numbered
    BY <2>2, <2>3 DEF Register!vars
  <2>4. CASE Current(b) \notin numbered
    <3>1. Register!Register(Current(b))
      BY <2>2, <2>4 DEF Register!Register
    <3> QED
      BY <2>2, <3>1 DEF Register!Next
  <2> QED
    BY <2>3, <2>4
<1>3. CASE \E n \in Submissions :
            \/ Succeeded(n) \/ (\E r \in BOOLEAN : WasRefused(n, r))
            \/ NoAnswer(n) \/ Serve(n)
            \/ \E kept \in BOOLEAN : Save(n, kept)
  BY <1>1, <1>3
  DEF Succeeded, WasRefused, NoAnswer, Serve, Save, batchVars
<1>4. CASE \/ Reload \/ Stop \/ Start \/ ClearCart \/ UNCHANGED vars
           \/ \E p \in Purchases : Fill(p)
           \/ \E reachable \in BOOLEAN : Checkout(reachable)
  BY <1>1, <1>4 DEF Reload, Stop, Start, ClearCart, Fill, Checkout, vars,
     tillVars, batchVars
<1>5. CASE \E b \in Batches :
            StartBatch(b) \/ Look(b) \/ SellStored(b) \/ RefuseStored(b)
  BY <1>1, <1>5 DEF StartBatch, Look, SellStored, RefuseStored, tillVars
<1> QED
  BY <1>2, <1>3, <1>4, <1>5 DEF Next, BatchStep

(* The safety of StoredSalesRegister: what a till has stored stays stored, *)
(* and is registered once under its number.                                *)
THEOREM RefinesRegister ==
    Spec => Register!Init /\ [][Register!Next]_(Register!vars)
<1>1. Init => Register!Init
  BY DEF Init, Register!Init
<1>2. IInv /\ IInv' /\ [Next]_vars => [Register!Next]_(Register!vars)
  BY StepRefines
<1> QED
  BY <1>1, <1>2, Invariance, PTL DEF Spec
=============================================================================
