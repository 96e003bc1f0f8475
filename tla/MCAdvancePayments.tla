------------------------- MODULE MCAdvancePayments -------------------------
(* Instances of AdvancePayments for TLC.                                   *)
EXTENDS AdvancePayments, TLC

Symmetry == Permutations(Advances) \cup Permutations(Invoices)
            \cup Permutations(Reservations) \cup Permutations(Workers)

(* Voiding an invoice changes no amount; the concurrent run has it.         *)
SerialEndpoints == AllEndpoints \ {"void"}

=============================================================================
