-------------------------------- MODULE Sums --------------------------------
(* Sums over the rows of a table, as the number of their units: a sum that *)
(* is the cardinality of a set can be reasoned about without induction.    *)
EXTENDS Integers, FiniteSets

(* The units of each row that has a positive number of them.               *)
UnitsIn(f) == UNION {{x} \X (1..f[x]) : x \in DOMAIN f}

(* The sum of the positive values of f, and the sum of all its values.     *)
PositiveTotal(f) == Cardinality(UnitsIn(f))
Total(f) == PositiveTotal(f) - PositiveTotal([x \in DOMAIN f |-> -f[x]])

=============================================================================
