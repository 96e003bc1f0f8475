----------------------------- MODULE SumsProofs -----------------------------
(* What sums over a finite table are, and how a changed row changes them.  *)
EXTENDS Sums, FiniteSetTheorems, TLAPS

(* The units of one row.                                                   *)
LEMMA RowUnits ==
    ASSUME NEW x, NEW n \in Int
    PROVE  /\ IsFiniteSet({x} \X (1..n))
           /\ Cardinality({x} \X (1..n)) = IF n > 0 THEN n ELSE 0
<1>1. IsFiniteSet(1..n) /\ Cardinality(1..n) = IF n > 0 THEN n ELSE 0
  BY FS_Interval
<1>2. IsFiniteSet({x}) /\ Cardinality({x}) = 1
  BY FS_Singleton
<1>3. /\ IsFiniteSet({x} \X (1..n))
      /\ Cardinality({x} \X (1..n)) = 1 * Cardinality(1..n)
  BY <1>1, <1>2, FS_Product
<1>. QED BY <1>1, <1>3

(* A finite table has finitely many units.                                 *)
LEMMA UnitsFinite ==
    ASSUME NEW S, IsFiniteSet(S), NEW f \in [S -> Int]
    PROVE  IsFiniteSet(UnitsIn(f)) /\ PositiveTotal(f) \in Nat
<1>. DEFINE blocks == {{x} \X (1..f[x]) : x \in S}
            block == [x \in S |-> {x} \X (1..f[x])]
<1>1. block \in Surjection(S, blocks)
  BY DEF Surjection
<1>2. IsFiniteSet(blocks)
  BY <1>1, FS_Surjection
<1>3. ASSUME NEW T \in blocks PROVE IsFiniteSet(T)
  <2>1. PICK x \in S : T = {x} \X (1..f[x])
    OBVIOUS
  <2>2. f[x] \in Int
    OBVIOUS
  <2>. QED BY <2>1, <2>2, RowUnits
<1>. HIDE DEF blocks
<1>4. IsFiniteSet(UNION blocks)
  BY <1>2, <1>3, FS_UNION
<1>5. UnitsIn(f) = UNION blocks
  BY DEF UnitsIn, blocks
<1>. QED BY <1>4, <1>5, FS_CardinalityType DEF PositiveTotal

(* The row that changes, taken out: the others keep their units.           *)
LEMMA TakeOut ==
    ASSUME NEW S, IsFiniteSet(S), NEW f \in [S -> Int], NEW x \in S
    PROVE  LET others == UNION {{y} \X (1..f[y]) : y \in S \ {x}} IN
           /\ IsFiniteSet(others)
           /\ PositiveTotal(f) =
                Cardinality(others) + (IF f[x] > 0 THEN f[x] ELSE 0)
<1>. DEFINE others == UNION {{y} \X (1..f[y]) : y \in S \ {x}}
            own == {x} \X (1..f[x])
<1>1. UnitsIn(f) = others \cup own
  BY DEF UnitsIn
<1>2. others \cap own = {}
  OBVIOUS
<1>3. IsFiniteSet(own) /\ Cardinality(own) = IF f[x] > 0 THEN f[x] ELSE 0
  <2>1. f[x] \in Int
    OBVIOUS
  <2>. QED BY <2>1, RowUnits
<1>4. IsFiniteSet(others) /\ Cardinality(others) \in Nat
  BY <1>1, UnitsFinite, FS_Subset, FS_CardinalityType
<1>. HIDE DEF others, own
<1>5. Cardinality(others \cup own) = Cardinality(others) + Cardinality(own)
  <2>1. Cardinality(others \cap own) = 0
    BY <1>2, FS_EmptySet
  <2>2. Cardinality(own) \in Nat
    BY <1>3, FS_CardinalityType
  <2>3. Cardinality(others \cup own) = Cardinality(others)
            + Cardinality(own) - Cardinality(others \cap own)
    BY <1>3, <1>4, FS_Union
  <2>. QED BY <1>4, <2>1, <2>2, <2>3
<1>. QED BY <1>1, <1>3, <1>4, <1>5 DEF PositiveTotal, others

LEMMA PositiveChange ==
    ASSUME NEW S, IsFiniteSet(S), NEW f \in [S -> Int], NEW g \in [S -> Int],
           NEW x \in S, \A y \in S \ {x} : g[y] = f[y]
    PROVE  PositiveTotal(g) - PositiveTotal(f) =
                (IF g[x] > 0 THEN g[x] ELSE 0) - (IF f[x] > 0 THEN f[x] ELSE 0)
<1>. DEFINE others(h) == UNION {{y} \X (1..h[y]) : y \in S \ {x}}
<1>1. others(f) = others(g)
  OBVIOUS
<1>2. /\ IsFiniteSet(others(f))
      /\ PositiveTotal(f) =
            Cardinality(others(f)) + (IF f[x] > 0 THEN f[x] ELSE 0)
  BY TakeOut
<1>3. PositiveTotal(g) =
            Cardinality(others(g)) + (IF g[x] > 0 THEN g[x] ELSE 0)
  BY TakeOut
<1>4. Cardinality(others(f)) \in Nat
  BY <1>2, FS_CardinalityType
<1>. QED BY <1>1, <1>2, <1>3, <1>4

(* A sum is an integer.                                                    *)
LEMMA TotalType ==
    ASSUME NEW S, IsFiniteSet(S), NEW f \in [S -> Int]
    PROVE  Total(f) \in Int
<1>. DEFINE m == [x \in DOMAIN f |-> -f[x]]
<1>1. m \in [S -> Int]
  OBVIOUS
<1>. HIDE DEF m
<1>. QED BY <1>1, UnitsFinite DEF Total, m

(* When one row changes, the sum changes as the row does.                  *)
LEMMA TotalChange ==
    ASSUME NEW S, IsFiniteSet(S), NEW f \in [S -> Int], NEW g \in [S -> Int],
           NEW x \in S, \A y \in S \ {x} : g[y] = f[y]
    PROVE  Total(g) = Total(f) + g[x] - f[x]
<1>. DEFINE mf == [y \in S |-> -f[y]]
            mg == [y \in S |-> -g[y]]
<1>1. /\ mf \in [S -> Int] /\ mg \in [S -> Int]
      /\ \A y \in S \ {x} : mg[y] = mf[y]
      /\ mf[x] = -f[x] /\ mg[x] = -g[x]
  OBVIOUS
<1>2. Total(f) = PositiveTotal(f) - PositiveTotal(mf)
  BY DEF Total
<1>3. Total(g) = PositiveTotal(g) - PositiveTotal(mg)
  BY DEF Total
<1>. HIDE DEF mf, mg
<1>4. PositiveTotal(g) - PositiveTotal(f) =
        (IF g[x] > 0 THEN g[x] ELSE 0) - (IF f[x] > 0 THEN f[x] ELSE 0)
  BY PositiveChange
<1>5. PositiveTotal(mg) - PositiveTotal(mf) =
        (IF mg[x] > 0 THEN mg[x] ELSE 0) - (IF mf[x] > 0 THEN mf[x] ELSE 0)
  BY <1>1, PositiveChange
<1>6. /\ PositiveTotal(f) \in Nat /\ PositiveTotal(g) \in Nat
      /\ PositiveTotal(mf) \in Nat /\ PositiveTotal(mg) \in Nat
  BY <1>1, UnitsFinite
<1>7. f[x] \in Int /\ g[x] \in Int
  OBVIOUS
<1>. QED BY <1>1, <1>2, <1>3, <1>4, <1>5, <1>6, <1>7

(* A table of zeros adds up to zero.                                       *)
LEMMA TotalZero ==
    ASSUME NEW S, NEW f \in [S -> Int], \A x \in S : f[x] = 0
    PROVE  Total(f) = 0
<1>. DEFINE m == [x \in DOMAIN f |-> -f[x]]
<1>1. UnitsIn(f) = {}
  BY DEF UnitsIn
<1>2. UnitsIn(m) = {}
  BY DEF UnitsIn
<1>. HIDE DEF m
<1>. QED BY <1>1, <1>2, FS_EmptySet DEF Total, PositiveTotal, m

(* A sum of natural numbers is one, and no less than any of them.          *)
LEMMA TotalNat ==
    ASSUME NEW S, IsFiniteSet(S), NEW f \in [S -> Nat]
    PROVE  Total(f) \in Nat /\ \A x \in S : f[x] <= Total(f)
<1>. DEFINE m == [x \in DOMAIN f |-> -f[x]]
<1>1. f \in [S -> Int] /\ m \in [S -> Int]
  OBVIOUS
<1>2. UnitsIn(m) = {}
  BY DEF UnitsIn
<1>. HIDE DEF m
<1>3. Total(f) = PositiveTotal(f) - 0
  BY <1>2, FS_EmptySet DEF Total, PositiveTotal, m
<1>4. PositiveTotal(f) \in Nat
  BY <1>1, UnitsFinite
<1>5. ASSUME NEW x \in S PROVE f[x] <= PositiveTotal(f)
  <2>. DEFINE others == UNION {{y} \X (1..f[y]) : y \in S \ {x}}
  <2>1. /\ IsFiniteSet(others)
        /\ PositiveTotal(f) =
                Cardinality(others) + (IF f[x] > 0 THEN f[x] ELSE 0)
    BY <1>1, TakeOut
  <2>2. Cardinality(others) \in Nat
    BY <2>1, FS_CardinalityType
  <2>. HIDE DEF others
  <2>. QED BY <2>1, <2>2
<1>. QED BY <1>3, <1>4, <1>5

=============================================================================
