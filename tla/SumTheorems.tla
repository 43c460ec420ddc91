----------------------------- MODULE SumTheorems -----------------------------
(***************************************************************************)
(* What the models' sums compute: SumFunctionOnSet of the community modules  *)
(* over a finite set, for a function whose values there are naturals.        *)
(*                                                                          *)
(* The operator is a fold, defined by recursion over subsets.  The provers   *)
(* have no induction to offer for it, so the two inductions it takes are     *)
(* done by hand, on a smallest counterexample: that the table of partial     *)
(* sums exists, and that the order of summation does not matter.             *)
(***************************************************************************)
EXTENDS Integers, FiniteSets, Functions, FiniteSetTheorems, WellFoundedInduction, TLAPS

LOCAL Any(s) == CHOOSE x \in s : TRUE

(* The partial sums over the subsets of S that a fold computes with *)
LOCAL IsTable(f, S, sums) ==
  sums = [s \in SUBSET S |-> IF s = {} THEN 0 ELSE f[Any(s)] + sums[s \ {Any(s)}]]
LOCAL Table(f, S) == CHOOSE sums : IsTable(f, S, sums)

(* The same for subsets of n elements at most *)
LOCAL Small(S, n) == {s \in SUBSET S : Cardinality(s) <= n}
LOCAL IsSmallTable(f, S, n, sums) ==
  sums = [s \in Small(S, n) |-> IF s = {} THEN 0 ELSE f[Any(s)] + sums[s \ {Any(s)}]]

LEMMA SumIsLast ==
  ASSUME NEW f, NEW S
  PROVE  SumFunctionOnSet(f, S) = Table(f, S)[S]
BY DEF SumFunctionOnSet, FoldFunctionOnSet, MapThenFoldSet, Table, IsTable, Any

LEMMA AnyIsIn == ASSUME NEW s, s # {} PROVE Any(s) \in s
BY DEF Any

(* Of some subsets of a finite set one contains no other one *)
LEMMA Smallest ==
  ASSUME NEW S, IsFiniteSet(S), NEW Bad \in SUBSET SUBSET S, Bad # {}
  PROVE  \E b \in Bad : \A x \in b : b \ {x} \notin Bad
<1>1. Bad \subseteq FiniteSubsetsOf(S)
  BY FS_Subset DEF FiniteSubsetsOf
<1>2. PICK b \in Bad : \A s \in Bad : ~(<<s, b>> \in StrictSubsetOrdering(S))
  BY <1>1, FS_StrictSubsetOrderingWellFounded, WFMin
<1>3. \A x \in b : <<b \ {x}, b>> \in StrictSubsetOrdering(S)
  BY DEF StrictSubsetOrdering
<1> QED BY <1>2, <1>3

LEMMA SmallerTable ==
  ASSUME NEW f, NEW S, IsFiniteSet(S), NEW n \in Nat, NEW sums, IsSmallTable(f, S, n, sums)
  PROVE  \E more : IsSmallTable(f, S, n + 1, more)
<1> DEFINE more == [s \in Small(S, n + 1) |->
                      IF s = {} THEN 0 ELSE f[Any(s)] + sums[s \ {Any(s)}]]
<1>1. ASSUME NEW s \in Small(S, n + 1), s # {}
      PROVE  s \ {Any(s)} \in Small(S, n)
  <2>1. IsFiniteSet(s) /\ Cardinality(s) \in Nat
    BY FS_Subset, FS_CardinalityType DEF Small
  <2>2. Cardinality(s \ {Any(s)}) = Cardinality(s) - 1
    BY <1>1, <2>1, FS_RemoveElement, AnyIsIn
  <2> QED BY <2>1, <2>2 DEF Small
<1>2. \A s \in Small(S, n) : s \in Small(S, n + 1)
  <2> SUFFICES ASSUME NEW s \in Small(S, n) PROVE Cardinality(s) <= n + 1
    BY DEF Small
  <2>1. Cardinality(s) \in Nat
    BY FS_Subset, FS_CardinalityType DEF Small
  <2> QED BY <2>1 DEF Small
<1>3. \A s \in Small(S, n) : more[s] = sums[s]
  BY <1>2 DEF IsSmallTable
<1>4. \A s \in Small(S, n + 1) :
        more[s] = IF s = {} THEN 0 ELSE f[Any(s)] + more[s \ {Any(s)}]
  BY <1>1, <1>3
<1>5. more = [s \in Small(S, n + 1) |-> more[s]]
  OBVIOUS
<1> HIDE DEF more
<1>6. IsSmallTable(f, S, n + 1, more)
  BY <1>4, <1>5 DEF IsSmallTable
<1> QED BY <1>6

LEMMA TableExists ==
  ASSUME NEW f, NEW S, IsFiniteSet(S)
  PROVE  IsTable(f, S, Table(f, S))
<1> DEFINE Bad == {n \in Nat : ~ \E sums : IsSmallTable(f, S, n, sums)}
<1>1. 0 \notin Bad
  <2> DEFINE none == [s \in Small(S, 0) |-> 0]
  <2>1. \A s \in Small(S, 0) : s = {}
    <3> TAKE s \in Small(S, 0)
    <3>1. IsFiniteSet(s) /\ Cardinality(s) \in Nat /\ Cardinality(s) <= 0
      BY FS_Subset, FS_CardinalityType DEF Small
    <3>2. Cardinality(s) = 0
      BY <3>1
    <3> QED BY <3>1, <3>2, FS_EmptySet, Zenon
  <2>2. IsSmallTable(f, S, 0, none)
    BY <2>1 DEF IsSmallTable
  <2> QED BY <2>2
<1>2. Bad = {}
  <2> SUFFICES ASSUME Bad # {} PROVE FALSE
    OBVIOUS
  <2>1. PICK n \in Bad : \A m \in Bad : ~(<<m, n>> \in OpToRel(<, Nat))
    <3>1. Bad \subseteq Nat
      OBVIOUS
    <3> HIDE DEF Bad
    <3> QED BY <3>1, NatLessThanWellFounded, WFMin
  <2>2. n \in Nat /\ n # 0
    BY <1>1
  <2>3. n - 1 \in Nat /\ n - 1 \notin Bad
    <3>1. n - 1 \in Nat /\ n - 1 < n
      BY <2>2
    <3>2. <<n - 1, n>> \in OpToRel(<, Nat)
      BY <2>2, <3>1 DEF OpToRel
    <3> QED BY <2>1, <3>1, <3>2
  <2>4. \E sums : IsSmallTable(f, S, (n - 1) + 1, sums)
    BY <2>3, SmallerTable
  <2> QED BY <2>2, <2>4
<1>3. PICK sums : IsSmallTable(f, S, Cardinality(S), sums)
  BY <1>2, FS_CardinalityType
<1>4. Small(S, Cardinality(S)) = SUBSET S
  BY FS_Subset DEF Small
<1>5. IsTable(f, S, sums)
  BY <1>3, <1>4 DEF IsTable, IsSmallTable
<1> QED BY <1>5 DEF Table

LEMMA TableValue ==
  ASSUME NEW f, NEW S, IsFiniteSet(S), NEW s \in SUBSET S
  PROVE  Table(f, S)[s] = IF s = {} THEN 0 ELSE f[Any(s)] + Table(f, S)[s \ {Any(s)}]
<1> DEFINE sums == Table(f, S)
<1>1. IsTable(f, S, sums)
  BY TableExists
<1> HIDE DEF sums
<1>2. sums[s] = IF s = {} THEN 0 ELSE f[Any(s)] + sums[s \ {Any(s)}]
  BY <1>1 DEF IsTable
<1> QED BY <1>2 DEF sums

(* A partial sum does not depend on the table it is looked up in *)
LEMMA SameInEachTable ==
  ASSUME NEW f, NEW S, IsFiniteSet(S), NEW t \in SUBSET S
  PROVE  Table(f, S)[t] = SumFunctionOnSet(f, t)
<1> DEFINE Bad == {s \in SUBSET t : Table(f, S)[s] # Table(f, t)[s]}
<1>1. IsFiniteSet(t)
  BY FS_Subset
<1>2. Bad = {}
  <2> SUFFICES ASSUME Bad # {} PROVE FALSE
    OBVIOUS
  <2>1. Bad \subseteq SUBSET t
    OBVIOUS
  <2>2. PICK b \in Bad : \A x \in b : b \ {x} \notin Bad
    <3> HIDE DEF Bad
    <3> QED BY <1>1, <2>1, Smallest
  <2>3. b \in SUBSET t /\ b \in SUBSET S
    OBVIOUS
  <2>4. b # {} => Table(f, S)[b \ {Any(b)}] = Table(f, t)[b \ {Any(b)}]
    BY <2>2, <2>3, AnyIsIn
  <2>5. Table(f, S)[b] = Table(f, t)[b]
    BY <1>1, <2>3, <2>4, TableValue
  <2> QED BY <2>5
<1> QED BY <1>2, SumIsLast

-----------------------------------------------------------------------------
LEMMA SumOfNone == ASSUME NEW f PROVE SumFunctionOnSet(f, {}) = 0
<1>1. IsFiniteSet({})
  BY FS_EmptySet, Zenon
<1> QED BY <1>1, TableValue, SumIsLast

LEMMA SumByChoice ==
  ASSUME NEW f, NEW S, IsFiniteSet(S), S # {}
  PROVE  SumFunctionOnSet(f, S) = f[Any(S)] + SumFunctionOnSet(f, S \ {Any(S)})
<1>1. SumFunctionOnSet(f, S) = f[Any(S)] + Table(f, S)[S \ {Any(S)}]
  BY TableValue, SumIsLast
<1> QED BY <1>1, SameInEachTable

(* Sums are naturals *)
LEMMA SumIsNat ==
  ASSUME NEW S, IsFiniteSet(S), NEW f, \A x \in S : f[x] \in Nat
  PROVE  SumFunctionOnSet(f, S) \in Nat
<1> DEFINE Bad == {s \in SUBSET S : SumFunctionOnSet(f, s) \notin Nat}
<1> SUFFICES ASSUME Bad # {} PROVE FALSE
  OBVIOUS
<1>1. PICK b \in Bad : \A x \in b : b \ {x} \notin Bad
  <2>1. Bad \subseteq SUBSET S
    OBVIOUS
  <2> HIDE DEF Bad
  <2> QED BY <2>1, Smallest
<1>2. b # {} => SumFunctionOnSet(f, b \ {Any(b)}) \in Nat /\ f[Any(b)] \in Nat
  BY <1>1, AnyIsIn
<1>3. b # {} => SumFunctionOnSet(f, b) = f[Any(b)] + SumFunctionOnSet(f, b \ {Any(b)})
  BY FS_Subset, SumByChoice
<1> QED BY <1>2, <1>3, SumOfNone

(* The order of summation does not matter: any element may come first *)
LEMMA SumOfOneMore ==
  ASSUME NEW S, IsFiniteSet(S), NEW f, \A x \in S : f[x] \in Nat, NEW x \in S
  PROVE  SumFunctionOnSet(f, S) = f[x] + SumFunctionOnSet(f, S \ {x})
<1> DEFINE Sum(s) == SumFunctionOnSet(f, s)
           Bad == {s \in SUBSET S : \E y \in s : Sum(s) # f[y] + Sum(s \ {y})}
<1> SUFFICES ASSUME Bad # {} PROVE FALSE
  OBVIOUS
<1>1. PICK b \in Bad : \A y \in b : b \ {y} \notin Bad
  <2>1. Bad \subseteq SUBSET S
    OBVIOUS
  <2> HIDE DEF Bad
  <2> QED BY <2>1, Smallest
<1>2. PICK y \in b : Sum(b) # f[y] + Sum(b \ {y})
  OBVIOUS
<1> DEFINE c == Any(b)
<1>3. b \in SUBSET S /\ IsFiniteSet(b) /\ c \in b
  BY FS_Subset, AnyIsIn
<1> HIDE DEF c
<1>4. Sum(b) = f[c] + Sum(b \ {c})
  BY <1>3, SumByChoice DEF c
<1>5. c # y
  BY <1>2, <1>4
<1>6. Sum(b \ {c}) = f[y] + Sum((b \ {c}) \ {y})
  BY <1>1, <1>3, <1>5
<1>7. Sum(b \ {y}) = f[c] + Sum((b \ {y}) \ {c})
  BY <1>1, <1>3, <1>5
<1>8. (b \ {c}) \ {y} = (b \ {y}) \ {c}
  OBVIOUS
<1>9. IsFiniteSet((b \ {y}) \ {c})
  BY <1>3, FS_Subset
<1>10. Sum((b \ {y}) \ {c}) \in Nat /\ f[c] \in Nat /\ f[y] \in Nat
  BY <1>3, <1>9, SumIsNat
<1> HIDE DEF Sum
<1> QED BY <1>2, <1>4, <1>6, <1>7, <1>8, <1>10

(* A sum of more and greater values is not less *)
LEMMA SumGrows ==
  ASSUME NEW T, IsFiniteSet(T), NEW S \in SUBSET T, NEW f, NEW g,
         \A x \in S : f[x] \in Nat /\ f[x] <= g[x], \A x \in T : g[x] \in Nat
  PROVE  SumFunctionOnSet(f, S) <= SumFunctionOnSet(g, T)
<1> DEFINE F(s) == SumFunctionOnSet(f, s \cap S)
           G(s) == SumFunctionOnSet(g, s)
           Bad == {s \in SUBSET T : ~(F(s) <= G(s))}
<1>1. Bad = {}
  <2> SUFFICES ASSUME Bad # {} PROVE FALSE
    OBVIOUS
  <2>1. PICK b \in Bad : \A x \in b : b \ {x} \notin Bad
    <3>1. Bad \subseteq SUBSET T
      OBVIOUS
    <3> HIDE DEF Bad
    <3> QED BY <3>1, Smallest
  <2>2. CASE b = {}
    <3>1. b \cap S = {}
      BY <2>2
    <3> QED BY <2>2, <3>1, SumOfNone
  <2>3. ASSUME NEW x \in b PROVE FALSE
    <3>1. /\ IsFiniteSet(b) /\ IsFiniteSet(b \cap S) /\ IsFiniteSet(b \ {x})
          /\ IsFiniteSet((b \ {x}) \cap S) /\ b \in SUBSET T
      BY FS_Subset
    <3>2. G(b) = g[x] + G(b \ {x}) /\ G(b \ {x}) \in Nat /\ g[x] \in Nat
      BY <3>1, SumOfOneMore, SumIsNat
    <3>3. F(b \ {x}) <= G(b \ {x}) /\ F(b \ {x}) \in Nat
      BY <2>1, <3>1, SumIsNat
    <3>4. CASE x \in S
      <4>1. (b \cap S) \ {x} = (b \ {x}) \cap S
        OBVIOUS
      <4>2. F(b) = f[x] + F(b \ {x})
        BY <3>1, <3>4, <4>1, SumOfOneMore
      <4>3. f[x] \in Nat /\ f[x] <= g[x] /\ ~(F(b) <= G(b))
        BY <3>4
      <4> HIDE DEF F, G
      <4> QED BY <3>2, <3>3, <4>2, <4>3
    <3>5. CASE x \notin S
      <4>1. F(b) = F(b \ {x})
        <5>1. b \cap S = (b \ {x}) \cap S
          BY <3>5
        <5> QED BY <5>1
      <4>2. ~(F(b) <= G(b))
        OBVIOUS
      <4> HIDE DEF F, G
      <4> QED BY <3>2, <3>3, <4>1, <4>2
    <3> QED BY <3>4, <3>5
  <2> QED BY <2>2, <2>3
<1>2. F(T) <= G(T)
  BY <1>1
<1>3. T \cap S = S
  OBVIOUS
<1> QED BY <1>2, <1>3

(* Only the values over the set count *)
LEMMA SumOfSame ==
  ASSUME NEW S, IsFiniteSet(S), NEW f, NEW g, \A x \in S : f[x] \in Nat /\ g[x] = f[x]
  PROVE  SumFunctionOnSet(g, S) = SumFunctionOnSet(f, S)
<1>1. \A x \in S : f[x] <= g[x] /\ g[x] <= f[x] /\ g[x] \in Nat
  OBVIOUS
<1>2. SumFunctionOnSet(f, S) <= SumFunctionOnSet(g, S)
  BY <1>1, SumGrows
<1>3. SumFunctionOnSet(g, S) <= SumFunctionOnSet(f, S)
  BY <1>1, SumGrows
<1>4. SumFunctionOnSet(f, S) \in Nat /\ SumFunctionOnSet(g, S) \in Nat
  BY <1>1, SumIsNat
<1> QED BY <1>2, <1>3, <1>4

LEMMA SumOfZeros ==
  ASSUME NEW S, IsFiniteSet(S), NEW f, \A x \in S : f[x] = 0
  PROVE  SumFunctionOnSet(f, S) = 0
<1> DEFINE Bad == {s \in SUBSET S : SumFunctionOnSet(f, s) # 0}
<1> SUFFICES ASSUME Bad # {} PROVE FALSE
  OBVIOUS
<1>1. PICK b \in Bad : \A x \in b : b \ {x} \notin Bad
  <2>1. Bad \subseteq SUBSET S
    OBVIOUS
  <2> HIDE DEF Bad
  <2> QED BY <2>1, Smallest
<1>2. b # {} => SumFunctionOnSet(f, b \ {Any(b)}) = 0 /\ f[Any(b)] = 0
  BY <1>1, AnyIsIn
<1>3. b # {} => SumFunctionOnSet(f, b) = f[Any(b)] + SumFunctionOnSet(f, b \ {Any(b)})
  BY FS_Subset, SumByChoice
<1> QED BY <1>2, <1>3, SumOfNone

(* One value is a part of the sum *)
LEMMA PartOfSum ==
  ASSUME NEW S, IsFiniteSet(S), NEW f, \A x \in S : f[x] \in Nat, NEW x \in S
  PROVE  f[x] <= SumFunctionOnSet(f, S)
<1>1. SumFunctionOnSet(f, S) = f[x] + SumFunctionOnSet(f, S \ {x})
  BY SumOfOneMore
<1>2. SumFunctionOnSet(f, S \ {x}) \in Nat
  BY FS_Subset, SumIsNat
<1> QED BY <1>1, <1>2

(* A change of one value changes the sum by as much *)
LEMMA SumOfChange ==
  ASSUME NEW S, IsFiniteSet(S), NEW f, NEW g, NEW x \in S,
         \A y \in S : f[y] \in Nat /\ g[y] \in Nat,
         \A y \in S \ {x} : g[y] = f[y]
  PROVE  SumFunctionOnSet(g, S) = SumFunctionOnSet(f, S) - f[x] + g[x]
<1>1. IsFiniteSet(S \ {x})
  BY FS_Subset
<1>2. SumFunctionOnSet(g, S \ {x}) = SumFunctionOnSet(f, S \ {x})
  BY <1>1, SumOfSame
<1>3. SumFunctionOnSet(g, S) = g[x] + SumFunctionOnSet(g, S \ {x})
  BY SumOfOneMore
<1>4. SumFunctionOnSet(f, S) = f[x] + SumFunctionOnSet(f, S \ {x})
  BY SumOfOneMore
<1>5. SumFunctionOnSet(f, S \ {x}) \in Nat
  BY <1>1, SumIsNat
<1> QED BY <1>2, <1>3, <1>4, <1>5

(* A sum splits into the sums over a subset and over the rest *)
LEMMA SumOfUnion ==
  ASSUME NEW S, IsFiniteSet(S), NEW f, \A x \in S : f[x] \in Nat, NEW T \in SUBSET S
  PROVE  SumFunctionOnSet(f, S) = SumFunctionOnSet(f, T) + SumFunctionOnSet(f, S \ T)
<1> DEFINE Sum(s) == SumFunctionOnSet(f, s)
           Bad == {s \in SUBSET T : Sum(S) # Sum(s) + Sum(S \ s)}
<1> SUFFICES ASSUME Bad # {} PROVE FALSE
  OBVIOUS
<1>1. PICK b \in Bad : \A x \in b : b \ {x} \notin Bad
  <2>1. Bad \subseteq SUBSET T /\ IsFiniteSet(T)
    BY FS_Subset
  <2> HIDE DEF Bad
  <2> QED BY <2>1, Smallest
<1>2. CASE b = {}
  <2>1. S \ {} = S /\ Sum(S) \in Nat
    BY SumIsNat
  <2> QED BY <1>2, <2>1, SumOfNone
<1>3. ASSUME NEW x \in b PROVE FALSE
  <2>1. b \in SUBSET S /\ Sum(S) # Sum(b) + Sum(S \ b)
    OBVIOUS
  <2>2. Sum(S) = Sum(b \ {x}) + Sum(S \ (b \ {x}))
    BY <1>1, <1>3
  <2>3. /\ IsFiniteSet(b) /\ IsFiniteSet(S \ b) /\ IsFiniteSet(b \ {x})
        /\ IsFiniteSet(S \ (b \ {x})) /\ x \in S \ (b \ {x})
    BY <2>1, FS_Subset
  <2>4. Sum(b) = f[x] + Sum(b \ {x})
    BY <2>1, <2>3, SumOfOneMore
  <2>5. Sum(S \ (b \ {x})) = f[x] + Sum(S \ b)
    <3>1. (S \ (b \ {x})) \ {x} = S \ b
      BY <2>1
    <3> QED BY <2>3, <3>1, SumOfOneMore
  <2>6. f[x] \in Nat /\ Sum(b \ {x}) \in Nat /\ Sum(S \ b) \in Nat
    BY <2>1, <2>3, SumIsNat
  <2> HIDE DEF Sum, Bad
  <2> QED BY <2>1, <2>2, <2>4, <2>5, <2>6
<1> QED BY <1>2, <1>3

(* Zeros beside a subset do not count *)
LEMMA SumOfSome ==
  ASSUME NEW S, IsFiniteSet(S), NEW T \in SUBSET S, NEW f, NEW g,
         \A x \in T : f[x] \in Nat /\ g[x] = f[x], \A x \in S \ T : g[x] = 0
  PROVE  SumFunctionOnSet(g, S) = SumFunctionOnSet(f, T)
<1>1. \A x \in S : g[x] \in Nat
  OBVIOUS
<1>2. IsFiniteSet(T) /\ IsFiniteSet(S \ T)
  BY FS_Subset
<1>3. SumFunctionOnSet(g, S) = SumFunctionOnSet(g, T) + SumFunctionOnSet(g, S \ T)
  BY <1>1, SumOfUnion
<1>4. SumFunctionOnSet(g, T) = SumFunctionOnSet(f, T)
  BY <1>2, SumOfSame
<1>5. SumFunctionOnSet(g, S \ T) = 0
  BY <1>2, SumOfZeros
<1>6. SumFunctionOnSet(f, T) \in Nat
  BY <1>2, SumIsNat
<1> QED BY <1>3, <1>4, <1>5, <1>6

(* A sum of sums *)
LEMMA SumOfTwo ==
  ASSUME NEW S, IsFiniteSet(S), NEW f, NEW g, NEW h,
         \A x \in S : f[x] \in Nat /\ g[x] \in Nat /\ h[x] = f[x] + g[x]
  PROVE  SumFunctionOnSet(h, S) = SumFunctionOnSet(f, S) + SumFunctionOnSet(g, S)
<1> DEFINE F(s) == SumFunctionOnSet(f, s)
           G(s) == SumFunctionOnSet(g, s)
           H(s) == SumFunctionOnSet(h, s)
           Bad == {s \in SUBSET S : H(s) # F(s) + G(s)}
<1> SUFFICES ASSUME Bad # {} PROVE FALSE
  OBVIOUS
<1>1. PICK b \in Bad : \A x \in b : b \ {x} \notin Bad
  <2>1. Bad \subseteq SUBSET S
    OBVIOUS
  <2> HIDE DEF Bad
  <2> QED BY <2>1, Smallest
<1>2. CASE b = {}
  BY <1>2, SumOfNone
<1>3. ASSUME NEW x \in b PROVE FALSE
  <2>1. b \in SUBSET S /\ H(b) # F(b) + G(b)
    OBVIOUS
  <2>2. H(b \ {x}) = F(b \ {x}) + G(b \ {x})
    BY <1>1, <1>3
  <2>3. IsFiniteSet(b) /\ IsFiniteSet(b \ {x}) /\ (\A y \in b : h[y] \in Nat)
    BY <2>1, FS_Subset
  <2>4. F(b) = f[x] + F(b \ {x}) /\ G(b) = g[x] + G(b \ {x})
    BY <2>1, <2>3, SumOfOneMore
  <2>5. H(b) = h[x] + H(b \ {x})
    BY <2>3, SumOfOneMore
  <2>6. F(b \ {x}) \in Nat /\ G(b \ {x}) \in Nat
    BY <2>1, <2>3, SumIsNat
  <2>7. f[x] \in Nat /\ g[x] \in Nat /\ h[x] = f[x] + g[x]
    BY <2>1
  <2> HIDE DEF F, G, H, Bad
  <2> QED BY <2>1, <2>2, <2>4, <2>5, <2>6, <2>7
<1> QED BY <1>2, <1>3

(* What holds of the summands, each taken several times, holds of the sums *)
LEMMA SumScaled ==
  ASSUME NEW S, IsFiniteSet(S), NEW f, NEW g, NEW c \in Nat, NEW d \in Nat,
         \A x \in S : f[x] \in Nat /\ g[x] \in Nat /\ c * f[x] <= d * g[x]
  PROVE  c * SumFunctionOnSet(f, S) <= d * SumFunctionOnSet(g, S)
<1> DEFINE F(s) == SumFunctionOnSet(f, s)
           G(s) == SumFunctionOnSet(g, s)
           Bad == {s \in SUBSET S : ~(c * F(s) <= d * G(s))}
<1> SUFFICES ASSUME Bad # {} PROVE FALSE
  OBVIOUS
<1>1. PICK b \in Bad : \A x \in b : b \ {x} \notin Bad
  <2>1. Bad \subseteq SUBSET S
    OBVIOUS
  <2> HIDE DEF Bad
  <2> QED BY <2>1, Smallest
<1>2. CASE b = {}
  <2>1. F(b) = 0 /\ G(b) = 0 /\ ~(c * F(b) <= d * G(b))
    BY <1>2, SumOfNone
  <2> HIDE DEF F, G, Bad
  <2> QED BY <2>1
<1>3. ASSUME NEW x \in b PROVE FALSE
  <2>1. b \in SUBSET S /\ ~(c * F(b) <= d * G(b))
    OBVIOUS
  <2>2. c * F(b \ {x}) <= d * G(b \ {x})
    BY <1>1, <1>3
  <2>3. IsFiniteSet(b) /\ IsFiniteSet(b \ {x})
    BY <2>1, FS_Subset
  <2>4. F(b) = f[x] + F(b \ {x}) /\ G(b) = g[x] + G(b \ {x})
    BY <2>1, <2>3, SumOfOneMore
  <2>5. F(b \ {x}) \in Nat /\ G(b \ {x}) \in Nat
    BY <2>1, <2>3, SumIsNat
  <2>6. f[x] \in Nat /\ g[x] \in Nat /\ c * f[x] <= d * g[x]
    BY <2>1
  <2>7. \A u, v, w \in Nat : w * (u + v) = w * u + w * v
    OBVIOUS
  <2>8. c * F(b) = c * f[x] + c * F(b \ {x}) /\ d * G(b) = d * g[x] + d * G(b \ {x})
    <3> HIDE DEF F, G, Bad
    <3> QED BY <2>4, <2>5, <2>6, <2>7
  <2> DEFINE cf == c * f[x]  cF == c * F(b \ {x})  dg == d * g[x]  dG == d * G(b \ {x})
  <2>9. cf \in Int /\ cF \in Int /\ dg \in Int /\ dG \in Int
    <3> HIDE DEF F, G, Bad
    <3> QED BY <2>5, <2>6
  <2>10. ~(cf + cF <= dg + dG) /\ cf <= dg /\ cF <= dG
    BY <2>1, <2>2, <2>6, <2>8
  <2> HIDE DEF cf, cF, dg, dG, Bad
  <2> QED BY <2>9, <2>10
<1> QED BY <1>2, <1>3

(* A sum by kind: every element is of one kind *)
LEMMA SumByKind ==
  ASSUME NEW S, IsFiniteSet(S), NEW f, \A x \in S : f[x] \in Nat,
         NEW K, IsFiniteSet(K), NEW kind, \A x \in S : kind[x] \in K,
         NEW g, \A k \in K : g[k] = SumFunctionOnSet(f, {x \in S : kind[x] = k})
  PROVE  SumFunctionOnSet(g, K) = SumFunctionOnSet(f, S)
<1> DEFINE Of(L) == {x \in S : kind[x] \in L}
           F(L) == SumFunctionOnSet(f, Of(L))
           G(L) == SumFunctionOnSet(g, L)
           Bad == {L \in SUBSET K : G(L) # F(L)}
<1>1. \A s \in SUBSET S : IsFiniteSet(s) /\ SumFunctionOnSet(f, s) \in Nat
  BY FS_Subset, SumIsNat
<1>2. \A k \in K : g[k] \in Nat
  <2> TAKE k \in K
  <2>1. {x \in S : kind[x] = k} \in SUBSET S
    OBVIOUS
  <2> QED BY <1>1, <2>1
<1>3. Bad = {}
  <2> SUFFICES ASSUME Bad # {} PROVE FALSE
    OBVIOUS
  <2>1. PICK b \in Bad : \A k \in b : b \ {k} \notin Bad
    <3>1. Bad \subseteq SUBSET K
      OBVIOUS
    <3> HIDE DEF Bad
    <3> QED BY <3>1, Smallest
  <2>2. CASE b = {}
    <3>1. Of(b) = {}
      BY <2>2
    <3> QED BY <2>2, <3>1, SumOfNone
  <2>3. ASSUME NEW k \in b PROVE FALSE
    <3>1. b \in SUBSET K /\ G(b) # F(b)
      OBVIOUS
    <3>2. G(b \ {k}) = F(b \ {k})
      BY <2>1, <2>3
    <3>3. G(b) = g[k] + G(b \ {k})
      <4>1. IsFiniteSet(b) /\ \A y \in b : g[y] \in Nat
        BY <1>2, <3>1, FS_Subset
      <4> QED BY <4>1, SumOfOneMore
    <3> DEFINE mine == {x \in S : kind[x] = k}
    <3>4. mine \in SUBSET Of(b) /\ Of(b) \ mine = Of(b \ {k}) /\ Of(b) \in SUBSET S
      BY <2>3
    <3>5. F(b) = SumFunctionOnSet(f, mine) + F(b \ {k})
      <4>1. IsFiniteSet(Of(b)) /\ \A x \in Of(b) : f[x] \in Nat
        BY <1>1, <3>4
      <4> DEFINE all == Of(b)
      <4> HIDE DEF mine, all
      <4>2. SumFunctionOnSet(f, all) = SumFunctionOnSet(f, mine) + SumFunctionOnSet(f, all \ mine)
        BY <3>4, <4>1, SumOfUnion DEF all
      <4> QED BY <3>4, <4>2 DEF all
    <3>6. g[k] = SumFunctionOnSet(f, mine)
      BY <3>1
    <3> QED BY <3>1, <3>2, <3>3, <3>5, <3>6
  <2> QED BY <2>2, <2>3
<1>4. G(K) = F(K)
  BY <1>3
<1>5. Of(K) = S
  OBVIOUS
<1> QED BY <1>4, <1>5

=============================================================================
