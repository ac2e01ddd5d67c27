------------------------ MODULE SavingsLedger_proofs ------------------------
(***************************************************************************)
(* Proofs about SavingsLedger, for every price list that covers both       *)
(* models, every set of requests and every size of the ledger.  The first  *)
(* part is about sums: SumFunction is a recursive function over the        *)
(* subsets of a domain, and what it computes is found by induction over    *)
(* those subsets, stated with sets because the provers do not instantiate  *)
(* operators.                                                              *)
(***************************************************************************)
EXTENDS SavingsLedger, FiniteSetTheorems, WellFoundedInduction, TLAPS

-----------------------------------------------------------------------------
(* Sums *)

Pick(s) == CHOOSE x \in s : TRUE

\* g tells the sum of f over every subset of D, taking elements in Pick's order.
SumsTo(D, f, g) ==
  /\ g \in [SUBSET D -> Int]
  /\ \A s \in SUBSET D : g[s] = IF s = {} THEN 0 ELSE f[Pick(s)] + g[s \ {Pick(s)}]

\* Any element of a subset may be taken out first.
Splits(D, f, g) == \A s \in SUBSET D : \A x \in s : g[s] = f[x] + g[s \ {x}]

LEMMA PickIn == ASSUME NEW s, s # {} PROVE Pick(s) \in s
BY DEF Pick

LEMMA SubsetsWellFounded ==
  ASSUME NEW D, IsFiniteSet(D)
  PROVE  IsWellFoundedOn(StrictSubsetOrdering(D), SUBSET D)
<1>1. IsWellFoundedOn(StrictSubsetOrdering(D), FiniteSubsetsOf(D))
  BY FS_StrictSubsetOrderingWellFounded
<1>2. FiniteSubsetsOf(D) = SUBSET D
  BY FS_FiniteSubsetsOfFinite
<1> QED BY <1>1, <1>2, Zenon

\* Induction over the subsets of a finite set.
LEMMA SubsetInduction ==
  ASSUME NEW D, IsFiniteSet(D), NEW T,
         \A s \in SUBSET D : (\A t \in SUBSET s : t # s => t \in T) => s \in T
  PROVE  \A s \in SUBSET D : s \in T
<1> DEFINE Bad == {s \in SUBSET D : s \notin T}
<1> SUFFICES ASSUME NEW b \in SUBSET D PROVE b \in T
  OBVIOUS
<1> SUFFICES ASSUME b \notin T PROVE FALSE
  OBVIOUS
<1>1. IsWellFoundedOn(StrictSubsetOrdering(D), SUBSET D)
  BY SubsetsWellFounded
<1>2. PICK s \in Bad : \A t \in Bad : ~(<<t, s>> \in StrictSubsetOrdering(D))
  <2>1. Bad \subseteq SUBSET D /\ Bad # {}
    OBVIOUS
  <2> HIDE DEF Bad
  <2> QED BY <1>1, <2>1, WFMin
<1>3. ASSUME NEW t \in SUBSET s, t # s PROVE t \in T
  <2>1. t \in SUBSET D /\ s \in SUBSET D
    OBVIOUS
  <2>2. <<t, s>> \in StrictSubsetOrdering(D)
    BY <1>3, <2>1 DEF StrictSubsetOrdering
  <2> QED BY <1>2, <2>1, <2>2
<1>4. s \in SUBSET D /\ s \notin T
  BY <1>2
<1> QED BY <1>3, <1>4

LEMMA SumExists ==
  ASSUME NEW D, IsFiniteSet(D), NEW f \in [D -> Int]
  PROVE  \E g : SumsTo(D, f, g)
<1> DEFINE Small(n) == {s \in SUBSET D : Cardinality(s) <= n}
           Good(n, g) == /\ g \in [Small(n) -> Int]
                         /\ \A s \in Small(n) : g[s] = IF s = {} THEN 0 ELSE f[Pick(s)] + g[s \ {Pick(s)}]
           P(n) == \E g : Good(n, g)
<1>1. \A s \in SUBSET D : IsFiniteSet(s) /\ Cardinality(s) \in Nat
  BY FS_Subset, FS_CardinalityType
<1>2. \A s \in SUBSET D : s # {} =>
        Pick(s) \in D /\ s \ {Pick(s)} \in SUBSET D /\ Cardinality(s \ {Pick(s)}) = Cardinality(s) - 1
  BY <1>1, FS_RemoveElement, PickIn
<1>3. P(0)
  <2> DEFINE g == [s \in Small(0) |-> 0]
  <2>1. \A s \in Small(0) : s = {}
    BY <1>1, FS_EmptySet
  <2>2. Good(0, g)
    BY <2>1
  <2> QED BY <2>2
<1>4. ASSUME NEW n \in Nat, P(n) PROVE P(n + 1)
  <2>1. PICK g : Good(n, g)
    BY <1>4
  <2> DEFINE h == [s \in Small(n + 1) |-> IF s = {} THEN 0 ELSE f[Pick(s)] + g[s \ {Pick(s)}]]
  <2>2. \A s \in Small(n + 1) : s # {} => s \ {Pick(s)} \in Small(n) /\ f[Pick(s)] \in Int
    BY <1>1, <1>2
  <2>3. ASSUME NEW s \in Small(n) PROVE s \in Small(n + 1) /\ h[s] = g[s]
    <3>1. s \in Small(n + 1)
      BY <1>1
    <3>2. h[s] = IF s = {} THEN 0 ELSE f[Pick(s)] + g[s \ {Pick(s)}]
      BY <3>1
    <3>3. g[s] = IF s = {} THEN 0 ELSE f[Pick(s)] + g[s \ {Pick(s)}]
      BY <2>1
    <3> QED BY <3>1, <3>2, <3>3
  <2>4. h \in [Small(n + 1) -> Int]
    BY <2>1, <2>2
  <2>5. \A s \in Small(n + 1) : h[s] = IF s = {} THEN 0 ELSE f[Pick(s)] + h[s \ {Pick(s)}]
    BY <2>2, <2>3
  <2>6. Good(n + 1, h)
    BY <2>4, <2>5
  <2> QED BY <2>6
<1>5. P(Cardinality(D))
  <2> DEFINE Bad == {n \in Nat : ~P(n)}
  <2> SUFFICES ASSUME Bad # {} PROVE FALSE
    BY <1>1
  <2>1. PICK n \in Bad : \A m \in Bad : ~(<<m, n>> \in OpToRel(<, Nat))
    <3>1. Bad \subseteq Nat
      OBVIOUS
    <3> HIDE DEF Bad
    <3> QED BY <3>1, NatLessThanWellFounded, WFMin
  <2> HIDE DEF P
  <2>2. n \in Nat /\ n # 0
    BY <1>3
  <2>3. n - 1 \in Nat /\ <<n - 1, n>> \in OpToRel(<, Nat)
    BY <2>2 DEF OpToRel
  <2>4. P(n - 1)
    BY <2>1, <2>3
  <2>5. P((n - 1) + 1)
    BY <1>4, <2>3, <2>4
  <2> QED BY <2>5
<1>6. PICK g : Good(Cardinality(D), g)
  BY <1>5
<1>7. Small(Cardinality(D)) = SUBSET D
  BY FS_Subset
<1> QED BY <1>6, <1>7 DEF SumsTo

LEMMA SumFunctionIs ==
  ASSUME NEW D, IsFiniteSet(D), NEW f \in [D -> Int]
  PROVE  \E g : SumsTo(D, f, g) /\ SumFunction(f) = g[D]
<1> DEFINE iter == CHOOSE i : i = [s \in SUBSET D |-> IF s = {} THEN 0 ELSE f[CHOOSE x \in s : TRUE] + i[s \ {CHOOSE x \in s : TRUE}]]
<1>1. SumFunction(f) = iter[D]
  BY DEF SumFunction, SumFunctionOnSet, FoldFunctionOnSet, MapThenFoldSet
<1>2. PICK g : SumsTo(D, f, g)
  BY SumExists
<1>3. g = [s \in SUBSET D |-> IF s = {} THEN 0 ELSE f[CHOOSE x \in s : TRUE] + g[s \ {CHOOSE x \in s : TRUE}]]
  BY <1>2 DEF SumsTo, Pick
<1>4. iter = [s \in SUBSET D |-> IF s = {} THEN 0 ELSE f[CHOOSE x \in s : TRUE] + iter[s \ {CHOOSE x \in s : TRUE}]]
  BY <1>3
<1> HIDE DEF iter
<1> DEFINE T == {s \in SUBSET D : iter[s] = g[s]}
<1>5. ASSUME NEW s \in SUBSET D, \A t \in SUBSET s : t # s => t \in T PROVE s \in T
  <2>1. CASE s = {}
    BY <1>2, <1>4, <2>1 DEF SumsTo
  <2>2. CASE s # {}
    <3> DEFINE r == s \ {Pick(s)}
    <3>1. r \in SUBSET s /\ r # s
      BY <2>2, PickIn
    <3>2. iter[r] = g[r]
      BY <1>5, <3>1
    <3>3. iter[s] = f[Pick(s)] + iter[r]
      BY <1>4, <2>2 DEF Pick
    <3>4. g[s] = f[Pick(s)] + g[r]
      BY <1>2, <2>2 DEF SumsTo
    <3> QED BY <3>2, <3>3, <3>4
  <2> QED BY <2>1, <2>2
<1>6. \A s \in SUBSET D : s \in T
  <2> HIDE DEF T
  <2> QED BY <1>5, SubsetInduction
<1>7. iter[D] = g[D]
  BY <1>6
<1> QED BY <1>1, <1>2, <1>7

\* The order of the elements does not matter.
LEMMA SumSplits ==
  ASSUME NEW D, IsFiniteSet(D), NEW f \in [D -> Int], NEW g, SumsTo(D, f, g)
  PROVE  Splits(D, f, g)
<1> DEFINE T == {s \in SUBSET D : \A x \in s : g[s] = f[x] + g[s \ {x}]}
<1>1. ASSUME NEW s \in SUBSET D, \A t \in SUBSET s : t # s => t \in T PROVE s \in T
  <2> SUFFICES ASSUME NEW x \in s PROVE g[s] = f[x] + g[s \ {x}]
    OBVIOUS
  <2> DEFINE y == Pick(s)
  <2>1. y \in s /\ y \in D /\ x \in D
    BY PickIn
  <2>2. g[s] = f[y] + g[s \ {y}]
    BY DEF SumsTo
  <2> HIDE DEF y
  <2>3. CASE x = y
    BY <2>2, <2>3
  <2>4. CASE x # y
    <3>1. s \ {y} \in SUBSET s /\ s \ {y} # s /\ x \in s \ {y} /\ s \ {x} \in SUBSET s /\ s \ {x} # s /\ y \in s \ {x}
      BY <2>1, <2>4
    <3>2. g[s \ {y}] = f[x] + g[(s \ {y}) \ {x}]
      BY <1>1, <3>1
    <3>3. g[s \ {x}] = f[y] + g[(s \ {x}) \ {y}]
      BY <1>1, <3>1
    <3>4. (s \ {x}) \ {y} = (s \ {y}) \ {x} /\ (s \ {x}) \ {y} \in SUBSET D
      OBVIOUS
    <3>5. g[(s \ {x}) \ {y}] \in Int /\ f[x] \in Int /\ f[y] \in Int
      BY <2>1, <3>4 DEF SumsTo
    <3>6. ASSUME NEW a \in Int, NEW b \in Int, NEW d \in Int PROVE a + (b + d) = b + (a + d)
      OBVIOUS
    <3>7. f[y] + (f[x] + g[(s \ {x}) \ {y}]) = f[x] + (f[y] + g[(s \ {x}) \ {y}])
      BY <3>5, <3>6
    <3>8. g[s] = f[y] + (f[x] + g[(s \ {x}) \ {y}])
      BY <2>2, <3>2, <3>4, Zenon
    <3> QED BY <3>3, <3>7, <3>8, Zenon
  <2> QED BY <2>3, <2>4
<1>2. \A s \in SUBSET D : s \in T
  <2> HIDE DEF T
  <2> QED BY <1>1, SubsetInduction
<1> QED BY <1>2 DEF Splits

\* Two sums of one domain that together stay below a third, term by term, do so
\* over every subset of it.
LEMMA SumsBound ==
  ASSUME NEW D, IsFiniteSet(D), NEW e \in [D -> Int], NEW f \in [D -> Int], NEW h \in [D -> Int],
         \A x \in D : e[x] + f[x] <= h[x],
         NEW ge, NEW gf, NEW gh, SumsTo(D, e, ge), SumsTo(D, f, gf), SumsTo(D, h, gh)
  PROVE  \A s \in SUBSET D : ge[s] + gf[s] <= gh[s]
<1> DEFINE T == {s \in SUBSET D : ge[s] + gf[s] <= gh[s]}
<1>1. ASSUME NEW s \in SUBSET D, \A t \in SUBSET s : t # s => t \in T PROVE s \in T
  <2>1. CASE s = {}
    <3>1. ge[s] = 0 /\ gf[s] = 0 /\ gh[s] = 0
      BY <2>1 DEF SumsTo
    <3>2. ge[s] + gf[s] <= gh[s]
      BY <3>1
    <3> QED BY <3>2
  <2>2. CASE s # {}
    <3> DEFINE x == Pick(s)
               r == s \ {x}
    <3>1. x \in D /\ r \in SUBSET s /\ r # s /\ r \in SUBSET D
      BY <2>2, PickIn
    <3>2. ge[s] = e[x] + ge[r] /\ gf[s] = f[x] + gf[r] /\ gh[s] = h[x] + gh[r]
      BY <2>2 DEF SumsTo
    <3> HIDE DEF x, r
    <3>3. ge[r] + gf[r] <= gh[r]
      BY <1>1, <3>1
    <3>4. ge[r] \in Int /\ gf[r] \in Int /\ gh[r] \in Int /\ e[x] \in Int /\ f[x] \in Int /\ h[x] \in Int
      BY <3>1 DEF SumsTo
    <3>5. e[x] + f[x] <= h[x]
      BY <3>1
    <3>6. ge[s] + gf[s] <= gh[s]
      BY <3>2, <3>3, <3>4, <3>5
    <3> QED BY <3>6
  <2> QED BY <2>1, <2>2
<1>2. \A s \in SUBSET D : s \in T
  <2> HIDE DEF T
  <2> QED BY <1>1, SubsetInduction
<1> QED BY <1>2

LEMMA SumZero ==
  ASSUME NEW D, IsFiniteSet(D), NEW f \in [D -> Int], NEW g, SumsTo(D, f, g),
         NEW r \in SUBSET D, \A x \in r : f[x] = 0
  PROVE  g[r] = 0
<1> DEFINE T == {s \in SUBSET r : g[s] = 0}
<1>1. IsFiniteSet(r)
  BY FS_Subset
<1>2. ASSUME NEW s \in SUBSET r, \A t \in SUBSET s : t # s => t \in T PROVE s \in T
  <2>1. CASE s = {}
    BY <2>1 DEF SumsTo
  <2>2. CASE s # {}
    <3> DEFINE x == Pick(s)
    <3>1. x \in r /\ s \ {x} \in SUBSET s /\ s \ {x} # s
      BY <2>2, PickIn
    <3>2. s \in SUBSET D /\ g[s] = f[x] + g[s \ {x}]
      BY <2>2 DEF SumsTo
    <3>3. g[s \ {x}] = 0 /\ f[x] = 0
      BY <1>2, <3>1
    <3> HIDE DEF x
    <3>4. g[s] = 0
      BY <3>2, <3>3
    <3> QED BY <3>4
  <2> QED BY <2>1, <2>2
<1>3. \A s \in SUBSET r : s \in T
  <2> HIDE DEF T
  <2> QED BY <1>1, <1>2, SubsetInduction
<1> QED BY <1>3

LEMMA ZeroSum == ASSUME NEW D PROVE SumsTo(D, [x \in D |-> 0], [s \in SUBSET D |-> 0])
<1> SUFFICES ASSUME NEW s \in SUBSET D, s # {} PROVE 0 = [x \in D |-> 0][Pick(s)] + [t \in SUBSET D |-> 0][s \ {Pick(s)}]
  BY DEF SumsTo
<1>1. Pick(s) \in D /\ s \ {Pick(s)} \in SUBSET D
  BY PickIn
<1> QED BY <1>1

LEMMA SumType ==
  ASSUME NEW D, IsFiniteSet(D), NEW f \in [D -> Int]
  PROVE  SumFunction(f) \in Int
<1>1. PICK g : SumsTo(D, f, g) /\ SumFunction(f) = g[D]
  BY SumFunctionIs
<1>2. g \in [SUBSET D -> Int]
  BY <1>1 DEF SumsTo
<1> QED BY <1>1, <1>2

\* Sums grow with their terms.
LEMMA SumAtMost ==
  ASSUME NEW D, IsFiniteSet(D), NEW e \in [D -> Int], NEW f \in [D -> Int], NEW h \in [D -> Int],
         \A x \in D : e[x] + f[x] <= h[x]
  PROVE  SumFunction(e) + SumFunction(f) <= SumFunction(h)
<1>1. PICK ge : SumsTo(D, e, ge) /\ SumFunction(e) = ge[D]
  BY SumFunctionIs
<1>2. PICK gf : SumsTo(D, f, gf) /\ SumFunction(f) = gf[D]
  BY SumFunctionIs
<1>3. PICK gh : SumsTo(D, h, gh) /\ SumFunction(h) = gh[D]
  BY SumFunctionIs
<1>4. \A s \in SUBSET D : ge[s] + gf[s] <= gh[s]
  BY <1>1, <1>2, <1>3, SumsBound
<1>5. ge[D] + gf[D] <= gh[D]
  BY <1>4
<1> QED BY <1>1, <1>2, <1>3, <1>5

LEMMA SumScaled ==
  ASSUME NEW D, IsFiniteSet(D), NEW f \in [D -> Int], NEW h \in [D -> Int], NEW z \in Nat,
         \A x \in D : h[x] = z * f[x]
  PROVE  SumFunction(h) = z * SumFunction(f)
<1>1. PICK gf : SumsTo(D, f, gf) /\ SumFunction(f) = gf[D]
  BY SumFunctionIs
<1>2. PICK gh : SumsTo(D, h, gh) /\ SumFunction(h) = gh[D]
  BY SumFunctionIs
<1> DEFINE T == {s \in SUBSET D : gh[s] = z * gf[s]}
<1>3. ASSUME NEW s \in SUBSET D, \A t \in SUBSET s : t # s => t \in T PROVE s \in T
  <2>1. CASE s = {}
    <3>1. gf[s] = 0 /\ gh[s] = 0
      BY <1>1, <1>2, <2>1 DEF SumsTo
    <3> QED BY <3>1
  <2>2. CASE s # {}
    <3> DEFINE x == Pick(s)
               r == s \ {x}
    <3>1. x \in D /\ r \in SUBSET s /\ r # s /\ r \in SUBSET D
      BY <2>2, PickIn
    <3>2. gf[s] = f[x] + gf[r] /\ gh[s] = h[x] + gh[r]
      BY <1>1, <1>2, <2>2 DEF SumsTo
    <3> HIDE DEF x, r
    <3>3. gh[r] = z * gf[r] /\ h[x] = z * f[x]
      BY <1>3, <3>1
    <3>4. PICK a \in Int, b \in Int : a = f[x] /\ b = gf[r]
      BY <1>1, <3>1 DEF SumsTo
    <3>5. z * a + z * b = z * (a + b)
      BY <3>4
    <3>6. gh[s] = z * gf[s]
      BY <3>2, <3>3, <3>4, <3>5
    <3> QED BY <3>6
  <2> QED BY <2>1, <2>2
<1>4. \A s \in SUBSET D : s \in T
  <2> HIDE DEF T
  <2> QED BY <1>3, SubsetInduction
<1>5. gh[D] = z * gf[D]
  BY <1>4
<1> QED BY <1>1, <1>2, <1>5

LEMMA SumMonotone ==
  ASSUME NEW D, IsFiniteSet(D), NEW f \in [D -> Int], NEW h \in [D -> Int], \A x \in D : f[x] <= h[x]
  PROVE  SumFunction(f) <= SumFunction(h)
<1> DEFINE e == [x \in D |-> 0]
           ge == [s \in SUBSET D |-> 0]
<1>1. PICK gf : SumsTo(D, f, gf) /\ SumFunction(f) = gf[D]
  BY SumFunctionIs
<1>2. PICK gh : SumsTo(D, h, gh) /\ SumFunction(h) = gh[D]
  BY SumFunctionIs
<1>3. SumsTo(D, e, ge)
  BY ZeroSum
<1>4. e \in [D -> Int] /\ ge[D] = 0 /\ \A x \in D : e[x] + f[x] <= h[x]
  OBVIOUS
<1> HIDE DEF e, ge
<1>5. \A s \in SUBSET D : ge[s] + gf[s] <= gh[s]
  BY <1>1, <1>2, <1>3, <1>4, SumsBound
<1>6. ge[D] + gf[D] <= gh[D] /\ gf[D] \in Int /\ gh[D] \in Int
  BY <1>1, <1>2, <1>5 DEF SumsTo
<1> QED BY <1>1, <1>2, <1>4, <1>6

LEMMA SumNonNegative ==
  ASSUME NEW D, IsFiniteSet(D), NEW f \in [D -> Int], \A x \in D : f[x] >= 0
  PROVE  SumFunction(f) \in Nat
<1> DEFINE e == [x \in D |-> 0]
<1>1. e \in [D -> Int] /\ \A x \in D : e[x] = 0 /\ e[x] <= f[x]
  OBVIOUS
<1> HIDE DEF e
<1>2. PICK g : SumsTo(D, e, g) /\ SumFunction(e) = g[D]
  BY <1>1, SumFunctionIs
<1>3. g[D] = 0
  BY <1>1, <1>2, SumZero
<1>4. SumFunction(e) <= SumFunction(f)
  BY <1>1, SumMonotone
<1>5. SumFunction(f) \in Int
  BY SumType
<1> QED BY <1>2, <1>3, <1>4, <1>5

\* A sum with at most four terms that are not zero.
LEMMA SumOfFour ==
  ASSUME NEW D, IsFiniteSet(D), NEW f \in [D -> Int],
         NEW a \in D, NEW b \in D \ {a}, NEW c \in D \ {a, b}, NEW d \in D \ {a, b, c},
         \A x \in D \ {a, b, c, d} : f[x] = 0
  PROVE  SumFunction(f) = f[a] + f[b] + f[c] + f[d]
<1>1. PICK g : SumsTo(D, f, g) /\ SumFunction(f) = g[D]
  BY SumFunctionIs
<1>2. Splits(D, f, g)
  BY <1>1, SumSplits
<1>3. g[D] = f[a] + g[D \ {a}]
  BY <1>2 DEF Splits
<1>4. g[D \ {a}] = f[b] + g[(D \ {a}) \ {b}]
  BY <1>2 DEF Splits
<1>5. g[(D \ {a}) \ {b}] = f[c] + g[((D \ {a}) \ {b}) \ {c}]
  BY <1>2 DEF Splits
<1>6. g[((D \ {a}) \ {b}) \ {c}] = f[d] + g[(((D \ {a}) \ {b}) \ {c}) \ {d}]
  BY <1>2 DEF Splits
<1>7. g[(((D \ {a}) \ {b}) \ {c}) \ {d}] = 0
  <2> DEFINE r == (((D \ {a}) \ {b}) \ {c}) \ {d}
  <2>1. r \in SUBSET D /\ \A x \in r : f[x] = 0
    OBVIOUS
  <2> HIDE DEF r
  <2> QED BY <1>1, <2>1, SumZero
<1>8. f[a] \in Int /\ f[b] \in Int /\ f[c] \in Int /\ f[d] \in Int
  OBVIOUS
<1> QED BY <1>1, <1>3, <1>4, <1>5, <1>6, <1>7, <1>8

LEMMA SumOfThree ==
  ASSUME NEW D, IsFiniteSet(D), NEW f \in [D -> Int],
         NEW a \in D, NEW b \in D \ {a}, NEW c \in D \ {a, b},
         \A x \in D \ {a, b, c} : f[x] = 0
  PROVE  SumFunction(f) = f[a] + f[b] + f[c]
<1>1. PICK g : SumsTo(D, f, g) /\ SumFunction(f) = g[D]
  BY SumFunctionIs
<1>2. Splits(D, f, g)
  BY <1>1, SumSplits
<1>3. g[D] = f[a] + g[D \ {a}]
  BY <1>2 DEF Splits
<1>4. g[D \ {a}] = f[b] + g[(D \ {a}) \ {b}]
  BY <1>2 DEF Splits
<1>5. g[(D \ {a}) \ {b}] = f[c] + g[((D \ {a}) \ {b}) \ {c}]
  BY <1>2 DEF Splits
<1>6. g[((D \ {a}) \ {b}) \ {c}] = 0
  <2> DEFINE r == ((D \ {a}) \ {b}) \ {c}
  <2>1. r \in SUBSET D /\ \A x \in r : f[x] = 0
    OBVIOUS
  <2> HIDE DEF r
  <2> QED BY <1>1, <2>1, SumZero
<1>7. f[a] \in Int /\ f[b] \in Int /\ f[c] \in Int
  OBVIOUS
<1> QED BY <1>1, <1>3, <1>4, <1>5, <1>6, <1>7

LEMMA SumOfTwo ==
  ASSUME NEW D, IsFiniteSet(D), NEW f \in [D -> Int],
         NEW a \in D, NEW b \in D \ {a}, D = {a, b}
  PROVE  SumFunction(f) = f[a] + f[b]
<1>1. PICK g : SumsTo(D, f, g) /\ SumFunction(f) = g[D]
  BY SumFunctionIs
<1>2. Splits(D, f, g)
  BY <1>1, SumSplits
<1>3. g[D] = f[a] + g[D \ {a}]
  BY <1>2 DEF Splits
<1>4. g[D \ {a}] = f[b] + g[(D \ {a}) \ {b}]
  BY <1>2 DEF Splits
<1>5. g[(D \ {a}) \ {b}] = 0
  BY <1>1 DEF SumsTo
<1>6. f[a] \in Int /\ f[b] \in Int
  OBVIOUS
<1> QED BY <1>1, <1>3, <1>4, <1>5, <1>6

LEMMA SumOfOne ==
  ASSUME NEW a, NEW f \in [{a} -> Int]
  PROVE  SumFunction(f) = f[a]
<1>1. IsFiniteSet({a})
  BY FS_Singleton
<1>2. PICK g : SumsTo({a}, f, g) /\ SumFunction(f) = g[{a}]
  BY <1>1, SumFunctionIs
<1>3. Splits({a}, f, g)
  BY <1>1, <1>2, SumSplits
<1>4. g[{a}] = f[a] + g[{a} \ {a}]
  BY <1>3 DEF Splits
<1>5. g[{a} \ {a}] = 0
  BY <1>2 DEF SumsTo
<1>6. f[a] \in Int
  OBVIOUS
<1> QED BY <1>2, <1>4, <1>5, <1>6

LEMMA SumOfNone == ASSUME NEW f \in [{} -> Int] PROVE SumFunction(f) = 0
<1>1. PICK g : SumsTo({}, f, g) /\ SumFunction(f) = g[{}]
  BY FS_EmptySet, SumFunctionIs
<1> QED BY <1>1 DEF SumsTo

-----------------------------------------------------------------------------
(* What one call costs and saves, when both models have a price *)

LEMMA PriceTable ==
  ASSUME Catalog = Models
  PROVE  /\ ListPrice["incumbent"] \in Nat /\ ListPrice["candidate"] \in Nat
         /\ ListPrice["candidate"] <= ListPrice["incumbent"]
         /\ \A c \in CallKinds : CostUsd(c) =
              IF c = "hit" THEN 0
              ELSE IF c = "batch" THEN (ListPrice["incumbent"] * 2) \div 2
              ELSE IF c \in {"routed", "fellback", "overhead"} THEN ListPrice["candidate"] * 2
              ELSE IF c = "trimmed" THEN ListPrice["incumbent"] ELSE ListPrice["incumbent"] * 2
         /\ \A c \in CallKinds : Known(SavedUsd(c)) =
              IF c = "hit" THEN ListPrice["incumbent"] * 2
              ELSE IF c = "batch" THEN ListPrice["incumbent"] * 2 - (ListPrice["incumbent"] * 2) \div 2
              ELSE IF c = "routed" THEN ListPrice["incumbent"] * 2 - ListPrice["candidate"] * 2 ELSE 0
         /\ \A c \in CallKinds : Spared(c) =
              IF c = "trimmed" THEN ListPrice["incumbent"] * 2 - ListPrice["incumbent"] ELSE Known(SavedUsd(c))
<1> DEFINE I == ListPrice["incumbent"]
           C == ListPrice["candidate"]
<1>1. I \in Nat /\ C \in Nat /\ C <= I
  BY BooksAssumption DEF Models
<1>2. \A c \in CallKinds : UsedCost(c) =
        IF c \in {"routed", "fellback", "overhead"} THEN C * 2 ELSE IF c = "trimmed" THEN I ELSE I * 2
  BY <1>1 DEF UsedCost, PriceOf, Served, Size, Models, CallKinds
<1>3. \A c \in CallKinds : NaiveCost(c) = IF c = "trimmed" THEN I ELSE I * 2
  BY <1>1 DEF NaiveCost, PriceOf, Size, Models, CallKinds
<1>4. PriceOf("incumbent", 2) = I * 2
  BY DEF PriceOf, Models
<1>5. I * 2 \in Nat /\ C * 2 \in Nat /\ (I * 2) \div 2 \in Nat /\ (I * 2) \div 2 <= I * 2
  BY <1>1
<1> HIDE DEF I, C
<1>6. \A c \in CallKinds : UsedCost(c) # Unknown /\ NaiveCost(c) # Unknown
  BY <1>1, <1>2, <1>3, <1>5 DEF Unknown
<1>7. BatchCost("batch") = (I * 2) \div 2 /\ BatchCost("batch") # Unknown
  BY <1>2, <1>5, <1>6 DEF BatchCost, CallKinds, Unknown
<1>8. \A c \in CallKinds : CostUsd(c) =
        IF c = "hit" THEN 0 ELSE IF c = "batch" THEN (I * 2) \div 2 ELSE UsedCost(c)
  BY <1>6, <1>7 DEF CostUsd, CallKinds
<1>9. \A c \in CallKinds : SavedUsd(c) =
        IF c = "hit" THEN I * 2
        ELSE IF c = "batch" THEN I * 2 - (I * 2) \div 2
        ELSE IF c = "routed" THEN I * 2 - C * 2 ELSE Unknown
  BY <1>2, <1>3, <1>5, <1>6, <1>7 DEF SavedUsd, Less, CallKinds
<1>10. \A c \in CallKinds : Known(SavedUsd(c)) =
        IF c = "hit" THEN I * 2
        ELSE IF c = "batch" THEN I * 2 - (I * 2) \div 2
        ELSE IF c = "routed" THEN I * 2 - C * 2 ELSE 0
  BY <1>1, <1>5, <1>9 DEF Known, Unknown
<1>11. \A c \in CallKinds : Spared(c) =
        IF c = "trimmed" THEN I * 2 - I ELSE Known(SavedUsd(c))
  <2> TAKE c \in CallKinds
  <2>1. CASE c = "hit"
    BY <2>1 DEF Spared, SavedUsd
  <2>2. CASE c = "batch"
    BY <2>2 DEF Spared, SavedUsd
  <2>3. CASE c = "routed"
    <3>1. Spared(c) = Known(Less(I * 2, C * 2))
      BY <1>2, <1>4, <2>3 DEF Spared
    <3>2. SavedUsd(c) = Less(I * 2, C * 2)
      BY <1>2, <1>3, <2>3 DEF SavedUsd
    <3> QED BY <2>3, <3>1, <3>2
  <2>4. CASE c = "trimmed"
    <3>1. Spared(c) = Known(Less(I * 2, I))
      BY <1>2, <1>4, <2>4 DEF Spared
    <3>2. Less(I * 2, I) = I * 2 - I /\ I * 2 - I # Unknown
      BY <1>1, <1>5 DEF Less, Unknown
    <3> QED BY <2>4, <3>1, <3>2 DEF Known
  <2>5. CASE c \notin {"hit", "batch", "routed", "trimmed"}
    BY <1>10, <2>5 DEF Spared
  <2> QED BY <2>1, <2>2, <2>3, <2>4, <2>5
<1>12. \A c \in CallKinds : CostUsd(c) =
        IF c = "hit" THEN 0
        ELSE IF c = "batch" THEN (I * 2) \div 2
        ELSE IF c \in {"routed", "fellback", "overhead"} THEN C * 2
        ELSE IF c = "trimmed" THEN I ELSE I * 2
  BY <1>2, <1>8
<1> QED BY <1>1, <1>10, <1>11, <1>12 DEF I, C

-----------------------------------------------------------------------------
(* Sums over the ledger *)

LedgerType == [Months -> [Requests -> Nat]]

\* Rows, Volume, RealSavings and LikeArms of a ledger l, the current or the next.
Cells(p, c) == p \X OfKind[c]
RowsOf(l, p, c) == SumFunction([q \in Cells(p, c) |-> l[q[1]][q[2]]])
VolumeOf(l, p, c) == SumFunction([q \in Cells(p, c) |-> q[2].size * l[q[1]][q[2]]])
RealOf(l, p) == SumFunction([c \in CallKinds |-> VolumeOf(l, p, c) * Spared(c)])
LikeArmsOf(l, p) ==
  \A x \in Experiments : \E z \in {r.size : r \in Requests} :
    \A m \in p, r \in OfKind[x.control] \cup OfKind[x.treatment] : l[m][r] > 0 => r.size = z

LEMMA OfLedger ==
  /\ \A p, c : Rows(p, c) = RowsOf(ledger, p, c) /\ Volume(p, c) = VolumeOf(ledger, p, c)
  /\ \A p : RealSavings(p) = RealOf(ledger, p)
  /\ \A p : LikeArms(p) <=> LikeArmsOf(ledger, p)
<1>1. \A p, c : Rows(p, c) = RowsOf(ledger, p, c) /\ Volume(p, c) = VolumeOf(ledger, p, c)
  BY DEF Rows, RowsOf, Volume, VolumeOf, Cells
<1>2. \A p : RealSavings(p) = RealOf(ledger, p)
  BY <1>1 DEF RealSavings, RealOf
<1>3. \A p : LikeArms(p) <=> LikeArmsOf(ledger, p)
  BY DEF LikeArms, LikeArmsOf
<1> QED BY <1>1, <1>2, <1>3

LEMMA CallKindsFinite == IsFiniteSet(CallKinds)
<1>1. IsFiniteSet({} \cup {"plain"})
  BY FS_EmptySet, FS_AddElement
<1>2. IsFiniteSet((({} \cup {"plain"}) \cup {"hit"}) \cup {"routed"})
  BY <1>1, FS_AddElement
<1>3. IsFiniteSet({"plain", "hit", "routed"})
  <2>1. (({} \cup {"plain"}) \cup {"hit"}) \cup {"routed"} = {"plain", "hit", "routed"}
    OBVIOUS
  <2> QED BY <1>2, <2>1
<1>4. IsFiniteSet((({"plain", "hit", "routed"} \cup {"held"}) \cup {"trimmed"}) \cup {"untrimmed"})
  BY <1>3, FS_AddElement
<1>5. IsFiniteSet((((((({"plain", "hit", "routed"} \cup {"held"}) \cup {"trimmed"}) \cup {"untrimmed"})
                     \cup {"fellback"}) \cup {"batch"}) \cup {"overhead"}))
  BY <1>4, FS_AddElement
<1>6. ((((({"plain", "hit", "routed"} \cup {"held"}) \cup {"trimmed"}) \cup {"untrimmed"})
                     \cup {"fellback"}) \cup {"batch"}) \cup {"overhead"} = CallKinds
  BY DEF CallKinds
<1> QED BY <1>5, <1>6

LEMMA MonthsFinite == ASSUME NEW p \in SUBSET Months PROVE IsFiniteSet(p)
<1>1. IsFiniteSet(Months)
  BY BooksAssumption, FS_Interval DEF Months
<1> QED BY <1>1, FS_Subset

LEMMA CellsOf ==
  ASSUME NEW p \in SUBSET Months, NEW c \in CallKinds
  PROVE  /\ IsFiniteSet(Cells(p, c))
         /\ \A q \in Cells(p, c) : q[1] \in p /\ q[1] \in Months /\ q[2] \in OfKind[c] /\ q[2] \in Requests /\ q[2].size \in Nat
<1>1. OfKind[c] \in SUBSET Requests
  BY DEF OfKind
<1>2. IsFiniteSet(Cells(p, c))
  BY <1>1, BooksAssumption, MonthsFinite, FS_Subset, FS_Product DEF Cells
<1>3. \A r \in Requests : r.size \in Nat
  BY BooksAssumption
<1> QED BY <1>1, <1>2, <1>3 DEF Cells

LEMMA Product ==
  /\ \A a, b \in Nat : a * b \in Nat
  /\ \A a, b, c \in Nat : a <= b => a * c <= b * c
OBVIOUS

LEMMA LedgerSums ==
  ASSUME NEW l \in LedgerType, NEW p \in SUBSET Months, NEW c \in CallKinds
  PROVE  RowsOf(l, p, c) \in Nat /\ VolumeOf(l, p, c) \in Nat
<1> DEFINE f == [q \in Cells(p, c) |-> l[q[1]][q[2]]]
           h == [q \in Cells(p, c) |-> q[2].size * l[q[1]][q[2]]]
<1>1. \A q \in Cells(p, c) : l[q[1]][q[2]] \in Nat /\ q[2].size \in Nat
  BY CellsOf DEF LedgerType
<1>2. \A q \in Cells(p, c) : q[2].size * l[q[1]][q[2]] \in Nat
  BY <1>1, Product
<1>3. /\ f \in [Cells(p, c) -> Int] /\ \A q \in Cells(p, c) : f[q] >= 0
      /\ h \in [Cells(p, c) -> Int] /\ \A q \in Cells(p, c) : h[q] >= 0
  BY <1>1, <1>2
<1> HIDE DEF f, h
<1>4. SumFunction(f) \in Nat /\ SumFunction(h) \in Nat
  BY <1>3, CellsOf, SumNonNegative
<1> QED BY <1>4 DEF f, h, RowsOf, VolumeOf

LEMMA VolumeMonotone ==
  ASSUME NEW k \in LedgerType, NEW l \in LedgerType, NEW p \in SUBSET Months, NEW c \in CallKinds,
         \A m \in Months, r \in Requests : k[m][r] <= l[m][r]
  PROVE  VolumeOf(k, p, c) <= VolumeOf(l, p, c)
<1> DEFINE f == [q \in Cells(p, c) |-> q[2].size * k[q[1]][q[2]]]
           h == [q \in Cells(p, c) |-> q[2].size * l[q[1]][q[2]]]
<1>1. \A q \in Cells(p, c) :
        f[q] \in Int /\ h[q] \in Int /\ f[q] <= h[q]
  <2> TAKE q \in Cells(p, c)
  <2>1. PICK a \in Nat, b \in Nat, n \in Nat : a = k[q[1]][q[2]] /\ b = l[q[1]][q[2]] /\ n = q[2].size /\ a <= b
    BY CellsOf DEF LedgerType
  <2>2. n * a \in Int /\ n * b \in Int /\ n * a <= n * b
    BY <2>1
  <2> QED BY <2>1, <2>2
<1>2. f \in [Cells(p, c) -> Int] /\ h \in [Cells(p, c) -> Int]
  BY <1>1
<1> HIDE DEF f, h
<1>3. SumFunction(f) <= SumFunction(h)
  BY <1>1, <1>2, CellsOf, SumMonotone
<1> QED BY <1>3 DEF f, h, VolumeOf

\* Calls of one size are worth that size times their number.
LEMMA LikeVolume ==
  ASSUME NEW l \in LedgerType, NEW p \in SUBSET Months, NEW c \in CallKinds, NEW z \in Nat,
         \A m \in p, r \in OfKind[c] : l[m][r] > 0 => r.size = z
  PROVE  VolumeOf(l, p, c) = z * RowsOf(l, p, c)
<1> DEFINE f == [q \in Cells(p, c) |-> l[q[1]][q[2]]]
           h == [q \in Cells(p, c) |-> q[2].size * l[q[1]][q[2]]]
<1>1. \A q \in Cells(p, c) : f[q] \in Int /\ h[q] \in Int /\ h[q] = z * f[q]
  <2> TAKE q \in Cells(p, c)
  <2>1. PICK a \in Nat, n \in Nat : a = l[q[1]][q[2]] /\ n = q[2].size /\ (a > 0 => n = z)
    BY CellsOf DEF LedgerType
  <2>2. n * a \in Int /\ n * a = z * a
    BY <2>1
  <2> QED BY <2>1, <2>2
<1>2. f \in [Cells(p, c) -> Int] /\ h \in [Cells(p, c) -> Int]
  BY <1>1
<1>3. IsFiniteSet(Cells(p, c))
  BY CellsOf
<1> HIDE DEF f, h
<1>4. SumFunction(h) = z * SumFunction(f)
  BY <1>1, <1>2, <1>3, SumScaled
<1> QED BY <1>4 DEF f, h, RowsOf, VolumeOf

LEMMA LikeBefore ==
  ASSUME NEW k \in LedgerType, NEW l \in LedgerType, NEW p \in SUBSET Months,
         \A m \in Months, r \in Requests : k[m][r] <= l[m][r], LikeArmsOf(l, p)
  PROVE  LikeArmsOf(k, p)
<1> SUFFICES ASSUME NEW x \in Experiments
             PROVE  \E z \in {r.size : r \in Requests} :
                      \A m \in p, r \in OfKind[x.control] \cup OfKind[x.treatment] : k[m][r] > 0 => r.size = z
  BY DEF LikeArmsOf
<1>1. PICK z \in {r.size : r \in Requests} :
        \A m \in p, r \in OfKind[x.control] \cup OfKind[x.treatment] : l[m][r] > 0 => r.size = z
  BY DEF LikeArmsOf
<1>2. OfKind[x.control] \cup OfKind[x.treatment] \subseteq Requests
  BY DEF OfKind, Experiments, CallKinds
<1>3. \A m \in p, r \in OfKind[x.control] \cup OfKind[x.treatment] : k[m][r] > 0 => l[m][r] > 0
  <2> TAKE m \in p, r \in OfKind[x.control] \cup OfKind[x.treatment]
  <2>1. k[m][r] \in Nat /\ l[m][r] \in Nat /\ k[m][r] <= l[m][r]
    BY <1>2 DEF LedgerType
  <2> QED BY <2>1
<1> QED BY <1>1, <1>3

LEMMA SparedType == ASSUME Catalog = Models, NEW c \in CallKinds PROVE Spared(c) \in Nat
<1> DEFINE I == ListPrice["incumbent"]
           C == ListPrice["candidate"]
<1>1. I \in Nat /\ C \in Nat /\ C <= I
  BY PriceTable
<1>2. Spared(c) = IF c = "trimmed" THEN I * 2 - I ELSE Known(SavedUsd(c))
  BY PriceTable
<1>3. Known(SavedUsd(c)) =
        IF c = "hit" THEN I * 2
        ELSE IF c = "batch" THEN I * 2 - (I * 2) \div 2
        ELSE IF c = "routed" THEN I * 2 - C * 2 ELSE 0
  BY PriceTable
<1> HIDE DEF I, C
<1>4. I * 2 - I \in Nat /\ I * 2 \in Nat /\ I * 2 - (I * 2) \div 2 \in Nat /\ I * 2 - C * 2 \in Nat
  BY <1>1
<1> QED BY <1>2, <1>3, <1>4

LEMMA RealIsNatural ==
  ASSUME Catalog = Models, NEW l \in LedgerType, NEW p \in SUBSET Months
  PROVE  RealOf(l, p) \in Nat
<1> DEFINE f == [c \in CallKinds |-> VolumeOf(l, p, c) * Spared(c)]
<1>1. \A c \in CallKinds : VolumeOf(l, p, c) \in Nat /\ Spared(c) \in Nat
  BY LedgerSums, SparedType
<1>2. \A c \in CallKinds : f[c] \in Nat
  BY <1>1, Product
<1>3. f \in [CallKinds -> Int] /\ \A c \in CallKinds : f[c] >= 0
  BY <1>2
<1> HIDE DEF f
<1>4. SumFunction(f) \in Nat
  BY <1>3, CallKindsFinite, SumNonNegative
<1> QED BY <1>4 DEF f, RealOf

LEMMA RealGrows ==
  ASSUME Catalog = Models, NEW k \in LedgerType, NEW l \in LedgerType, NEW p \in SUBSET Months,
         \A m \in Months, r \in Requests : k[m][r] <= l[m][r]
  PROVE  RealOf(k, p) <= RealOf(l, p)
<1> DEFINE f == [c \in CallKinds |-> VolumeOf(k, p, c) * Spared(c)]
           h == [c \in CallKinds |-> VolumeOf(l, p, c) * Spared(c)]
<1>1. \A c \in CallKinds : VolumeOf(k, p, c) \in Nat /\ VolumeOf(l, p, c) \in Nat /\ Spared(c) \in Nat
  BY LedgerSums, SparedType
<1>2. \A c \in CallKinds : VolumeOf(k, p, c) <= VolumeOf(l, p, c)
  BY VolumeMonotone
<1>3. \A c \in CallKinds : f[c] \in Nat /\ h[c] \in Nat /\ f[c] <= h[c]
  BY <1>1, <1>2, Product
<1>4. f \in [CallKinds -> Int] /\ h \in [CallKinds -> Int] /\ \A c \in CallKinds : f[c] <= h[c]
  BY <1>3
<1> HIDE DEF f, h
<1>5. SumFunction(f) <= SumFunction(h)
  BY <1>4, CallKindsFinite, SumMonotone
<1> QED BY <1>5 DEF f, h, RealOf

-----------------------------------------------------------------------------
(* What a period is worth *)

\* The sums of one kind of call.
LEMMA OneKind ==
  ASSUME Catalog = Models, ledger \in LedgerType, NEW p \in SUBSET Months, NEW c \in CallKinds
  PROVE  /\ Rows(p, c) \in Nat /\ Volume(p, c) \in Nat
         /\ Known(SavedUsd(c)) \in Nat /\ SumSaved(p, {c}) = Volume(p, c) * Known(SavedUsd(c))
         /\ CostUsd(c) \in Nat /\ Known(CostUsd(c)) = CostUsd(c)
         /\ SumCost(p, {c}) = Volume(p, c) * CostUsd(c)
<1> DEFINE I == ListPrice["incumbent"]
           C == ListPrice["candidate"]
<1>1. I \in Nat /\ C \in Nat /\ C <= I
  BY PriceTable
<1>2. Known(SavedUsd(c)) =
        IF c = "hit" THEN I * 2
        ELSE IF c = "batch" THEN I * 2 - (I * 2) \div 2
        ELSE IF c = "routed" THEN I * 2 - C * 2 ELSE 0
  BY PriceTable
<1>3. CostUsd(c) =
        IF c = "hit" THEN 0
        ELSE IF c = "batch" THEN (I * 2) \div 2
        ELSE IF c \in {"routed", "fellback", "overhead"} THEN C * 2
        ELSE IF c = "trimmed" THEN I ELSE I * 2
  BY PriceTable
<1> HIDE DEF I, C
<1>4. I * 2 \in Nat /\ I * 2 - (I * 2) \div 2 \in Nat /\ I * 2 - C * 2 \in Nat /\ (I * 2) \div 2 \in Nat /\ C * 2 \in Nat
  BY <1>1
<1>5. Known(SavedUsd(c)) \in Nat
  BY <1>2, <1>4
<1>6. CostUsd(c) \in Nat
  BY <1>1, <1>3, <1>4
<1>7. Known(CostUsd(c)) = CostUsd(c)
  BY <1>6 DEF Known, Unknown
<1>8. Rows(p, c) = RowsOf(ledger, p, c) /\ Volume(p, c) = VolumeOf(ledger, p, c)
  BY OfLedger
<1>9. Rows(p, c) \in Nat /\ Volume(p, c) \in Nat
  BY <1>8, LedgerSums
<1>10. Volume(p, c) * Known(SavedUsd(c)) \in Int /\ Volume(p, c) * CostUsd(c) \in Int
  BY <1>5, <1>6, <1>9, Product
<1>11. SumSaved(p, {c}) = Volume(p, c) * Known(SavedUsd(c))
  <2> DEFINE f == [x \in {c} |-> Volume(p, x) * Known(SavedUsd(x))]
  <2>1. f \in [{c} -> Int] /\ f[c] = Volume(p, c) * Known(SavedUsd(c))
    BY <1>10
  <2> HIDE DEF f
  <2>2. SumFunction(f) = f[c]
    BY <2>1, SumOfOne
  <2>3. SumSaved(p, {c}) = SumFunction(f)
    BY DEF SumSaved, f
  <2> QED BY <2>1, <2>2, <2>3
<1>12. SumCost(p, {c}) = Volume(p, c) * CostUsd(c)
  <2> DEFINE f == [x \in {c} |-> Volume(p, x) * Known(CostUsd(x))]
  <2>1. f \in [{c} -> Int] /\ f[c] = Volume(p, c) * CostUsd(c)
    BY <1>7, <1>10
  <2> HIDE DEF f
  <2>2. SumFunction(f) = f[c]
    BY <2>1, SumOfOne
  <2>3. SumCost(p, {c}) = SumFunction(f)
    BY DEF SumCost, f
  <2> QED BY <2>1, <2>2, <2>3
<1> QED BY <1>5, <1>6, <1>7, <1>9, <1>11, <1>12

LEMMA ByLeverTotal ==
  ASSUME NEW r, NEW a \in Int, NEW b \in Int, NEW c \in Int, r = [cache |-> a, batching |-> b, routing |-> c]
  PROVE  SumFunction(r) = a + b + c
<1> DEFINE D == {"cache", "batching", "routing"}
<1>1. r \in [D -> Int] /\ r["cache"] = a /\ r["batching"] = b /\ r["routing"] = c
  OBVIOUS
<1>2. IsFiniteSet(D)
  <2>1. IsFiniteSet((({} \cup {"cache"}) \cup {"batching"}) \cup {"routing"})
    BY FS_EmptySet, FS_AddElement
  <2>2. (({} \cup {"cache"}) \cup {"batching"}) \cup {"routing"} = D
    OBVIOUS
  <2> QED BY <2>1, <2>2
<1>3. "cache" \in D /\ "batching" \in D \ {"cache"} /\ "routing" \in D \ {"cache", "batching"}
      /\ D \ {"cache", "batching", "routing"} = {}
  OBVIOUS
<1> HIDE DEF D
<1>4. SumFunction(r) = r["cache"] + r["batching"] + r["routing"]
  BY <1>1, <1>2, <1>3, SumOfThree
<1> QED BY <1>1, <1>4

LEMMA DirectSums ==
  ASSUME Catalog = Models, ledger \in LedgerType, NEW p \in SUBSET Months
  PROVE  /\ DirectMeasured(p) = SumSaved(p, {"hit"}) + SumSaved(p, {"batch"})
         /\ MeasuredGross(p) = SumSaved(p, {"hit"}) + SumSaved(p, {"batch"}) + SumSaved(p, {"routed"})
<1>1. SumSaved(p, {"hit"}) \in Int /\ SumSaved(p, {"batch"}) \in Int /\ SumSaved(p, {"routed"}) \in Int
  BY OneKind, Product DEF CallKinds
<1>2. Holdback("routed")
  BY DEF Holdback, Experiments
<1>3. {c \in {"routed"} : FALSE \/ ~Holdback(c)} = {} /\ {c \in {"routed"} : TRUE \/ ~Holdback(c)} = {"routed"}
  BY <1>2
<1>4. SumSaved(p, {}) = 0
  <2> DEFINE f == [x \in {} |-> Volume(p, x) * Known(SavedUsd(x))]
  <2>1. f \in [{} -> Int]
    OBVIOUS
  <2> HIDE DEF f
  <2>2. SumFunction(f) = 0
    BY <2>1, SumOfNone
  <2> QED BY <2>2 DEF f, SumSaved
<1>5. DirectByLever(p, FALSE) = [cache |-> SumSaved(p, {"hit"}), batching |-> SumSaved(p, {"batch"}), routing |-> 0]
  BY <1>3, <1>4 DEF DirectByLever
<1>6. DirectByLever(p, TRUE) =
        [cache |-> SumSaved(p, {"hit"}), batching |-> SumSaved(p, {"batch"}), routing |-> SumSaved(p, {"routed"})]
  BY <1>3 DEF DirectByLever
<1>7. DirectMeasured(p) = SumSaved(p, {"hit"}) + SumSaved(p, {"batch"}) + 0
  <2>1. PICK z \in Int : z = 0
    OBVIOUS
  <2>2. PICK r : r = [cache |-> SumSaved(p, {"hit"}), batching |-> SumSaved(p, {"batch"}), routing |-> z]
    OBVIOUS
  <2>3. SumFunction(r) = SumSaved(p, {"hit"}) + SumSaved(p, {"batch"}) + z
    BY <1>1, <2>2, ByLeverTotal
  <2>4. DirectByLever(p, FALSE) = r
    BY <1>5, <2>1, <2>2
  <2> QED BY <2>1, <2>3, <2>4 DEF DirectMeasured
<1>8. MeasuredGross(p) = SumSaved(p, {"hit"}) + SumSaved(p, {"batch"}) + SumSaved(p, {"routed"})
  <2>1. PICK r : r = [cache |-> SumSaved(p, {"hit"}), batching |-> SumSaved(p, {"batch"}), routing |-> SumSaved(p, {"routed"})]
    OBVIOUS
  <2>2. SumFunction(r) = SumSaved(p, {"hit"}) + SumSaved(p, {"batch"}) + SumSaved(p, {"routed"})
    BY <1>1, <2>1, ByLeverTotal
  <2>3. MeasuredGross(p) = SumFunction(r)
    BY <1>6, <2>1 DEF MeasuredGross
  <2> QED BY <2>2, <2>3, Zenon
<1> QED BY <1>1, <1>7, <1>8

Routing == [control |-> "held", treatment |-> "routed"]
Trimming == [control |-> "untrimmed", treatment |-> "trimmed"]

LEMMA QuotientIs ==
  /\ \A a \in Int, b \in Nat \ {0} : Quotient(a, b) \in Int
  /\ \A k \in Int, n \in Nat \ {0} : Quotient(k * n, n) = k
<1>1. ASSUME NEW a \in Int, NEW b \in Nat \ {0} PROVE (2 * a + b) \div (2 * b) \in Int
  OBVIOUS
<1>2. ASSUME NEW k \in Int, NEW n \in Nat \ {0} PROVE (2 * (k * n) + n) \div (2 * n) = k
  OBVIOUS
<1> QED BY <1>1, <1>2 DEF Quotient

\* What an experiment measures is a number; and where its calls have one size
\* it is what its treatment was spared.
LEMMA OneExperiment ==
  ASSUME Catalog = Models, ledger \in LedgerType, NEW p \in SUBSET Months, NEW x \in Measured(p)
  PROVE  /\ MeasuredSavings(p, x) \in Int /\ PerRequest(p, x) \in Int
         /\ LikeArms(p) => MeasuredSavings(p, x) = Volume(p, x.treatment) * Spared(x.treatment)
<1>1. x \in Experiments /\ Rows(p, x.control) > 0 /\ Rows(p, x.treatment) > 0
  BY DEF Measured
<1>2. x.control \in CallKinds /\ x.treatment \in CallKinds
      /\ ((x.control = "held" /\ x.treatment = "routed") \/ (x.control = "untrimmed" /\ x.treatment = "trimmed"))
  BY <1>1 DEF Experiments, CallKinds
<1>3. Spared(x.treatment) = CostUsd(x.control) - CostUsd(x.treatment)
  <2>1. /\ CostUsd("held") = ListPrice["incumbent"] * 2 /\ CostUsd("routed") = ListPrice["candidate"] * 2
        /\ CostUsd("untrimmed") = ListPrice["incumbent"] * 2 /\ CostUsd("trimmed") = ListPrice["incumbent"]
    BY PriceTable DEF CallKinds
  <2>2. /\ Spared("routed") = ListPrice["incumbent"] * 2 - ListPrice["candidate"] * 2
        /\ Spared("trimmed") = ListPrice["incumbent"] * 2 - ListPrice["incumbent"]
    BY PriceTable DEF CallKinds
  <2> QED BY <1>2, <2>1, <2>2
<1>4. PICK nc \in Nat \ {0}, nt \in Nat \ {0}, vc \in Nat, vt \in Nat, kc \in Nat, kt \in Nat :
        /\ nc = Rows(p, x.control) /\ nt = Rows(p, x.treatment)
        /\ vc = Volume(p, x.control) /\ vt = Volume(p, x.treatment)
        /\ kc = CostUsd(x.control) /\ kt = CostUsd(x.treatment)
  <2>1. \A c \in CallKinds : Rows(p, c) \in Nat /\ Volume(p, c) \in Nat /\ CostUsd(c) \in Nat
    BY OneKind
  <2>2. Rows(p, x.control) \in Nat \ {0} /\ Rows(p, x.treatment) \in Nat \ {0}
    BY <1>1, <1>2, <2>1
  <2> QED BY <1>2, <2>1, <2>2, Zenon
<1>5. MeasuredSavings(p, x) = Quotient(vc * kc * nt, nc) - vt * kt
  BY <1>4 DEF MeasuredSavings, ArmCost
<1>6. PerRequest(p, x) = Quotient(vc * kc * nt - vt * kt * nc, nc * nt)
  BY <1>4 DEF PerRequest, ArmCost
<1>7. MeasuredSavings(p, x) \in Int
  <2>1. vc * kc * nt \in Int /\ vt * kt \in Int
    OBVIOUS
  <2>2. Quotient(vc * kc * nt, nc) \in Int
    BY <2>1, QuotientIs
  <2> QED BY <1>5, <2>1, <2>2
<1>8. PerRequest(p, x) \in Int
  <2>1. vc * kc * nt - vt * kt * nc \in Int /\ nc * nt \in Nat \ {0}
    OBVIOUS
  <2>2. Quotient(vc * kc * nt - vt * kt * nc, nc * nt) \in Int
    BY <2>1, QuotientIs
  <2> QED BY <1>6, <2>2
<1>9. ASSUME LikeArms(p) PROVE MeasuredSavings(p, x) = Volume(p, x.treatment) * Spared(x.treatment)
  <2>1. PICK z \in {r.size : r \in Requests} :
          \A m \in p, r \in OfKind[x.control] \cup OfKind[x.treatment] : ledger[m][r] > 0 => r.size = z
    BY <1>1, <1>9 DEF LikeArms
  <2>2. z \in Nat
    BY BooksAssumption
  <2>3. vc = z * nc /\ vt = z * nt
    <3>1. VolumeOf(ledger, p, x.control) = z * RowsOf(ledger, p, x.control)
      BY <1>2, <2>1, <2>2, LikeVolume
    <3>2. VolumeOf(ledger, p, x.treatment) = z * RowsOf(ledger, p, x.treatment)
      BY <1>2, <2>1, <2>2, LikeVolume
    <3> QED BY <1>4, <3>1, <3>2, OfLedger
  <2>4. vc * kc * nt = (vt * kc) * nc /\ vt * kc \in Int
    BY <2>2, <2>3
  <2>5. Quotient((vt * kc) * nc, nc) = vt * kc
    BY <2>4, QuotientIs
  <2>6. vt * kc - vt * kt = vt * (kc - kt)
    OBVIOUS
  <2> QED BY <1>3, <1>4, <1>5, <2>4, <2>5, <2>6
<1> QED BY <1>7, <1>8, <1>9

\* Where they compare like with like the experiments save what their treatments
\* were spared, at most; and their cost is never negative.
LEMMA HoldbackSums ==
  ASSUME Catalog = Models, ledger \in LedgerType, NEW p \in SUBSET Months
  PROVE  /\ HoldbackMeasured(p) \in Int
         /\ LikeArms(p) =>
              HoldbackMeasured(p) <= Volume(p, "routed") * Spared("routed") + Volume(p, "trimmed") * Spared("trimmed")
         /\ MeasurementCost(p) \in Nat
<1> DEFINE f == [x \in Measured(p) |-> MeasuredSavings(p, x)]
           h == [x \in Measured(p) |-> Max({PerRequest(p, x), 0}) * Rows(p, x.control)]
           a == Volume(p, "routed") * Spared("routed")
           b == Volume(p, "trimmed") * Spared("trimmed")
<1>1. Routing # Trimming /\ Experiments = {Routing, Trimming}
  BY DEF Routing, Trimming, Experiments
<1>2. Measured(p) \subseteq {Routing, Trimming}
  BY <1>1 DEF Measured
<1>3. {"routed", "trimmed", "held", "untrimmed"} \subseteq CallKinds
  BY DEF CallKinds
<1>4. \A c \in {"routed", "trimmed", "held", "untrimmed"} : Rows(p, c) \in Nat /\ Volume(p, c) \in Nat /\ Spared(c) \in Nat
  BY <1>3, OneKind, SparedType
<1>5. a \in Nat /\ b \in Nat
  BY <1>4, Product
<1>6. Routing.treatment = "routed" /\ Trimming.treatment = "trimmed" /\ Routing.control = "held" /\ Trimming.control = "untrimmed"
  BY DEF Routing, Trimming
<1>7. LikeArms(p) => /\ Routing \in Measured(p) => f[Routing] = a
                     /\ Trimming \in Measured(p) => f[Trimming] = b
  BY <1>6, OneExperiment
<1>8. IsFiniteSet(Measured(p))
  <2>1. IsFiniteSet({Routing} \cup {Trimming})
    BY FS_Singleton, FS_AddElement
  <2>2. Measured(p) \in SUBSET ({Routing} \cup {Trimming})
    BY <1>2
  <2> QED BY <2>1, <2>2, FS_Subset
<1>9. f \in [Measured(p) -> Int]
  BY OneExperiment
<1>10. \A x \in Measured(p) : h[x] \in Nat
  <2> TAKE x \in Measured(p)
  <2>1. PerRequest(p, x) \in Int /\ Rows(p, x.control) \in Nat
    BY <1>2, <1>4, <1>6, OneExperiment
  <2>2. Max({PerRequest(p, x), 0}) \in Nat
    BY <2>1 DEF Max
  <2> QED BY <2>1, <2>2, Product
<1>11. h \in [Measured(p) -> Int] /\ \A x \in Measured(p) : h[x] >= 0
  BY <1>10
<1>12. HoldbackMeasured(p) = SumFunction(f) /\ MeasurementCost(p) = SumFunction(h)
  BY DEF HoldbackMeasured, MeasurementCost
<1> HIDE DEF f, h, a, b
<1>13. SumFunction(h) \in Nat
  BY <1>8, <1>11, SumNonNegative
<1>14. SumFunction(f) \in Int
  BY <1>8, <1>9, SumType
<1>15. ASSUME LikeArms(p) PROVE SumFunction(f) <= a + b
  <2>1. CASE Measured(p) = {}
    <3>1. SumFunction(f) = 0
      BY <1>9, <2>1, SumOfNone
    <3> QED BY <1>5, <3>1
  <2>2. CASE Measured(p) = {Routing}
    <3>1. SumFunction(f) = f[Routing]
      BY <1>9, <2>2, SumOfOne
    <3> QED BY <1>5, <1>7, <1>15, <2>2, <3>1
  <2>3. CASE Measured(p) = {Trimming}
    <3>1. SumFunction(f) = f[Trimming]
      BY <1>9, <2>3, SumOfOne
    <3> QED BY <1>5, <1>7, <1>15, <2>3, <3>1
  <2>4. CASE Measured(p) = {Routing, Trimming}
    <3>1. SumFunction(f) = f[Routing] + f[Trimming]
      BY <1>1, <1>8, <1>9, <2>4, SumOfTwo
    <3> QED BY <1>5, <1>7, <1>15, <2>4, <3>1
  <2> QED BY <1>2, <2>1, <2>2, <2>3, <2>4
<1> QED BY <1>12, <1>13, <1>14, <1>15 DEF a, b

LEMMA RealIsFourKinds ==
  ASSUME Catalog = Models, ledger \in LedgerType, NEW p \in SUBSET Months
  PROVE  RealSavings(p) = Volume(p, "hit") * Spared("hit") + Volume(p, "batch") * Spared("batch")
                            + Volume(p, "routed") * Spared("routed") + Volume(p, "trimmed") * Spared("trimmed")
<1> DEFINE f == [c \in CallKinds |-> Volume(p, c) * Spared(c)]
<1>1. \A c \in CallKinds : Volume(p, c) \in Nat /\ Spared(c) \in Nat
  BY OneKind, SparedType
<1>2. \A c \in CallKinds : f[c] \in Int
  BY <1>1, Product
<1>3. f \in [CallKinds -> Int]
  BY <1>2
<1>4. \A c \in CallKinds \ {"hit", "batch", "routed", "trimmed"} : f[c] = 0
  <2> TAKE c \in CallKinds \ {"hit", "batch", "routed", "trimmed"}
  <2>1. Spared(c) = 0
    BY DEF Spared
  <2>2. Volume(p, c) * 0 = 0
    BY <1>1
  <2> QED BY <2>1, <2>2
<1>5. "hit" \in CallKinds /\ "batch" \in CallKinds \ {"hit"} /\ "routed" \in CallKinds \ {"hit", "batch"}
      /\ "trimmed" \in CallKinds \ {"hit", "batch", "routed"}
  BY DEF CallKinds
<1> HIDE DEF f
<1>6. SumFunction(f) = f["hit"] + f["batch"] + f["routed"] + f["trimmed"]
  BY <1>3, <1>4, <1>5, CallKindsFinite, SumOfFour
<1> QED BY <1>5, <1>6 DEF f, RealSavings

\* Where experiments compare like with like, a period's verified savings are at
\* most what was really spared in it.
LEMMA VerifiedAtMost ==
  ASSUME Catalog = Models, ledger \in LedgerType, NEW p \in SUBSET Months
  PROVE  /\ VerifiedSavings(p) \in Int /\ RealSavings(p) \in Nat
         /\ LikeArms(p) => VerifiedSavings(p) <= RealSavings(p)
<1>1. {"hit", "batch", "routed", "trimmed", "overhead"} \subseteq CallKinds
  BY DEF CallKinds
<1>2. Spared("hit") = Known(SavedUsd("hit")) /\ Spared("batch") = Known(SavedUsd("batch"))
  BY <1>1, PriceTable
<1>3. SumSaved(p, {"hit"}) = Volume(p, "hit") * Spared("hit") /\ SumSaved(p, {"batch"}) = Volume(p, "batch") * Spared("batch")
  BY <1>1, <1>2, OneKind
<1>4. \A c \in {"hit", "batch", "routed", "trimmed"} : Volume(p, c) * Spared(c) \in Nat
  BY <1>1, OneKind, SparedType, Product
<1>5. OverheadCost(p) \in Nat
  <2>1. "overhead" \in CallKinds
    BY <1>1
  <2>2. Volume(p, "overhead") \in Nat /\ CostUsd("overhead") \in Nat
        /\ SumCost(p, {"overhead"}) = Volume(p, "overhead") * CostUsd("overhead")
    BY <2>1, OneKind
  <2> QED BY <2>2, Product DEF OverheadCost
<1>6. DirectMeasured(p) = Volume(p, "hit") * Spared("hit") + Volume(p, "batch") * Spared("batch")
  BY <1>3, DirectSums
<1>7. /\ HoldbackMeasured(p) \in Int
      /\ LikeArms(p) => HoldbackMeasured(p) <= Volume(p, "routed") * Spared("routed") + Volume(p, "trimmed") * Spared("trimmed")
      /\ MeasurementCost(p) \in Nat
  BY HoldbackSums
<1>8. RealSavings(p) = Volume(p, "hit") * Spared("hit") + Volume(p, "batch") * Spared("batch")
                         + Volume(p, "routed") * Spared("routed") + Volume(p, "trimmed") * Spared("trimmed")
  BY RealIsFourKinds
<1>9. PICK a \in Nat, b \in Nat, c \in Nat, d \in Nat :
        /\ a = Volume(p, "hit") * Spared("hit") /\ b = Volume(p, "batch") * Spared("batch")
        /\ c = Volume(p, "routed") * Spared("routed") /\ d = Volume(p, "trimmed") * Spared("trimmed")
  BY <1>4
<1>10. VerifiedSavings(p) \in Int /\ RealSavings(p) \in Nat
  BY <1>5, <1>6, <1>7, <1>8, <1>9 DEF VerifiedSavings
<1>11. ASSUME LikeArms(p) PROVE VerifiedSavings(p) <= RealSavings(p)
  <2>1. HoldbackMeasured(p) <= Volume(p, "routed") * Spared("routed") + Volume(p, "trimmed") * Spared("trimmed")
    BY <1>7, <1>11
  <2> QED BY <1>5, <1>6, <1>7, <1>8, <1>9, <2>1 DEF VerifiedSavings
<1> QED BY <1>10, <1>11

\* The chart's number is the headline's, and with the spend it stays within
\* the list price.
LEMMA DashboardSums ==
  ASSUME Catalog = Models, ledger \in LedgerType, NEW p \in SUBSET Months
  PROVE  /\ MeasuredGross(p) = ChartSaved(p)
         /\ ActualSpend(p) + MeasuredGross(p) <= SumFunction([c \in CallKinds |-> Volume(p, c) * PriceOf("incumbent", 2)])
<1> DEFINE f == [c \in CallKinds |-> Volume(p, c) * Known(SavedUsd(c))]
           e == [c \in CallKinds |-> Volume(p, c) * Known(CostUsd(c))]
           h == [c \in CallKinds |-> Volume(p, c) * PriceOf("incumbent", 2)]
           I == ListPrice["incumbent"]
           C == ListPrice["candidate"]
<1>1. \A c \in CallKinds : Volume(p, c) \in Nat /\ Known(SavedUsd(c)) \in Nat /\ CostUsd(c) \in Nat /\ Known(CostUsd(c)) = CostUsd(c)
  BY OneKind
<1>2. I \in Nat /\ C \in Nat /\ C <= I /\ PriceOf("incumbent", 2) = I * 2
  <2>1. PriceOf("incumbent", 2) = I * 2
    BY DEF PriceOf, Models
  <2> QED BY <2>1, PriceTable
<1>3. \A c \in CallKinds : f[c] \in Int /\ e[c] \in Int /\ h[c] \in Int
  BY <1>1, <1>2, Product
<1>4. f \in [CallKinds -> Int] /\ e \in [CallKinds -> Int] /\ h \in [CallKinds -> Int]
  BY <1>3
<1>5. \A c \in CallKinds \ {"hit", "batch", "routed"} : f[c] = 0
  <2> TAKE c \in CallKinds \ {"hit", "batch", "routed"}
  <2>1. Known(SavedUsd(c)) = 0
    BY PriceTable
  <2>2. Volume(p, c) * 0 = 0
    BY <1>1
  <2> QED BY <2>1, <2>2
<1>6. "hit" \in CallKinds /\ "batch" \in CallKinds \ {"hit"} /\ "routed" \in CallKinds \ {"hit", "batch"}
  BY DEF CallKinds
<1>7. f["hit"] = SumSaved(p, {"hit"}) /\ f["batch"] = SumSaved(p, {"batch"}) /\ f["routed"] = SumSaved(p, {"routed"})
  BY <1>6, OneKind
<1>8. \A c \in CallKinds : CostUsd(c) + Known(SavedUsd(c)) <= I * 2
  <2> TAKE c \in CallKinds
  <2>1. CostUsd(c) =
          IF c = "hit" THEN 0
          ELSE IF c = "batch" THEN (I * 2) \div 2
          ELSE IF c \in {"routed", "fellback", "overhead"} THEN C * 2
          ELSE IF c = "trimmed" THEN I ELSE I * 2
    BY PriceTable
  <2>2. Known(SavedUsd(c)) =
          IF c = "hit" THEN I * 2
          ELSE IF c = "batch" THEN I * 2 - (I * 2) \div 2
          ELSE IF c = "routed" THEN I * 2 - C * 2 ELSE 0
    BY PriceTable
  <2> HIDE DEF I, C
  <2> QED BY <1>2, <2>1, <2>2
<1>9. \A c \in CallKinds : e[c] + f[c] <= h[c]
  <2> TAKE c \in CallKinds
  <2>1. PICK n \in Nat, s \in Nat, k \in Nat, l \in Nat :
          n = Volume(p, c) /\ s = Known(SavedUsd(c)) /\ k = CostUsd(c) /\ l = I * 2
    BY <1>1, <1>2
  <2>2. n * k + n * s <= n * l
    <3>1. k + s <= l
      BY <1>8, <2>1
    <3>2. n * (k + s) <= n * l
      BY <3>1
    <3>3. n * (k + s) = n * k + n * s
      OBVIOUS
    <3> QED BY <3>2, <3>3
  <2>3. e[c] = n * k /\ f[c] = n * s /\ h[c] = n * l
    BY <1>1, <1>2, <2>1
  <2> QED BY <2>2, <2>3
<1>10. ChartSaved(p) = SumFunction(f) /\ ActualSpend(p) = SumFunction(e)
  BY DEF ChartSaved, SumSaved, ActualSpend, SumCost
<1> HIDE DEF f, e
<1>11. SumFunction(f) = f["hit"] + f["batch"] + f["routed"]
  BY <1>4, <1>5, <1>6, CallKindsFinite, SumOfThree
<1>12. MeasuredGross(p) = SumSaved(p, {"hit"}) + SumSaved(p, {"batch"}) + SumSaved(p, {"routed"})
  BY DirectSums
<1>13. SumFunction(e) + SumFunction(f) <= SumFunction(h)
  <2> HIDE DEF h
  <2> QED BY <1>4, <1>9, CallKindsFinite, SumAtMost
<1> QED BY <1>7, <1>10, <1>11, <1>12, <1>13

-----------------------------------------------------------------------------
(* Invoices *)

Bill == [status : {"none", "draft", "sent"}, verified : Nat, fee : Int]

\* A bill of period p that the ledger l justifies.
Earned(b, l, p) ==
  /\ LikeArmsOf(l, p) => b.verified <= RealOf(l, p)
  /\ 200 * b.fee <= 2 * MaxPercent * b.verified + 100

\* The invariant: what InvoiceIsEarned says of saved invoices holds already of
\* the one being generated, which other actions overtake.
BooksInv ==
  /\ ledger \in LedgerType
  /\ month \in Months
  /\ terms \in [percent : Nat, floor : Nat]
  /\ invoice \in [Periods -> Bill]
  /\ \A p \in Periods : Earned(invoice[p], ledger, p)
  /\ gen = Idle \/ (gen.period \in Periods /\ gen.bill \in Bill /\ Earned(gen.bill, ledger, gen.period))

LEMMA PeriodsAreMonths == \A p \in Periods : p \in SUBSET Months
<1> SUFFICES ASSUME NEW p \in Periods, NEW m \in p PROVE m \in Months
  OBVIOUS
<1>1. PICK first \in Months, last \in Months : p = first..last
  BY DEF Periods
<1>2. m \in first..last /\ first \in 1..MaxMonth /\ last \in 1..MaxMonth
  BY <1>1 DEF Months
<1>3. m \in Int /\ 1 <= m /\ m <= MaxMonth
  BY <1>2, BooksAssumption
<1> QED BY <1>3 DEF Months

LEMMA FeeIsBounded ==
  ASSUME NEW v \in Int, NEW percent \in Nat, NEW floor \in Nat
  PROVE  LET b == ComputeFee(v, percent, floor)
         IN  /\ b \in Bill
             /\ b.verified = IF v > 0 THEN v ELSE 0
             /\ 200 * b.fee <= 2 * MaxPercent * b.verified + 100
<1> DEFINE gross == Max({v, 0})
           share == Cents(gross, EffectivePercent(percent))
           lifted == IF floor > 0 THEN Max({share, floor}) ELSE share
           cap == Cents(gross, MaxPercent)
           b == ComputeFee(v, percent, floor)
<1>1. gross \in Nat /\ gross = IF v > 0 THEN v ELSE 0
  BY DEF Max
<1>2. EffectivePercent(percent) \in Nat
  <2>1. Min({percent, MaxPercent}) \in Nat
    BY DEF Min, MaxPercent
  <2>2. ASSUME NEW n \in Nat PROVE Max({0, n}) \in Nat
    BY DEF Max
  <2> QED BY <2>1, <2>2 DEF EffectivePercent
<1> HIDE DEF gross
<1>3. \A k \in Nat : Cents(gross, k) \in Nat
  <2> TAKE k \in Nat
  <2>1. 2 * gross * k + 100 \in Nat
    BY <1>1, Product
  <2>2. \A n \in Nat : n \div 200 \in Nat
    OBVIOUS
  <2> QED BY <2>1, <2>2 DEF Cents
<1>4. share \in Nat /\ cap \in Nat
  BY <1>2, <1>3 DEF MaxPercent
<1>5. 200 * cap <= 2 * MaxPercent * gross + 100
  <2>1. cap = (2 * gross * 25 + 100) \div 200
    BY DEF Cents, MaxPercent
  <2>2. \A n \in Nat : 200 * (n \div 200) <= n
    OBVIOUS
  <2>3. 2 * gross * 25 + 100 \in Nat /\ 2 * gross * 25 + 100 = 2 * MaxPercent * gross + 100
    BY <1>1 DEF MaxPercent
  <2> HIDE DEF cap
  <2> QED BY <2>1, <2>2, <2>3
<1> HIDE DEF share, cap
<1>6. lifted \in Nat
  BY <1>4 DEF Max
<1> HIDE DEF lifted
<1>7. Min({lifted, cap}) \in Nat /\ Min({lifted, cap}) <= cap
  BY <1>4, <1>6 DEF Min
<1>8. b = [status |-> "draft", verified |-> gross, fee |-> Min({lifted, cap})]
  BY DEF ComputeFee, gross, share, lifted, cap
<1> HIDE DEF b
<1>9. b \in Bill /\ b.verified = gross /\ b.fee = Min({lifted, cap})
  BY <1>1, <1>7, <1>8 DEF Bill
<1>10. 200 * b.fee <= 2 * MaxPercent * b.verified + 100
  <2>1. 200 * Min({lifted, cap}) <= 200 * cap
    BY <1>4, <1>7
  <2>2. 2 * MaxPercent * gross + 100 \in Nat
    BY <1>1 DEF MaxPercent
  <2>3. 200 * Min({lifted, cap}) <= 2 * MaxPercent * gross + 100
    BY <1>4, <1>5, <1>7, <2>1, <2>2
  <2> QED BY <1>9, <2>3
<1> QED BY <1>1, <1>9, <1>10 DEF b

LEMMA EarnedStays ==
  ASSUME Catalog = Models, NEW k \in LedgerType, NEW l \in LedgerType, NEW p \in Periods, NEW b \in Bill,
         \A m \in Months, r \in Requests : k[m][r] <= l[m][r], Earned(b, k, p)
  PROVE  Earned(b, l, p)
<1>1. p \in SUBSET Months
  BY PeriodsAreMonths
<1>2. RealOf(k, p) <= RealOf(l, p) /\ RealOf(k, p) \in Nat /\ RealOf(l, p) \in Nat
  BY <1>1, RealGrows, RealIsNatural
<1>3. b.verified \in Nat
  BY DEF Bill
<1>4. ASSUME LikeArmsOf(l, p) PROVE b.verified <= RealOf(l, p)
  <2>1. LikeArmsOf(k, p)
    BY <1>1, <1>4, LikeBefore
  <2>2. b.verified <= RealOf(k, p)
    BY <2>1 DEF Earned
  <2> QED BY <1>2, <1>3, <2>2
<1> QED BY <1>4 DEF Earned

\* A ledger that only grows keeps what is billed justified.
LEMMA GrowthSafe ==
  ASSUME Catalog = Models, BooksInv, ledger' \in LedgerType,
         \A m \in Months, r \in Requests : ledger[m][r] <= ledger'[m][r],
         month' \in Months, terms' \in [percent : Nat, floor : Nat],
         UNCHANGED <<invoice, gen>>
  PROVE  BooksInv'
<1>1. \A p \in Periods : invoice[p] \in Bill /\ Earned(invoice[p], ledger, p)
  BY DEF BooksInv
<1>2. ledger \in LedgerType
  BY DEF BooksInv
<1>3. \A p \in Periods : Earned(invoice[p], ledger', p)
  BY <1>1, <1>2, EarnedStays
<1>4. gen = Idle \/ (gen.period \in Periods /\ gen.bill \in Bill /\ Earned(gen.bill, ledger', gen.period))
  BY <1>2, EarnedStays DEF BooksInv
<1> QED BY <1>3, <1>4 DEF BooksInv

LEMMA MeterSafe ==
  ASSUME Catalog = Models, BooksInv, NEW r \in Requests, Meter(r)
  PROVE  BooksInv'
<1>1. ledger \in LedgerType /\ month \in Months /\ terms \in [percent : Nat, floor : Nat]
  BY DEF BooksInv
<1>2. ledger' = [ledger EXCEPT ![month][r] = ledger[month][r] + 1] /\ UNCHANGED <<month, terms, invoice, gen>>
  BY DEF Meter
<1>3. ledger' \in LedgerType
  BY <1>1, <1>2 DEF LedgerType
<1>4. \A m \in Months, s \in Requests : ledger[m][s] <= ledger'[m][s]
  BY <1>1, <1>2 DEF LedgerType
<1> QED BY <1>1, <1>2, <1>3, <1>4, GrowthSafe

LEMMA TermsSafe ==
  ASSUME Catalog = Models, BooksInv, month' \in Months, terms' \in [percent : Nat, floor : Nat],
         UNCHANGED <<ledger, invoice, gen>>
  PROVE  BooksInv'
<1>1. ledger' \in LedgerType /\ \A m \in Months, r \in Requests : ledger[m][r] <= ledger'[m][r]
  BY DEF BooksInv, LedgerType
<1> QED BY <1>1, GrowthSafe

LEMMA BeginInvoiceSafe ==
  ASSUME Catalog = Models, BooksInv, NEW p \in Periods, BeginInvoice(p)
  PROVE  BooksInv'
<1> DEFINE b == ComputeFee(VerifiedSavings(p), terms.percent, terms.floor)
<1>1. ledger \in LedgerType /\ terms.percent \in Nat /\ terms.floor \in Nat /\ p \in SUBSET Months
  BY PeriodsAreMonths DEF BooksInv
<1>2. VerifiedSavings(p) \in Int /\ RealSavings(p) \in Nat /\ (LikeArms(p) => VerifiedSavings(p) <= RealSavings(p))
  BY <1>1, VerifiedAtMost
<1>3. RealSavings(p) = RealOf(ledger, p) /\ (LikeArms(p) <=> LikeArmsOf(ledger, p))
  BY OfLedger
<1>4. /\ b \in Bill
      /\ b.verified = IF VerifiedSavings(p) > 0 THEN VerifiedSavings(p) ELSE 0
      /\ 200 * b.fee <= 2 * MaxPercent * b.verified + 100
  BY <1>1, <1>2, FeeIsBounded
<1>5. gen' = [period |-> p, bill |-> b] /\ UNCHANGED <<ledger, month, terms, invoice>>
  BY DEF BeginInvoice
<1> HIDE DEF b
<1>6. Earned(b, ledger, p)
  <2>1. ASSUME LikeArmsOf(ledger, p) PROVE b.verified <= RealOf(ledger, p)
    <3>1. VerifiedSavings(p) <= RealOf(ledger, p) /\ RealOf(ledger, p) \in Nat
      BY <1>2, <1>3, <2>1
    <3> QED BY <1>2, <1>4, <3>1
  <2> QED BY <1>4, <2>1 DEF Earned
<1>7. gen'.period \in Periods /\ gen'.bill \in Bill /\ Earned(gen'.bill, ledger', gen'.period)
  BY <1>4, <1>5, <1>6
<1> QED BY <1>5, <1>7 DEF BooksInv

LEMMA InvoiceStepSafe ==
  ASSUME Catalog = Models, BooksInv, SaveInvoice \/ \E p \in Periods : SendInvoice(p)
  PROVE  BooksInv'
<1>1. CASE SaveInvoice
  <2>1. gen.period \in Periods /\ gen.bill \in Bill /\ Earned(gen.bill, ledger, gen.period)
    BY <1>1 DEF BooksInv, SaveInvoice
  <2>2. invoice' \in [Periods -> Bill] /\ \A p \in Periods : Earned(invoice'[p], ledger, p)
    BY <1>1, <2>1 DEF BooksInv, SaveInvoice
  <2> QED BY <1>1, <2>2 DEF BooksInv, SaveInvoice
<1>2. ASSUME NEW p \in Periods, SendInvoice(p) PROVE BooksInv'
  <2>1. invoice \in [Periods -> Bill] /\ invoice' = [invoice EXCEPT ![p].status = "sent"]
    BY <1>2 DEF BooksInv, SendInvoice
  <2>2. \A t \in Periods : /\ invoice'[t] \in Bill
                           /\ invoice'[t].verified = invoice[t].verified /\ invoice'[t].fee = invoice[t].fee
    BY <2>1 DEF Bill
  <2>3. invoice' \in [Periods -> Bill] /\ \A t \in Periods : Earned(invoice'[t], ledger, t)
    BY <2>1, <2>2 DEF BooksInv, Earned
  <2> QED BY <1>2, <2>3 DEF BooksInv, SendInvoice
<1> QED BY <1>1, <1>2

LEMMA BooksInitSafe == ASSUME Catalog = Models, BooksInit PROVE BooksInv
<1>1. ledger \in LedgerType /\ month \in Months
  BY BooksAssumption DEF BooksInit, LedgerType, Months
<1>2. terms \in [percent : Nat, floor : Nat] /\ NoInvoice \in Bill /\ invoice \in [Periods -> Bill]
  BY DEF BooksInit, NoInvoice, Bill, MaxPercent
<1>3. \A p \in Periods : RealOf(ledger, p) \in Nat
  BY <1>1, PeriodsAreMonths, RealIsNatural
<1>4. NoInvoice.verified = 0 /\ NoInvoice.fee = 0
  BY DEF NoInvoice
<1>5. \A p \in Periods : Earned(NoInvoice, ledger, p)
  BY <1>3, <1>4 DEF Earned, MaxPercent
<1> QED BY <1>1, <1>2, <1>5 DEF BooksInit, BooksInv

LEMMA BooksNextSafe == ASSUME Catalog = Models, BooksInv, [BooksNext]_bvars PROVE BooksInv'
<1>1. month \in Months /\ terms \in [percent : Nat, floor : Nat]
  BY DEF BooksInv
<1>2. CASE NextMonth
  <2>1. month' \in Months
    BY <1>1, <1>2, BooksAssumption DEF NextMonth, Months
  <2> QED BY <1>1, <1>2, <2>1, TermsSafe DEF NextMonth
<1>3. ASSUME NEW percent \in Percents \cup {terms.percent}, NEW floor \in Floors \cup {terms.floor},
             SetBillingConfig(percent, floor)
      PROVE  BooksInv'
  <2>1. terms' \in [percent : Nat, floor : Nat]
    BY <1>1, <1>3, BooksAssumption DEF SetBillingConfig
  <2> QED BY <1>1, <1>3, <2>1, TermsSafe DEF SetBillingConfig
<1>4. CASE RecordAppliedSavings \/ UNCHANGED bvars
  BY <1>1, <1>4, TermsSafe DEF RecordAppliedSavings, bvars
<1> QED BY <1>2, <1>3, <1>4, MeterSafe, BeginInvoiceSafe, InvoiceStepSafe DEF BooksNext

-----------------------------------------------------------------------------
(* Theorems *)

LEMMA InvBalances == ASSUME Catalog = Models, BooksInv PROVE BooksBalance
<1>1. ledger \in LedgerType /\ {month} \in SUBSET Months
  BY DEF BooksInv
<1>2. InvoiceIsEarned
  <2> SUFFICES ASSUME NEW p \in Periods
               PROVE  /\ LikeArms(p) => invoice[p].verified <= RealSavings(p)
                      /\ 200 * invoice[p].fee <= 2 * MaxPercent * invoice[p].verified + 100
    BY DEF InvoiceIsEarned, Issued
  <2>1. RealSavings(p) = RealOf(ledger, p) /\ (LikeArms(p) <=> LikeArmsOf(ledger, p))
    BY OfLedger
  <2> QED BY <2>1 DEF BooksInv, Earned
<1>3. DashboardAddsUp
  <2>1. /\ MeasuredGross({month}) = ChartSaved({month})
        /\ ActualSpend({month}) + MeasuredGross({month})
             <= SumFunction([c \in CallKinds |-> Volume({month}, c) * PriceOf("incumbent", 2)])
    BY <1>1, DashboardSums
  <2>2. WindowSavings({month}).mode = "measured" =>
          /\ WindowSavings({month}).gross = MeasuredGross({month})
          /\ WindowSavings({month}).counterfactual = ActualSpend({month}) + MeasuredGross({month})
    BY DEF WindowSavings
  <2> QED BY <2>1, <2>2 DEF DashboardAddsUp
<1> QED BY <1>2, <1>3 DEF BooksBalance

\* With a price for both models, whatever is metered, invoiced, re-invoiced and
\* re-termed in whatever order: no invoice bills more than its capped share of
\* what it calls verified, nor, where experiments compare requests of one size,
\* a saving that was not made; and the dashboard's numbers agree with one
\* another and with the list price.
THEOREM BooksAlwaysBalance == ASSUME Catalog = Models PROVE BooksSpec => []BooksBalance
<1>1. BooksInit => BooksInv
  BY BooksInitSafe
<1>2. BooksInv /\ [BooksNext]_bvars => BooksInv'
  BY BooksNextSafe
<1>3. BooksInv => BooksBalance
  BY InvBalances
<1> QED BY <1>1, <1>2, <1>3, PTL DEF BooksSpec
=============================================================================
