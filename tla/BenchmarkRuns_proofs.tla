------------------------- MODULE BenchmarkRuns_proofs -------------------------
(***************************************************************************)
(* Proofs about BenchmarkRuns: the datasets, the cache, the completeness   *)
(* of runs and their metrics, for every dataset, every answer of the       *)
(* engine, every bound of the cache and any number of calls.               *)
(*                                                                         *)
(* The metrics are sums, counts and order statistics over a sequence of    *)
(* any length, so that induction is needed.  It is taken from the library  *)
(* as the well-foundedness of Nat, which has no operator parameter:        *)
(* LeastNat, Climbing and Reaching state it for sets.                      *)
(***************************************************************************)
EXTENDS BenchmarkRuns, FiniteSetTheorems, SequenceTheorems, WellFoundedInduction, TLAPS

-----------------------------------------------------------------------------
(* Induction, and sums over a finite set                                   *)

\* The order of the numbers, as a relation.
Under == {ss \in Nat \X Nat : ss[1] < ss[2]}

\* A set of numbers that is not empty has a least one.
LEMMA LeastNat ==
    ASSUME NEW T \in SUBSET Nat, T # {}
    PROVE \E x \in T : \A y \in T : x <= y
<1>1. OpToRel(<, Nat) = Under
  BY Zenon DEF OpToRel, Under
<1>2. IsWellFoundedOn(Under, Nat)
  BY <1>1, NatLessThanWellFounded, Zenon
<1>3. PICK x \in T : \A y \in T : ~ (<<y, x>> \in Under)
  BY <1>2, WFMin
<1>4. ASSUME NEW y \in T PROVE x <= y
  <2>1. <<y, x>> \notin Under
    BY <1>3
  <2>2. QED
    BY <2>1 DEF Under
<1>5. QED
  BY <1>4

\* Induction: a set of numbers with 0 and with every successor has every number.
LEMMA Climbing ==
    ASSUME NEW T \in SUBSET Nat, 0 \in T, \A n \in T : n + 1 \in T
    PROVE T = Nat
<1>1. SUFFICES ASSUME Nat \ T # {} PROVE FALSE
  OBVIOUS
<1>2. PICK x \in Nat \ T : \A y \in Nat \ T : x <= y
  BY LeastNat, <1>1
<1> QED BY <1>2

\* The element that a fold takes first, and what it leaves.
First(s) == CHOOSE x \in s : TRUE

Rest(s) == s \ {First(s)}

\* f adds the weights w, over the sets in U.
Adds(f, w, U) ==
    \A s \in U : f[s] = IF s = {} THEN 0 ELSE w[First(s)] + f[Rest(s)]

\* What the sum of the community modules stands for.
LEMMA SumEquation ==
    ASSUME NEW w
    PROVE  SumFunction(w) = (CHOOSE f : f = [s \in SUBSET DOMAIN w |->
                          IF s = {} THEN 0 ELSE w[First(s)] + f[Rest(s)]])[DOMAIN w]
BY Zenon DEF SumFunction, SumFunctionOnSet, FoldFunctionOnSet, MapThenFoldSet, First, Rest

\* The subsets of S with up to n elements.
Upto(S, n) == {s \in SUBSET S : Cardinality(s) <= n}

\* Without its first element a finite set has one element less.
LEMMA Shrinking ==
    ASSUME NEW S, IsFiniteSet(S), NEW s \in SUBSET S
    PROVE  /\ IsFiniteSet(s) /\ Cardinality(s) \in Nat
           /\ Cardinality(s) = 0 <=> s = {}
           /\ s # {} => /\ First(s) \in s /\ Rest(s) \in SUBSET S
                        /\ Cardinality(Rest(s)) = Cardinality(s) - 1
<1>1. IsFiniteSet(s) /\ Cardinality(s) \in Nat
  BY FS_Subset, FS_CardinalityType
<1>2. Cardinality(s) = 0 <=> s = {}
  BY <1>1, FS_EmptySet
<1>3. ASSUME s # {} PROVE First(s) \in s
  BY <1>3 DEF First
<1>4. ASSUME s # {}
      PROVE  Rest(s) \in SUBSET S /\ Cardinality(Rest(s)) = Cardinality(s) - 1
  BY <1>1, <1>3, <1>4, FS_RemoveElement DEF Rest
<1>5. QED
  BY <1>1, <1>2, <1>3, <1>4

\* Induction over the subsets of a finite set, one element at a time.
LEMMA Reaching ==
    ASSUME NEW S, IsFiniteSet(S), NEW G, {} \in G,
           \A s \in SUBSET S : s # {} /\ Rest(s) \in G => s \in G
    PROVE  S \in G
<1> DEFINE T == {n \in Nat : Upto(S, n) \subseteq G}
<1>1. 0 \in T
  <2>1. ASSUME NEW s \in Upto(S, 0) PROVE s \in G
    <3>1. s \in SUBSET S /\ Cardinality(s) <= 0
      BY DEF Upto
    <3>2. Cardinality(s) = 0
      BY <3>1, Shrinking
    <3>3. QED
      BY <3>1, <3>2, Shrinking
  <2>2. QED
    BY <2>1
<1>2. ASSUME NEW n \in T PROVE n + 1 \in T
  <2>1. ASSUME NEW s \in Upto(S, n + 1) PROVE s \in G
    <3>1. s \in SUBSET S /\ Cardinality(s) <= n + 1
      BY DEF Upto
    <3>2. CASE s = {}
      BY <3>2
    <3>3. CASE s # {}
      <4>1. /\ Rest(s) \in SUBSET S /\ Cardinality(s) \in Nat
            /\ Cardinality(Rest(s)) = Cardinality(s) - 1
        BY <3>1, <3>3, Shrinking
      <4>2. Rest(s) \in Upto(S, n)
        BY <3>1, <4>1 DEF Upto
      <4>3. QED
        BY <3>1, <3>3, <4>2
    <3>4. QED
      BY <3>2, <3>3
  <2>2. QED
    BY <2>1
<1>3. T = Nat
  <2> HIDE DEF T
  <2>1. T \in SUBSET Nat
    BY DEF T
  <2>2. QED
    BY <1>1, <1>2, <2>1, Climbing
<1>4. Cardinality(S) \in Nat
  BY FS_CardinalityType
<1>5. S \in Upto(S, Cardinality(S))
  BY <1>4 DEF Upto
<1>6. QED
  BY <1>3, <1>4, <1>5

\* f solves the recursion of the sum of w over S.
IsSum(f, w, S) == f = [s \in SUBSET S |-> IF s = {} THEN 0 ELSE w[First(s)] + f[Rest(s)]]

\* The recursion of a sum over a finite set has a solution.
LEMMA SumExists ==
    ASSUME NEW S, IsFiniteSet(S), NEW w \in [S -> Nat]
    PROVE  \E f : IsSum(f, w, S)
<1> DEFINE T == {n \in Nat : \E f \in [Upto(S, n) -> Nat] : Adds(f, w, Upto(S, n))}
<1>1. 0 \in T
  <2> DEFINE f == [s \in Upto(S, 0) |-> 0]
  <2>1. \A s \in Upto(S, 0) : s = {}
    BY Shrinking DEF Upto
  <2>2. f \in [Upto(S, 0) -> Nat] /\ Adds(f, w, Upto(S, 0))
    BY <2>1 DEF Adds
  <2>3. QED
    BY <2>2
<1>2. ASSUME NEW n \in T PROVE n + 1 \in T
  <2>1. PICK f \in [Upto(S, n) -> Nat] : Adds(f, w, Upto(S, n))
    OBVIOUS
  <2> DEFINE g == [s \in Upto(S, n + 1) |->
                      IF s = {} THEN 0 ELSE w[First(s)] + f[Rest(s)]]
  <2>2. \A s \in Upto(S, n + 1) :
           s # {} => First(s) \in S /\ Rest(s) \in Upto(S, n) /\ Rest(s) \in Upto(S, n + 1)
    <3>1. TAKE s \in Upto(S, n + 1)
    <3>2. HAVE s # {}
    <3>3. s \in SUBSET S /\ Cardinality(s) <= n + 1
      BY DEF Upto
    <3>4. /\ First(s) \in s /\ Rest(s) \in SUBSET S /\ Cardinality(s) \in Nat
          /\ Cardinality(Rest(s)) = Cardinality(s) - 1
      BY <3>2, <3>3, Shrinking
    <3>5. QED
      BY <3>3, <3>4 DEF Upto
  <2>3. g \in [Upto(S, n + 1) -> Nat]
    BY <2>2
  <2>4. \A u \in Upto(S, n) : u \in Upto(S, n + 1) => g[u] = f[u]
    BY <2>1 DEF Adds
  <2>5. Adds(g, w, Upto(S, n + 1))
    BY <2>2, <2>4 DEF Adds
  <2>6. QED
    BY <2>3, <2>5
<1>3. T = Nat
  <2> HIDE DEF T
  <2>1. T \in SUBSET Nat
    BY DEF T
  <2>2. QED
    BY <1>1, <1>2, <2>1, Climbing
<1>4. Cardinality(S) \in Nat
  BY FS_CardinalityType
<1>5. Upto(S, Cardinality(S)) = SUBSET S
  BY <1>4, FS_Subset, FS_CardinalityType DEF Upto
<1>6. PICK f \in [SUBSET S -> Nat] : Adds(f, w, SUBSET S)
  <2>1. Cardinality(S) \in T
    <3> HIDE DEF T
    <3>1. QED
      BY <1>3, <1>4
  <2>2. PICK f \in [Upto(S, Cardinality(S)) -> Nat] : Adds(f, w, Upto(S, Cardinality(S)))
    BY <2>1
  <2>3. f \in [SUBSET S -> Nat] /\ Adds(f, w, SUBSET S)
    BY <1>5, <2>2
  <2>4. QED
    BY <2>3
<1>7. IsSum(f, w, S)
  BY <1>6 DEF Adds, IsSum
<1>8. QED
  BY <1>7

\* A sum of numbers is the value of a function that adds element by element.
LEMMA Summing ==
    ASSUME NEW S, IsFiniteSet(S), NEW w \in [S -> Nat]
    PROVE  \E f \in [SUBSET S -> Nat] : Adds(f, w, SUBSET S) /\ SumFunction(w) = f[S]
<1>1. DOMAIN w = S
  OBVIOUS
<1> DEFINE f == CHOOSE f : f = [s \in SUBSET S |->
                                   IF s = {} THEN 0 ELSE w[First(s)] + f[Rest(s)]]
<1>2. SumFunction(w) = f[S]
  BY <1>1, SumEquation, Zenon
<1>3. f = [s \in SUBSET S |-> IF s = {} THEN 0 ELSE w[First(s)] + f[Rest(s)]]
  <2>1. \E g : IsSum(g, w, S)
    BY SumExists
  <2>2. QED
    BY <2>1, Zenon DEF IsSum
<1> HIDE DEF f
<1>4. Adds(f, w, SUBSET S)
  BY <1>3 DEF Adds
<1>5. ASSUME NEW U \in SUBSET S PROVE f[U] \in Nat
  <2> DEFINE G == {s \in SUBSET U : f[s] \in Nat}
  <2>1. IsFiniteSet(U)
    BY FS_Subset
  <2>2. {} \in G
    BY <1>4 DEF Adds
  <2>3. ASSUME NEW s \in SUBSET U, s # {}, Rest(s) \in G PROVE s \in G
    <3>1. First(s) \in S
      BY <2>1, <2>3, Shrinking
    <3>2. f[s] = w[First(s)] + f[Rest(s)]
      BY <1>4, <2>3 DEF Adds
    <3>3. QED
      BY <2>3, <3>1, <3>2
  <2>4. U \in G
    <3> HIDE DEF G
    <3>1. QED
      BY <2>1, <2>2, <2>3, Reaching
  <2>5. QED
    BY <2>4
<1>6. f \in [SUBSET S -> Nat]
  BY <1>3, <1>5
<1>7. QED
  BY <1>2, <1>4, <1>6

\* A sum of numbers is a number.
LEMMA SumType ==
    ASSUME NEW S, IsFiniteSet(S), NEW w \in [S -> Nat]
    PROVE  SumFunction(w) \in Nat
<1>1. PICK f \in [SUBSET S -> Nat] : Adds(f, w, SUBSET S) /\ SumFunction(w) = f[S]
  BY Summing
<1>2. QED
  BY <1>1

\* The sum of nothing is zero.
LEMMA SumOfNone ==
    ASSUME NEW w \in [{} -> Nat]
    PROVE  SumFunction(w) = 0
<1>1. IsFiniteSet({})
  BY FS_EmptySet
<1>2. PICK f \in [SUBSET {} -> Nat] : Adds(f, w, SUBSET {}) /\ SumFunction(w) = f[{}]
  BY <1>1, Summing
<1>3. QED
  BY <1>2 DEF Adds

\* The sum of one number is that number.
LEMMA SumOfOne ==
    ASSUME NEW x, NEW w \in [{x} -> Nat]
    PROVE  SumFunction(w) = w[x]
<1>1. IsFiniteSet({x})
  BY FS_Singleton
<1>2. PICK f \in [SUBSET {x} -> Nat] : Adds(f, w, SUBSET {x}) /\ SumFunction(w) = f[{x}]
  BY <1>1, Summing
<1>3. First({x}) = x
  BY DEF First
<1>4. Rest({x}) = {}
  BY <1>3 DEF Rest
<1>5. f[{}] = 0
  BY <1>2 DEF Adds
<1>6. f[{x}] = w[x] + f[{}]
  BY <1>2, <1>3, <1>4 DEF Adds
<1>7. w[x] \in Nat
  OBVIOUS
<1>8. QED
  BY <1>2, <1>5, <1>6, <1>7

\* One more element of s is one more, or none more, of U.
LEMMA Joining ==
    ASSUME NEW S, IsFiniteSet(S), NEW U \in SUBSET S, NEW s \in SUBSET S, s # {}
    PROVE  /\ Cardinality(s \cap U) \in Nat /\ Cardinality(Rest(s) \cap U) \in Nat
           /\ First(s) \in U => Cardinality(s \cap U) = Cardinality(Rest(s) \cap U) + 1
           /\ First(s) \notin U => s \cap U = Rest(s) \cap U
<1>1. First(s) \in s
  BY DEF First
<1>2. IsFiniteSet(s \cap U) /\ IsFiniteSet(Rest(s) \cap U)
  BY FS_Subset DEF Rest
<1>3. Cardinality(s \cap U) \in Nat /\ Cardinality(Rest(s) \cap U) \in Nat
  BY <1>2, FS_CardinalityType
<1>4. ASSUME First(s) \in U PROVE Cardinality(s \cap U) = Cardinality(Rest(s) \cap U) + 1
  <2>1. s \cap U = (Rest(s) \cap U) \cup {First(s)} /\ First(s) \notin Rest(s) \cap U
    BY <1>1, <1>4 DEF Rest
  <2>2. QED
    BY <1>2, <2>1, FS_AddElement
<1>5. First(s) \notin U => s \cap U = Rest(s) \cap U
  BY DEF Rest
<1>6. QED
  BY <1>3, <1>4, <1>5

\* A sum of weights up to c, zero outside of U.
LEMMA SumAtMost ==
    ASSUME NEW S, IsFiniteSet(S), NEW w \in [S -> Nat], NEW U \in SUBSET S, NEW c \in Nat,
           \A x \in U : w[x] <= c, \A x \in S \ U : w[x] = 0
    PROVE  SumFunction(w) <= c * Cardinality(U)
<1>1. PICK f \in [SUBSET S -> Nat] : Adds(f, w, SUBSET S) /\ SumFunction(w) = f[S]
  BY Summing
<1> DEFINE G == {s \in SUBSET S : f[s] <= c * Cardinality(s \cap U)}
<1>2. {} \in G
  <2>1. f[{}] = 0
    BY <1>1 DEF Adds
  <2>2. {} \cap U = {} /\ Cardinality({}) = 0
    BY FS_EmptySet
  <2>3. QED
    BY <2>1, <2>2
<1>3. ASSUME NEW s \in SUBSET S, s # {}, Rest(s) \in G PROVE s \in G
  <2>1. First(s) \in S /\ f[Rest(s)] <= c * Cardinality(Rest(s) \cap U) /\ f[Rest(s)] \in Nat
    BY <1>3, Shrinking
  <2>2. f[s] = w[First(s)] + f[Rest(s)]
    BY <1>1, <1>3 DEF Adds
  <2>3. Cardinality(s \cap U) \in Nat /\ Cardinality(Rest(s) \cap U) \in Nat
    BY <1>3, Joining
  <2>4. CASE First(s) \in U
    <3>1. Cardinality(s \cap U) = Cardinality(Rest(s) \cap U) + 1
      BY <1>3, <2>4, Joining
    <3>2. c * Cardinality(s \cap U) = c * Cardinality(Rest(s) \cap U) + c
      BY <2>3, <3>1
    <3>3. w[First(s)] <= c /\ w[First(s)] \in Nat
      BY <2>4
    <3>4. c * Cardinality(Rest(s) \cap U) \in Nat
      BY <2>3
    <3>5. QED
      BY <2>1, <2>2, <3>2, <3>3, <3>4
  <2>5. CASE First(s) \notin U
    <3>1. s \cap U = Rest(s) \cap U
      BY <1>3, <2>5, Joining
    <3>2. w[First(s)] = 0
      BY <2>1, <2>5
    <3>3. Cardinality(s \cap U) = Cardinality(Rest(s) \cap U)
      BY <3>1
    <3>4. f[s] = f[Rest(s)]
      BY <2>1, <2>2, <3>2
    <3>5. QED
      BY <2>1, <3>3, <3>4
  <2>6. QED
    BY <2>4, <2>5
<1>4. S \in G
  <2> HIDE DEF G
  <2>1. QED
    BY <1>2, <1>3, Reaching
<1>5. S \cap U = U
  OBVIOUS
<1>6. QED
  BY <1>1, <1>4, <1>5

\* A sum of weights of at least c in U.
LEMMA SumAtLeast ==
    ASSUME NEW S, IsFiniteSet(S), NEW w \in [S -> Nat], NEW U \in SUBSET S, NEW c \in Nat,
           \A x \in U : c <= w[x]
    PROVE  c * Cardinality(U) <= SumFunction(w)
<1>1. PICK f \in [SUBSET S -> Nat] : Adds(f, w, SUBSET S) /\ SumFunction(w) = f[S]
  BY Summing
<1> DEFINE G == {s \in SUBSET S : c * Cardinality(s \cap U) <= f[s]}
<1>2. {} \in G
  <2>1. f[{}] = 0
    BY <1>1 DEF Adds
  <2>2. {} \cap U = {} /\ Cardinality({}) = 0
    BY FS_EmptySet
  <2>3. QED
    BY <2>1, <2>2
<1>3. ASSUME NEW s \in SUBSET S, s # {}, Rest(s) \in G PROVE s \in G
  <2>1. First(s) \in S /\ c * Cardinality(Rest(s) \cap U) <= f[Rest(s)] /\ f[Rest(s)] \in Nat
    BY <1>3, Shrinking
  <2>2. f[s] = w[First(s)] + f[Rest(s)]
    BY <1>1, <1>3 DEF Adds
  <2>3. Cardinality(s \cap U) \in Nat /\ Cardinality(Rest(s) \cap U) \in Nat
    BY <1>3, Joining
  <2>4. w[First(s)] \in Nat
    BY <2>1
  <2>5. c * Cardinality(Rest(s) \cap U) \in Nat
    BY <2>3
  <2>6. CASE First(s) \in U
    <3>1. Cardinality(s \cap U) = Cardinality(Rest(s) \cap U) + 1
      BY <1>3, <2>6, Joining
    <3>2. c * Cardinality(s \cap U) = c * Cardinality(Rest(s) \cap U) + c
      BY <2>3, <3>1
    <3>3. c <= w[First(s)]
      BY <2>6
    <3>4. QED
      BY <2>1, <2>2, <2>4, <2>5, <3>2, <3>3
  <2>7. CASE First(s) \notin U
    <3>1. s \cap U = Rest(s) \cap U
      BY <1>3, <2>7, Joining
    <3>2. Cardinality(s \cap U) = Cardinality(Rest(s) \cap U)
      BY <3>1
    <3>3. f[Rest(s)] <= f[s]
      BY <2>1, <2>2, <2>4
    <3>4. f[s] \in Nat
      OBVIOUS
    <3>5. c * Cardinality(s \cap U) <= f[s]
      BY <2>1, <2>5, <3>2, <3>3, <3>4
    <3>6. QED
      BY <3>5
  <2>8. QED
    BY <2>6, <2>7
<1>4. S \in G
  <2> HIDE DEF G
  <2>1. QED
    BY <1>2, <1>3, Reaching
<1>5. S \cap U = U
  OBVIOUS
<1>6. QED
  BY <1>1, <1>4, <1>5

\* The sum of greater weights is greater.
LEMMA SumIsMonotone ==
    ASSUME NEW S, IsFiniteSet(S), NEW v \in [S -> Nat], NEW w \in [S -> Nat],
           \A x \in S : v[x] <= w[x]
    PROVE  SumFunction(v) <= SumFunction(w)
<1>1. PICK f \in [SUBSET S -> Nat] : Adds(f, v, SUBSET S) /\ SumFunction(v) = f[S]
  BY Summing
<1>2. PICK g \in [SUBSET S -> Nat] : Adds(g, w, SUBSET S) /\ SumFunction(w) = g[S]
  BY Summing
<1> DEFINE G == {s \in SUBSET S : f[s] <= g[s]}
<1>3. {} \in G
  BY <1>1, <1>2 DEF Adds
<1>4. ASSUME NEW s \in SUBSET S, s # {}, Rest(s) \in G PROVE s \in G
  <2>1. /\ First(s) \in S /\ f[Rest(s)] <= g[Rest(s)]
        /\ f[Rest(s)] \in Nat /\ g[Rest(s)] \in Nat
    BY <1>4, Shrinking
  <2>2. f[s] = v[First(s)] + f[Rest(s)] /\ g[s] = w[First(s)] + g[Rest(s)]
    BY <1>1, <1>2, <1>4 DEF Adds
  <2>3. v[First(s)] \in Nat /\ w[First(s)] \in Nat /\ v[First(s)] <= w[First(s)]
    BY <2>1
  <2>4. QED
    BY <2>1, <2>2, <2>3
<1>5. S \in G
  <2> HIDE DEF G
  <2>1. QED
    BY <1>3, <1>4, Reaching
<1>6. QED
  BY <1>1, <1>2, <1>5

-----------------------------------------------------------------------------
(* Metrics                                                                 *)

\* The cases with relevant ids, those of them that were answered, and the hits.
Asked(rs) == {i \in DOMAIN rs : rs[i].case.relevant # {}}

Answered(rs) == {i \in DOMAIN rs : rs[i].case.relevant # {} /\ rs[i].status # ERROR}

Hits(rs, k) == {i \in DOMAIN rs : rs[i].case.relevant # {} /\ Found(rs[i], k)}

\* What the metrics add up, case by case.
Ranks(rs) == [i \in Asked(rs) |-> reciprocal_rank(rs[i])]

Evidence(rs) == [i \in Asked(rs) |-> rs[i].fields]

Qualified(rs) == [i \in Asked(rs) |-> Cardinality(rs[i].case.relevant \cap ToSet(rs[i].top))]

Offered(rs) == [i \in Asked(rs) |-> Len(rs[i].top)]

\* The metrics of a run, as sums and counts over the cases with relevant ids.
LEMMA Metrics ==
    ASSUME NEW rs
    PROVE  LET a == aggregate_metrics(rs)
               n == Cardinality(Asked(rs))
           IN  /\ a.recall_at_1 = Fraction(Cardinality(Hits(rs, 1)), n)
               /\ a.recall_at_3 = Fraction(Cardinality(Hits(rs, 3)), n)
               /\ a.recall_at_5 = Fraction(Cardinality(Hits(rs, 5)), n)
               /\ a.mrr = Fraction(SumFunction(Ranks(rs)), 60 * n)
               /\ a.precision = Fraction(SumFunction(Qualified(rs)), SumFunction(Offered(rs)))
               /\ a.completeness = Fraction(SumFunction(Evidence(rs)), EvidenceFields * n)
               /\ a.p50 = <<median2(rs), 2>>
               /\ a.p95 = <<Ordered(rs, p95_index(Len(rs))), 1>>
BY DEF aggregate_metrics, Rate, Count, Total, retrieval_case, Asked, Hits, Ranks, Evidence,
       Qualified, Offered

\* What the benchmark knows of one result.
Sound(r) ==
    /\ r.top \in Seq(ToSet(r.top)) /\ r.fields \in 0..EvidenceFields /\ r.latency \in Nat
    /\ r.top = <<>> => r.fields = 0
    /\ r.status = ERROR => r.top = <<>>

\* The results of a whole run.
Measured(rs) ==
    /\ Len(rs) \in Nat \ {0} /\ DOMAIN rs = 1..Len(rs)
    /\ \A i \in DOMAIN rs : Sound(rs[i])

\* Any part of the results is finite, and counts no more than what it is part of.
LEMMA PartsAreFinite ==
    ASSUME NEW rs, Measured(rs), NEW A \in SUBSET DOMAIN rs
    PROVE  /\ IsFiniteSet(A) /\ Cardinality(A) \in Nat
           /\ \A B \in SUBSET A : Cardinality(B) \in Nat /\ Cardinality(B) <= Cardinality(A)
<1>1. IsFiniteSet(DOMAIN rs)
  BY FS_Interval DEF Measured
<1>2. IsFiniteSet(A)
  BY <1>1, FS_Subset
<1>3. QED
  BY <1>2, FS_Subset, FS_CardinalityType

\* A sequence has as many places as it is long.
LEMMA Places ==
    ASSUME NEW l \in Nat
    PROVE  IsFiniteSet(1..l) /\ Cardinality(1..l) = l
<1>1. /\ IsFiniteSet(1..l)
      /\ Cardinality(1..l) = IF 1 > l THEN 0 ELSE l - 1 + 1
  BY FS_Interval
<1>2. QED
  BY <1>1

\* Where a relevant id was found the case was answered.
LEMMA FoundIsAnswered ==
    ASSUME NEW r, Sound(r), NEW k \in Nat, Found(r, k)
    PROVE  r.status # ERROR /\ r.top # <<>>
<1>1. r.top # <<>>
  BY DEF Found, Sound
<1>2. QED
  BY <1>1 DEF Sound

\* Hits are answered, and a greater rank has more of them.
LEMMA HitsAreAnswered ==
    ASSUME NEW rs, Measured(rs)
    PROVE  /\ Answered(rs) \subseteq Asked(rs) /\ Asked(rs) \subseteq DOMAIN rs
           /\ \A k \in Nat : Hits(rs, k) \subseteq Answered(rs)
           /\ \A k, m \in Nat : k <= m => Hits(rs, k) \subseteq Hits(rs, m)
<1>1. Answered(rs) \subseteq Asked(rs) /\ Asked(rs) \subseteq DOMAIN rs
  BY DEF Answered, Asked
<1>2. ASSUME NEW k \in Nat PROVE Hits(rs, k) \subseteq Answered(rs)
  BY FoundIsAnswered DEF Hits, Answered, Measured
<1>3. ASSUME NEW k \in Nat, NEW m \in Nat, k <= m PROVE Hits(rs, k) \subseteq Hits(rs, m)
  BY <1>3 DEF Hits, Found
<1>4. QED
  BY <1>1, <1>2, <1>3

\* A reciprocal rank is between zero and one: one where the first id is relevant, zero
\* where the case failed.
LEMMA RankIsBounded ==
    ASSUME NEW r, Sound(r)
    PROVE  /\ reciprocal_rank(r) \in Nat /\ reciprocal_rank(r) <= 60
           /\ r.status = ERROR => reciprocal_rank(r) = 0
           /\ Found(r, 1) => reciprocal_rank(r) = 60
<1> DEFINE M == {i \in DOMAIN r.top : r.top[i] \in r.case.relevant}
<1>0. /\ Len(r.top) \in Nat /\ DOMAIN r.top = 1..Len(r.top)
      /\ r.top = <<>> => Len(r.top) = 0
  BY DEF Sound
<1>1. Found(r, Len(r.top)) <=> M # {}
  BY <1>0 DEF Found
<1>2. ASSUME M # {}
      PROVE  Min(M) \in M /\ \A i \in M : Min(M) <= i
  <2>1. M \in SUBSET Nat
    BY <1>0
  <2>2. \E x \in M : \A y \in M : x <= y
    <3> HIDE DEF M
    <3>1. QED
      BY <1>2, <2>1, LeastNat
  <2>3. QED
    <3> HIDE DEF M
    <3>1. QED
      BY <2>2 DEF Min
<1>3. CASE M = {}
  <2>1. reciprocal_rank(r) = 0
    BY <1>1, <1>3 DEF reciprocal_rank
  <2>2. ~Found(r, 1)
    BY <1>0, <1>3 DEF Found
  <2>3. QED
    BY <2>1, <2>2
<1>4. CASE M # {}
  <2>1. reciprocal_rank(r) = 60 \div Min(M)
    BY <1>1, <1>4 DEF reciprocal_rank
  <2>2. Min(M) \in Nat /\ Min(M) >= 1
    BY <1>0, <1>2, <1>4
  <2>3. reciprocal_rank(r) \in Nat /\ reciprocal_rank(r) <= 60
    <3> DEFINE m == Min(M)
    <3>1. m \in Nat /\ m >= 1
      BY <2>2
    <3> HIDE DEF m
    <3>2. 60 \div m \in Nat /\ 60 \div m <= 60
      BY <3>1
    <3>3. QED
      BY <2>1, <3>2 DEF m
  <2>4. r.status # ERROR
    BY <1>0, <1>4 DEF Sound
  <2>5. ASSUME Found(r, 1) PROVE reciprocal_rank(r) = 60
    <3>1. 1 \in M
      BY <1>0, <2>5 DEF Found
    <3>2. Min(M) = 1
      BY <1>2, <1>4, <2>2, <3>1
    <3>3. 60 \div 1 = 60
      OBVIOUS
    <3>4. QED
      BY <2>1, <3>2, <3>3
  <2>6. QED
    BY <2>3, <2>4, <2>5
<1>5. QED
  BY <1>3, <1>4

\* The part of RatesAreHonest that is about one run.
LEMMA RatesOfOne ==
    ASSUME NEW rs, Measured(rs), Cardinality(Asked(rs)) > 0
    PROVE  LET a == aggregate_metrics(rs)
               n == Cardinality(Asked(rs))
               m == Cardinality(Answered(rs))
           IN  /\ a.recall_at_5[1] * n <= m * a.recall_at_5[2]
               /\ a.recall_at_1[1] <= a.recall_at_3[1] /\ a.recall_at_3[1] <= a.recall_at_5[1]
               /\ 60 * a.recall_at_1[1] <= a.mrr[1] /\ a.mrr[1] <= 60 * m
               /\ a.completeness[1] * n <= m * a.completeness[2]
               /\ a.precision[1] <= a.precision[2]
<1> DEFINE a == aggregate_metrics(rs)
           n == Cardinality(Asked(rs))
           m == Cardinality(Answered(rs))
           h(k) == Cardinality(Hits(rs, k))
<1>1. n \in Nat /\ m \in Nat /\ n # 0 /\ IsFiniteSet(Asked(rs))
  BY HitsAreAnswered, PartsAreFinite
<1>2. h(1) \in Nat /\ h(3) \in Nat /\ h(5) \in Nat /\ h(1) <= h(3) /\ h(3) <= h(5) /\ h(5) <= m
  <2>1. /\ Hits(rs, 1) \subseteq Hits(rs, 3) /\ Hits(rs, 3) \subseteq Hits(rs, 5)
        /\ Hits(rs, 5) \subseteq Answered(rs)
        /\ Answered(rs) \subseteq DOMAIN rs
    BY HitsAreAnswered
  <2>2. QED
    BY <2>1, PartsAreFinite
<1>3. /\ a.recall_at_1 = <<h(1), n>> /\ a.recall_at_3 = <<h(3), n>> /\ a.recall_at_5 = <<h(5), n>>
      /\ a.mrr = <<SumFunction(Ranks(rs)), 60 * n>>
      /\ a.completeness = <<SumFunction(Evidence(rs)), EvidenceFields * n>>
      /\ a.precision = Fraction(SumFunction(Qualified(rs)), SumFunction(Offered(rs)))
  <2>1. n # 0 /\ 60 * n # 0 /\ EvidenceFields * n # 0
    BY <1>1 DEF EvidenceFields
  <2>2. QED
    BY <2>1, Metrics DEF Fraction
<1>4. /\ Ranks(rs) \in [Asked(rs) -> Nat] /\ Evidence(rs) \in [Asked(rs) -> Nat]
      /\ Offered(rs) \in [Asked(rs) -> Nat]
  BY RankIsBounded DEF Ranks, Evidence, Offered, Asked, Measured, Sound
<1>5. h(5) * n <= m * n
  BY <1>1, <1>2
<1>6. 60 * h(1) <= SumFunction(Ranks(rs))
  <2>1. Hits(rs, 1) \subseteq Asked(rs)
    BY HitsAreAnswered
  <2>2. \A i \in Hits(rs, 1) : 60 <= Ranks(rs)[i]
    BY <2>1, RankIsBounded DEF Ranks, Asked, Hits, Measured
  <2>3. QED
    BY <1>1, <1>4, <2>1, <2>2, SumAtLeast
<1>7. SumFunction(Ranks(rs)) <= 60 * m
  <2>1. \A i \in Answered(rs) : Ranks(rs)[i] <= 60
    BY RankIsBounded DEF Ranks, Asked, Answered, Measured
  <2>2. \A i \in Asked(rs) \ Answered(rs) : Ranks(rs)[i] = 0
    BY RankIsBounded DEF Ranks, Asked, Answered, Measured
  <2>3. Answered(rs) \in SUBSET Asked(rs)
    BY HitsAreAnswered
  <2>4. QED
    <3> DEFINE c == 60
    <3>1. c \in Nat /\ \A i \in Answered(rs) : Ranks(rs)[i] <= c
      BY <2>1
    <3> HIDE DEF c
    <3>2. SumFunction(Ranks(rs)) <= c * Cardinality(Answered(rs))
      BY <1>1, <1>4, <2>2, <2>3, <3>1, SumAtMost
    <3>3. QED
      BY <3>2 DEF c
<1>8. SumFunction(Evidence(rs)) * n <= m * (EvidenceFields * n)
  <2>1. \A i \in Answered(rs) : Evidence(rs)[i] <= EvidenceFields
    <3>1. TAKE i \in Answered(rs)
    <3>2. i \in Asked(rs) /\ i \in DOMAIN rs
      BY DEF Asked, Answered
    <3>3. rs[i].fields \in 0..9
      BY <3>2 DEF Measured, Sound, EvidenceFields
    <3>4. Evidence(rs)[i] = rs[i].fields
      BY <3>2 DEF Evidence
    <3>5. QED
      BY <3>3, <3>4 DEF EvidenceFields
  <2>2. \A i \in Asked(rs) \ Answered(rs) : Evidence(rs)[i] = 0
    BY DEF Evidence, Asked, Answered, Measured, Sound
  <2>3. EvidenceFields \in Nat
    BY DEF EvidenceFields
  <2>4. SumFunction(Evidence(rs)) <= EvidenceFields * m
    BY <1>1, <1>4, <2>1, <2>2, <2>3, HitsAreAnswered, SumAtMost
  <2>5. SumFunction(Evidence(rs)) \in Nat
    BY <1>1, <1>4, SumType
  <2>6. QED
    <3> DEFINE x == SumFunction(Evidence(rs))
    <3>1. x \in Nat /\ x <= 9 * m
      BY <2>4, <2>5 DEF EvidenceFields
    <3> HIDE DEF x, n, m
    <3>2. x * n <= (9 * m) * n
      BY <1>1, <3>1
    <3>3. (9 * m) * n = m * (9 * n)
      BY <1>1
    <3>4. QED
      BY <3>2, <3>3 DEF x, EvidenceFields
<1>9. a.precision[1] <= a.precision[2]
  <2>1. ASSUME NEW i \in Asked(rs)
        PROVE  LET q == Cardinality(rs[i].case.relevant \cap ToSet(rs[i].top))
               IN  q \in Nat /\ q <= Len(rs[i].top)
    <3> DEFINE t == rs[i].top
               R == ToSet(t)
    <3>1. t \in Seq(R) /\ Len(t) \in Nat /\ DOMAIN t = 1..Len(t)
      BY DEF Asked, Measured, Sound
    <3>2. IsFiniteSet(1..Len(t)) /\ Cardinality(1..Len(t)) = Len(t)
      <4> HIDE DEF t
      <4>1. QED
        BY <3>1, Places
    <3>3. t \in Surjection(1..Len(t), R)
      BY <3>1 DEF Surjection, ToSet
    <3>4. IsFiniteSet(R) /\ Cardinality(R) <= Len(t)
      BY <3>2, <3>3, FS_Surjection
    <3>5. Cardinality(R) \in Nat
      BY <3>4, FS_CardinalityType
    <3> HIDE DEF t, R
    <3>6. /\ IsFiniteSet(rs[i].case.relevant \cap R)
          /\ Cardinality(rs[i].case.relevant \cap R) <= Cardinality(R)
      BY <3>4, FS_Subset
    <3>7. Cardinality(rs[i].case.relevant \cap R) \in Nat
      BY <3>6, FS_CardinalityType
    <3>8. QED
      BY <3>1, <3>4, <3>5, <3>6, <3>7 DEF t, R
  <2>2. Qualified(rs) \in [Asked(rs) -> Nat]
    BY <2>1 DEF Qualified
  <2>3. \A i \in Asked(rs) : Qualified(rs)[i] <= Offered(rs)[i]
    BY <2>1 DEF Qualified, Offered
  <2>4. SumFunction(Qualified(rs)) <= SumFunction(Offered(rs))
    BY <1>1, <1>4, <2>2, <2>3, SumIsMonotone
  <2>5. QED
    BY <1>3, <2>4 DEF Fraction
<1>10. QED
  BY <1>1, <1>2, <1>3, <1>5, <1>6, <1>7, <1>8, <1>9

-----------------------------------------------------------------------------
(* Percentiles                                                             *)

\* The cases with latencies up to v, and below v.
AtMost(rs, v) == {i \in DOMAIN rs : rs[i].latency <= v}

Before(rs, v) == {i \in DOMAIN rs : rs[i].latency < v}

\* The latencies of a run have a bound.
LEMMA LatenciesAreBounded ==
    ASSUME NEW rs, Measured(rs)
    PROVE  \E b \in Nat : \A i \in DOMAIN rs : rs[i].latency <= b
<1> DEFINE T == {k \in Nat : \E b \in Nat :
                                \A i \in DOMAIN rs : i <= k => rs[i].latency <= b}
<1>0. /\ Len(rs) \in Nat /\ DOMAIN rs = 1..Len(rs)
      /\ \A i \in DOMAIN rs : rs[i].latency \in Nat
  BY DEF Measured, Sound
<1>1. 0 \in T
  BY <1>0
<1>2. ASSUME NEW k \in T PROVE k + 1 \in T
  <2>1. PICK b \in Nat : \A i \in DOMAIN rs : i <= k => rs[i].latency <= b
    OBVIOUS
  <2>2. CASE k + 1 \in DOMAIN rs
    <3>1. \A i \in DOMAIN rs : i <= k + 1 => rs[i].latency <= b + rs[k + 1].latency
      BY <1>0, <2>1, <2>2
    <3>2. b + rs[k + 1].latency \in Nat
      BY <1>0, <2>2
    <3>3. QED
      BY <3>1, <3>2
  <2>3. CASE k + 1 \notin DOMAIN rs
    <3>1. \A i \in DOMAIN rs : i <= k + 1 => rs[i].latency <= b
      BY <1>0, <2>1, <2>3
    <3>2. QED
      BY <3>1
  <2>4. QED
    BY <2>2, <2>3
<1>3. Len(rs) \in T
  <2>1. T \in SUBSET Nat
    OBVIOUS
  <2> HIDE DEF T
  <2>2. QED
    BY <1>0, <1>1, <1>2, <2>1, Climbing
<1>4. QED
  BY <1>0, <1>3

\* There is an i-th latency.
LEMMA OrderedExists ==
    ASSUME NEW rs, Measured(rs), NEW i \in 1..Len(rs)
    PROVE  LET v == Ordered(rs, i)
           IN  v \in Nat /\ Cardinality(Before(rs, v)) < i /\ Cardinality(AtMost(rs, v)) >= i
<1> DEFINE V == {rs[j].latency : j \in DOMAIN rs}
           T == {v \in Nat : Cardinality(AtMost(rs, v)) >= i}
<1>1. /\ Len(rs) \in Nat /\ DOMAIN rs = 1..Len(rs)
      /\ \A j \in DOMAIN rs : rs[j].latency \in Nat
  BY DEF Measured, Sound
<1>2. \A v : Cardinality(AtMost(rs, v)) \in Nat /\ Cardinality(Before(rs, v)) \in Nat
  BY PartsAreFinite DEF AtMost, Before
<1>3. T # {}
  <2>1. PICK b \in Nat : \A j \in DOMAIN rs : rs[j].latency <= b
    BY LatenciesAreBounded
  <2>2. AtMost(rs, b) = 1..Len(rs)
    BY <1>1, <2>1 DEF AtMost
  <2>3. Cardinality(AtMost(rs, b)) = Len(rs)
    BY <1>1, <2>2, Places
  <2>4. QED
    BY <1>1, <2>3
<1>4. PICK v \in T : \A y \in T : v <= y
  <2>1. T \in SUBSET Nat
    OBVIOUS
  <2> HIDE DEF T
  <2>2. QED
    BY <1>3, <2>1, LeastNat
<1>5. Cardinality(Before(rs, v)) < i
  <2>1. CASE v = 0
    <3>1. Before(rs, v) = {}
      BY <1>1, <2>1 DEF Before
    <3>2. QED
      BY <1>1, <3>1, FS_EmptySet
  <2>2. CASE v # 0
    <3>1. v - 1 \in Nat /\ v - 1 \notin T
      BY <1>4, <2>2
    <3>2. Before(rs, v) = AtMost(rs, v - 1)
      BY <1>1, <3>1 DEF Before, AtMost
    <3>3. QED
      BY <1>1, <1>2, <3>1, <3>2
  <2>3. QED
    BY <2>1, <2>2
<1>6. v \in V
  <2>1. Before(rs, v) # AtMost(rs, v)
    BY <1>1, <1>2, <1>4, <1>5
  <2>2. QED
    BY <1>1, <2>1 DEF Before, AtMost
<1>7. \E x \in V : Cardinality(Before(rs, x)) < i /\ Cardinality(AtMost(rs, x)) >= i
  BY <1>4, <1>5, <1>6
<1>8. Ordered(rs, i) = CHOOSE x \in V : /\ Cardinality(Before(rs, x)) < i
                                        /\ Cardinality(AtMost(rs, x)) >= i
  BY DEF Ordered, Count, Before, AtMost
<1>9. V \subseteq Nat
  BY <1>1
<1> HIDE DEF V
<1>10. QED
  BY <1>7, <1>8, <1>9

\* Later in the order is not less.
LEMMA OrderedIsMonotone ==
    ASSUME NEW rs, Measured(rs), NEW i \in 1..Len(rs), NEW j \in 1..Len(rs), i <= j
    PROVE  Ordered(rs, i) <= Ordered(rs, j)
<1> DEFINE v == Ordered(rs, i)
           u == Ordered(rs, j)
<1>1. /\ v \in Nat /\ Cardinality(Before(rs, v)) < i
      /\ u \in Nat /\ Cardinality(AtMost(rs, u)) >= j
  BY OrderedExists
<1>2. SUFFICES ASSUME u < v PROVE FALSE
  BY <1>1
<1>3. AtMost(rs, u) \subseteq Before(rs, v) /\ Before(rs, v) \subseteq DOMAIN rs
  BY <1>1, <1>2 DEF AtMost, Before, Measured, Sound
<1>4. /\ Cardinality(AtMost(rs, u)) <= Cardinality(Before(rs, v))
      /\ Cardinality(AtMost(rs, u)) \in Nat /\ Cardinality(Before(rs, v)) \in Nat
  BY <1>3, PartsAreFinite
<1> HIDE DEF v, u
<1>5. Len(rs) \in Nat
  BY DEF Measured
<1>6. QED
  BY <1>1, <1>4, <1>5

\* The part of PercentilesAreOrdered that is about one run.
LEMMA PercentilesOfOne ==
    ASSUME NEW rs, Measured(rs)
    PROVE  LET a == aggregate_metrics(rs) IN a.p50[1] <= 2 * a.p95[1]
<1> DEFINE n == Len(rs)
<1>1. n \in Nat /\ n >= 1
  BY DEF Measured
<1>2. /\ (n + 1) \div 2 \in 1..n /\ n \div 2 + 1 \in 1..n
      /\ p95_index(n) \in 1..n
      /\ (n + 1) \div 2 <= p95_index(n) /\ n \div 2 + 1 <= p95_index(n)
  <2> HIDE DEF n
  <2>1. QED
    BY <1>1 DEF p95_index
<1> DEFINE x == Ordered(rs, (n + 1) \div 2)
           y == Ordered(rs, n \div 2 + 1)
           z == Ordered(rs, p95_index(n))
<1>3. x \in Nat /\ y \in Nat /\ z \in Nat /\ x <= z /\ y <= z
  BY <1>2, OrderedExists, OrderedIsMonotone
<1>4. aggregate_metrics(rs).p50 = <<x + y, 2>> /\ aggregate_metrics(rs).p95 = <<z, 1>>
  BY Metrics DEF median2
<1> HIDE DEF x, y, z
<1>5. x + y <= 2 * z
  BY <1>3
<1>6. QED
  BY <1>4, <1>5

-----------------------------------------------------------------------------
(* Results and runs                                                        *)

\* The cases of all datasets.
AllCases == UNION {ToSet(n.dataset.cases) : n \in Nodes}

\* Every result a case may have.
Results ==
    {result(case, a) : case \in AllCases, a \in Answers}
        \cup {failed_result(case, latency) : case \in AllCases, latency \in FailureLatencies}

\* The results of a dataset so far.
Partial(d, rs) ==
    /\ rs \in Seq(Results) /\ Len(rs) <= Len(d.cases)
    /\ \A j \in DOMAIN rs : rs[j].case = d.cases[j]

\* A run that is kept, under its scope and id.
Entry(e) ==
    /\ e.scope \in Scopes /\ e.run.owner = e.scope /\ e.id = e.run.id
    /\ \E n \in Nodes :
          /\ n.dataset.name = e.run.name /\ MinCases <= Len(n.dataset.cases)
          /\ Partial(n.dataset, e.run.results) /\ Len(e.run.results) = Len(n.dataset.cases)

\* Every result a case may have is sound.
LEMMA ResultsAreSound ==
    ASSUME NEW r \in Results
    PROVE  Sound(r)
<1>1. CASE \E case \in AllCases, a \in Answers : r = result(case, a)
  <2>1. PICK case \in AllCases, a \in Answers : r = result(case, a)
    BY <1>1
  <2>2. QED
    BY <2>1, AnswersAssumption DEF result, Sound, EvidenceFields
<1>2. CASE \E case \in AllCases, latency \in FailureLatencies : r = failed_result(case, latency)
  <2>1. PICK case \in AllCases, latency \in FailureLatencies : r = failed_result(case, latency)
    BY <1>2
  <2>2. r.top = <<>> /\ r.fields = 0 /\ r.latency \in Nat
    BY <2>1, BoundsAssumption DEF failed_result
  <2>3. QED
    BY <2>2 DEF Sound, EvidenceFields
<1>3. QED
  BY <1>1, <1>2 DEF Results

\* A run that is kept has results, all of them sound.
LEMMA EntriesAreMeasured ==
    ASSUME NEW e, Entry(e)
    PROVE  Measured(e.run.results)
<1>1. PICK n \in Nodes : /\ MinCases <= Len(n.dataset.cases)
                         /\ Partial(n.dataset, e.run.results)
                         /\ Len(e.run.results) = Len(n.dataset.cases)
  BY DEF Entry
<1>2. e.run.results \in Seq(Results)
  BY <1>1 DEF Partial
<1>3. Len(e.run.results) \in Nat /\ Len(e.run.results) # 0
  BY <1>1, <1>2, BoundsAssumption
<1>4. QED
  BY <1>2, <1>3, ResultsAreSound DEF Measured

\* The size of the results of a run.
LEMMA SizeType ==
    ASSUME NEW run, run.results \in Seq(Results)
    PROVE  result_bytes(run) \in Nat
<1> DEFINE w == [i \in DOMAIN run.results |-> 1 + Len(run.results[i].top)]
<1>1. IsFiniteSet(DOMAIN run.results)
  BY FS_Interval
<1>2. w \in [DOMAIN run.results -> Nat]
  BY ResultsAreSound DEF Sound
<1>3. SumFunction(w) \in Nat
  <2> HIDE DEF w
  <2>1. QED
    BY <1>1, <1>2, SumType
<1>4. QED
  BY <1>3 DEF result_bytes

\* The size of a run that is kept is a number.
LEMMA EntryType ==
    ASSUME NEW e, Entry(e)
    PROVE  result_bytes(e.run) \in Nat
BY SizeType DEF Entry, Partial

-----------------------------------------------------------------------------
(* The cache                                                               *)

\* No two entries have the same key.
Alone(cache) ==
    \A i, j \in DOMAIN cache : SameKey(cache[i], cache[j].scope, cache[j].id) => i = j

\* A cache of whole runs.
Kept(cache) ==
    /\ Len(cache) \in Nat /\ DOMAIN cache = 1..Len(cache) /\ cache \in Seq(ToSet(cache))
    /\ \A i \in DOMAIN cache : Entry(cache[i])

\* A sequence is one of its own elements.
LEMMA OwnElements ==
    ASSUME NEW S, NEW t \in Seq(S)
    PROVE  t \in Seq(ToSet(t)) /\ Len(t) \in Nat /\ DOMAIN t = 1..Len(t)
<1>1. Len(t) \in Nat /\ DOMAIN t = 1..Len(t)
  OBVIOUS
<1>2. \A i \in 1..Len(t) : t[i] \in ToSet(t)
  BY <1>1 DEF ToSet
<1>3. t = [i \in 1..Len(t) |-> t[i]]
  BY <1>1
<1>4. QED
  BY <1>1, <1>2, <1>3

\* The part of a sequence that is one place.
LEMMA OnePlace ==
    ASSUME NEW S, NEW p \in Seq(S), NEW l \in 1..Len(p)
    PROVE  SubSeq(p, l, l) = <<p[l]>>
<1>1. l \in Int /\ l + 1 \in Int /\ l < l + 1 /\ l \in l..Len(p)
  OBVIOUS
<1>2. SubSeq(p, l + 1, l) = <<>>
  BY <1>1, SubSeqEmpty
<1>3. SubSeq(p, l, l) = <<p[l]>> \o SubSeq(p, l + 1, l)
  <2>1. l \in l..Len(p)
    BY <1>1
  <2>2. QED
    BY <2>1, SubSeqRecursiveFirst
<1>4. <<p[l]>> \o <<>> = <<p[l]>>
  OBVIOUS
<1>5. QED
  BY <1>2, <1>3, <1>4

\* The empty cache is within its bounds.
LEMMA EmptyFits == Fits(<<>>)
<1>1. [i \in DOMAIN <<>> |-> result_bytes(<<>>[i].run)] \in [{} -> Nat]
  OBVIOUS
<1>2. Bytes(<<>>) = 0
  BY <1>1, SumOfNone DEF Bytes
<1>3. QED
  BY <1>2, BoundsAssumption DEF Fits

\* A run that is not too large fits alone.
LEMMA OneFits ==
    ASSUME NEW e, Entry(e), ~(result_bytes(e.run) > MaxCacheBytes)
    PROVE  Fits(<<e>>)
<1> DEFINE w == [i \in DOMAIN <<e>> |-> result_bytes(<<e>>[i].run)]
<1>1. w \in [{1} -> Nat] /\ w[1] = result_bytes(e.run)
  BY EntryType
<1>2. SumFunction(w) = w[1]
  <2> HIDE DEF w
  <2>1. QED
    BY <1>1, SumOfOne
<1>3. Bytes(<<e>>) = result_bytes(e.run)
  BY <1>1, <1>2 DEF Bytes
<1>4. QED
  BY <1>3, EntryType, BoundsAssumption DEF Fits

\* What is evicted is a beginning of the cache, as short as can be.
LEMMA EvictionIsShort ==
    ASSUME NEW s, s \in Seq(ToSet(s))
    PROVE  \E n \in 0..Len(s) :
              /\ Evict(s) = SubSeq(s, n + 1, Len(s)) /\ Fits(Evict(s))
              /\ \A k \in 0..Len(s) : Fits(SubSeq(s, k + 1, Len(s))) => n <= k
<1> DEFINE T == {k \in 0..Len(s) : Fits(SubSeq(s, k + 1, Len(s)))}
<1>1. Len(s) \in Nat
  OBVIOUS
<1>2. SubSeq(s, Len(s) + 1, Len(s)) = <<>>
  BY <1>1, SubSeqEmpty
<1>3. Len(s) \in T
  <2>1. Fits(SubSeq(s, Len(s) + 1, Len(s)))
    BY <1>2, EmptyFits, Zenon
  <2>2. Len(s) \in 0..Len(s)
    BY <1>1
  <2>3. QED
    BY <2>1, <2>2
<1>4. T \in SUBSET Nat
  BY <1>1
<1>5. Min(T) \in T /\ \A k \in T : Min(T) <= k
  <2> HIDE DEF T
  <2>1. \E x \in T : \A y \in T : x <= y
    BY <1>3, <1>4, LeastNat
  <2>2. QED
    BY <2>1 DEF Min
<1>6. Evict(s) = SubSeq(s, Min(T) + 1, Len(s))
  BY DEF Evict
<1>7. QED
  BY <1>5, <1>6

\* What Put changes: the entry under the key, or the end of the cache.
LEMMA PutKeeps ==
    ASSUME NEW s, Kept(s), Alone(s), NEW e, Entry(e)
    PROVE  LET t == Put(s, e)
           IN  /\ Kept(t) /\ Alone(t)
               /\ \A i \in DOMAIN s : i \in DOMAIN t /\ (s[i].id # e.id => t[i] = s[i])
               /\ \A i \in DOMAIN t : t[i] = e \/ (i \in DOMAIN s /\ t[i] = s[i])
               /\ \A i \in DOMAIN s : ~SameKey(s[i], e.scope, e.id) => t[i] = s[i]
               /\ \A i \in DOMAIN s : SameKey(s[i], e.scope, e.id) => t[i] = e
               /\ (\A i \in DOMAIN s : ~SameKey(s[i], e.scope, e.id)) =>
                      /\ t[Len(t)] = e /\ Len(t) = Len(s) + 1
<1> DEFINE t == Put(s, e)
<1>1. CASE \E i \in DOMAIN s : SameKey(s[i], e.scope, e.id)
  <2>1. t = [i \in DOMAIN s |-> IF SameKey(s[i], e.scope, e.id) THEN e ELSE s[i]]
    BY <1>1 DEF Put
  <2>2. DOMAIN t = DOMAIN s /\ DOMAIN s = 1..Len(s) /\ Len(s) \in Nat
    BY <2>1 DEF Kept
  <2>3. t \in [1..Len(s) -> ToSet(t)]
    BY <2>1, <2>2 DEF ToSet
  <2> HIDE DEF t
  <2>4. t \in Seq(ToSet(t)) /\ Len(t) = Len(s)
    BY <2>2, <2>3
  <2>5. Kept(t)
    BY <2>1, <2>2, <2>4 DEF Kept
  <2>6. Alone(t)
    BY <2>1, <2>2 DEF Alone, SameKey
  <2>7. QED
    BY <1>1, <2>1, <2>2, <2>5, <2>6 DEF t, SameKey
<1>2. CASE \A i \in DOMAIN s : ~SameKey(s[i], e.scope, e.id)
  <2>1. t = Append(s, e)
    BY <1>2 DEF Put
  <2>2. s \in Seq(ToSet(s)) /\ DOMAIN s = 1..Len(s) /\ Len(s) \in Nat
    BY DEF Kept
  <2>3. s \in Seq(ToSet(s) \cup {e})
    BY <2>2
  <2> HIDE DEF t
  <2>4. /\ Len(t) = Len(s) + 1 /\ DOMAIN t = 1..Len(s) + 1
        /\ t[Len(s) + 1] = e /\ \A i \in DOMAIN s : t[i] = s[i]
        /\ t \in Seq(ToSet(s) \cup {e})
    BY <2>1, <2>2, <2>3
  <2>5. t \in [1..Len(s) + 1 -> ToSet(t)]
    <3>1. t \in [1..Len(s) + 1 -> ToSet(s) \cup {e}]
      BY <2>2, <2>4
    <3>2. \A i \in 1..Len(s) + 1 : t[i] \in ToSet(t)
      BY <2>4 DEF ToSet
    <3>3. QED
      BY <3>1, <3>2
  <2>6. Kept(t)
    BY <2>2, <2>4, <2>5 DEF Kept
  <2>7. Alone(t)
    BY <1>2, <2>2, <2>4 DEF Alone, SameKey
  <2>8. QED
    BY <1>2, <2>2, <2>4, <2>6, <2>7 DEF t
<1>3. QED
  BY <1>1, <1>2

\* Eviction leaves the end of the cache, whole and within its bounds.
LEMMA EvictKeeps ==
    ASSUME NEW s, Kept(s), Alone(s)
    PROVE  Kept(Evict(s)) /\ Alone(Evict(s)) /\ Fits(Evict(s))
           /\ \E n \in 0..Len(s) :
                 /\ Evict(s) = SubSeq(s, n + 1, Len(s))
                 /\ \A k \in 0..Len(s) : Fits(SubSeq(s, k + 1, Len(s))) => n <= k
                 /\ Len(Evict(s)) = Len(s) - n
                 /\ \A i \in 1..Len(s) - n : Evict(s)[i] = s[i + n]
<1>1. s \in Seq(ToSet(s)) /\ DOMAIN s = 1..Len(s) /\ Len(s) \in Nat
  BY DEF Kept
<1>2. PICK n \in 0..Len(s) :
         /\ Evict(s) = SubSeq(s, n + 1, Len(s)) /\ Fits(Evict(s))
         /\ \A k \in 0..Len(s) : Fits(SubSeq(s, k + 1, Len(s))) => n <= k
  BY <1>1, EvictionIsShort
<1>0. Len(s) \in Nat /\ n \in Nat /\ n <= Len(s)
  BY <1>1
<1> DEFINE t == Evict(s)
<1>3. /\ Len(t) = Len(s) - n /\ Len(t) \in Nat /\ DOMAIN t = 1..Len(s) - n
      /\ \A i \in 1..Len(s) - n : t[i] = s[i + n]
  <2> DEFINE E == ToSet(s)
             u == SubSeq(s, n + 1, Len(s))
  <2>1. \A i \in n + 1..Len(s) : s[i] \in E
    BY <1>1
  <2>2. /\ u \in Seq(E)
        /\ Len(u) = IF n + 1 <= Len(s) THEN Len(s) - (n + 1) + 1 ELSE 0
        /\ \A i \in 1..Len(s) - (n + 1) + 1 : u[i] = s[(n + 1) + i - 1]
    <3> HIDE DEF E
    <3>1. QED
      BY <1>1, <2>1, SubSeqProperties
  <2> HIDE DEF E, u
  <2>3. Len(u) = Len(s) - n /\ DOMAIN u = 1..Len(u)
    BY <1>0, <2>2
  <2>4. \A i \in 1..Len(s) - n : u[i] = s[i + n]
    BY <1>0, <2>2
  <2>5. t = u
    BY <1>2 DEF u
  <2> HIDE DEF t
  <2>6. QED
    BY <1>0, <2>3, <2>4, <2>5
<1>4. t \in Seq(ToSet(t))
  <2>1. t \in Seq(ToSet(s))
    BY <1>1, <1>2
  <2> HIDE DEF t
  <2>2. QED
    BY <2>1, OwnElements
<1> HIDE DEF t
<1>5. Kept(t)
  <2>1. \A i \in DOMAIN t : i + n \in DOMAIN s /\ t[i] = s[i + n]
    BY <1>0, <1>1, <1>3
  <2>2. \A i \in DOMAIN t : Entry(t[i])
    BY <2>1 DEF Kept
  <2>3. QED
    BY <1>0, <1>3, <1>4, <2>2 DEF Kept
<1>6. Alone(t)
  BY <1>1, <1>3 DEF Alone
<1>7. QED
  BY <1>2, <1>3, <1>5, <1>6 DEF t

-----------------------------------------------------------------------------
(* The inductive invariant                                                 *)

\* What is known of a call.
Good(r) ==
    /\ DOMAIN r = {"pc", "scope", "seen", "opened", "place", "results", "answer"}
    /\ r.pc \in {"idle", "resolve", "open", "copy", "run", "done"}
    /\ IF r.pc = "idle" THEN r = Idle ELSE r.scope \in Scopes
    /\ r.pc = "open" => r.place = "inside"
    /\ r.pc \in {"copy", "run"} =>
          r.opened \in Nodes /\ r.place = "inside" /\ r.opened.file = r.seen
    /\ r.pc \in {"resolve", "open", "copy"} => r.results = <<>>
    /\ r.pc = "run" => Partial(r.opened.dataset, r.results)
    /\ r.pc # "done" => r.answer = [kind |-> "none"]
    /\ r.answer.kind = "run" => r.answer.run.owner = r.scope
    /\ r.answer.kind = "comparison" => r.answer.owners = {r.scope}

\* The invariant: calls, copies and cache.
CallsInv ==
    /\ call = [c \in Calls |-> call[c]]
    /\ \A c \in Calls : Good(call[c])

TempsInv ==
    /\ temps \subseteq Calls /\ leaked \in BOOLEAN
    /\ \A c \in temps : call[c].pc = "run"

RunsInv == Kept(runs) /\ Alone(runs) /\ Fits(runs)

IInv == CallsInv /\ TempsInv /\ RunsInv

-----------------------------------------------------------------------------
(* Steps                                                                   *)

\* The invariant holds initially.
LEMMA InitIsGood == Init => IInv
<1> SUFFICES ASSUME Init PROVE IInv
  OBVIOUS
<1>1. Good(Idle)
  BY DEF Good, Idle
<1>2. CallsInv
  BY <1>1 DEF Init, CallsInv
<1>3. TempsInv
  BY DEF Init, TempsInv
<1>4. RunsInv
  <2>1. runs = <<>>
    BY DEF Init
  <2>2. Kept(runs) /\ Alone(runs)
    BY <2>1 DEF Kept, Alone
  <2>3. QED
    BY <2>1, <2>2, EmptyFits DEF RunsInv
<1>5. QED
  BY <1>2, <1>3, <1>4 DEF IInv

\* A call that changes to a good one leaves the others good.
LEMMA OneMoves ==
    ASSUME CallsInv, NEW c \in Calls, NEW r, Good(r), call' = [call EXCEPT ![c] = r]
    PROVE  /\ CallsInv' /\ call'[c] = r
           /\ \A d \in Calls \ {c} : call'[d] = call[d]
<1>1. call'[c] = r /\ \A d \in Calls \ {c} : call'[d] = call[d]
  BY DEF CallsInv
<1>2. call' = [d \in Calls |-> call'[d]]
  BY DEF CallsInv
<1>3. QED
  BY <1>1, <1>2 DEF CallsInv

\* A call may end with what belongs to its scope.
LEMMA DoneIsGood ==
    ASSUME NEW scope \in Scopes, NEW answer,
           answer.kind = "run" => answer.run.owner = scope,
           answer.kind = "comparison" => answer.owners = {scope}
    PROVE  Good(Done(scope, answer)) /\ Done(scope, answer).pc = "done"
           /\ Done(scope, answer).answer = answer /\ Done(scope, answer).scope = scope
BY DEF Good, Done, Idle

\* A call may end with an error.
LEMMA ErrorIsGood ==
    ASSUME NEW scope \in Scopes
    PROVE  Good(Done(scope, Error)) /\ Done(scope, Error).pc = "done"
BY DoneIsGood DEF Error

\* A call that ends with an error.
LEMMA Refusing ==
    ASSUME CallsInv, NEW c \in Calls, call[c].pc # "idle", Refuse(c)
    PROVE  /\ CallsInv' /\ call'[c] = Done(call[c].scope, Error)
           /\ \A d \in Calls \ {c} : call'[d] = call[d]
<1>1. call[c].scope \in Scopes
  BY DEF CallsInv, Good
<1>2. QED
  BY <1>1, ErrorIsGood, OneMoves DEF Refuse

\* The temporary copies, when one call moves and its copy stays or goes.
LEMMA TempsFollow ==
    ASSUME CallsInv, TempsInv, NEW c \in Calls,
           \A d \in Calls \ {c} : call'[d] = call[d],
           \/ temps' = temps /\ (call[c].pc # "run" \/ call'[c].pc = "run")
           \/ temps' = temps \cup {c} /\ call'[c].pc = "run"
           \/ temps' = temps \ {c},
           leaked' \in BOOLEAN
    PROVE  TempsInv'
BY DEF TempsInv

\* The first look at a dataset keeps the invariant.
LEMMA LookStep ==
    ASSUME IInv, NEW c \in Calls, NEW scope \in Scopes, NEW node \in Nodes \cup {Nothing},
           Look(c, scope, node)
    PROVE  IInv'
<1> DEFINE r == IF node = Nothing \/ node.symlink
                THEN Done(scope, Error)
                ELSE [Idle EXCEPT !.pc = "resolve", !.scope = scope, !.seen = node.file]
<1>1. Good(r)
  <2>1. Good([Idle EXCEPT !.pc = "resolve", !.scope = scope, !.seen = node.file])
    BY DEF Good, Idle
  <2>2. QED
    BY <2>1, ErrorIsGood
<1>2. call' = [call EXCEPT ![c] = r] /\ UNCHANGED <<temps, leaked, runs>> /\ call[c].pc = "idle"
  BY DEF Look
<1> HIDE DEF r
<1>3. CallsInv' /\ \A d \in Calls \ {c} : call'[d] = call[d]
  BY <1>1, <1>2, OneMoves DEF IInv
<1>4. TempsInv'
  BY <1>2, <1>3, TempsFollow DEF IInv, TempsInv
<1>5. QED
  BY <1>2, <1>3, <1>4 DEF IInv, RunsInv

\* Resolving the path keeps the invariant.
LEMMA ResolveStep ==
    ASSUME IInv, NEW c \in Calls, NEW place \in {"inside", "outside"}, Resolve(c, place)
    PROVE  IInv'
<1>0. Good(call[c]) /\ call[c].pc = "resolve" /\ UNCHANGED <<temps, leaked, runs>>
  BY DEF IInv, CallsInv, Resolve
<1>1. CallsInv' /\ \A d \in Calls \ {c} : call'[d] = call[d]
  <2>1. CASE place = "inside"
    <3> DEFINE r == [call[c] EXCEPT !.pc = "open", !.place = place]
    <3>1. call' = [call EXCEPT ![c] = r]
      BY <2>1 DEF Resolve, IInv, CallsInv
    <3>2. Good(r)
      BY <1>0, <2>1 DEF Good
    <3> HIDE DEF r
    <3>3. QED
      BY <3>1, <3>2, OneMoves DEF IInv
  <2>2. CASE place # "inside"
    BY <1>0, <2>2, Refusing DEF Resolve, IInv
  <2>3. QED
    BY <2>1, <2>2
<1>2. TempsInv'
  BY <1>0, <1>1, TempsFollow DEF IInv, TempsInv
<1>3. QED
  BY <1>0, <1>1, <1>2 DEF IInv, RunsInv

\* Opening the dataset keeps the invariant.
LEMMA OpenStep ==
    ASSUME IInv, NEW c \in Calls, NEW node \in Nodes \cup {Nothing}, Open(c, node)
    PROVE  IInv'
<1>0. Good(call[c]) /\ call[c].pc = "open" /\ UNCHANGED <<temps, leaked, runs>>
  BY DEF IInv, CallsInv, Open
<1>1. CallsInv' /\ \A d \in Calls \ {c} : call'[d] = call[d]
  <2>1. CASE Acceptable(c, node)
    <3> DEFINE r == [call[c] EXCEPT !.pc = "copy", !.opened = node]
    <3>1. call' = [call EXCEPT ![c] = r]
      BY <2>1 DEF Open, IInv, CallsInv
    <3>2. Good(r)
      BY <1>0, <2>1 DEF Good, Acceptable
    <3> HIDE DEF r
    <3>3. QED
      BY <3>1, <3>2, OneMoves DEF IInv
  <2>2. CASE ~Acceptable(c, node)
    BY <1>0, <2>2, Refusing DEF Open, IInv
  <2>3. QED
    BY <2>1, <2>2
<1>2. TempsInv'
  BY <1>0, <1>1, TempsFollow DEF IInv, TempsInv
<1>3. QED
  BY <1>0, <1>1, <1>2 DEF IInv, RunsInv

\* Copying the dataset keeps the invariant, whether it succeeds or not.
LEMMA CopyStep ==
    ASSUME IInv, NEW c \in Calls, Copy(c) \/ CopyFails(c)
    PROVE  IInv'
<1>0. Good(call[c]) /\ call[c].pc = "copy" /\ UNCHANGED runs
  BY DEF IInv, CallsInv, Copy, CopyFails
<1>1. CASE Copy(c)
  <2> DEFINE r == [call[c] EXCEPT !.pc = "run"]
  <2>1. call' = [call EXCEPT ![c] = r] /\ temps' = temps \cup {c} /\ UNCHANGED leaked
    BY <1>1 DEF Copy, IInv, CallsInv
  <2>2. Good(r)
    <3>1. call[c].opened \in Nodes /\ call[c].results = <<>>
      BY <1>0 DEF Good
    <3>2. Len(call[c].opened.dataset.cases) \in Nat
      BY <3>1, NodesAssumption
    <3>3. Partial(call[c].opened.dataset, <<>>)
      BY <3>2 DEF Partial
    <3>4. QED
      BY <1>0, <3>1, <3>3 DEF Good
  <2>3. r.pc = "run"
    BY <1>0 DEF Good
  <2> HIDE DEF r
  <2>4. CallsInv' /\ call'[c] = r /\ \A d \in Calls \ {c} : call'[d] = call[d]
    BY <2>1, <2>2, OneMoves DEF IInv
  <2>5. TempsInv'
    BY <2>1, <2>3, <2>4, TempsFollow DEF IInv, TempsInv
  <2>6. QED
    BY <1>0, <2>4, <2>5 DEF IInv, RunsInv
<1>2. CASE CopyFails(c)
  <2>1. Refuse(c) /\ leaked' = TRUE /\ UNCHANGED temps
    BY <1>2 DEF CopyFails
  <2>2. CallsInv' /\ \A d \in Calls \ {c} : call'[d] = call[d]
    BY <1>0, <2>1, Refusing DEF IInv
  <2>3. TempsInv'
    BY <1>0, <2>1, <2>2, TempsFollow DEF IInv
  <2>4. QED
    BY <1>0, <2>2, <2>3 DEF IInv, RunsInv
<1>3. QED
  BY <1>1, <1>2

\* A run that fails or is cancelled takes its copy along.
LEMMA StopStep ==
    ASSUME IInv, NEW c \in Calls, RunFails(c) \/ Cancel(c)
    PROVE  IInv'
<1>1. call[c].pc = "run" /\ Refuse(c) /\ temps' = temps \ {c} /\ UNCHANGED <<leaked, runs>>
  BY DEF RunFails, Cancel, Awaiting, Unlink
<1>2. CallsInv' /\ \A d \in Calls \ {c} : call'[d] = call[d]
  BY <1>1, Refusing DEF IInv
<1>3. TempsInv'
  BY <1>1, <1>2, TempsFollow DEF IInv, TempsInv
<1>4. QED
  BY <1>1, <1>2, <1>3 DEF IInv, RunsInv

\* A case gets its result.
LEMMA CaseStep ==
    ASSUME IInv, NEW c \in Calls, Awaiting(c), NEW x \in Results, x.case = Case(c),
           call' = [call EXCEPT ![c].results = Append(@, x)], UNCHANGED <<temps, leaked, runs>>
    PROVE  IInv'
<1> DEFINE rs == call[c].results
           d == dataset(c)
           r == [call[c] EXCEPT !.results = Append(rs, x)]
<1>0. Good(call[c]) /\ call[c].pc = "run"
  BY DEF IInv, CallsInv, Awaiting
<1>1. call[c].opened \in Nodes /\ Len(d.cases) \in Nat
  BY <1>0, NodesAssumption DEF Good, dataset
<1>2. Partial(d, rs)
  BY <1>0 DEF Good, dataset
<1>3. Partial(d, Append(rs, x))
  <2>1. Len(rs) < Len(d.cases) /\ x.case = d.cases[Len(rs) + 1]
    BY DEF Awaiting, Pending, Case
  <2> HIDE DEF rs, d
  <2>2. rs \in Seq(Results) /\ Len(rs) \in Nat
    BY <1>2 DEF Partial
  <2>3. /\ Append(rs, x) \in Seq(Results) /\ Len(Append(rs, x)) = Len(rs) + 1
        /\ Append(rs, x)[Len(rs) + 1] = x
        /\ \A j \in DOMAIN rs : Append(rs, x)[j] = rs[j]
        /\ DOMAIN Append(rs, x) = 1..Len(rs) + 1 /\ DOMAIN rs = 1..Len(rs)
    BY <2>2
  <2>4. QED
    BY <1>1, <1>2, <2>1, <2>2, <2>3 DEF Partial
<1>4. Good(r) /\ r.pc = "run"
  BY <1>0, <1>3 DEF Good, dataset
<1>5. call' = [call EXCEPT ![c] = r]
  BY DEF IInv, CallsInv
<1> HIDE DEF r
<1>6. CallsInv' /\ call'[c] = r /\ \A e \in Calls \ {c} : call'[e] = call[e]
  BY <1>4, <1>5, OneMoves DEF IInv
<1>7. TempsInv'
  BY <1>4, <1>6, TempsFollow DEF IInv, TempsInv
<1>8. QED
  BY <1>6, <1>7 DEF IInv, RunsInv

\* A case that is answered, or fails, keeps the invariant.
LEMMA ResultSteps ==
    ASSUME IInv, NEW c \in Calls,
           \/ \E a \in Answers : RunCase(c, a)
           \/ \E latency \in FailureLatencies : CaseFails(c, latency)
    PROVE  IInv'
<1>0. Awaiting(c)
  BY DEF RunCase, CaseFails
<1>1. Case(c) \in AllCases
  <2>1. Good(call[c]) /\ call[c].pc = "run"
    BY <1>0 DEF IInv, CallsInv, Awaiting
  <2> DEFINE d == dataset(c)
  <2>2. call[c].opened \in Nodes /\ Partial(d, call[c].results) /\ d = call[c].opened.dataset
    BY <2>1 DEF Good, dataset
  <2>3. Len(call[c].results) \in Nat
    BY <2>2 DEF Partial
  <2>4. d.cases \in Seq(ToSet(d.cases))
    BY <2>2, NodesAssumption
  <2>5. Len(call[c].results) + 1 \in DOMAIN d.cases
    BY <1>0, <2>3, <2>4 DEF Awaiting, Pending
  <2>6. Case(c) \in ToSet(d.cases)
    BY <2>5 DEF Case, ToSet
  <2>7. QED
    BY <2>2, <2>6 DEF AllCases
<1>2. ASSUME NEW a \in Answers, RunCase(c, a) PROVE IInv'
  <2>1. result(Case(c), a) \in Results /\ result(Case(c), a).case = Case(c)
    BY <1>1 DEF Results, result
  <2>2. QED
    BY <1>0, <1>2, <2>1, CaseStep DEF RunCase
<1>3. ASSUME NEW latency \in FailureLatencies, CaseFails(c, latency) PROVE IInv'
  <2>1. failed_result(Case(c), latency) \in Results
    BY <1>1 DEF Results
  <2>2. failed_result(Case(c), latency).case = Case(c)
    BY DEF failed_result
  <2>3. QED
    BY <1>0, <1>3, <2>1, <2>2, CaseStep DEF CaseFails
<1>4. QED
  BY <1>2, <1>3

\* The run that a call has completed.
LEMMA StoredEntry ==
    ASSUME IInv, NEW c \in Calls, call[c].pc = "run", Loadable(dataset(c)), ~Pending(c)
    PROVE  LET scope == call[c].scope
               run   == Run(dataset(c), call[c].results, scope)
               e     == [scope |-> scope, id |-> run.id, run |-> run]
           IN  /\ scope \in Scopes /\ run.owner = scope
               /\ e.scope = scope /\ e.id = run.id /\ e.run = run
               /\ Entry(e) /\ result_bytes(run) \in Nat
<1> DEFINE scope == call[c].scope
           d     == dataset(c)
           rs    == call[c].results
           run   == Run(d, rs, scope)
           e     == [scope |-> scope, id |-> run.id, run |-> run]
<1>1. Good(call[c])
  BY DEF IInv, CallsInv
<1>2. /\ scope \in Scopes /\ call[c].opened \in Nodes /\ Partial(d, rs)
      /\ d = call[c].opened.dataset
  BY <1>1 DEF Good, dataset
<1>3. Len(d.cases) \in Nat /\ Len(rs) \in Nat
  BY <1>2, NodesAssumption DEF Partial
<1>4. Len(rs) = Len(d.cases) /\ MinCases <= Len(d.cases)
  BY <1>2, <1>3, BoundsAssumption DEF Pending, Loadable, Partial
<1>5. run.owner = scope /\ run.name = d.name /\ run.results = rs
  BY DEF Run
<1> HIDE DEF scope, d, rs, run
<1>6. e.scope = scope /\ e.id = run.id /\ e.run = run
  OBVIOUS
<1> HIDE DEF e
<1>7. Entry(e)
  BY <1>2, <1>4, <1>5, <1>6 DEF Entry
<1>8. result_bytes(run) \in Nat
  BY <1>6, <1>7, EntryType
<1>9. QED
  BY <1>2, <1>5, <1>6, <1>7, <1>8 DEF scope, d, rs, run, e

\* Completing a run keeps the invariant.
LEMMA StoreStep ==
    ASSUME IInv, NEW c \in Calls, Store(c)
    PROVE  IInv'
<1> DEFINE scope == call[c].scope
           run   == Run(dataset(c), call[c].results, scope)
           e     == [scope |-> scope, id |-> run.id, run |-> run]
<1>1. /\ call[c].pc = "run" /\ Loadable(dataset(c)) /\ ~Pending(c)
      /\ temps' = temps \ {c} /\ UNCHANGED leaked
  BY DEF Store, Unlink
<1>2. scope \in Scopes /\ run.owner = scope /\ Entry(e)
  BY <1>1, StoredEntry
<1>3. CASE result_bytes(run) > MaxCacheBytes
  <2>1. Refuse(c) /\ UNCHANGED runs
    BY <1>3 DEF Store
  <2>2. CallsInv' /\ \A d \in Calls \ {c} : call'[d] = call[d]
    BY <1>1, <2>1, Refusing DEF IInv
  <2>3. TempsInv'
    BY <1>1, <2>2, TempsFollow DEF IInv, TempsInv
  <2>4. QED
    BY <2>1, <2>2, <2>3 DEF IInv, RunsInv
<1>4. CASE ~(result_bytes(run) > MaxCacheBytes)
  <2>1. /\ runs' = Evict(Put(runs, e))
        /\ call' = [call EXCEPT ![c] = Done(scope, [kind |-> "run", run |-> run])]
    BY <1>4 DEF Store
  <2> HIDE DEF scope, run, e
  <2>2. Good(Done(scope, [kind |-> "run", run |-> run]))
    BY <1>2, DoneIsGood
  <2>3. CallsInv' /\ \A d \in Calls \ {c} : call'[d] = call[d]
    BY <2>1, <2>2, OneMoves DEF IInv
  <2>4. TempsInv'
    BY <1>1, <2>3, TempsFollow DEF IInv, TempsInv
  <2>5. Kept(Put(runs, e)) /\ Alone(Put(runs, e))
    BY <1>2, PutKeeps DEF IInv, RunsInv
  <2>6. RunsInv'
    BY <2>1, <2>5, EvictKeeps DEF RunsInv
  <2>7. QED
    BY <2>3, <2>4, <2>6 DEF IInv
<1>5. QED
  BY <1>3, <1>4

\* A run that is looked up is one of the scope.
LEMMA Looked ==
    ASSUME RunsInv, NEW scope, NEW id, Stored(scope, id)
    PROVE  /\ Lookup(scope, id) \in DOMAIN runs
           /\ runs[Lookup(scope, id)].scope = scope /\ runs[Lookup(scope, id)].run.owner = scope
<1>1. Lookup(scope, id) \in DOMAIN runs /\ SameKey(runs[Lookup(scope, id)], scope, id)
  BY DEF Stored, Lookup
<1>2. QED
  BY <1>1 DEF RunsInv, Kept, Entry, SameKey

\* A call ends with an answer to its own scope.
Replies(c, scope) ==
    \E answer :
        /\ call' = [call EXCEPT ![c] = Done(scope, answer)]
        /\ answer.kind = "run" => answer.run.owner = scope
        /\ answer.kind = "comparison" => answer.owners = {scope}

\* Reading and comparing runs keeps the invariant.
LEMMA ReadStep ==
    ASSUME IInv, NEW c \in Calls, NEW scope \in Scopes,
           \/ \E id \in Ids : Get(c, scope, id)
           \/ \E base, candidate \in Ids : Compare(c, scope, base, candidate)
    PROVE  IInv'
<1>1. Replies(c, scope)
  <2>1. ASSUME NEW id \in Ids, Get(c, scope, id)
        PROVE  Replies(c, scope)
    <3> DEFINE answer == IF Stored(scope, id)
                         THEN [kind |-> "run", run |-> runs[Lookup(scope, id)].run] ELSE Error
    <3>1. call' = [call EXCEPT ![c] = Done(scope, answer)]
      BY <2>1 DEF Get
    <3>2. answer.kind = "run" => answer.run.owner = scope
      BY Looked DEF Error, IInv
    <3>3. answer.kind # "comparison"
      BY DEF Error
    <3> HIDE DEF answer
    <3>4. QED
      BY <3>1, <3>2, <3>3 DEF Replies
  <2>2. ASSUME NEW base \in Ids, NEW candidate \in Ids, Compare(c, scope, base, candidate)
        PROVE  Replies(c, scope)
    <3> DEFINE a == runs[Lookup(scope, base)].run
               b == runs[Lookup(scope, candidate)].run
               answer == IF Stored(scope, base) /\ Stored(scope, candidate)
                         THEN [kind |-> "comparison", delta |-> compare_runs(a, b),
                               owners |-> {a.owner, b.owner}]
                         ELSE Error
    <3>1. call' = [call EXCEPT ![c] = Done(scope, answer)]
      BY <2>2 DEF Compare
    <3>2. answer.kind = "comparison" => answer.owners = {scope}
      BY Looked DEF Error, IInv
    <3>3. answer.kind # "run"
      BY DEF Error
    <3> HIDE DEF answer
    <3>4. QED
      BY <3>1, <3>2, <3>3 DEF Replies
  <2>3. QED
    BY <2>1, <2>2
<1>2. call[c].pc = "idle" /\ UNCHANGED <<temps, leaked, runs>>
  BY DEF Get, Compare
<1>3. CallsInv' /\ \A d \in Calls \ {c} : call'[d] = call[d]
  <2>1. PICK answer : /\ call' = [call EXCEPT ![c] = Done(scope, answer)]
                      /\ answer.kind = "run" => answer.run.owner = scope
                      /\ answer.kind = "comparison" => answer.owners = {scope}
    BY <1>1 DEF Replies
  <2>2. Good(Done(scope, answer))
    BY <2>1, DoneIsGood
  <2>3. QED
    BY <2>1, <2>2, OneMoves DEF IInv
<1>4. TempsInv'
  BY <1>2, <1>3, TempsFollow DEF IInv, TempsInv
<1>5. QED
  BY <1>2, <1>3, <1>4 DEF IInv, RunsInv

\* Taking the response keeps the invariant.
LEMMA ReturnStep ==
    ASSUME IInv, NEW c \in Calls, Return(c)
    PROVE  IInv'
<1>1. call[c].pc = "done" /\ call' = [call EXCEPT ![c] = Idle] /\ UNCHANGED <<temps, leaked, runs>>
  BY DEF Return
<1>2. Good(Idle)
  BY DEF Good, Idle
<1>3. CallsInv' /\ \A d \in Calls \ {c} : call'[d] = call[d]
  BY <1>1, <1>2, OneMoves DEF IInv
<1>4. TempsInv'
  BY <1>1, <1>3, TempsFollow DEF IInv, TempsInv
<1>5. QED
  BY <1>1, <1>3, <1>4 DEF IInv, RunsInv

\* Every step keeps the invariant.
LEMMA StepIsGood == IInv /\ [Next]_vars => IInv'
<1> SUFFICES ASSUME IInv, [Next]_vars PROVE IInv'
  OBVIOUS
<1>1. CASE UNCHANGED vars
  BY <1>1 DEF vars, IInv, CallsInv, TempsInv, RunsInv
<1>2. ASSUME NEW c \in Calls, Create(c) PROVE IInv'
  BY <1>2, LookStep, ResolveStep, OpenStep, CopyStep, StopStep, ResultSteps, StoreStep DEF Create
<1>3. ASSUME NEW c \in Calls, Read(c) PROVE IInv'
  BY <1>3, ReadStep DEF Read
<1>4. ASSUME NEW c \in Calls, Return(c) PROVE IInv'
  BY <1>4, ReturnStep
<1>5. QED
  BY <1>1, <1>2, <1>3, <1>4 DEF Next

\* The invariant always holds.
LEMMA AlwaysGood == Spec => []IInv
BY InitIsGood, StepIsGood, PTL DEF Spec

-----------------------------------------------------------------------------
(* Theorems                                                                *)

\* The invariant has DatasetIsSafe.
LEMMA InvIsSafe == IInv => DatasetIsSafe
<1> SUFFICES ASSUME IInv PROVE DatasetIsSafe
  OBVIOUS
<1>1. DatasetIsChecked
  BY DEF IInv, CallsInv, Good, DatasetIsChecked
<1>2. CopiesAreRemoved
  BY DEF IInv, TempsInv, CopiesAreRemoved
<1>3. QED
  BY <1>1, <1>2 DEF DatasetIsSafe

\* The invariant has CacheIsSound.
LEMMA InvIsSound == IInv => CacheIsSound
<1> SUFFICES ASSUME IInv PROVE CacheIsSound
  OBVIOUS
<1>1. TypeOK
  BY DEF IInv, CallsInv, Good, TempsInv, RunsInv, Kept, Entry, TypeOK
<1>2. CacheIsBounded
  BY DEF IInv, RunsInv, Fits, CacheIsBounded
<1>3. AnswersAreOwn
  BY DEF IInv, CallsInv, Good, AnswersAreOwn
<1>4. QED
  BY <1>1, <1>2, <1>3 DEF CacheIsSound

\* The invariant has RunsAreHonest.
LEMMA InvIsHonest == IInv => RunsAreHonest
<1> SUFFICES ASSUME IInv PROVE RunsAreHonest
  OBVIOUS
<1>0. ASSUME NEW i \in DOMAIN runs PROVE Entry(runs[i]) /\ Measured(runs[i].run.results)
  BY EntriesAreMeasured DEF IInv, RunsInv, Kept
<1>1. RunsAreComplete
  BY <1>0 DEF RunsAreComplete, Entry, Partial
<1>2. RatesAreHonest
  <2> USE DEF RatesAreHonest
  <2>1. TAKE i \in DOMAIN runs
  <2> DEFINE rs == runs[i].run.results
  <2>2. /\ Count(rs, LAMBDA r : r.case.relevant # {}) = Cardinality(Asked(rs))
        /\ Count(rs, LAMBDA r : r.case.relevant # {} /\ r.status # ERROR)
              = Cardinality(Answered(rs))
    BY DEF Count, Asked, Answered
  <2>3. Measured(rs)
    BY <1>0
  <2> HIDE DEF rs
  <2>4. QED
    BY <2>2, <2>3, RatesOfOne DEF rs
<1>3. PercentilesAreOrdered
  BY <1>0, PercentilesOfOne DEF PercentilesAreOrdered
<1>4. QED
  BY <1>1, <1>2, <1>3 DEF RunsAreHonest

\* Where the entries of a cache are after a create.
LEMMA CreateKeeps ==
    ASSUME NEW s, Kept(s), Alone(s), NEW e, Entry(e), ~(result_bytes(e.run) > MaxCacheBytes)
    PROVE  LET t == Evict(Put(s, e))
           IN  /\ \A x \in ToSet(t) : x.scope # e.scope => x \in ToSet(s)
               /\ \A i, j \in DOMAIN s :
                     i < j /\ s[i] \in ToSet(t) /\ s[j].id # e.id => s[j] \in ToSet(t)
               /\ (\A i \in DOMAIN s : ~SameKey(s[i], e.scope, e.id)) => e \in ToSet(t)
<1> DEFINE p == Put(s, e)
           t == Evict(p)
<1>1. Kept(p) /\ Alone(p)
  BY PutKeeps
<1>2. PICK n \in 0..Len(p) :
         /\ \A k \in 0..Len(p) : Fits(SubSeq(p, k + 1, Len(p))) => n <= k
         /\ Len(t) = Len(p) - n
         /\ \A i \in 1..Len(p) - n : t[i] = p[i + n]
  <2> HIDE DEF p
  <2>1. QED
    BY <1>1, EvictKeeps
<1>3. Kept(t)
  <2> HIDE DEF p
  <2>1. QED
    BY <1>1, EvictKeeps
<1>4. /\ Len(p) \in Nat /\ DOMAIN p = 1..Len(p) /\ DOMAIN t = 1..Len(p) - n
      /\ Len(s) \in Nat /\ DOMAIN s = 1..Len(s)
  BY <1>1, <1>2, <1>3 DEF Kept
<1>5. /\ \A i \in DOMAIN s : i \in DOMAIN p /\ (s[i].id # e.id => p[i] = s[i])
      /\ \A i \in DOMAIN p : p[i] = e \/ (i \in DOMAIN s /\ p[i] = s[i])
      /\ \A i \in DOMAIN s : ~SameKey(s[i], e.scope, e.id) => p[i] = s[i]
      /\ \A i \in DOMAIN s : SameKey(s[i], e.scope, e.id) => p[i] = e
      /\ (\A i \in DOMAIN s : ~SameKey(s[i], e.scope, e.id)) =>
             p[Len(p)] = e /\ Len(p) = Len(s) + 1
  BY PutKeeps
<1>6. SameKey(e, e.scope, e.id)
  BY DEF SameKey
<1> HIDE DEF p, t
<1>7. ASSUME NEW x \in ToSet(t)
      PROVE  \E i \in DOMAIN p : n < i /\ x = p[i]
  <2>1. PICK i \in DOMAIN t : x = t[i]
    BY DEF ToSet
  <2>2. i + n \in DOMAIN p /\ n < i + n /\ x = p[i + n]
    BY <1>2, <1>4, <2>1
  <2>3. QED
    BY <2>2
<1>8. ASSUME NEW i \in DOMAIN p, n < i
      PROVE  p[i] \in ToSet(t)
  <2>1. i - n \in DOMAIN t /\ t[i - n] = p[i]
    BY <1>2, <1>4, <1>8
  <2>2. QED
    BY <2>1 DEF ToSet
<1>9. ASSUME NEW x \in ToSet(t), x.scope # e.scope PROVE x \in ToSet(s)
  BY <1>5, <1>7, <1>9 DEF ToSet
<1>10. ASSUME NEW i \in DOMAIN s, NEW j \in DOMAIN s, i < j, s[i] \in ToSet(t), s[j].id # e.id
       PROVE  s[j] \in ToSet(t)
  <2>1. PICK m \in DOMAIN p : n < m /\ s[i] = p[m]
    BY <1>7, <1>10
  <2>2. SameKey(s[i], s[i].scope, s[i].id)
    BY DEF SameKey
  <2>3. m = i
    <3>1. CASE p[m] = e
      <4>1. SameKey(s[i], e.scope, e.id)
        BY <1>6, <2>1, <3>1
      <4>2. p[i] = e /\ i \in DOMAIN p
        BY <1>5, <4>1
      <4>3. SameKey(p[m], p[i].scope, p[i].id)
        BY <1>6, <3>1, <4>2
      <4>4. QED
        BY <1>1, <4>2, <4>3 DEF Alone
    <3>2. CASE m \in DOMAIN s /\ p[m] = s[m]
      BY <2>1, <2>2, <3>2 DEF Alone
    <3>3. QED
      BY <1>5, <3>1, <3>2
  <2>4. n < j /\ j \in DOMAIN p /\ p[j] = s[j]
    <3>1. n < i /\ i \in Nat /\ j \in Nat /\ n \in Nat
      BY <1>4, <2>1, <2>3
    <3>2. n < j
      BY <1>10, <3>1
    <3>3. QED
      BY <1>5, <1>10, <3>2
  <2>5. QED
    BY <1>8, <2>4
<1>11. ASSUME \A i \in DOMAIN s : ~SameKey(s[i], e.scope, e.id) PROVE e \in ToSet(t)
  <2>1. p[Len(p)] = e /\ Len(p) = Len(s) + 1
    BY <1>5, <1>11
  <2>2. SubSeq(p, Len(p), Len(p)) = <<e>>
    <3>1. p \in Seq(ToSet(p)) /\ Len(p) \in 1..Len(p)
      BY <1>1, <1>4, <2>1 DEF Kept
    <3>2. SubSeq(p, Len(p), Len(p)) = <<p[Len(p)]>>
      BY <3>1, OnePlace
    <3>3. QED
      BY <2>1, <3>2
  <2>3. Fits(SubSeq(p, Len(p), Len(p)))
    BY <2>2, OneFits, Zenon
  <2>4. (Len(p) - 1) + 1 = Len(p) /\ Len(p) - 1 \in 0..Len(p)
    BY <1>4, <2>1
  <2>5. n <= Len(p) - 1
    BY <1>2, <2>3, <2>4
  <2>6. Len(p) \in DOMAIN p /\ n < Len(p)
    BY <1>4, <2>1, <2>5
  <2>7. QED
    BY <1>8, <2>1, <2>6
<1>12. QED
  BY <1>9, <1>10, <1>11 DEF p, t

\* A call changes by its own steps alone.
LEMMA OthersStay ==
    ASSUME IInv, NEW c \in Calls, NEW d \in Calls \ {c}, Create(d) \/ Read(d) \/ Return(d)
    PROVE  call'[c] = call[c]
<1>0. call = [b \in Calls |-> call[b]]
  BY DEF IInv, CallsInv
<1>1. ASSUME NEW scope \in Scopes, NEW node \in Nodes \cup {Nothing}, Look(d, scope, node)
      PROVE  call'[c] = call[c]
  BY <1>0, <1>1 DEF Look
<1>2. ASSUME NEW place \in {"inside", "outside"}, Resolve(d, place)
      PROVE  call'[c] = call[c]
  BY <1>0, <1>2 DEF Resolve, Refuse
<1>3. ASSUME NEW node \in Nodes \cup {Nothing}, Open(d, node)
      PROVE  call'[c] = call[c]
  BY <1>0, <1>3 DEF Open, Refuse
<1>4. CASE Copy(d) \/ CopyFails(d) \/ RunFails(d) \/ Cancel(d)
  BY <1>0, <1>4 DEF Copy, CopyFails, RunFails, Cancel, Refuse
<1>5. ASSUME NEW a \in Answers, RunCase(d, a)
      PROVE  call'[c] = call[c]
  BY <1>0, <1>5 DEF RunCase
<1>6. ASSUME NEW latency \in FailureLatencies, CaseFails(d, latency)
      PROVE  call'[c] = call[c]
  BY <1>0, <1>6 DEF CaseFails
<1>7. CASE Store(d)
  BY <1>0, <1>7 DEF Store, Refuse
<1>8. CASE Read(d)
  BY <1>0, <1>8 DEF Read, Get, Compare
<1>9. CASE Return(d)
  BY <1>0, <1>9 DEF Return
<1>10. QED
  BY <1>1, <1>2, <1>3, <1>4, <1>5, <1>6, <1>7, <1>8, <1>9 DEF Create

\* Only a store answers a call that runs with a run.
LEMMA OnlyStores ==
    ASSUME IInv, [Next]_vars, NEW c \in Calls,
           call[c].pc = "run", call'[c].answer.kind = "run"
    PROVE  Store(c) /\ call'[c] # Done(call[c].scope, Error)
<1>0. /\ Good(call[c]) /\ call[c].answer = [kind |-> "none"]
      /\ call = [b \in Calls |-> call[b]]
  BY DEF IInv, CallsInv, Good
<1>1. call'[c] # Done(call[c].scope, Error)
  <2>1. Done(call[c].scope, Error).answer = [kind |-> "error"]
    BY DEF Done, Idle, Error
  <2>2. QED
    BY <2>1
<1>2. call'[c] # call[c]
  BY <1>0
<1>3. Create(c) \/ Read(c) \/ Return(c)
  BY <1>2, OthersStay DEF Next, vars
<1>4. ~Refuse(c)
  BY <1>0, <1>1 DEF Refuse
<1>5. ~Read(c) /\ ~Return(c)
  BY DEF Read, Get, Compare, Return
<1>6. /\ \A scope \in Scopes, node \in Nodes \cup {Nothing} : ~Look(c, scope, node)
      /\ \A place \in {"inside", "outside"} : ~Resolve(c, place)
      /\ \A node \in Nodes \cup {Nothing} : ~Open(c, node)
      /\ ~Copy(c) /\ ~CopyFails(c)
  BY DEF Look, Resolve, Open, Copy, CopyFails
<1>7. ~RunFails(c) /\ ~Cancel(c)
  BY <1>4 DEF RunFails, Cancel
<1>8. ASSUME NEW a \in Answers PROVE ~RunCase(c, a)
  <2>1. SUFFICES ASSUME RunCase(c, a) PROVE FALSE
    OBVIOUS
  <2>2. call'[c].answer = call[c].answer
    BY <1>0, <2>1 DEF RunCase, Good
  <2>3. QED
    BY <1>0, <2>2
<1>9. ASSUME NEW latency \in FailureLatencies PROVE ~CaseFails(c, latency)
  <2>1. SUFFICES ASSUME CaseFails(c, latency) PROVE FALSE
    OBVIOUS
  <2>2. call'[c].answer = call[c].answer
    BY <1>0, <2>1 DEF CaseFails, Good
  <2>3. QED
    BY <1>0, <2>2
<1>10. QED
  BY <1>1, <1>3, <1>5, <1>6, <1>7, <1>8, <1>9 DEF Create

\* What CreatesAreKept says of a step.
LEMMA StepKeeps ==
    ASSUME IInv, [Next]_vars, NEW c \in Calls,
           call[c].pc = "run", call'[c].answer.kind = "run"
    PROVE  LET scope == call[c].scope
               run   == call'[c].answer.run
           IN  /\ \A e \in ToSet(runs') : e.scope # scope => e \in ToSet(runs)
               /\ \A i, j \in DOMAIN runs :
                     i < j /\ runs[i] \in ToSet(runs') /\ runs[j].id # run.id =>
                         runs[j] \in ToSet(runs')
               /\ ~Stored(scope, run.id) =>
                     \E e \in ToSet(runs') : e.scope = scope /\ e.run = run
<1> DEFINE scope == call[c].scope
           run   == Run(dataset(c), call[c].results, scope)
           e     == [scope |-> scope, id |-> run.id, run |-> run]
<1>1. Store(c) /\ call'[c] # Done(scope, Error) /\ call = [b \in Calls |-> call[b]]
  BY OnlyStores DEF IInv, CallsInv
<1>2. Loadable(dataset(c)) /\ ~Pending(c)
  BY <1>1 DEF Store
<1>3. Entry(e) /\ e.scope = scope /\ e.id = run.id /\ e.run = run
  BY <1>2, StoredEntry
<1>4. ~(result_bytes(run) > MaxCacheBytes)
  BY <1>1 DEF Store, Refuse
<1>5. /\ runs' = Evict(Put(runs, e))
      /\ call'[c] = Done(scope, [kind |-> "run", run |-> run])
  BY <1>1, <1>4 DEF Store
<1>6. call'[c].answer.run = run
  BY <1>5 DEF Done, Idle
<1> HIDE DEF scope, run, e
<1>7. /\ \A x \in ToSet(runs') : x.scope # e.scope => x \in ToSet(runs)
      /\ \A i, j \in DOMAIN runs :
            i < j /\ runs[i] \in ToSet(runs') /\ runs[j].id # e.id => runs[j] \in ToSet(runs')
      /\ (\A i \in DOMAIN runs : ~SameKey(runs[i], e.scope, e.id)) => e \in ToSet(runs')
  BY <1>3, <1>4, <1>5, CreateKeeps DEF IInv, RunsInv
<1>8. ~Stored(scope, run.id) => e \in ToSet(runs')
  BY <1>3, <1>7 DEF Stored
<1>9. QED
  BY <1>3, <1>6, <1>7, <1>8 DEF scope

\* A dataset is run from a copy of the file that was checked, whose path was resolved to a
\* place under a root, and the copy goes with its call, however it ends (checked_dataset,
\* create_benchmark_run).
THEOREM DatasetsAreSafe == Spec => []DatasetIsSafe
BY AlwaysGood, InvIsSafe, PTL

\* The cache keeps both of its bounds, and no scope is answered with a run of another
\* (create_benchmark_run, get_benchmark_run, compare_benchmark_runs).
THEOREM CacheIsKeptSound == Spec => []CacheIsSound
BY AlwaysGood, InvIsSound, PTL

\* A run that is kept has a result for every case; a failed case counts against every
\* rate; no rate exceeds one; the 95th percentile is not below the median, for every
\* dataset and every answer (FactorBenchRunner.run, aggregate_metrics).
THEOREM MetricsAreHonest == Spec => []RunsAreHonest
BY AlwaysGood, InvIsHonest, PTL

\* A create replaces no run of another scope, evicts the oldest first and keeps what it
\* answers (create_benchmark_run).
THEOREM NothingElseIsEvicted == Spec => CreatesAreKept
<1>1. IInv /\ [Next]_vars =>
          \A c \in Calls :
             call[c].pc = "run" /\ call'[c].answer.kind = "run" =>
                 LET scope == call[c].scope
                     run   == call'[c].answer.run
                 IN  /\ \A e \in ToSet(runs') : e.scope # scope => e \in ToSet(runs)
                     /\ \A i, j \in DOMAIN runs :
                           i < j /\ runs[i] \in ToSet(runs') /\ runs[j].id # run.id =>
                               runs[j] \in ToSet(runs')
                     /\ ~Stored(scope, run.id) =>
                           \E e \in ToSet(runs') : e.scope = scope /\ e.run = run
  BY StepKeeps
<1>2. QED
  BY <1>1, AlwaysGood, PTL DEF Spec, CreatesAreKept
===============================================================================
