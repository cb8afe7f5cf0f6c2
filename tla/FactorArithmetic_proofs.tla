----------------------- MODULE FactorArithmetic_proofs ------------------------
(***************************************************************************)
(* For every unit table, request, record and answer of the repositories:   *)
(* the total of a candidate is its factor times the requested quantity,    *)
(* no unit is taken for another, an adjustment is the difference of two    *)
(* processes, an interpolated factor lies between its anchors, and a       *)
(* request whose units have a reason code never gets a candidate.          *)
(*                                                                         *)
(* The proofs go from the recursion of gcd to the arithmetic of fractions  *)
(* in lowest terms, from there to what a conversion keeps (Measure, Rate), *)
(* to what the routers make of a candidate (Sound, Aligned), and to the    *)
(* invariant of the steps (ArithmeticInv).                                 *)
(***************************************************************************)
EXTENDS FactorArithmetic, WellFoundedInduction, TLAPS

Under == {ss \in Nat \X Nat : ss[1] < ss[2]}

\* A set of numbers that is not empty has a least one.
LEMMA LeastNat ==
    ASSUME NEW T \in SUBSET Nat, T # {}
    PROVE \E x \in T : \A y \in T : x <= y
<1>1. OpToRel(<, Nat) = Under
  BY Zenon DEF OpToRel, Under
<1>2. IsWellFoundedOn(Under, Nat)
  BY <1>1, NatLessThanWellFounded, Zenon
<1>3. PICK x \in T : \A y \in T : ~ (<<y, x>> \in Under)
  BY <1>2, WFMin
<1>4. ASSUME NEW y \in T PROVE x <= y
  <2>1. <<y, x>> \notin Under
    BY <1>3
  <2>2. QED
    BY <2>1 DEF Under
<1>5. QED
  BY <1>4

\* What holds of a number if it holds of all smaller ones holds of all.
LEMMA Descending ==
    ASSUME NEW T \in SUBSET Nat,
           \A n \in Nat : (\A m \in Nat : m < n => m \in T) => n \in T
    PROVE  T = Nat
<1> SUFFICES ASSUME Nat \ T # {} PROVE FALSE
  OBVIOUS
<1>1. PICK x \in Nat \ T : \A y \in Nat \ T : x <= y
  BY LeastNat
<1>2. \A m \in Nat : m < x => m \in T
  BY <1>1
<1>3. QED
  BY <1>1, <1>2

-----------------------------------------------------------------------------
\* Division with remainder.
LEMMA Division ==
    ASSUME NEW a \in Nat, NEW b \in Nat \ {0}
    PROVE  \E q \in Nat, r \in Nat : q = a \div b /\ r = a % b /\ r < b /\ a = b * q + r
<1>1. PICK q \in Int : q = a \div b
  OBVIOUS
<1>2. PICK r \in Int : r = a % b
  OBVIOUS
<1>3. r \in Nat /\ r < b /\ a = b * q + r
  BY <1>1, <1>2
<1>4. ASSUME q < 0 PROVE FALSE
  <2>1. q + 1 <= 0
    BY <1>3, <1>4
  <2>2. b * (q + 1) <= 0
    BY <1>3, <2>1
  <2>3. b * (q + 1) = b * q + b
    BY <1>3
  <2>4. QED
    BY <1>3, <2>2, <2>3
<1>5. q \in Nat
  BY <1>4
<1>6. QED
  BY <1>1, <1>2, <1>3, <1>5

\* It is unique.
LEMMA DivisionIsUnique ==
    ASSUME NEW a \in Nat, NEW b \in Nat \ {0},
           NEW q \in Nat, NEW r \in Nat, NEW p \in Nat, NEW s \in Nat,
           r < b, s < b, a = b * q + r, a = b * p + s
    PROVE  r = s
<1>1. CASE q < p
  <2>1. b * q + b <= b * p
    <3>1. q + 1 <= p
      BY <1>1
    <3>2. b * (q + 1) <= b * p
      BY <3>1
    <3>3. b * (q + 1) = b * q + b
      OBVIOUS
    <3>4. QED
      BY <3>2, <3>3
  <2>2. QED
    BY <2>1
<1>2. CASE p < q
  <2>1. p + 1 <= q
    BY <1>2
  <2>2. b * (p + 1) <= b * q
    BY <2>1
  <2>3. b * (p + 1) = b * p + b
    OBVIOUS
  <2>4. QED
    BY <2>2, <2>3
<1>3. CASE p = q
  BY <1>3
<1>4. QED
  BY <1>1, <1>2, <1>3

\* Both parts scaled, the remainder is scaled.
LEMMA RemainderScales ==
    ASSUME NEW a \in Nat, NEW b \in Nat \ {0}, NEW k \in Nat \ {0}
    PROVE  (k * a) % (k * b) = k * (a % b)
<1>1. PICK q \in Nat, r \in Nat : r = a % b /\ r < b /\ a = b * q + r
  BY Division
<1>2. k * a \in Nat /\ k * b \in Nat \ {0} /\ k * r \in Nat
  BY <1>1
<1>3. k * r < k * b
  BY <1>1
<1>4. k * a = (k * b) * q + k * r
  <2>1. k * (b * q + r) = (k * b) * q + k * r
    BY <1>1
  <2>2. QED
    BY <1>1, <2>1
<1> DEFINE A == k * a
           B == k * b
           R == k * r
<1>5. A \in Nat /\ B \in Nat \ {0} /\ R \in Nat /\ R < B /\ A = B * q + R
  BY <1>2, <1>3, <1>4
<1> HIDE DEF A, B, R
<1>6. PICK p \in Nat, s \in Nat : s = A % B /\ s < B /\ A = B * p + s
  BY <1>5, Division
<1>7. s = R
  <2>1. /\ A \in Nat /\ B \in Nat \ {0} /\ q \in Nat /\ R \in Nat /\ p \in Nat /\ s \in Nat
        /\ R < B /\ s < B /\ A = B * q + R /\ A = B * p + s
    BY <1>1, <1>5, <1>6
  <2>2. QED
    BY <2>1, DivisionIsUnique
<1>8. A % B = R
  BY <1>6, <1>7, Zenon
<1>9. QED
  BY <1>1, <1>8, Zenon DEF A, B, R

\* A multiple divides without remainder.
LEMMA MultipleDivides ==
    ASSUME NEW m \in Int, NEW k \in Nat \ {0}
    PROVE  (k * m) \div k = m
OBVIOUS

-----------------------------------------------------------------------------
(* The recursion of gcd has a solution: the greatest common divisor.       *)

Divides(k, n) == \E q \in Nat : n = k * q

Commons(a, b) == {k \in Nat \ {0} : Divides(k, a) /\ Divides(k, b)}

Greatest(S) == CHOOSE m \in S : \A k \in S : k <= m

Solution ==
    [p \in Nat \X Nat |-> IF p[2] = 0 THEN p[1] ELSE Greatest(Commons(p[1], p[2]))]

\* The step of the recursion keeps the common divisors.
LEMMA CommonsStep ==
    ASSUME NEW a \in Nat, NEW b \in Nat \ {0}
    PROVE  Commons(a, b) = Commons(b, a % b)
<1>1. PICK q \in Nat, r \in Nat : r = a % b /\ r < b /\ a = b * q + r
  BY Division
<1>2. ASSUME NEW k \in Nat \ {0}, Divides(k, b)
      PROVE  Divides(k, a) <=> Divides(k, r)
  <2>1. PICK x \in Nat : b = k * x
    BY <1>2 DEF Divides
  <2>2. ASSUME Divides(k, r) PROVE Divides(k, a)
    <3>1. PICK y \in Nat : r = k * y
      BY <2>2 DEF Divides
    <3>2. k * (x * q + y) = (k * x) * q + k * y
      OBVIOUS
    <3>3. a = k * (x * q + y) /\ x * q + y \in Nat
      BY <1>1, <2>1, <3>1, <3>2
    <3>4. QED
      BY <3>3 DEF Divides
  <2>3. ASSUME Divides(k, a) PROVE Divides(k, r)
    <3>1. PICK y \in Nat : a = k * y
      BY <2>3 DEF Divides
    <3> DEFINE z == x * q
    <3>2. z \in Nat /\ b * q = k * z
      <4>1. (k * x) * q = k * (x * q)
        OBVIOUS
      <4>2. QED
        BY <2>1, <4>1
    <3> HIDE DEF z
    <3>3. r = k * y - k * z
      <4>1. b * q \in Nat /\ a = b * q + r
        BY <1>1
      <4>2. r = a - b * q
        BY <4>1
      <4>3. QED
        BY <3>1, <3>2, <4>2, Zenon
    <3>4. k * y - k * z = k * (y - z)
      BY <3>2
    <3>5. y - z >= 0
      <4> SUFFICES ASSUME y - z < 0 PROVE FALSE
        BY <3>2
      <4>1. k * (y - z) < 0
        BY <3>2
      <4>2. QED
        BY <1>1, <3>3, <3>4, <4>1
    <3>6. y - z \in Nat /\ r = k * (y - z)
      BY <3>2, <3>3, <3>4, <3>5
    <3>7. QED
      BY <3>6 DEF Divides
  <2>4. QED
    BY <2>2, <2>3
<1>3. QED
  BY <1>1, <1>2 DEF Commons

\* The greatest divisor of a number is the number.
LEMMA GreatestOfOne ==
    ASSUME NEW b \in Nat \ {0}
    PROVE  Greatest(Commons(b, 0)) = b
<1>1. b \in Commons(b, 0)
  <2>1. b = b * 1 /\ 0 = b * 0
    OBVIOUS
  <2>2. QED
    BY <2>1 DEF Commons, Divides
<1>2. ASSUME NEW k \in Commons(b, 0) PROVE k <= b /\ k \in Nat
  <2>1. PICK q \in Nat : b = k * q /\ k \in Nat \ {0}
    BY DEF Commons, Divides
  <2>2. q >= 1
    BY <2>1
  <2>3. k * q >= k * 1
    BY <2>1, <2>2
  <2>4. QED
    BY <2>1, <2>3
<1> DEFINE S == Commons(b, 0)
<1> HIDE DEF S
<1>3. b \in S /\ \A k \in S : k <= b /\ k \in Nat
  BY <1>1, <1>2 DEF S
<1>4. PICK g : g = Greatest(S)
  OBVIOUS
<1>5. g \in S /\ b <= g
  BY <1>3, <1>4 DEF Greatest
<1>6. g = b
  BY <1>3, <1>5
<1>7. QED
  BY <1>4, <1>6, Zenon DEF S

\* The greatest common divisor solves the recursion of gcd.
LEMMA SolutionSolves ==
    Solution = [p \in Nat \X Nat |-> IF p[2] = 0 THEN p[1] ELSE Solution[<<p[2], p[1] % p[2]>>]]
<1>1. ASSUME NEW a \in Nat, NEW b \in Nat \ {0}
      PROVE  Greatest(Commons(a, b)) = Solution[<<b, a % b>>]
  <2>1. PICK r \in Nat : r = a % b
    BY Division
  <2>2. Commons(a, b) = Commons(b, r)
    BY <2>1, CommonsStep
  <2>3. <<b, r>> \in Nat \X Nat /\ <<b, r>>[1] = b /\ <<b, r>>[2] = r
    OBVIOUS
  <2>4. CASE r = 0
    <3>1. Solution[<<b, r>>] = b
      BY <2>3, <2>4 DEF Solution
    <3>2. QED
      BY <2>1, <2>2, <2>4, <3>1, GreatestOfOne
  <2>5. CASE r # 0
    <3>1. Solution[<<b, r>>] = Greatest(Commons(b, r))
      BY <2>3, <2>5 DEF Solution
    <3>2. QED
      BY <2>1, <2>2, <3>1
  <2>6. QED
    BY <2>4, <2>5
<1> DEFINE F(p) == IF p[2] = 0 THEN p[1] ELSE Solution[<<p[2], p[1] % p[2]>>]
           H(p) == IF p[2] = 0 THEN p[1] ELSE Greatest(Commons(p[1], p[2]))
<1>2. \A p \in Nat \X Nat : F(p) = H(p)
  BY <1>1
<1>3. Solution = [p \in Nat \X Nat |-> H(p)]
  BY DEF Solution
<1> HIDE DEF F, H
<1>4. Solution = [p \in Nat \X Nat |-> F(p)]
  BY <1>2, <1>3
<1>5. QED
  BY <1>4 DEF F

\* So gcd is defined by its own equation.
LEMMA GcdEquation ==
    gcd = [p \in Nat \X Nat |-> IF p[2] = 0 THEN p[1] ELSE gcd[<<p[2], p[1] % p[2]>>]]
<1> DEFINE IsGcd(f) ==
        f = [p \in Nat \X Nat |-> IF p[2] = 0 THEN p[1] ELSE f[<<p[2], p[1] % p[2]>>]]
<1>1. IsGcd(Solution)
  BY SolutionSolves
<1>2. gcd = CHOOSE f : IsGcd(f)
  BY Zenon DEF gcd
<1> HIDE DEF IsGcd
<1>3. IsGcd(gcd)
  BY <1>1, <1>2, Zenon
<1>4. QED
  BY <1>3 DEF IsGcd

-----------------------------------------------------------------------------
(* gcd.                                                                    *)

\* The equation at one pair.
LEMMA GcdStep ==
    ASSUME NEW a \in Nat, NEW b \in Nat
    PROVE  /\ gcd[<<a, 0>>] = a
           /\ b # 0 => gcd[<<a, b>>] = gcd[<<b, a % b>>]
<1>1. /\ <<a, 0>> \in Nat \X Nat /\ <<a, b>> \in Nat \X Nat
      /\ <<a, 0>>[1] = a /\ <<a, 0>>[2] = 0 /\ <<a, b>>[1] = a /\ <<a, b>>[2] = b
  OBVIOUS
<1>2. QED
  BY <1>1, GcdEquation

\* It divides both, and is positive unless both are zero.
LEMMA GcdDivides ==
    ASSUME NEW a \in Nat, NEW b \in Nat, a # 0 \/ b # 0
    PROVE  \E g \in Nat \ {0} : g = gcd[<<a, b>>] /\ Divides(g, a) /\ Divides(g, b)
<1> DEFINE Good(x, y) ==
        \E g \in Nat \ {0} : g = gcd[<<x, y>>] /\ Divides(g, x) /\ Divides(g, y)
           T == {y \in Nat : \A x \in Nat : x # 0 \/ y # 0 => Good(x, y)}
<1>1. ASSUME NEW n \in Nat, \A m \in Nat : m < n => m \in T
      PROVE  n \in T
  <2> SUFFICES ASSUME NEW x \in Nat, x # 0 \/ n # 0 PROVE Good(x, n)
    BY DEF T
  <2>1. CASE n = 0
    <3>1. x = x * 1 /\ n = x * 0
      BY <2>1
    <3>2. Divides(x, x) /\ Divides(x, n)
      BY <3>1 DEF Divides
    <3>3. gcd[<<x, n>>] = x /\ x \in Nat \ {0}
      BY <2>1, GcdStep
    <3>4. QED
      BY <3>2, <3>3
  <2>2. CASE n # 0
    <3>1. PICK q \in Nat, r \in Nat : r = x % n /\ r < n /\ x = n * q + r
      <4>1. n \in Nat \ {0}
        BY <2>2
      <4>2. \E q \in Nat, r \in Nat : q = x \div n /\ r = x % n /\ r < n /\ x = n * q + r
        BY <4>1, Division
      <4>3. QED
        BY <4>2, Zenon
    <3>2. Good(n, r)
      BY <1>1, <2>2, <3>1
    <3>3. PICK g \in Nat \ {0} : g = gcd[<<n, r>>] /\ Divides(g, n) /\ Divides(g, r)
      BY <3>2
    <3>4. g = gcd[<<x, n>>]
      BY <2>2, <3>1, <3>3, GcdStep
    <3>5. Divides(g, x)
      <4>1. PICK y \in Nat, z \in Nat : n = g * y /\ r = g * z
        BY <3>3 DEF Divides
      <4>2. g * (y * q + z) = (g * y) * q + g * z
        OBVIOUS
      <4>3. x = g * (y * q + z) /\ y * q + z \in Nat
        BY <3>1, <4>1, <4>2
      <4>4. QED
        BY <4>3 DEF Divides
    <3>6. QED
      BY <3>3, <3>4, <3>5
  <2>3. QED
    BY <2>1, <2>2
<1>2. T = Nat
  <2> HIDE DEF T
  <2>1. T \in SUBSET Nat
    BY DEF T
  <2>2. QED
    BY <1>1, <2>1, Descending
<1>3. b \in T
  BY <1>2
<1>4. QED
  BY <1>3

\* It scales.
LEMMA GcdScales ==
    ASSUME NEW a \in Nat, NEW b \in Nat, NEW k \in Nat \ {0}
    PROVE  gcd[<<k * a, k * b>>] = k * gcd[<<a, b>>]
<1> DEFINE Good(x, y) == gcd[<<k * x, k * y>>] = k * gcd[<<x, y>>]
           T == {y \in Nat : \A x \in Nat : Good(x, y)}
<1>1. ASSUME NEW n \in Nat, \A m \in Nat : m < n => m \in T
      PROVE  n \in T
  <2> SUFFICES ASSUME NEW x \in Nat PROVE Good(x, n)
    BY DEF T
  <2>1. CASE n = 0
    <3>1. k * n = 0 /\ k * x \in Nat
      BY <2>1
    <3>2. gcd[<<k * x, 0>>] = k * x /\ gcd[<<x, 0>>] = x
      BY <3>1, GcdStep
    <3>3. QED
      BY <2>1, <3>1, <3>2, Zenon
  <2>2. CASE n # 0
    <3>1. PICK q \in Nat, r \in Nat : r = x % n /\ r < n /\ x = n * q + r
      <4>1. n \in Nat \ {0}
        BY <2>2
      <4>2. \E q \in Nat, r \in Nat : q = x \div n /\ r = x % n /\ r < n /\ x = n * q + r
        BY <4>1, Division
      <4>3. QED
        BY <4>2, Zenon
    <3>2. Good(n, r)
      BY <1>1, <3>1
    <3>3. (k * x) % (k * n) = k * r
      <4>1. n \in Nat \ {0}
        BY <2>2
      <4>2. (k * x) % (k * n) = k * (x % n)
        BY <4>1, RemainderScales, Zenon
      <4>3. QED
        BY <3>1, <4>2, Zenon
    <3>4. k * x \in Nat /\ k * n \in Nat /\ k * n # 0
      BY <2>2
    <3>5. gcd[<<k * x, k * n>>] = gcd[<<k * n, (k * x) % (k * n)>>]
      BY <3>4, GcdStep, Zenon
    <3>6. gcd[<<x, n>>] = gcd[<<n, r>>]
      BY <2>2, <3>1, GcdStep
    <3>7. QED
      BY <3>2, <3>3, <3>5, <3>6, Zenon
  <2>3. QED
    BY <2>1, <2>2
<1>2. T = Nat
  <2> HIDE DEF T
  <2>1. T \in SUBSET Nat
    BY DEF T
  <2>2. QED
    BY <1>1, <2>1, Descending
<1>3. b \in T
  BY <1>2
<1>4. QED
  BY <1>3

-----------------------------------------------------------------------------
(* Fractions in lowest terms.                                              *)

Abs(n) == IF n < 0 THEN -n ELSE n

\* What Reduced does to numerator and denominator.
LEMMA ReducedParts ==
    ASSUME NEW n \in Int, NEW d \in Nat \ {0}
    PROVE  \E x \in Int, y \in Nat \ {0}, g \in Nat \ {0} :
              /\ Reduced(n, d) = <<x, y>> /\ n = g * x /\ d = g * y
              /\ g = gcd[<<Abs(n), d>>]
<1>1. Abs(n) \in Nat
  BY DEF Abs
<1>2. PICK g \in Nat \ {0} : g = gcd[<<Abs(n), d>>] /\ Divides(g, Abs(n)) /\ Divides(g, d)
  BY <1>1, GcdDivides
<1>3. PICK u \in Nat, y \in Nat : Abs(n) = g * u /\ d = g * y
  BY <1>2 DEF Divides
<1>4. y # 0
  <2>1. g * 0 = 0
    OBVIOUS
  <2>2. QED
    BY <1>3, <2>1
<1>5. PICK x \in Int : n = g * x
  <2>1. CASE n < 0
    <3>1. g * (-u) = -(g * u)
      OBVIOUS
    <3>2. n = g * (-u)
      BY <1>3, <2>1, <3>1 DEF Abs
    <3>3. QED
      BY <3>2
  <2>2. CASE n >= 0
    BY <1>3, <2>2 DEF Abs
  <2>3. QED
    BY <2>1, <2>2
<1>6. n \div g = x /\ d \div g = y
  BY <1>3, <1>5, MultipleDivides
<1>7. Reduced(n, d) = <<n \div g, d \div g>>
  BY <1>2, Zenon DEF Reduced, Abs
<1>8. QED
  BY <1>2, <1>3, <1>4, <1>5, <1>6, <1>7

\* A common factor makes no difference.
LEMMA ReducedScales ==
    ASSUME NEW n \in Int, NEW d \in Nat \ {0}, NEW k \in Nat \ {0}
    PROVE  Reduced(k * n, k * d) = Reduced(n, d)
<1>1. PICK x \in Int, y \in Nat \ {0}, g \in Nat \ {0} :
         /\ Reduced(n, d) = <<x, y>> /\ n = g * x /\ d = g * y
         /\ g = gcd[<<Abs(n), d>>]
  BY ReducedParts
<1>2. k * n \in Int /\ k * d \in Nat \ {0} /\ Abs(n) \in Nat /\ k * g \in Nat \ {0}
  BY DEF Abs
<1>3. Abs(k * n) = k * Abs(n)
  <2>1. CASE n < 0
    <3>1. k * n < 0 /\ -(k * n) = k * (-n)
      BY <2>1
    <3>2. QED
      BY <2>1, <3>1 DEF Abs
  <2>2. CASE n >= 0
    <3>1. k * n >= 0
      BY <2>2
    <3>2. QED
      BY <1>2, <2>2, <3>1 DEF Abs
  <2>3. QED
    BY <2>1, <2>2
<1>4. gcd[<<Abs(k * n), k * d>>] = k * g
  <2>1. gcd[<<k * Abs(n), k * d>>] = k * gcd[<<Abs(n), d>>]
    BY <1>2, GcdScales
  <2>2. QED
    BY <1>1, <1>3, <2>1, Zenon
<1>5. k * n = (k * g) * x /\ k * d = (k * g) * y
  <2>1. k * (g * x) = (k * g) * x /\ k * (g * y) = (k * g) * y
    OBVIOUS
  <2>2. QED
    BY <1>1, <2>1, Zenon
<1> DEFINE N == k * n
           D == k * d
           G == k * g
<1>6. Reduced(N, D) = <<N \div G, D \div G>>
  BY <1>4, Zenon DEF Reduced, Abs
<1>7. N \div G = x /\ D \div G = y
  <2>1. N = G * x /\ D = G * y /\ G \in Nat \ {0}
    BY <1>2, <1>5
  <2> HIDE DEF N, D, G
  <2>2. QED
    BY <2>1, MultipleDivides
<1>8. QED
  BY <1>1, <1>6, <1>7, Zenon

\* A reduced fraction has the ratio it was reduced from.
LEMMA ReducedForm ==
    ASSUME NEW n \in Int, NEW d \in Nat \ {0}
    PROVE  \E x \in Int, y \in Nat \ {0}, g \in Nat \ {0} :
              Reduced(n, d) = <<x, y>> /\ n = g * x /\ d = g * y
<1>1. PICK x \in Int, y \in Nat \ {0}, g \in Nat \ {0} :
         /\ Reduced(n, d) = <<x, y>> /\ n = g * x /\ d = g * y
         /\ g = gcd[<<Abs(n), d>>]
  BY ReducedParts
<1>2. QED
  BY <1>1, Zenon

\* Equal ratios have one form in lowest terms.
LEMMA SameRatio ==
    ASSUME NEW n \in Int, NEW d \in Nat \ {0}, NEW m \in Int, NEW e \in Nat \ {0},
           n * e = m * d
    PROVE  Reduced(n, d) = Reduced(m, e)
<1>1. Reduced(e * n, e * d) = Reduced(n, d)
  BY ReducedScales
<1>2. Reduced(d * m, d * e) = Reduced(m, e)
  BY ReducedScales
<1>3. e * n = d * m /\ e * d = d * e
  OBVIOUS
<1>4. QED
  BY <1>1, <1>2, <1>3, Zenon

\* What Reduced returns is a fraction in lowest terms, of the same ratio and sign.
LEMMA ReducedIsFraction ==
    ASSUME NEW n \in Int, NEW d \in Nat \ {0}
    PROVE  /\ Reduced(n, d) \in Fractions
           /\ n > 0 => Reduced(n, d) \in Positive
<1>1. PICK x \in Int, y \in Nat \ {0}, g \in Nat \ {0} :
         Reduced(n, d) = <<x, y>> /\ n = g * x /\ d = g * y
  BY ReducedForm
<1>2. Reduced(g * x, g * y) = Reduced(x, y)
  BY ReducedScales
<1>3. Reduced(x, y) = <<x, y>>
  BY <1>1, <1>2, Zenon
<1>4. <<x, y>> \in Fractions
  BY <1>3 DEF Fractions
<1>5. n > 0 => x > 0
  <2> SUFFICES ASSUME n > 0, x <= 0 PROVE FALSE
    OBVIOUS
  <2>1. g * x <= 0
    OBVIOUS
  <2>2. QED
    BY <1>1, <2>1
<1>6. QED
  BY <1>1, <1>4, <1>5 DEF Positive

\* A fraction is a ratio in lowest terms.
LEMMA FractionIsReduced ==
    ASSUME NEW q \in Fractions
    PROVE  \E n \in Int, d \in Nat \ {0} : q = <<n, d>> /\ q = Reduced(n, d)
BY DEF Fractions

\* A positive fraction by its parts.
LEMMA PositiveIsReduced ==
    ASSUME NEW q \in Positive
    PROVE  \E n \in Nat \ {0}, d \in Nat \ {0} : q = <<n, d>> /\ q = Reduced(n, d)
BY DEF Positive, Fractions

\* Denominators multiply to denominators.
LEMMA Products ==
    \A x, y \in Nat \ {0} : x * y \in Nat \ {0}
OBVIOUS

\* Factors change their places.
LEMMA Interchange ==
    ASSUME NEW g \in Int, NEW h \in Int, NEW x \in Int, NEW u \in Int
    PROVE  (g * h) * (x * u) = (g * x) * (h * u)
OBVIOUS

\* So do those of a sum of cross products.
LEMMA InterchangeSum ==
    ASSUME NEW g \in Int, NEW h \in Int, NEW x \in Int, NEW y \in Int,
           NEW u \in Int, NEW v \in Int
    PROVE  (g * h) * (x * v + u * y) = (g * x) * (h * v) + (h * u) * (g * y)
OBVIOUS

\* Products, quotients and sums of ratios.
LEMMA TimesRatios ==
    ASSUME NEW n \in Int, NEW d \in Nat \ {0}, NEW m \in Int, NEW e \in Nat \ {0}
    PROVE  Times(Reduced(n, d), Reduced(m, e)) = Reduced(n * m, d * e)
<1>1. PICK x \in Int, y \in Nat \ {0}, g \in Nat \ {0} :
         Reduced(n, d) = <<x, y>> /\ n = g * x /\ d = g * y
  BY ReducedForm
<1>2. PICK u \in Int, v \in Nat \ {0}, h \in Nat \ {0} :
         Reduced(m, e) = <<u, v>> /\ m = h * u /\ e = h * v
  BY ReducedForm
<1>3. Times(<<x, y>>, <<u, v>>) = Reduced(x * u, y * v)
  BY DEF Times
<1>4. /\ x * u \in Int /\ y * v \in Nat \ {0} /\ g * h \in Nat \ {0}
      /\ g \in Int /\ h \in Int /\ y \in Int /\ v \in Int
  <2>1. x * u \in Int /\ g \in Int /\ h \in Int /\ y \in Int /\ v \in Int
    OBVIOUS
  <2>2. QED
    BY <2>1, Products, Zenon
<1>5. Reduced((g * h) * (x * u), (g * h) * (y * v)) = Reduced(x * u, y * v)
  BY <1>4, ReducedScales, Zenon
<1>6. /\ (g * h) * (x * u) = (g * x) * (h * u)
      /\ (g * h) * (y * v) = (g * y) * (h * v)
  <2>1. (g * h) * (x * u) = (g * x) * (h * u)
    BY <1>4, Interchange
  <2>2. (g * h) * (y * v) = (g * y) * (h * v)
    BY <1>4, Interchange
  <2>3. QED
    BY <2>1, <2>2
<1>7. QED
  BY <1>1, <1>2, <1>3, <1>5, <1>6, Zenon

\* The sum of two ratios.
LEMMA PlusRatios ==
    ASSUME NEW n \in Int, NEW d \in Nat \ {0}, NEW m \in Int, NEW e \in Nat \ {0}
    PROVE  Plus(Reduced(n, d), Reduced(m, e)) = Reduced(n * e + m * d, d * e)
<1>1. PICK x \in Int, y \in Nat \ {0}, g \in Nat \ {0} :
         Reduced(n, d) = <<x, y>> /\ n = g * x /\ d = g * y
  BY ReducedForm
<1>2. PICK u \in Int, v \in Nat \ {0}, h \in Nat \ {0} :
         Reduced(m, e) = <<u, v>> /\ m = h * u /\ e = h * v
  BY ReducedForm
<1>3. Plus(<<x, y>>, <<u, v>>) = Reduced(x * v + u * y, y * v)
  BY DEF Plus
<1>4. /\ x * v + u * y \in Int /\ y * v \in Nat \ {0} /\ g * h \in Nat \ {0}
      /\ g \in Int /\ h \in Int /\ y \in Int /\ v \in Int
  <2>1. x * v + u * y \in Int /\ g \in Int /\ h \in Int /\ y \in Int /\ v \in Int
    OBVIOUS
  <2>2. QED
    BY <2>1, Products, Zenon
<1>5. Reduced((g * h) * (x * v + u * y), (g * h) * (y * v)) = Reduced(x * v + u * y, y * v)
  BY <1>4, ReducedScales, Zenon
<1>6. /\ (g * h) * (x * v + u * y) = (g * x) * (h * v) + (h * u) * (g * y)
      /\ (g * h) * (y * v) = (g * y) * (h * v)
  <2>1. (g * h) * (x * v + u * y) = (g * x) * (h * v) + (h * u) * (g * y)
    BY <1>4, Interchange, InterchangeSum
  <2>2. (g * h) * (y * v) = (g * y) * (h * v)
    BY <1>4, Interchange, InterchangeSum
  <2>3. QED
    BY <2>1, <2>2
<1>7. QED
  BY <1>1, <1>2, <1>3, <1>5, <1>6, Zenon

\* The quotient of two ratios.
LEMMA OverRatios ==
    ASSUME NEW n \in Int, NEW d \in Nat \ {0},
           NEW m \in Nat \ {0}, NEW e \in Nat \ {0}
    PROVE  Over(Reduced(n, d), Reduced(m, e)) = Reduced(n * e, d * m)
<1>1. PICK x \in Int, y \in Nat \ {0}, g \in Nat \ {0} :
         Reduced(n, d) = <<x, y>> /\ n = g * x /\ d = g * y
  BY ReducedForm
<1>2. PICK u \in Int, v \in Nat \ {0}, h \in Nat \ {0} :
         Reduced(m, e) = <<u, v>> /\ m = h * u /\ e = h * v
  <2>1. m \in Int
    OBVIOUS
  <2>2. QED
    BY <2>1, ReducedForm
<1>3. u \in Nat \ {0}
  <2> SUFFICES ASSUME u <= 0 PROVE FALSE
    OBVIOUS
  <2>1. h * u <= 0
    OBVIOUS
  <2>2. QED
    BY <1>2, <2>1
<1>4. Over(<<x, y>>, <<u, v>>) = Reduced(x * v, y * u)
  BY DEF Over, Times
<1>5. /\ x * v \in Int /\ y * u \in Nat \ {0} /\ g * h \in Nat \ {0}
      /\ g \in Int /\ h \in Int /\ y \in Int /\ v \in Int
  <2>1. x * v \in Int /\ g \in Int /\ h \in Int /\ y \in Int /\ v \in Int
    OBVIOUS
  <2>2. QED
    BY <1>3, <2>1, Products, Zenon
<1>6. Reduced((g * h) * (x * v), (g * h) * (y * u)) = Reduced(x * v, y * u)
  BY <1>5, ReducedScales, Zenon
<1>7. /\ (g * h) * (x * v) = (g * x) * (h * v)
      /\ (g * h) * (y * u) = (g * y) * (h * u)
  <2>1. (g * h) * (x * v) = (g * x) * (h * v)
    BY <1>5, Interchange
  <2>2. (g * h) * (y * u) = (g * y) * (h * u)
    BY <1>5, Interchange
  <2>3. QED
    BY <2>1, <2>2
<1>8. QED
  BY <1>1, <1>2, <1>4, <1>6, <1>7, Zenon

\* The order of two ratios.
LEMMA AtMostRatios ==
    ASSUME NEW n \in Int, NEW d \in Nat \ {0}, NEW m \in Int, NEW e \in Nat \ {0}
    PROVE  AtMost(Reduced(n, d), Reduced(m, e)) <=> n * e <= m * d
<1>1. PICK x \in Int, y \in Nat \ {0}, g \in Nat \ {0} :
         Reduced(n, d) = <<x, y>> /\ n = g * x /\ d = g * y
  BY ReducedForm
<1>2. PICK u \in Int, v \in Nat \ {0}, h \in Nat \ {0} :
         Reduced(m, e) = <<u, v>> /\ m = h * u /\ e = h * v
  BY ReducedForm
<1>3. AtMost(<<x, y>>, <<u, v>>) <=> x * v <= u * y
  BY DEF AtMost
<1> DEFINE k == g * h
           a == x * v
           b == u * y
<1>4. /\ k \in Nat \ {0} /\ a \in Int /\ b \in Int
      /\ (g * x) * (h * v) = k * a
      /\ (h * u) * (g * y) = k * b
  <2>1. a \in Int /\ b \in Int
    OBVIOUS
  <2>2. (g * x) * (h * v) = k * a
    OBVIOUS
  <2>3. (h * u) * (g * y) = k * b
    OBVIOUS
  <2>4. k \in Nat \ {0}
    BY Products, Zenon
  <2>5. QED
    BY <2>1, <2>2, <2>3, <2>4, Zenon
<1>5. k * a <= k * b <=> a <= b
  <2> HIDE DEF k, a, b
  <2>1. ASSUME a <= b PROVE k * a <= k * b
    BY <1>4, <2>1
  <2>2. ASSUME b < a PROVE k * b < k * a
    BY <1>4, <2>2
  <2>3. k * a \in Int /\ k * b \in Int
    BY <1>4
  <2>4. QED
    BY <1>4, <2>1, <2>2, <2>3
<1>6. n * e = k * a /\ m * d = k * b
  <2> HIDE DEF k, a, b
  <2>1. QED
    BY <1>1, <1>2, <1>4, Zenon
<1>7. QED
  BY <1>1, <1>2, <1>3, <1>5, <1>6, Zenon

\* Integers commute.
LEMMA Commute ==
    ASSUME NEW x \in Int, NEW y \in Int
    PROVE  x * y = y * x
OBVIOUS

\* Integers associate.
LEMMA Associate ==
    ASSUME NEW x \in Int, NEW y \in Int, NEW z \in Int
    PROVE  (x * y) * z = x * (y * z)
OBVIOUS

\* The negative of a fraction.
LEMMA NegatedRatio ==
    ASSUME NEW n \in Int, NEW d \in Nat \ {0}
    PROVE  Reduced(-n, d) = <<-(Reduced(n, d)[1]), Reduced(n, d)[2]>>
<1>1. PICK x \in Int, y \in Nat \ {0}, g \in Nat \ {0} :
         /\ Reduced(n, d) = <<x, y>> /\ n = g * x /\ d = g * y
         /\ g = gcd[<<Abs(n), d>>]
  BY ReducedParts
<1>2. -n \in Int
  OBVIOUS
<1>3. PICK u \in Int, v \in Nat \ {0}, h \in Nat \ {0} :
         /\ Reduced(-n, d) = <<u, v>> /\ -n = h * u /\ d = h * v
         /\ h = gcd[<<Abs(-n), d>>]
  BY <1>2, ReducedParts
<1>4. Abs(-n) = Abs(n)
  BY DEF Abs
<1>5. h = g
  BY <1>1, <1>3, <1>4, Zenon
<1>6. g * v = g * y /\ g * u = g * (-x)
  <2>1. -(g * x) = g * (-x)
    OBVIOUS
  <2>2. QED
    BY <1>1, <1>3, <1>5, <2>1
<1>7. u = -x /\ v = y
  <2>1. \A m \in Int : (g * m) \div g = m
    BY MultipleDivides
  <2>2. v \in Int /\ y \in Int /\ -x \in Int
    OBVIOUS
  <2>3. QED
    BY <1>6, <2>1, <2>2, Zenon
<1>8. QED
  BY <1>1, <1>3, <1>7

\* Sums, products and quotients of fractions are fractions.
LEMMA TimesType ==
    ASSUME NEW a \in Fractions, NEW b \in Fractions
    PROVE  Times(a, b) \in Fractions
<1>1. PICK n \in Int, d \in Nat \ {0} : a = <<n, d>>
  BY FractionIsReduced
<1>2. PICK m \in Int, e \in Nat \ {0} : b = <<m, e>>
  BY FractionIsReduced
<1>3. n * m \in Int /\ d * e \in Nat \ {0}
  BY Products
<1>4. Times(a, b) = Reduced(n * m, d * e)
  BY <1>1, <1>2 DEF Times
<1>5. QED
  BY <1>3, <1>4, ReducedIsFraction, Zenon

\* Sums are fractions.
LEMMA PlusType ==
    ASSUME NEW a \in Fractions, NEW b \in Fractions
    PROVE  Plus(a, b) \in Fractions
<1>1. PICK n \in Int, d \in Nat \ {0} : a = <<n, d>>
  BY FractionIsReduced
<1>2. PICK m \in Int, e \in Nat \ {0} : b = <<m, e>>
  BY FractionIsReduced
<1>3. n * e + m * d \in Int /\ d * e \in Nat \ {0}
  BY Products
<1>4. Plus(a, b) = Reduced(n * e + m * d, d * e)
  BY <1>1, <1>2 DEF Plus
<1>5. QED
  BY <1>3, <1>4, ReducedIsFraction, Zenon

Negative(a) == <<-a[1], a[2]>>

\* Negatives are fractions.
LEMMA NegativeType ==
    ASSUME NEW a \in Fractions
    PROVE  /\ Negative(a) \in Fractions
           /\ \A n \in Int, d \in Nat \ {0} : a = Reduced(n, d) => Negative(a) = Reduced(-n, d)
<1>1. PICK n \in Int, d \in Nat \ {0} : a = <<n, d>> /\ a = Reduced(n, d)
  BY FractionIsReduced
<1>2. ASSUME NEW m \in Int, NEW e \in Nat \ {0}, a = Reduced(m, e)
      PROVE  Negative(a) = Reduced(-m, e)
  BY <1>2, NegatedRatio, Zenon DEF Negative
<1>3. -n \in Int
  OBVIOUS
<1>4. Negative(a) \in Fractions
  BY <1>1, <1>2, <1>3, ReducedIsFraction, Zenon
<1>5. QED
  BY <1>2, <1>4

\* Differences are fractions.
LEMMA MinusType ==
    ASSUME NEW a \in Fractions, NEW b \in Fractions
    PROVE  Minus(a, b) = Plus(a, Negative(b)) /\ Minus(a, b) \in Fractions
<1>1. Minus(a, b) = Plus(a, Negative(b))
  BY Zenon DEF Minus, Negative
<1>2. QED
  BY <1>1, NegativeType, PlusType

\* Quotients by positive fractions are fractions.
LEMMA OverType ==
    ASSUME NEW a \in Fractions, NEW b \in Positive
    PROVE  Over(a, b) \in Fractions
<1>1. PICK n \in Int, d \in Nat \ {0} : a = <<n, d>>
  BY FractionIsReduced
<1>2. PICK m \in Nat \ {0}, e \in Nat \ {0} : b = <<m, e>>
  BY PositiveIsReduced
<1>3. n * e \in Int /\ d * m \in Nat \ {0}
  BY Products
<1>4. Over(a, b) = Reduced(n * e, d * m)
  BY <1>1, <1>2 DEF Over, Times
<1>5. QED
  BY <1>3, <1>4, ReducedIsFraction, Zenon

\* Positive fractions multiply and divide to positive ones.
LEMMA PositiveType ==
    ASSUME NEW a \in Positive, NEW b \in Positive
    PROVE  a \in Fractions /\ Times(a, b) \in Positive /\ Over(a, b) \in Positive
<1>1. PICK n \in Nat \ {0}, d \in Nat \ {0} : a = <<n, d>>
  BY PositiveIsReduced
<1>2. PICK m \in Nat \ {0}, e \in Nat \ {0} : b = <<m, e>>
  BY PositiveIsReduced
<1>3. Times(a, b) = Reduced(n * m, d * e) /\ Over(a, b) = Reduced(n * e, d * m)
  BY <1>1, <1>2 DEF Over, Times
<1>4. /\ n * m \in Nat \ {0} /\ d * e \in Nat \ {0}
      /\ n * e \in Nat \ {0} /\ d * m \in Nat \ {0}
  BY Products, Zenon
<1>5. \A x, y \in Nat \ {0} : Reduced(x, y) \in Positive
  BY ReducedIsFraction
<1>6. QED
  BY <1>3, <1>4, <1>5, Zenon DEF Positive

\* Multiplication.
LEMMA TimesCommutes ==
    ASSUME NEW a \in Fractions, NEW b \in Fractions
    PROVE  Times(a, b) = Times(b, a)
<1>1. PICK n \in Int, d \in Nat \ {0} : a = <<n, d>>
  BY FractionIsReduced
<1>2. PICK m \in Int, e \in Nat \ {0} : b = <<m, e>>
  BY FractionIsReduced
<1>3. n * m = m * n /\ d * e = e * d
  OBVIOUS
<1>4. QED
  BY <1>1, <1>2, <1>3 DEF Times

\* Products associate.
LEMMA TimesAssociates ==
    ASSUME NEW a \in Fractions, NEW b \in Fractions, NEW c \in Fractions
    PROVE  Times(Times(a, b), c) = Times(a, Times(b, c))
<1>1. PICK n \in Int, d \in Nat \ {0} : a = <<n, d>> /\ a = Reduced(n, d)
  BY FractionIsReduced
<1>2. PICK m \in Int, e \in Nat \ {0} : b = <<m, e>> /\ b = Reduced(m, e)
  BY FractionIsReduced
<1>3. PICK k \in Int, f \in Nat \ {0} : c = <<k, f>> /\ c = Reduced(k, f)
  BY FractionIsReduced
<1>4. PICK s \in Int, t \in Nat \ {0} : s = n * m /\ t = d * e
  BY Products
<1>5. PICK u \in Int, v \in Nat \ {0} : u = m * k /\ v = e * f
  BY Products
<1>6. Times(a, b) = Reduced(s, t) /\ Times(b, c) = Reduced(u, v)
  BY <1>1, <1>2, <1>3, <1>4, <1>5 DEF Times
<1>7. Times(Times(a, b), c) = Reduced(s * k, t * f)
  <2>1. Times(Reduced(s, t), Reduced(k, f)) = Reduced(s * k, t * f)
    BY TimesRatios
  <2>2. QED
    BY <1>3, <1>6, <2>1, Zenon
<1>8. Times(a, Times(b, c)) = Reduced(n * u, d * v)
  <2>1. Times(Reduced(n, d), Reduced(u, v)) = Reduced(n * u, d * v)
    BY TimesRatios
  <2>2. QED
    BY <1>1, <1>6, <2>1, Zenon
<1>9. s * k = n * u /\ t * f = d * v
  <2>1. (n * m) * k = n * (m * k)
    OBVIOUS
  <2>2. (d * e) * f = d * (e * f)
    OBVIOUS
  <2>3. QED
    BY <1>4, <1>5, <2>1, <2>2, Zenon
<1>10. QED
  BY <1>7, <1>8, <1>9, Zenon

\* One has no divisor but itself.
LEMMA GcdOne == \A a \in Nat : gcd[<<a, 1>>] = 1
<1> TAKE a \in Nat
<1>1. a % 1 = 0 /\ 1 # 0
  OBVIOUS
<1>2. gcd[<<a, 1>>] = gcd[<<1, a % 1>>] /\ gcd[<<1, 0>>] = 1
  <2>1. 1 \in Nat
    OBVIOUS
  <2>2. QED
    BY <1>1, <2>1, GcdStep, Zenon
<1>3. QED
  BY <1>1, <1>2, Zenon

\* One is neutral, and whole numbers are in lowest terms.
LEMMA Units ==
    /\ One \in Positive /\ One \in Fractions /\ Zero \in Fractions
    /\ \A a \in Fractions : Times(a, One) = a /\ Times(One, a) = a /\ Over(a, One) = a
    /\ \A n \in Int : Reduced(n, 1) = <<n, 1>>
<1>1. ASSUME NEW n \in Int PROVE Reduced(n, 1) = <<n, 1>>
  <2>1. PICK x \in Int, y \in Nat \ {0}, g \in Nat \ {0} :
           Reduced(n, 1) = <<x, y>> /\ n = g * x /\ 1 = g * y /\ g = gcd[<<Abs(n), 1>>]
    BY ReducedParts
  <2>2. Abs(n) \in Nat
    BY DEF Abs
  <2>3. g = 1
    BY <2>1, <2>2, GcdOne, Zenon
  <2>4. x = n /\ y = 1
    BY <2>1, <2>3
  <2>5. QED
    BY <2>1, <2>4
<1>2. One \in Positive /\ One \in Fractions /\ Zero \in Fractions
  BY <1>1 DEF One, Zero, Positive, Fractions
<1>3. ASSUME NEW a \in Fractions PROVE Times(a, One) = a /\ Times(One, a) = a /\ Over(a, One) = a
  <2>1. PICK n \in Int, d \in Nat \ {0} : a = <<n, d>> /\ a = Reduced(n, d)
    BY FractionIsReduced
  <2>2. n * 1 = n /\ d * 1 = d /\ 1 * n = n /\ 1 * d = d
    OBVIOUS
  <2>3. Times(a, One) = Reduced(n * 1, d * 1) /\ Times(One, a) = Reduced(1 * n, 1 * d)
    BY <2>1 DEF Times, One
  <2>4. Over(a, One) = Times(a, One)
    BY DEF Over, One
  <2>5. QED
    BY <2>1, <2>2, <2>3, <2>4, Zenon
<1>4. QED
  BY <1>1, <1>2, <1>3

\* Division undoes multiplication.
LEMMA OverTimes ==
    ASSUME NEW a \in Fractions, NEW b \in Positive
    PROVE  Times(Over(a, b), b) = a /\ Over(Times(a, b), b) = a
<1>1. PICK n \in Int, d \in Nat \ {0} : a = <<n, d>> /\ a = Reduced(n, d)
  BY FractionIsReduced
<1>2. PICK m \in Nat \ {0}, e \in Nat \ {0} : b = <<m, e>> /\ b = Reduced(m, e)
  BY PositiveIsReduced
<1>3. PICK s \in Int, t \in Nat \ {0} : s = n * e /\ t = d * m
  BY Products
<1>4. PICK u \in Int, v \in Nat \ {0} : u = n * m /\ v = d * e
  BY Products
<1>5. PICK k \in Nat \ {0} : k = m * e
  BY Products
<1>6. Over(a, b) = Reduced(s, t) /\ Times(a, b) = Reduced(u, v)
  BY <1>1, <1>2, <1>3, <1>4 DEF Over, Times
<1>7. Times(Over(a, b), b) = Reduced(s * m, t * e)
  <2>1. Times(Reduced(s, t), Reduced(m, e)) = Reduced(s * m, t * e)
    BY TimesRatios
  <2>2. QED
    BY <1>2, <1>6, <2>1, Zenon
<1>8. Over(Times(a, b), b) = Reduced(u * e, v * m)
  <2>1. Over(Reduced(u, v), Reduced(m, e)) = Reduced(u * e, v * m)
    BY OverRatios
  <2>2. QED
    BY <1>2, <1>6, <2>1, Zenon
<1>9. Reduced(k * n, k * d) = Reduced(n, d)
  BY ReducedScales
<1>10. s * m = k * n /\ u * e = k * n /\ t * e = k * d /\ v * m = k * d
  <2>1. (n * e) * m = (m * e) * n
    OBVIOUS
  <2>2. (n * m) * e = (m * e) * n
    OBVIOUS
  <2>3. (d * m) * e = (m * e) * d
    OBVIOUS
  <2>4. (d * e) * m = (m * e) * d
    OBVIOUS
  <2>5. QED
    BY <1>3, <1>4, <1>5, <2>1, <2>2, <2>3, <2>4, Zenon
<1>11. QED
  BY <1>1, <1>7, <1>8, <1>9, <1>10, Zenon

\* A positive factor cancels.
LEMMA Cancels ==
    ASSUME NEW a \in Fractions, NEW b \in Fractions, NEW c \in Positive,
           Times(a, c) = Times(b, c)
    PROVE  a = b
<1>1. Over(Times(a, c), c) = a
  BY OverTimes
<1>2. Over(Times(b, c), c) = b
  BY OverTimes
<1>3. QED
  BY <1>1, <1>2, Zenon

\* A quotient's factor may be multiplied first.
LEMMA OverSwaps ==
    ASSUME NEW a \in Fractions, NEW b \in Positive, NEW c \in Fractions
    PROVE  Times(Over(a, b), c) = Over(Times(a, c), b)
<1>1. b \in Fractions /\ Over(a, b) \in Fractions /\ Times(a, c) \in Fractions
  BY OverType, TimesType, Zenon DEF Positive
<1>2. Times(Over(a, b), c) \in Fractions
  BY <1>1, TimesType
<1> DEFINE o == Over(a, b)
<1>3. Times(Times(o, c), b) = Times(o, Times(c, b))
  BY <1>1, TimesAssociates
<1>4. Times(c, b) = Times(b, c)
  BY <1>1, TimesCommutes
<1>5. Times(o, Times(b, c)) = Times(Times(o, b), c)
  BY <1>1, TimesAssociates
<1>6. Times(o, b) = a
  BY OverTimes
<1>7. Times(Times(o, c), b) = Times(a, c)
  BY <1>3, <1>4, <1>5, <1>6, Zenon
<1>8. Over(Times(Times(o, c), b), b) = Times(o, c)
  BY <1>2, OverTimes
<1>9. QED
  BY <1>7, <1>8, Zenon

\* Addition.
LEMMA PlusCommutes ==
    ASSUME NEW a \in Fractions, NEW b \in Fractions
    PROVE  Plus(a, b) = Plus(b, a)
<1>1. PICK n \in Int, d \in Nat \ {0} : a = <<n, d>>
  BY FractionIsReduced
<1>2. PICK m \in Int, e \in Nat \ {0} : b = <<m, e>>
  BY FractionIsReduced
<1>3. n * e + m * d = m * d + n * e /\ d * e = e * d
  OBVIOUS
<1>4. QED
  BY <1>1, <1>2, <1>3 DEF Plus

\* Sums associate.
LEMMA PlusAssociates ==
    ASSUME NEW a \in Fractions, NEW b \in Fractions, NEW c \in Fractions
    PROVE  Plus(Plus(a, b), c) = Plus(a, Plus(b, c))
<1>1. PICK n \in Int, d \in Nat \ {0} : a = <<n, d>> /\ a = Reduced(n, d)
  BY FractionIsReduced
<1>2. PICK m \in Int, e \in Nat \ {0} : b = <<m, e>> /\ b = Reduced(m, e)
  BY FractionIsReduced
<1>3. PICK k \in Int, f \in Nat \ {0} : c = <<k, f>> /\ c = Reduced(k, f)
  BY FractionIsReduced
<1>4. PICK s \in Int, t \in Nat \ {0} : s = n * e + m * d /\ t = d * e
  BY Products
<1>5. PICK u \in Int, v \in Nat \ {0} : u = m * f + k * e /\ v = e * f
  BY Products
<1>6. Plus(a, b) = Reduced(s, t) /\ Plus(b, c) = Reduced(u, v)
  BY <1>1, <1>2, <1>3, <1>4, <1>5 DEF Plus
<1>7. Plus(Plus(a, b), c) = Reduced(s * f + k * t, t * f)
  <2>1. Plus(Reduced(s, t), Reduced(k, f)) = Reduced(s * f + k * t, t * f)
    BY PlusRatios
  <2>2. QED
    BY <1>3, <1>6, <2>1, Zenon
<1>8. Plus(a, Plus(b, c)) = Reduced(n * v + u * d, d * v)
  <2>1. Plus(Reduced(n, d), Reduced(u, v)) = Reduced(n * v + u * d, d * v)
    BY PlusRatios
  <2>2. QED
    BY <1>1, <1>6, <2>1, Zenon
<1>9. s * f + k * t = n * v + u * d /\ t * f = d * v
  <2>1. (n * e + m * d) * f + k * (d * e) = n * (e * f) + (m * f + k * e) * d
    OBVIOUS
  <2>2. (d * e) * f = d * (e * f)
    OBVIOUS
  <2>3. QED
    BY <1>4, <1>5, <2>1, <2>2, Zenon
<1>10. QED
  BY <1>7, <1>8, <1>9, Zenon

\* A fraction and its negative cancel, and Zero is neutral.
LEMMA PlusNegative ==
    ASSUME NEW a \in Fractions
    PROVE  Plus(a, Negative(a)) = Zero /\ Plus(a, Zero) = a /\ Plus(Zero, a) = a
<1>1. PICK n \in Int, d \in Nat \ {0} : a = <<n, d>> /\ a = Reduced(n, d)
  BY FractionIsReduced
<1>2. Negative(a) = <<-n, d>>
  BY <1>1 DEF Negative
<1>3. Plus(a, Negative(a)) = Reduced(n * d + (-n) * d, d * d)
  BY <1>1, <1>2 DEF Plus
<1>4. PICK k \in Nat \ {0} : k = d * d
  BY Products
<1>5. Reduced(k * 0, k * 1) = Reduced(0, 1) /\ n * d + (-n) * d = k * 0 /\ d * d = k * 1
  <2>1. Reduced(k * 0, k * 1) = Reduced(0, 1)
    BY ReducedScales
  <2>2. n * d + (-n) * d = 0 /\ k * 0 = 0 /\ k * 1 = k
    OBVIOUS
  <2>3. QED
    BY <1>4, <2>1, <2>2, Zenon
<1>6. Reduced(0, 1) = Zero
  BY Units DEF Zero
<1>7. n * 1 + 0 * d = n /\ d * 1 = d /\ 0 * d + n * 1 = n /\ 1 * d = d
  OBVIOUS
<1>8. /\ Plus(a, Zero) = Reduced(n * 1 + 0 * d, d * 1)
      /\ Plus(Zero, a) = Reduced(0 * d + n * 1, 1 * d)
  BY <1>1 DEF Plus, Zero
<1>9. QED
  BY <1>1, <1>3, <1>4, <1>5, <1>6, <1>7, <1>8, Zenon

\* What is removed, added and put on top of a factor is its difference.
LEMMA DifferenceOfSum ==
    ASSUME NEW v \in Fractions, NEW r \in Fractions, NEW a \in Fractions, NEW o \in Fractions
    PROVE  Minus(Plus(Plus(Minus(v, r), a), o), v) = Plus(Minus(a, r), o)
<1>1. PICK x \in Fractions : x = Negative(v) /\ Plus(v, x) = Zero
  BY NegativeType, PlusNegative
<1>2. PICK y \in Fractions : y = Negative(r)
  BY NegativeType
<1>3. PICK z \in Fractions : z = Plus(y, a)
  BY PlusType
<1>4. PICK w \in Fractions : w = Plus(z, o)
  BY PlusType
<1>5. Minus(v, r) = Plus(v, y)
  BY <1>2, MinusType
<1>6. Plus(Plus(v, y), a) = Plus(v, z)
  <2>1. Plus(Plus(v, y), a) = Plus(v, Plus(y, a))
    BY PlusAssociates
  <2>2. QED
    BY <1>3, <2>1, Zenon
<1>7. Plus(Plus(v, z), o) = Plus(v, w)
  <2>1. Plus(Plus(v, z), o) = Plus(v, Plus(z, o))
    BY PlusAssociates
  <2>2. QED
    BY <1>4, <2>1, Zenon
<1>8. Plus(v, w) \in Fractions
  BY PlusType
<1>9. Minus(Plus(v, w), v) = Plus(Plus(v, w), x)
  BY <1>1, <1>8, MinusType
<1>10. Plus(Plus(v, w), x) = w
  <2>1. Plus(v, w) = Plus(w, v)
    BY PlusCommutes
  <2>2. Plus(Plus(w, v), x) = Plus(w, Plus(v, x))
    BY PlusAssociates
  <2>3. Plus(w, Zero) = w
    BY PlusNegative
  <2>4. QED
    BY <1>1, <2>1, <2>2, <2>3, Zenon
<1>11. Plus(Minus(a, r), o) = w
  <2>1. Minus(a, r) = Plus(a, y)
    BY <1>2, MinusType
  <2>2. Plus(a, y) = Plus(y, a)
    BY PlusCommutes
  <2>3. QED
    BY <1>3, <1>4, <2>1, <2>2, Zenon
<1>12. QED
  BY <1>5, <1>6, <1>7, <1>9, <1>10, <1>11, Zenon

\* A product of factors of which one is not negative keeps the order.
LEMMA ScaledOrder ==
    ASSUME NEW x \in Int, NEW y \in Int, NEW k \in Nat, x <= y
    PROVE  x * k <= y * k
<1>1. (y - x) * k >= 0 /\ (y - x) * k = y * k - x * k
  OBVIOUS
<1>2. x * k \in Int /\ y * k \in Int
  OBVIOUS
<1>3. QED
  BY <1>1, <1>2

\* Between f and g: f plus a share p/q of the difference.
LEMMA ShareIsBetween ==
    ASSUME NEW f \in Fractions, NEW g \in Fractions,
           NEW p \in Nat \ {0}, NEW q \in Nat \ {0}, p < q
    PROVE  LET v == Plus(f, Times(Reduced(p, q), Minus(g, f)))
           IN  \/ AtMost(f, v) /\ AtMost(v, g)
               \/ AtMost(g, v) /\ AtMost(v, f)
<1>1. PICK a \in Int, b \in Nat \ {0} : f = <<a, b>> /\ f = Reduced(a, b)
  BY FractionIsReduced
<1>2. PICK c \in Int, d \in Nat \ {0} : g = <<c, d>> /\ g = Reduced(c, d)
  BY FractionIsReduced
<1>3. PICK k \in Int : k = c * b - a * d
  OBVIOUS
<1>4. PICK D \in Nat \ {0} : D = d * b
  BY Products
<1>5. Minus(g, f) = Reduced(k, D)
  <2>1. Minus(g, f) = Reduced(c * b + (-a) * d, d * b)
    BY <1>1, <1>2 DEF Minus, Plus
  <2>2. c * b + (-a) * d = k
    <3>1. (-a) * d = -(a * d)
      OBVIOUS
    <3>2. QED
      BY <1>3, <3>1
  <2>3. QED
    BY <1>4, <2>1, <2>2, Zenon
<1>6. PICK m \in Int : m = p * k
  OBVIOUS
<1>7. PICK E \in Nat \ {0} : E = q * D
  BY Products
<1>8. Times(Reduced(p, q), Minus(g, f)) = Reduced(m, E)
  <2>1. Times(Reduced(p, q), Reduced(k, D)) = Reduced(p * k, q * D)
    <3>1. p \in Int
      OBVIOUS
    <3>2. QED
      BY <3>1, TimesRatios
  <2>2. QED
    BY <1>5, <1>6, <1>7, <2>1, Zenon
<1>9. PICK s \in Int : s = a * E + m * b
  OBVIOUS
<1>10. PICK t \in Nat \ {0} : t = b * E
  BY Products
<1> DEFINE v == Plus(f, Times(Reduced(p, q), Minus(g, f)))
<1>11. v = Reduced(s, t)
  <2>1. Plus(Reduced(a, b), Reduced(m, E)) = Reduced(a * E + m * b, b * E)
    BY PlusRatios
  <2>2. QED
    BY <1>1, <1>8, <1>9, <1>10, <2>1, Zenon
<1> HIDE DEF v
\* The two comparisons, with the common factors taken out.
<1>12. /\ AtMost(f, v) <=> a * t <= s * b
       /\ AtMost(v, f) <=> s * b <= a * t
       /\ AtMost(v, g) <=> s * d <= c * t
       /\ AtMost(g, v) <=> c * t <= s * d
  <2>1. /\ AtMost(Reduced(a, b), Reduced(s, t)) <=> a * t <= s * b
        /\ AtMost(Reduced(s, t), Reduced(a, b)) <=> s * b <= a * t
    BY AtMostRatios
  <2>2. /\ AtMost(Reduced(s, t), Reduced(c, d)) <=> s * d <= c * t
        /\ AtMost(Reduced(c, d), Reduced(s, t)) <=> c * t <= s * d
    BY AtMostRatios
  <2>3. QED
    BY <1>1, <1>2, <1>11, <2>1, <2>2, Zenon
<1>13. PICK h \in Nat \ {0} : h = p * (b * b)
  BY Products
<1>14. s * b = a * t + k * h
  <2>1. (a * E + (p * k) * b) * b = a * (b * E) + k * (p * (b * b))
    OBVIOUS
  <2>2. QED
    BY <1>6, <1>9, <1>10, <1>13, <2>1, Zenon
<1>15. PICK j \in Nat \ {0} : j = (q - p) * D
  <2>1. q - p \in Nat \ {0}
    OBVIOUS
  <2>2. QED
    BY <2>1, Products, Zenon
<1>16. c * t = s * d + k * j
  <2>1. c * (b * (q * D)) = (c * b) * (q * D)
    OBVIOUS
  <2>2. (a * (q * D) + (p * k) * b) * d = (a * d) * (q * D) + (p * k) * (d * b)
    OBVIOUS
  <2>3. k * ((q - p) * D) = k * (q * D) - (p * k) * D
    OBVIOUS
  <2>4. PICK x \in Int, y \in Int, z \in Int : x = c * b /\ y = a * d /\ z = q * D
    OBVIOUS
  <2>5. k * z = x * z - y * z
    <3>1. (x - y) * z = x * z - y * z
      OBVIOUS
    <3>2. QED
      BY <1>3, <2>4, <3>1, Zenon
  <2>6. c * t = x * z
    BY <1>7, <1>10, <2>1, <2>4, Zenon
  <2>7. s * d = y * z + (p * k) * D
    BY <1>4, <1>6, <1>7, <1>9, <2>2, <2>4, Zenon
  <2>8. k * j = k * z - (p * k) * D
    BY <1>15, <2>3, <2>4, Zenon
  <2>9. x * z \in Int /\ y * z \in Int /\ k * z \in Int /\ (p * k) * D \in Int
    OBVIOUS
  <2>10. QED
    BY <2>5, <2>6, <2>7, <2>8, <2>9
<1>17. CASE k >= 0
  <2>1. k * h >= 0 /\ k * j >= 0 /\ k * h \in Int /\ k * j \in Int
    BY <1>17
  <2>2. a * t \in Int /\ s * d \in Int
    OBVIOUS
  <2>3. a * t <= s * b /\ s * d <= c * t
    BY <1>14, <1>16, <2>1, <2>2
  <2>4. QED
    BY <1>12, <2>3 DEF v
<1>18. CASE k < 0
  <2>1. k * h <= 0 /\ k * j <= 0 /\ k * h \in Int /\ k * j \in Int
    BY <1>18
  <2>2. a * t \in Int /\ s * d \in Int
    OBVIOUS
  <2>3. s * b <= a * t /\ c * t <= s * d
    BY <1>14, <1>16, <2>1, <2>2
  <2>4. QED
    BY <1>12, <2>3 DEF v
<1>19. QED
  BY <1>17, <1>18

-----------------------------------------------------------------------------
(* Units.                                                                  *)

Evidences == [source : STRING, target : STRING, multiplier : Positive] \cup {NoEvidence}

\* A unit of a factor in the base units of mass of CO2e and of its activity.
Rate(unit, e) == Over(Impact[unit.impact], Measure(unit.activity, e))

\* A conversion with a plan, or with a mismatch of dimensions, has units that parse.
LEMMA FactorPlanParses ==
    ASSUME NEW r, NEW unit, FactorPlan(r, unit).code # "UNIT_SYNTAX_UNSUPPORTED"
    PROVE  parses(unit) /\ parses(effective_target(r))
BY DEF FactorPlan, plan_factor_conversion, NotPlanned

\* Names of one unit have one measure.
LEMMA SameUnitSameMeasure ==
    ASSUME NEW u, NEW v, NEW e, Activity[u] = Activity[v]
    PROVE  Measure(u, e) = Measure(v, e)
BY DEF Measure, parse_activity_unit

\* Measures are positive.
LEMMA MeasureType ==
    ASSUME NEW u \in DOMAIN Activity, NEW e \in Evidences
    PROVE  Measure(u, e) \in Positive /\ Measure(u, e) \in Fractions
<1>1. \A v \in DOMAIN Activity : Activity[v].ratio \in Positive
  BY TableAssumption
<1>2. Activity[u].ratio \in Positive
  BY <1>1
<1>3. CASE e = NoEvidence \/ ~({e.source, e.target} \subseteq DOMAIN Activity)
           \/ ~Activity[u].conditioned
  BY <1>2, <1>3 DEF Measure, parse_activity_unit, Positive
<1>4. CASE /\ e # NoEvidence /\ {e.source, e.target} \subseteq DOMAIN Activity
           /\ Activity[u].conditioned
  <2>1. e.multiplier \in Positive
    BY <1>4 DEF Evidences
  <2>2. Activity[e.source].ratio \in Positive /\ Activity[e.target].ratio \in Positive
    BY <1>1, <1>4
  <2>3. /\ Over(Activity[e.source].ratio, e.multiplier) \in Positive
        /\ Times(Activity[e.target].ratio, e.multiplier) \in Positive
    BY <2>1, <2>2, PositiveType
  <2>4. Measure(u, e) \in Positive
    BY <1>4, <2>3 DEF Measure, parse_activity_unit
  <2>5. QED
    BY <2>4 DEF Positive
<1>5. QED
  BY <1>3, <1>4

\* A planned conversion of an activity keeps the quantity: with the evidence of the request,
\* or with none, it is that of the measures.
LEMMA ActivityPlanMeasures ==
    ASSUME NEW s, NEW t, NEW e \in Evidences, NEW d, d = e \/ d = NoEvidence,
           plan_activity_conversion(s, t, d).code = "ok"
    PROVE  /\ s \in DOMAIN Activity /\ t \in DOMAIN Activity
           /\ plan_activity_conversion(s, t, d).multiplier \in Positive
           /\ Times(plan_activity_conversion(s, t, d).multiplier, Measure(t, e)) = Measure(s, e)
           /\ Activity[s].dimension = Activity[t].dimension
           /\ d = NoEvidence => Activity[s].conditioned = Activity[t].conditioned
<1> DEFINE S == Activity[s]
           T == Activity[t]
           m == plan_activity_conversion(s, t, d).multiplier
<1>1. s \in DOMAIN Activity /\ t \in DOMAIN Activity
  BY DEF plan_activity_conversion, NotPlanned
<1>2. plan_activity_conversion(s, t, d) = plan_activity(S, T, d)
  BY <1>1 DEF plan_activity_conversion, parse_activity_unit
<1>3. plan_activity(S, T, d).code = "ok"
  BY <1>2
<1>4. S.dimension = T.dimension
  BY <1>3 DEF plan_activity, NotPlanned
<1>5. Measure(s, e) \in Positive /\ Measure(t, e) \in Positive
      /\ Measure(s, e) \in Fractions /\ Measure(t, e) \in Fractions
  BY <1>1, MeasureType
<1>6. CASE S.canonical = T.canonical
  <2>1. S = T
    BY <1>1, <1>6, TableAssumption
  <2>2. m = One
    BY <1>2, <1>4, <1>6 DEF plan_activity, Planned
  <2>3. Measure(s, e) = Measure(t, e)
    BY <2>1, SameUnitSameMeasure
  <2>4. QED
    BY <1>1, <1>4, <1>5, <2>1, <2>2, <2>3, Units, Zenon
<1>7. CASE S.canonical # T.canonical /\ ~is_conditioned_volume_pair(S, T)
  <2>1. m = Over(S.ratio, T.ratio)
    BY <1>2, <1>4, <1>7 DEF plan_activity, Planned
  <2>2. ~S.conditioned /\ ~T.conditioned
    <3>1. S.conditioned => S.dimension = "VOLUME"
      BY <1>1, TableAssumption
    <3>2. T.conditioned => T.dimension = "VOLUME"
      BY <1>1, TableAssumption
    <3>3. ~(S.conditioned /\ T.conditioned)
      BY <1>1, <1>7, TableAssumption
    <3>4. S.conditioned \in BOOLEAN /\ T.conditioned \in BOOLEAN
      BY <1>1, TableAssumption
    <3>5. S.dimension = "VOLUME" => S.conditioned = T.conditioned
      BY <1>4, <1>7 DEF is_conditioned_volume_pair
    <3>6. QED
      BY <1>4, <3>1, <3>2, <3>3, <3>4, <3>5
  <2>3. Measure(s, e) = S.ratio /\ Measure(t, e) = T.ratio
    BY <2>2 DEF Measure, parse_activity_unit
  <2>4. S.conditioned = T.conditioned
    <3>1. S.conditioned \in BOOLEAN /\ T.conditioned \in BOOLEAN
      BY <1>1, TableAssumption
    <3>2. QED
      BY <2>2, <3>1
  <2>5. Over(S.ratio, T.ratio) \in Positive
    BY <1>5, <2>3, PositiveType
  <2>6. Times(Over(S.ratio, T.ratio), T.ratio) = S.ratio
    BY <1>5, <2>3, OverTimes
  <2>7. QED
    BY <1>1, <1>4, <2>1, <2>3, <2>4, <2>5, <2>6, Zenon
<1>8. CASE S.canonical # T.canonical /\ is_conditioned_volume_pair(S, T)
  <2>1. d # NoEvidence
    BY <1>3, <1>4, <1>8 DEF plan_activity, NotPlanned
  <2>2. d = e /\ e # NoEvidence
    BY <2>1
  <2>3. matching_evidence(e, S, T) /\ m = e.multiplier
    BY <1>2, <1>3, <1>4, <1>8, <2>2 DEF plan_activity, NotPlanned, Planned
  <2>4. e.source = S.canonical /\ e.target = T.canonical /\ e.multiplier \in Positive
    BY <2>2, <2>3 DEF matching_evidence, Evidences
  <2>5. /\ Activity[e.source] = S /\ Activity[e.target] = T
        /\ {e.source, e.target} \subseteq DOMAIN Activity
    BY <1>1, <2>4, TableAssumption
  <2>6. (S.conditioned /\ ~T.conditioned) \/ (~S.conditioned /\ T.conditioned)
    <3>1. S.conditioned \in BOOLEAN /\ T.conditioned \in BOOLEAN
      BY <1>1, TableAssumption
    <3>2. QED
      BY <1>8, <3>1 DEF is_conditioned_volume_pair
  <2>7. S.ratio \in Positive /\ T.ratio \in Positive
    BY <1>1, TableAssumption
  <2>8. S.ratio \in Fractions /\ T.ratio \in Fractions /\ e.multiplier \in Fractions
    BY <2>4, <2>7 DEF Positive
  <2>9. CASE S.conditioned /\ ~T.conditioned
    <3>1. Measure(s, e) = Times(T.ratio, e.multiplier)
      BY <1>8, <2>2, <2>4, <2>5, <2>9 DEF Measure, parse_activity_unit
    <3>2. Measure(t, e) = T.ratio
      BY <2>9 DEF Measure, parse_activity_unit
    <3>3. Times(e.multiplier, T.ratio) = Times(T.ratio, e.multiplier)
      BY <2>8, TimesCommutes
    <3>4. QED
      BY <1>1, <1>4, <2>1, <2>3, <2>4, <3>1, <3>2, <3>3, Zenon
  <2>10. CASE ~S.conditioned /\ T.conditioned
    <3>1. Measure(t, e) = Over(S.ratio, e.multiplier)
      BY <1>8, <2>2, <2>4, <2>5, <2>10 DEF Measure, parse_activity_unit
    <3>2. Measure(s, e) = S.ratio
      BY <2>10 DEF Measure, parse_activity_unit
    <3>3. Times(e.multiplier, Measure(t, e)) = Times(Measure(t, e), e.multiplier)
      BY <1>5, <2>8, TimesCommutes
    <3>4. Times(Over(S.ratio, e.multiplier), e.multiplier) = S.ratio
      BY <2>4, <2>8, OverTimes
    <3>5. QED
      BY <1>1, <1>4, <2>1, <2>3, <2>4, <3>1, <3>2, <3>3, <3>4, Zenon
  <2>11. QED
    BY <2>6, <2>9, <2>10
<1>9. QED
  BY <1>6, <1>7, <1>8

\* What a planned conversion of an activity says of its units.
LEMMA ActivityPlanUnits ==
    ASSUME NEW s, NEW t, NEW d \in Evidences, plan_activity_conversion(s, t, d).code = "ok"
    PROVE  /\ s \in DOMAIN Activity /\ t \in DOMAIN Activity
           /\ Activity[s].dimension = Activity[t].dimension
           /\ d = NoEvidence => Activity[s].conditioned = Activity[t].conditioned
BY ActivityPlanMeasures, Zenon

\* Units of one dimension and one reference state convert without evidence.
LEMMA ConvertsPlainly ==
    ASSUME NEW s \in DOMAIN Activity, NEW t \in DOMAIN Activity,
           Activity[s].dimension = Activity[t].dimension,
           Activity[s].conditioned = Activity[t].conditioned
    PROVE  plan_activity_conversion(s, t, NoEvidence).code = "ok"
BY DEF plan_activity_conversion, parse_activity_unit, plan_activity, is_conditioned_volume_pair, Planned

\* A planned conversion of a factor keeps what it stands for.
LEMMA FactorPlanRates ==
    ASSUME NEW a, NEW b, NEW e \in Evidences, NEW d, d = e \/ d = NoEvidence,
           plan_factor_conversion(a, b, d).code = "ok"
    PROVE  /\ parses(a) /\ parses(b)
           /\ plan_factor_conversion(a, b, d).multiplier \in Positive
           /\ Times(plan_factor_conversion(a, b, d).multiplier, Rate(b, e)) = Rate(a, e)
           /\ denominator(a).dimension = denominator(b).dimension
           /\ d = NoEvidence => denominator(a).conditioned = denominator(b).conditioned
<1>1. parses(a) /\ parses(b)
  BY DEF plan_factor_conversion, NotPlanned
<1> DEFINE s == denominator(a).canonical
           t == denominator(b).canonical
           plan == plan_activity_conversion(s, t, d)
           I == Impact[a.impact]
           J == Impact[b.impact]
<1>2. plan.code = "ok" /\ plan_factor_conversion(a, b, d).multiplier = Over(Over(I, J), plan.multiplier)
  BY <1>1 DEF plan_factor_conversion, Planned, factor_multiplier
<1>3. Activity[s] = denominator(a) /\ Activity[t] = denominator(b)
  BY <1>1, TableAssumption DEF parses, denominator, parse_activity_unit
<1>4. PICK m \in Positive : m = plan.multiplier
  BY <1>2, ActivityPlanMeasures
<1>5. PICK x \in Positive, y \in Positive :
         /\ x = Measure(a.activity, e) /\ y = Measure(b.activity, e)
         /\ Times(m, y) = x
  <2>1. a.activity \in DOMAIN Activity /\ b.activity \in DOMAIN Activity
    BY <1>1 DEF parses
  <2>2. Measure(a.activity, e) \in Positive /\ Measure(b.activity, e) \in Positive
    BY <2>1, MeasureType
  <2>3. Measure(s, e) = Measure(a.activity, e) /\ Measure(t, e) = Measure(b.activity, e)
    BY <1>3, SameUnitSameMeasure DEF denominator, parse_activity_unit
  <2>4. Times(plan.multiplier, Measure(t, e)) = Measure(s, e)
    BY <1>2, ActivityPlanMeasures
  <2>5. QED
    BY <1>4, <2>2, <2>3, <2>4
<1>6. I \in Positive /\ J \in Positive
  BY <1>1, TableAssumption DEF parses
<1> HIDE DEF s, t, plan, I, J
<1>7. /\ I \in Fractions /\ J \in Fractions /\ m \in Fractions /\ x \in Fractions /\ y \in Fractions
      /\ Over(I, J) \in Positive /\ Over(I, J) \in Fractions
      /\ Over(Over(I, J), m) \in Positive
  <2>1. Over(I, J) \in Positive
    BY <1>6, PositiveType
  <2>2. Over(Over(I, J), m) \in Positive
    BY <2>1, PositiveType
  <2>3. QED
    BY <1>6, <2>1, <2>2 DEF Positive
\* (I/J)/m * (J/y) = I/x, both sides multiplied by x = m*y.
<1>8. Times(Over(Over(I, J), m), Over(J, y)) = Over(I, x)
  <2> DEFINE k == Over(I, J)
             r == Over(k, m)
             w == Over(J, y)
  <2>1. r \in Fractions /\ w \in Fractions /\ Times(r, w) \in Fractions /\ Over(I, x) \in Fractions
    <3>1. r \in Fractions /\ w \in Fractions /\ Over(I, x) \in Fractions
      BY <1>7, OverType
    <3>2. QED
      BY <3>1, TimesType
  <2>2. Times(r, m) = k /\ Times(w, y) = J /\ Times(k, J) = I /\ Times(Over(I, x), x) = I
    BY <1>6, <1>7, OverTimes
  <2> HIDE DEF k, r, w
  <2>3. Times(Times(r, w), x) = I
    <3>1. Times(Times(r, w), x) = Times(r, Times(w, x))
      BY <1>7, <2>1, TimesAssociates
    <3>2. Times(w, Times(m, y)) = Times(m, J)
      <4>1. Times(m, y) = Times(y, m)
        BY <1>7, TimesCommutes
      <4>2. Times(w, Times(y, m)) = Times(Times(w, y), m)
        BY <1>7, <2>1, TimesAssociates
      <4>3. Times(J, m) = Times(m, J)
        BY <1>7, TimesCommutes
      <4>4. QED
        BY <2>2, <4>1, <4>2, <4>3, Zenon
    <3>3. Times(r, Times(m, J)) = Times(Times(r, m), J)
      BY <1>7, <2>1, TimesAssociates
    <3>4. QED
      BY <1>5, <2>2, <3>1, <3>2, <3>3, Zenon
  <2>4. Times(Times(r, w), x) = Times(Over(I, x), x)
    BY <2>2, <2>3, Zenon
  <2>5. Times(r, w) = Over(I, x)
    BY <2>1, <2>4, Cancels
  <2>6. QED
    BY <2>5 DEF k, r, w
<1>9. Rate(b, e) = Over(J, y) /\ Rate(a, e) = Over(I, x)
  BY <1>5, Zenon DEF Rate, I, J
<1>10. /\ denominator(a).dimension = denominator(b).dimension
       /\ d = NoEvidence => denominator(a).conditioned = denominator(b).conditioned
  <2>1. /\ Activity[s].dimension = Activity[t].dimension
        /\ d = NoEvidence => Activity[s].conditioned = Activity[t].conditioned
    BY <1>2, ActivityPlanMeasures DEF plan
  <2>2. QED
    BY <1>3, <2>1
<1>11. QED
  BY <1>1, <1>2, <1>4, <1>7, <1>8, <1>9, <1>10, Zenon

\* What a planned conversion of a factor says of its units.
LEMMA FactorPlanUnits ==
    ASSUME NEW a, NEW b, NEW d \in Evidences, plan_factor_conversion(a, b, d).code = "ok"
    PROVE  /\ parses(a) /\ parses(b)
           /\ denominator(a).dimension = denominator(b).dimension
           /\ d = NoEvidence => denominator(a).conditioned = denominator(b).conditioned
BY FactorPlanRates, Zenon

\* Factors of one dimension and one reference state convert without evidence.
LEMMA FactorConvertsPlainly ==
    ASSUME NEW a, NEW b, parses(a), parses(b),
           denominator(a).dimension = denominator(b).dimension,
           denominator(a).conditioned = denominator(b).conditioned
    PROVE  factor_converts(a, b)
<1>1. /\ denominator(a).canonical \in DOMAIN Activity
      /\ Activity[denominator(a).canonical] = denominator(a)
      /\ denominator(b).canonical \in DOMAIN Activity
      /\ Activity[denominator(b).canonical] = denominator(b)
  BY TableAssumption DEF parses, denominator, parse_activity_unit
<1>2. plan_activity_conversion(denominator(a).canonical, denominator(b).canonical, NoEvidence).code = "ok"
  BY <1>1, ConvertsPlainly
<1>3. QED
  BY <1>2 DEF factor_converts, plan_factor_conversion, Planned

\* Rates are positive.
LEMMA RateType ==
    ASSUME NEW unit, parses(unit), NEW e \in Evidences
    PROVE  Rate(unit, e) \in Positive /\ Rate(unit, e) \in Fractions
<1>1. Impact[unit.impact] \in Positive /\ Measure(unit.activity, e) \in Positive
  <2>1. Measure(unit.activity, e) \in Positive
    BY MeasureType DEF parses
  <2>2. QED
    BY <2>1, TableAssumption DEF parses
<1>2. QED
  BY <1>1, PositiveType, Zenon DEF Rate

\* A factor converted without evidence.
LEMMA ConvertedFactor ==
    ASSUME NEW a, NEW b, NEW e \in Evidences, NEW v \in Fractions, factor_converts(a, b)
    PROVE  /\ parses(a) /\ parses(b)
           /\ convert_factor(v, a, b) \in Fractions
           /\ Times(convert_factor(v, a, b), Rate(b, e)) = Times(v, Rate(a, e))
<1>1. parses(a) /\ parses(b)
  BY FactorPlanRates DEF factor_converts
<1>2. PICK m \in Positive :
         /\ m = plan_factor_conversion(a, b, NoEvidence).multiplier
         /\ Times(m, Rate(b, e)) = Rate(a, e)
  BY FactorPlanRates DEF factor_converts
<1>3. m \in Fractions /\ Rate(b, e) \in Fractions
  BY <1>1, RateType DEF Positive
<1>4. convert_factor(v, a, b) = Times(v, m)
  BY <1>2 DEF convert_factor, Convert
<1>5. Times(v, m) \in Fractions
  BY <1>3, TimesType
<1>6. Times(Times(v, m), Rate(b, e)) = Times(v, Times(m, Rate(b, e)))
  BY <1>3, TimesAssociates
<1>7. QED
  BY <1>1, <1>2, <1>4, <1>5, <1>6, Zenon

-----------------------------------------------------------------------------
(* What a converted factor, activity and mass stand for.                   *)

\* A converted activity measures what it measured.
LEMMA ConvertedActivity ==
    ASSUME NEW s, NEW t, NEW e \in Evidences, NEW d, d = e \/ d = NoEvidence,
           NEW v \in Fractions, plan_activity_conversion(s, t, d).code = "ok"
    PROVE  /\ Convert(v, plan_activity_conversion(s, t, d)) \in Fractions
           /\ Times(Convert(v, plan_activity_conversion(s, t, d)), Measure(t, e))
                = Times(v, Measure(s, e))
<1>1. PICK m \in Positive :
         /\ m = plan_activity_conversion(s, t, d).multiplier
         /\ Times(m, Measure(t, e)) = Measure(s, e)
         /\ t \in DOMAIN Activity
  BY ActivityPlanMeasures
<1>2. m \in Fractions /\ Measure(t, e) \in Fractions
  BY <1>1, MeasureType DEF Positive
<1>3. Convert(v, plan_activity_conversion(s, t, d)) = Times(v, m)
  BY <1>1 DEF Convert
<1>4. Times(v, m) \in Fractions
  BY <1>2, TimesType
<1>5. Times(Times(v, m), Measure(t, e)) = Times(v, Times(m, Measure(t, e)))
  BY <1>2, TimesAssociates
<1>6. QED
  BY <1>1, <1>3, <1>4, <1>5, Zenon

\* A total is the factor in base units times the activity in base units.
LEMMA ApplicationTotal ==
    ASSUME NEW unit, parses(unit), NEW e \in Evidences, NEW v \in Fractions, NEW a \in Fractions
    PROVE  /\ application_total(v, unit, a) \in Fractions
           /\ application_total(v, unit, a)
                = Times(Times(v, Rate(unit, e)), Times(a, Measure(unit.activity, e)))
<1> DEFINE p == PerDenominator(unit)
<1>1. /\ p.impact = "kgCO2e" /\ p.activity = denominator(unit).canonical
      /\ denominator(p) = denominator(unit) /\ parses(p)
      /\ Activity[p.activity] = Activity[unit.activity]
  BY TableAssumption DEF PerDenominator, parses, denominator, parse_activity_unit
<1>2. factor_converts(unit, p)
  BY <1>1, FactorConvertsPlainly
<1>3. PICK x \in Fractions : /\ x = convert_factor(v, unit, p)
                             /\ Times(x, Rate(p, e)) = Times(v, Rate(unit, e))
  BY <1>2, ConvertedFactor
<1>4. PICK m \in Positive : m = Measure(unit.activity, e)
  BY MeasureType DEF parses
<1>5. PICK w \in Fractions : w = Over(One, m) /\ Times(w, m) = One
  BY Units, OverType, OverTimes
<1>6. Rate(p, e) = w
  <2>1. Measure(p.activity, e) = m
    BY <1>1, <1>4, SameUnitSameMeasure, Zenon
  <2>2. Impact["kgCO2e"] = One
    BY TableAssumption
  <2>3. QED
    BY <1>1, <1>5, <2>1, <2>2, Zenon DEF Rate
<1>7. application_total(v, unit, a) = Times(x, a)
  BY <1>3, Zenon DEF application_total
<1> HIDE DEF p
<1>8. PICK n \in Fractions : n = m
  BY PositiveType
<1>9. PICK y \in Fractions : y = Times(a, n)
  BY TimesType
<1>10. Times(w, y) = a
  <2>1. Times(a, n) = Times(n, a)
    BY TimesCommutes
  <2>2. Times(Times(w, n), a) = Times(w, Times(n, a))
    BY TimesAssociates
  <2>3. Times(One, a) = a
    BY Units
  <2>4. QED
    BY <1>5, <1>8, <1>9, <2>1, <2>2, <2>3, Zenon
<1>11. Times(Times(x, w), y) = Times(x, Times(w, y))
  BY TimesAssociates
<1>12. Times(x, a) \in Fractions
  BY TimesType
<1>13. QED
  BY <1>3, <1>4, <1>6, <1>7, <1>8, <1>9, <1>10, <1>11, <1>12, Zenon

\* Kilograms are the measure of a mass, and kgCO2e per kg that of a factor of a mass.
LEMMA Kilograms ==
    ASSUME NEW e \in Evidences
    PROVE  /\ Measure("kg", e) = One /\ Rate(PerKg, e) = One /\ parses(PerKg)
           /\ denominator(PerKg).dimension = "MASS"
           /\ \A u \in DOMAIN Activity : Activity[u].dimension = "MASS" => Activity[u].conditioned = FALSE
<1>1. \A u \in DOMAIN Activity : Activity[u].dimension = "MASS" => Activity[u].conditioned = FALSE
  BY TableAssumption
<1>2. Measure("kg", e) = One
  BY <1>1, TableAssumption DEF Measure, parse_activity_unit
<1>3. Rate(PerKg, e) = One
  BY <1>2, Units, TableAssumption DEF Rate, PerKg
<1>4. QED
  BY <1>1, <1>2, <1>3, TableAssumption DEF parses, PerKg, denominator, parse_activity_unit

\* The factor per kg is the factor in base units.
LEMMA FactorPerKg ==
    ASSUME NEW unit, parses(unit), denominator(unit).dimension = "MASS",
           NEW e \in Evidences, NEW v \in Fractions
    PROVE  /\ factor_converts(unit, PerKg) /\ factor_converts(PerKg, unit)
           /\ convert_factor(v, unit, PerKg) \in Fractions
           /\ convert_factor(v, unit, PerKg) = Times(v, Rate(unit, e))
<1>1. /\ parses(PerKg) /\ denominator(PerKg).dimension = "MASS" /\ Rate(PerKg, e) = One
      /\ \A u \in DOMAIN Activity : Activity[u].dimension = "MASS" => Activity[u].conditioned = FALSE
  BY Kilograms
<1>2. denominator(PerKg).conditioned = FALSE /\ denominator(unit).conditioned = FALSE
  BY <1>1 DEF parses, denominator, parse_activity_unit
<1>3. factor_converts(unit, PerKg) /\ factor_converts(PerKg, unit)
  BY <1>1, <1>2, FactorConvertsPlainly
<1>4. /\ convert_factor(v, unit, PerKg) \in Fractions
      /\ Times(convert_factor(v, unit, PerKg), Rate(PerKg, e)) = Times(v, Rate(unit, e))
  BY <1>3, ConvertedFactor
<1>5. QED
  BY <1>1, <1>3, <1>4, Units, Zenon

\* The factor per kg converts in both directions; only masses do.
LEMMA FactorFromKg ==
    ASSUME NEW unit, factor_converts(unit, PerKg), NEW v \in Fractions
    PROVE  /\ convert_factor(v, PerKg, unit) \in Fractions
           /\ convert_factor(convert_factor(v, PerKg, unit), unit, PerKg) = v
<1>1. NoEvidence \in Evidences
  BY DEF Evidences
<1>2. parses(unit) /\ parses(PerKg) /\ denominator(unit).dimension = denominator(PerKg).dimension
  BY <1>1, FactorPlanRates DEF factor_converts
<1>3. /\ denominator(PerKg).dimension = "MASS" /\ Rate(PerKg, NoEvidence) = One
  BY <1>1, Kilograms
<1>4. factor_converts(PerKg, unit)
  BY <1>1, <1>2, <1>3, FactorPerKg
<1>5. PICK x \in Fractions : /\ x = convert_factor(v, PerKg, unit)
                             /\ Times(x, Rate(unit, NoEvidence)) = Times(v, Rate(PerKg, NoEvidence))
  BY <1>1, <1>4, ConvertedFactor
<1>6. convert_factor(x, unit, PerKg) = Times(x, Rate(unit, NoEvidence))
  BY <1>1, <1>2, <1>3, FactorPerKg
<1>7. QED
  BY <1>3, <1>5, <1>6, Units, Zenon

\* Activity and mass in kg are one amount.
LEMMA MassInKg ==
    ASSUME NEW unit, parses(unit), denominator(unit).dimension = "MASS",
           NEW e \in Evidences, NEW v \in Fractions
    PROVE  LET u == denominator(unit).canonical
               there == Convert(v, plan_activity_conversion(u, "kg", NoEvidence))
               back == Convert(v, plan_activity_conversion("kg", u, NoEvidence))
           IN  /\ there = Times(v, Measure(unit.activity, e))
               /\ back \in Fractions /\ Times(back, Measure(unit.activity, e)) = v
<1> DEFINE u == denominator(unit).canonical
           there == Convert(v, plan_activity_conversion(u, "kg", NoEvidence))
           back == Convert(v, plan_activity_conversion("kg", u, NoEvidence))
<1>1. /\ u \in DOMAIN Activity /\ Activity[u] = Activity[unit.activity]
      /\ "kg" \in DOMAIN Activity
      /\ Activity[u].dimension = "MASS" /\ Activity["kg"].dimension = "MASS"
  BY TableAssumption DEF parses, denominator, parse_activity_unit
<1>2. Activity[u].conditioned = FALSE /\ Activity["kg"].conditioned = FALSE /\ Measure("kg", e) = One
  BY <1>1, Kilograms
<1>3. /\ plan_activity_conversion(u, "kg", NoEvidence).code = "ok"
      /\ plan_activity_conversion("kg", u, NoEvidence).code = "ok"
  BY <1>1, <1>2, ConvertsPlainly
<1>4. Measure(u, e) = Measure(unit.activity, e)
  BY <1>1, SameUnitSameMeasure
<1>5. /\ there \in Fractions /\ Times(there, Measure("kg", e)) = Times(v, Measure(u, e))
      /\ back \in Fractions /\ Times(back, Measure(u, e)) = Times(v, Measure("kg", e))
  BY <1>3, ConvertedActivity
<1>6. Times(there, One) = there /\ Times(v, One) = v
  BY <1>5, Units
<1>7. QED
  BY <1>2, <1>4, <1>5, <1>6, Zenon

-----------------------------------------------------------------------------
(* The candidate.                                                          *)

\* The requested amount: in base units, or in kg by the mass per unit.
Amount(r, c) ==
    IF c.flow = NoValue THEN Times(r.quantity, Measure(r.unit, r.evidence))
    ELSE Times(r.quantity, c.flow.mass)

\* Its units convert into each other, and as long as it rests on its record alone its factor
\* is that of the record.
Sound(r, c) ==
    /\ c \in Candidates
    /\ parses(c.unit) /\ parses(c.source.unit)
    /\ denominator(c.source.unit).dimension = denominator(c.unit).dimension
    /\ c.source.id \in c.bases
    /\ c.bases = {c.source.id} /\ "PROCESS_VARIANT" \notin c.steps =>
          Times(c.value, Rate(c.unit, r.evidence)) = Times(c.source.value, Rate(c.source.unit, r.evidence))

\* A request for pieces or a product's volume that waits for a mass per unit.
Waiting(c) ==
    /\ c.activity = NoValue /\ c.activity_unit = NoUnit
    /\ c.kg = NoValue /\ c.total = NoValue /\ c.flow = NoValue
    /\ "REFERENCE_FLOW" \in c.gaps
    /\ c.unit = c.source.unit /\ denominator(c.unit).dimension = "MASS"

\* Activity and mass are the requested amount.
Measured(r, c) ==
    /\ c.activity \in Fractions /\ c.activity_unit = denominator(c.unit).canonical
    /\ Times(c.activity, Measure(c.unit.activity, r.evidence)) = Amount(r, c)
    /\ c.kg # NoValue => denominator(c.unit).dimension = "MASS" /\ c.kg = Amount(r, c)
    /\ c.flow = NoValue =>
          /\ "REFERENCE_FLOW" \notin c.gaps
          /\ r.unit \in DOMAIN Activity
          /\ r.evidence = NoEvidence =>
                /\ Activity[r.unit].conditioned = denominator(c.unit).conditioned
                /\ denominator(c.source.unit).conditioned = denominator(c.unit).conditioned
    /\ c.flow # NoValue =>
          /\ {c.flow.unit, r.unit} \subseteq DOMAIN Activity
          /\ Activity[c.flow.unit] = Activity[r.unit]
          /\ Activity[r.unit].dimension = "COUNT" => c.flow.unit = r.unit

\* So is what the total was computed from.
Aligned(r, c) == Measured(r, c) /\ c.total = application_total(c.value, c.unit, c.activity)

\* The numbers of a request.
LEMMA RequestType ==
    ASSUME NEW r \in Requests
    PROVE  r.quantity \in Fractions /\ r.evidence \in Evidences /\ r.grade \in Grades
BY InputAssumption DEF Evidences

\* The steps and the ids a derivation adds.
StepSets == SUBSET (Gaps \cup {"UNIT_SCALE"})

IdSets == SUBSET Nat

\* What derive_candidate leaves alone and what it sets.
LEMMA Derived ==
    ASSUME NEW c \in Candidates, NEW kind \in Kinds, NEW v \in Fractions,
           NEW steps \in StepSets, NEW bases \in IdSets,
           effective_total(c, v) \in Fractions \cup {NoValue}
    PROVE  \E d \in Candidates :
              /\ d = derive_candidate(c, kind, v, steps, bases)
              /\ d.source = c.source /\ d.unit = c.unit /\ d.gaps = c.gaps
              /\ d.activity = c.activity /\ d.activity_unit = c.activity_unit
              /\ d.kg = c.kg /\ d.flow = c.flow
              /\ d.kind = kind /\ d.value = v
              /\ d.steps = c.steps \cup steps /\ d.bases = c.bases \cup {c.source.id} \cup bases
              /\ d.total = effective_total(c, v)
<1>1. c.source.id \in Nat
  BY DEF Candidates, Records
<1>2. /\ c.bases \cup {c.source.id} \cup bases \in SUBSET Nat
      /\ c.steps \cup steps \in SUBSET (Gaps \cup {"UNIT_SCALE"})
  BY <1>1 DEF Candidates, IdSets, StepSets
<1>3. PICK d : d = derive_candidate(c, kind, v, steps, bases)
  OBVIOUS
<1>4. /\ d \in Candidates
      /\ d.source = c.source /\ d.unit = c.unit /\ d.gaps = c.gaps
      /\ d.activity = c.activity /\ d.activity_unit = c.activity_unit
      /\ d.kg = c.kg /\ d.flow = c.flow
      /\ d.kind = kind /\ d.value = v
      /\ d.steps = c.steps \cup steps /\ d.bases = c.bases \cup {c.source.id} \cup bases
      /\ d.total = effective_total(c, v)
  BY <1>2, <1>3 DEF Candidates, derive_candidate
<1>5. QED
  BY <1>3, <1>4, Zenon

\* An aligned candidate's total for another factor.
LEMMA EffectiveTotal ==
    ASSUME NEW r \in Requests, NEW c, Sound(r, c), Measured(r, c), NEW v \in Fractions
    PROVE  /\ effective_total(c, v) = application_total(v, c.unit, c.activity)
           /\ effective_total(c, v) \in Fractions
<1>1. c.activity # NoValue
  BY InputAssumption DEF Measured
<1>2. effective_total(c, v) = application_total(v, c.unit, c.activity)
  BY <1>1 DEF effective_total
<1>3. application_total(v, c.unit, c.activity) \in Fractions
  BY RequestType, ApplicationTotal DEF Sound, Measured
<1>4. QED
  BY <1>2, <1>3

\* The total of an aligned candidate that rests on its record is the physical one.
LEMMA AlignedIsPhysical ==
    ASSUME NEW r \in Requests, NEW c, Sound(r, c), Aligned(r, c),
           c.bases = {c.source.id}, "PROCESS_VARIANT" \notin c.steps
    PROVE  c.total = PhysicalTotal(r, c)
<1> DEFINE e == r.evidence
<1>1. /\ e \in Evidences /\ parses(c.unit) /\ parses(c.source.unit)
      /\ c.value \in Fractions /\ c.source.value \in Fractions /\ c.activity \in Fractions
  BY RequestType DEF Sound, Aligned, Measured, Candidates, Records
<1>2. PICK x \in Fractions : x = Times(c.value, Rate(c.unit, e))
  BY <1>1, RateType, TimesType
<1>3. PICK y \in Fractions : y = Amount(r, c) /\ y = Times(c.activity, Measure(c.unit.activity, e))
  <2>1. Measure(c.unit.activity, e) \in Fractions
    BY <1>1, MeasureType DEF parses
  <2>2. Times(c.activity, Measure(c.unit.activity, e)) \in Fractions
    BY <1>1, <2>1, TimesType
  <2>3. QED
    BY <2>2 DEF Aligned, Measured
<1>4. c.total = Times(x, y)
  BY <1>1, <1>2, <1>3, ApplicationTotal DEF Aligned, Measured
<1>5. PICK s \in Fractions, i \in Fractions, m \in Positive :
         s = c.source.value /\ i = Impact[c.source.unit.impact] /\ m = Measure(c.source.unit.activity, e)
  <2>1. Measure(c.source.unit.activity, e) \in Positive
    BY <1>1, MeasureType DEF parses
  <2>2. Impact[c.source.unit.impact] \in Fractions
    BY <1>1, TableAssumption DEF parses, Positive
  <2>3. QED
    BY <1>1, <2>1, <2>2
<1>6. x = Times(s, Over(i, m))
  BY <1>2, <1>5 DEF Sound, Rate
<1>7. Times(s, Over(i, m)) = Over(Times(s, i), m)
  <2>1. Over(i, m) \in Fractions
    BY OverType
  <2>2. Times(s, Over(i, m)) = Times(Over(i, m), s)
    BY <2>1, TimesCommutes
  <2>3. Times(Over(i, m), s) = Over(Times(i, s), m)
    BY OverSwaps
  <2>4. Times(i, s) = Times(s, i)
    BY TimesCommutes
  <2>5. QED
    BY <2>2, <2>3, <2>4, Zenon
<1>8. Times(x, y) = Times(y, x)
  BY TimesCommutes
<1>9. PhysicalTotal(r, c) = Times(y, Over(Times(s, i), m))
  BY <1>3, <1>5, Zenon DEF PhysicalTotal, Amount
<1>10. QED
  BY <1>4, <1>6, <1>7, <1>8, <1>9, Zenon

\* The lock accepts an aligned candidate.
LEMMA AlignedIsExpected ==
    ASSUME NEW r \in Requests, NEW c, Sound(r, c), Aligned(r, c)
    PROVE  c.total # NoValue /\ TotalIsExpected(c)
<1>1. r.evidence \in Evidences /\ parses(c.unit) /\ c.activity \in Fractions /\ c.activity # NoValue
  BY RequestType, InputAssumption DEF Sound, Aligned, Measured
<1>2. c.total \in Fractions /\ c.total # NoValue
  <2>1. c.total = application_total(c.value, c.unit, c.activity) /\ c.value \in Fractions
    BY DEF Sound, Aligned, Measured, Candidates
  <2>2. application_total(c.value, c.unit, c.activity) \in Fractions
    BY <1>1, <2>1, ApplicationTotal
  <2>3. QED
    BY <2>1, <2>2, InputAssumption
<1>3. ASSUME c.kg # NoValue PROVE MassIsConsistent(c)
  <2>1. /\ denominator(c.unit).dimension = "MASS"
        /\ c.kg = Times(c.activity, Measure(c.unit.activity, r.evidence))
    BY <1>3 DEF Aligned, Measured
  <2>2. Convert(c.activity, plan_activity_conversion(denominator(c.unit).canonical, "kg", NoEvidence))
          = Times(c.activity, Measure(c.unit.activity, r.evidence))
    BY <1>1, <2>1, MassInKg
  <2>3. c.activity_unit = denominator(c.unit).canonical
    BY DEF Aligned, Measured
  <2>4. QED
    BY <2>1, <2>2, <2>3, Zenon DEF MassIsConsistent
<1>4. MassIsConsistent(c)
  BY <1>3 DEF MassIsConsistent
<1>5. QED
  BY <1>1, <1>2, <1>4 DEF TotalIsExpected, Aligned, Measured

-----------------------------------------------------------------------------
(* The candidate of a record.                                              *)

\* The mass of the request is its quantity in kg.
LEMMA QuantityKg ==
    ASSUME NEW r \in Requests
    PROVE  /\ quantity_kg(r) # NoValue => activity_dimension(r) = "MASS"
           /\ activity_dimension(r) = "MASS" =>
                 /\ Parsed(r) /\ quantity_kg(r) \in Fractions
                 /\ quantity_kg(r) = Times(r.quantity, Measure(r.unit, r.evidence))
<1>1. r.quantity \in Fractions /\ r.evidence \in Evidences
  BY RequestType
<1>2. ASSUME activity_dimension(r) = "MASS"
      PROVE  /\ Parsed(r) /\ quantity_kg(r) \in Fractions
             /\ quantity_kg(r) = Times(r.quantity, Measure(r.unit, r.evidence))
  <2>1. Parsed(r) /\ Activity[r.unit].dimension = "MASS"
    BY <1>2 DEF activity_dimension, parse_activity_unit
  <2>2. /\ r.unit \in DOMAIN Activity /\ "kg" \in DOMAIN Activity
        /\ Activity["kg"].dimension = "MASS"
    BY <2>1, TableAssumption DEF Parsed
  <2>3. /\ Measure("kg", r.evidence) = One
        /\ Activity[r.unit].conditioned = FALSE /\ Activity["kg"].conditioned = FALSE
    BY <1>1, <2>1, <2>2, Kilograms
  <2>4. plan_activity_conversion(r.unit, "kg", r.evidence).code = "ok"
    BY <2>1, <2>2, <2>3 DEF plan_activity_conversion, parse_activity_unit, plan_activity,
         is_conditioned_volume_pair, Planned
  <2>5. /\ Convert(r.quantity, plan_activity_conversion(r.unit, "kg", r.evidence)) \in Fractions
        /\ Times(Convert(r.quantity, plan_activity_conversion(r.unit, "kg", r.evidence)), One)
             = Times(r.quantity, Measure(r.unit, r.evidence))
    BY <1>1, <2>3, <2>4, ConvertedActivity
  <2>6. quantity_kg(r) = Convert(r.quantity, plan_activity_conversion(r.unit, "kg", r.evidence))
    BY <1>2 DEF quantity_kg
  <2>7. QED
    BY <2>1, <2>5, <2>6, Units, Zenon
<1>3. QED
  BY <1>2 DEF quantity_kg

\* The numbers of a record.
LEMMA SourceType ==
    ASSUME NEW s \in Sources
    PROVE  s \in Records /\ s.id \in Nat /\ s.value \in Fractions /\ s.unit \in FactorUnits
BY InputAssumption DEF Records

\* The fields of a new candidate.
LEMMA FreshType ==
    ASSUME NEW r \in Requests, NEW s \in Sources, NEW v \in Fractions, NEW unit \in ParsedUnits,
           NEW a \in Fractions \cup {NoValue}, NEW u \in DOMAIN Activity \cup {NoUnit},
           a = NoValue \/ application_total(v, unit, a) \in Fractions
    PROVE  \E f \in Candidates :
              /\ f = Fresh(r, s, v, unit, a, u)
              /\ f.source = s /\ f.value = v /\ f.unit = unit /\ f.activity = a /\ f.activity_unit = u
              /\ f.kg = quantity_kg(r) /\ f.flow = NoValue
              /\ f.steps = {} /\ f.bases = {s.id} /\ f.kind \in {"DIRECT", "UNIT_CONVERTED"}
              /\ f.total = IF a = NoValue THEN NoValue ELSE application_total(v, unit, a)
<1>1. s \in Records /\ s.id \in Nat
  BY SourceType
<1>2. quantity_kg(r) \in Fractions \cup {NoValue}
  BY QuantityKg DEF quantity_kg
<1>3. PICK t \in Fractions \cup {NoValue} :
         t = IF a = NoValue THEN NoValue ELSE application_total(v, unit, a)
  OBVIOUS
<1>4. PICK k \in {"DIRECT", "UNIT_CONVERTED"} : k = Kind(s, unit)
  BY DEF Kind
<1>5. PICK q \in Fractions \cup {NoValue} : q = quantity_kg(r)
  BY <1>2
<1>6. PICK f : f = [source |-> s, value |-> v, unit |-> unit, kind |-> k, gaps |-> {},
                    activity |-> a, activity_unit |-> u, kg |-> q,
                    flow |-> NoValue, steps |-> {}, bases |-> {s.id}, total |-> t]
  OBVIOUS
<1>7. f = Fresh(r, s, v, unit, a, u)
  BY <1>3, <1>4, <1>5, <1>6, Zenon DEF Fresh
<1>8. {s.id} \in SUBSET Nat /\ k \in Kinds
  BY <1>1 DEF Kinds
<1>9. f \in Candidates
  <2>1. {} \in SUBSET Gaps /\ {} \in SUBSET (Gaps \cup {"UNIT_SCALE"}) /\ NoValue \in Flows \cup {NoValue}
    OBVIOUS
  <2>2. QED
    BY <1>1, <1>6, <1>8, <2>1 DEF Candidates
<1>10. /\ f.source = s /\ f.value = v /\ f.unit = unit /\ f.activity = a /\ f.activity_unit = u
       /\ f.kg = q /\ f.flow = NoValue
       /\ f.steps = {} /\ f.bases = {s.id} /\ f.kind = k /\ f.total = t
  BY <1>6
<1>11. QED
  BY <1>3, <1>4, <1>5, <1>7, <1>9, <1>10, Zenon

\* A unit that parses, by its table keys.
LEMMA ParsedUnit ==
    ASSUME NEW u \in FactorUnits, parses(u)
    PROVE  u \in ParsedUnits
BY DEF FactorUnits, ParsedUnits, parses

\* So is the target of a request.
LEMMA TargetIsParsed ==
    ASSUME NEW r \in Requests, parses(effective_target(r))
    PROVE  effective_target(r) \in ParsedUnits
<1>1. CASE r.target # NoUnit
  <2>1. r.target \in FactorUnits /\ effective_target(r) = r.target
    BY <1>1, InputAssumption DEF effective_target
  <2>2. QED
    BY <2>1, ParsedUnit
<1>2. CASE r.target = NoUnit
  BY <1>2 DEF effective_target, ParsedUnits, parses
<1>3. QED
  BY <1>1, <1>2

\* A mass is asked for exactly where the dimensions differ.
LEMMA FlowGap ==
    ASSUME NEW r, NEW c
    PROVE  /\ analyze_candidate_gaps(r, c) \in SUBSET Gaps
           /\ "REFERENCE_FLOW" \in analyze_candidate_gaps(r, c)
                <=> activity_dimension(r) # denominator(c.unit).dimension
BY DEF analyze_candidate_gaps, Gaps

\* A new candidate that waits for a mass per unit.
LEMMA FreshThroughBridge ==
    ASSUME NEW r \in Requests, NEW s \in Sources, reference_flow_bridge(r, s.unit)
    PROVE  \E c \in Candidates :
              /\ c = [_candidate(r, s) EXCEPT !.gaps = analyze_candidate_gaps(r, _candidate(r, s))]
              /\ Sound(r, c) /\ Waiting(c)
              /\ c.source = s /\ c.bases = {s.id} /\ c.flow = NoValue
              /\ c.kind \in {"DIRECT", "UNIT_CONVERTED"}
<1>0. PICK k, c : k = _candidate(r, s) /\ c = [k EXCEPT !.gaps = analyze_candidate_gaps(r, k)]
  OBVIOUS
<1>1. s \in Records /\ s.id \in Nat /\ s.value \in Fractions /\ s.unit \in FactorUnits
  BY SourceType
<1>2. parses(s.unit)
  BY FactorPlanParses DEF reference_flow_bridge
<1>3. s.unit \in ParsedUnits
  BY <1>1, <1>2, ParsedUnit
<1>4. /\ denominator(s.unit).dimension = "MASS"
      /\ activity_dimension(r) \in {"COUNT", "VOLUME"}
  BY DEF reference_flow_bridge
<1>5. quantity_kg(r) = NoValue
  BY <1>4, QuantityKg
<1>6. k = Fresh(r, s, s.value, s.unit, NoValue, NoUnit)
  BY <1>0, Zenon DEF _candidate
<1>7. PICK gaps \in SUBSET Gaps :
         /\ gaps = analyze_candidate_gaps(r, k)
         /\ "REFERENCE_FLOW" \in gaps <=> activity_dimension(r) # denominator(k.unit).dimension
  BY FlowGap
<1>8. k.unit = s.unit
  BY <1>6 DEF Fresh
<1>9. "REFERENCE_FLOW" \in gaps
  BY <1>4, <1>7, <1>8
<1>10. /\ c \in Candidates
       /\ c.source = s /\ c.value = s.value /\ c.unit = s.unit
       /\ c.activity = NoValue /\ c.activity_unit = NoUnit
       /\ c.gaps = gaps /\ c.kg = NoValue /\ c.flow = NoValue
       /\ c.steps = {} /\ c.bases = {s.id} /\ c.kind \in {"DIRECT", "UNIT_CONVERTED"}
       /\ c.total = NoValue
  <2>1. PICK v \in Fractions, unit \in ParsedUnits, a \in Fractions \cup {NoValue},
             u \in DOMAIN Activity \cup {NoUnit} :
                v = s.value /\ unit = s.unit /\ a = NoValue /\ u = NoUnit
    BY <1>1, <1>3
  <2>2. a = NoValue \/ application_total(v, unit, a) \in Fractions
    BY <2>1
  <2>3. PICK f \in Candidates :
           /\ f = Fresh(r, s, v, unit, a, u)
           /\ f.source = s /\ f.value = v /\ f.unit = unit /\ f.activity = a /\ f.activity_unit = u
           /\ f.kg = quantity_kg(r) /\ f.flow = NoValue
           /\ f.steps = {} /\ f.bases = {s.id} /\ f.kind \in {"DIRECT", "UNIT_CONVERTED"}
           /\ f.total = IF a = NoValue THEN NoValue ELSE application_total(v, unit, a)
    BY <2>2, FreshType
  <2>4. c = [f EXCEPT !.gaps = gaps]
    BY <1>0, <1>6, <1>7, <2>1, <2>3, Zenon
  <2>5. /\ c \in Candidates /\ c.gaps = gaps
        /\ c.source = f.source /\ c.value = f.value /\ c.unit = f.unit /\ c.activity = f.activity
        /\ c.activity_unit = f.activity_unit /\ c.kg = f.kg /\ c.flow = f.flow
        /\ c.steps = f.steps /\ c.bases = f.bases /\ c.kind = f.kind /\ c.total = f.total
    BY <2>4 DEF Candidates
  <2>6. f.total = NoValue
    BY <2>1, <2>3
  <2>7. QED
    BY <1>5, <2>1, <2>3, <2>5, <2>6, Zenon
<1>11. Sound(r, c)
  BY <1>2, <1>10 DEF Sound
<1>12. Waiting(c)
  BY <1>4, <1>9, <1>10 DEF Waiting
<1>13. QED
  BY <1>0, <1>10, <1>11, <1>12, Zenon

\* A new candidate whose factor and activity were converted.
LEMMA FreshByPlans ==
    ASSUME NEW r \in Requests, NEW s \in Sources, ~reference_flow_bridge(r, s.unit),
           FactorPlan(r, s.unit).code = "ok", ActivityPlan(r).code = "ok"
    PROVE  \E c \in Candidates :
              /\ c = [_candidate(r, s) EXCEPT !.gaps = analyze_candidate_gaps(r, _candidate(r, s))]
              /\ Sound(r, c) /\ Aligned(r, c)
              /\ c.source = s /\ c.bases = {s.id} /\ c.flow = NoValue
              /\ c.kind \in {"DIRECT", "UNIT_CONVERTED"}
<1>0. PICK k, c : k = _candidate(r, s) /\ c = [k EXCEPT !.gaps = analyze_candidate_gaps(r, k)]
  OBVIOUS
<1>1. /\ s \in Records /\ s.id \in Nat /\ s.value \in Fractions /\ s.unit \in FactorUnits
      /\ r.quantity \in Fractions /\ r.evidence \in Evidences
  BY SourceType, RequestType
<1>2. PICK unit : unit = effective_target(r)
  OBVIOUS
<1>3. parses(s.unit) /\ parses(unit)
  BY <1>2, FactorPlanParses
<1>4. unit \in ParsedUnits
  BY <1>2, <1>3, TargetIsParsed
<1>5. PICK u \in DOMAIN Activity :
         /\ u = denominator(unit).canonical /\ Activity[u] = denominator(unit)
         /\ Activity[u] = Activity[unit.activity]
  BY <1>3, TableAssumption DEF parses, denominator, parse_activity_unit
<1>6. PICK v \in Fractions :
         /\ v = Convert(s.value, FactorPlan(r, s.unit))
         /\ Times(v, Rate(unit, r.evidence)) = Times(s.value, Rate(s.unit, r.evidence))
  <2>1. PICK m \in Positive :
           /\ m = FactorPlan(r, s.unit).multiplier
           /\ Times(m, Rate(unit, r.evidence)) = Rate(s.unit, r.evidence)
    BY <1>1, <1>2, FactorPlanRates DEF FactorPlan
  <2>2. m \in Fractions /\ Rate(unit, r.evidence) \in Fractions
    BY <1>1, <1>3, RateType DEF Positive
  <2>3. Times(s.value, m) \in Fractions
    BY <1>1, <2>2, TimesType
  <2>4. Times(Times(s.value, m), Rate(unit, r.evidence)) = Times(s.value, Times(m, Rate(unit, r.evidence)))
    BY <1>1, <2>2, TimesAssociates
  <2>5. Convert(s.value, FactorPlan(r, s.unit)) = Times(s.value, m)
    BY <2>1, Zenon DEF Convert
  <2>6. QED
    BY <2>1, <2>3, <2>4, <2>5
<1>7. denominator(s.unit).dimension = denominator(unit).dimension
      /\ (r.evidence = NoEvidence => denominator(s.unit).conditioned = denominator(unit).conditioned)
  <2>1. plan_factor_conversion(s.unit, unit, r.evidence).code = "ok"
    BY <1>2 DEF FactorPlan
  <2>2. QED
    BY <1>1, <2>1, FactorPlanUnits
<1>8. plan_activity_conversion(r.unit, u, r.evidence).code = "ok"
      /\ ActivityPlan(r) = plan_activity_conversion(r.unit, u, r.evidence)
  BY <1>2, <1>5 DEF ActivityPlan
<1>9. PICK a \in Fractions :
         /\ a = Convert(r.quantity, ActivityPlan(r))
         /\ Times(a, Measure(unit.activity, r.evidence)) = Times(r.quantity, Measure(r.unit, r.evidence))
  <2>1. /\ Convert(r.quantity, plan_activity_conversion(r.unit, u, r.evidence)) \in Fractions
        /\ Times(Convert(r.quantity, plan_activity_conversion(r.unit, u, r.evidence)), Measure(u, r.evidence))
             = Times(r.quantity, Measure(r.unit, r.evidence))
    BY <1>1, <1>8, ConvertedActivity
  <2>2. Measure(u, r.evidence) = Measure(unit.activity, r.evidence)
    BY <1>5, SameUnitSameMeasure
  <2>3. QED
    BY <1>8, <2>1, <2>2
<1>10. /\ r.unit \in DOMAIN Activity /\ Activity[r.unit].dimension = denominator(unit).dimension
       /\ r.evidence = NoEvidence => Activity[r.unit].conditioned = denominator(unit).conditioned
  <2>1. /\ r.unit \in DOMAIN Activity /\ Activity[r.unit].dimension = Activity[u].dimension
        /\ r.evidence = NoEvidence => Activity[r.unit].conditioned = Activity[u].conditioned
    BY <1>1, <1>8, ActivityPlanUnits
  <2>2. QED
    BY <1>5, <2>1
<1>11. activity_dimension(r) = denominator(unit).dimension
  BY <1>10 DEF activity_dimension, Parsed, parse_activity_unit
<1>12. k = Fresh(r, s, v, unit, a, u)
  BY <1>0, <1>2, <1>5, <1>6, <1>9, Zenon DEF _candidate
<1>13. PICK gaps \in SUBSET Gaps :
         /\ gaps = analyze_candidate_gaps(r, k)
         /\ "REFERENCE_FLOW" \in gaps <=> activity_dimension(r) # denominator(k.unit).dimension
  BY FlowGap
<1>14. k.unit = unit
  BY <1>12 DEF Fresh
<1>15. "REFERENCE_FLOW" \notin gaps
  BY <1>11, <1>13, <1>14
<1>16. a # NoValue
  BY InputAssumption
<1>17. /\ c \in Candidates
       /\ c.source = s /\ c.value = v /\ c.unit = unit /\ c.activity = a /\ c.activity_unit = u
       /\ c.gaps = gaps /\ c.kg = quantity_kg(r) /\ c.flow = NoValue
       /\ c.steps = {} /\ c.bases = {s.id} /\ c.kind \in {"DIRECT", "UNIT_CONVERTED"}
       /\ c.total = application_total(v, unit, a)
  <2>1. application_total(v, unit, a) \in Fractions
    BY <1>1, <1>3, ApplicationTotal
  <2>2. PICK f \in Candidates :
           /\ f = Fresh(r, s, v, unit, a, u)
           /\ f.source = s /\ f.value = v /\ f.unit = unit
           /\ f.activity = a /\ f.activity_unit = u
           /\ f.kg = quantity_kg(r) /\ f.flow = NoValue
           /\ f.steps = {} /\ f.bases = {s.id} /\ f.kind \in {"DIRECT", "UNIT_CONVERTED"}
           /\ f.total = IF a = NoValue THEN NoValue ELSE application_total(v, unit, a)
    BY <1>4, <2>1, FreshType
  <2>3. c = [f EXCEPT !.gaps = gaps]
    BY <1>0, <1>12, <1>13, <2>2, Zenon
  <2>4. /\ c \in Candidates /\ c.gaps = gaps
        /\ c.source = f.source /\ c.value = f.value /\ c.unit = f.unit /\ c.activity = f.activity
        /\ c.activity_unit = f.activity_unit /\ c.kg = f.kg /\ c.flow = f.flow
        /\ c.steps = f.steps /\ c.bases = f.bases /\ c.kind = f.kind /\ c.total = f.total
    BY <2>3 DEF Candidates
  <2>5. f.total = application_total(v, unit, a)
    BY <1>16, <2>2
  <2>6. QED
    BY <2>2, <2>4, <2>5, Zenon
<1>18. Sound(r, c)
  BY <1>3, <1>6, <1>7, <1>17 DEF Sound
<1>19. Amount(r, c) = Times(r.quantity, Measure(r.unit, r.evidence))
  BY <1>17 DEF Amount
<1>20. c.kg # NoValue => denominator(c.unit).dimension = "MASS" /\ c.kg = Amount(r, c)
  BY <1>11, <1>17, <1>19, QuantityKg
<1>21. Measured(r, c)
  BY <1>5, <1>7, <1>9, <1>10, <1>15, <1>17, <1>19, <1>20 DEF Measured
<1>22. Aligned(r, c)
  BY <1>17, <1>21 DEF Aligned
<1>23. QED
  BY <1>0, <1>17, <1>18, <1>22, Zenon

-----------------------------------------------------------------------------
(* What the routers make of it.                                            *)

\* With another factor, or the same one.
LEMMA DerivedIsAligned ==
    ASSUME NEW r \in Requests, NEW c, Sound(r, c), Measured(r, c),
           NEW kind \in Kinds, NEW v \in Fractions,
           NEW steps \in StepSets, NEW bases \in IdSets,
           \/ v = c.value
           \/ "PROCESS_VARIANT" \in steps
           \/ \E b \in bases : b # c.source.id
    PROVE  \E d \in Candidates :
              /\ d = derive_candidate(c, kind, v, steps, bases)
              /\ Sound(r, d) /\ Aligned(r, d)
              /\ d.source = c.source /\ d.unit = c.unit /\ d.flow = c.flow /\ d.gaps = c.gaps
              /\ d.kind = kind /\ d.value = v
              /\ d.steps = c.steps \cup steps /\ d.bases = c.bases \cup {c.source.id} \cup bases
<1>1. c \in Candidates
  BY DEF Sound
<1>2. /\ effective_total(c, v) = application_total(v, c.unit, c.activity)
      /\ effective_total(c, v) \in Fractions
  BY EffectiveTotal
<1>3. effective_total(c, v) \in Fractions \cup {NoValue}
  BY <1>2
<1>4. PICK d \in Candidates :
      /\ d = derive_candidate(c, kind, v, steps, bases)
      /\ d.source = c.source /\ d.unit = c.unit /\ d.gaps = c.gaps
      /\ d.activity = c.activity /\ d.activity_unit = c.activity_unit
      /\ d.kg = c.kg /\ d.flow = c.flow
      /\ d.kind = kind /\ d.value = v
      /\ d.steps = c.steps \cup steps /\ d.bases = c.bases \cup {c.source.id} \cup bases
      /\ d.total = effective_total(c, v)
  BY <1>1, <1>3, Derived
<1>5. ASSUME d.bases = {d.source.id}, "PROCESS_VARIANT" \notin d.steps
      PROVE  Times(d.value, Rate(d.unit, r.evidence)) = Times(d.source.value, Rate(d.source.unit, r.evidence))
  <2>1. c.source.id \in c.bases
    BY DEF Sound
  <2>2. v = c.value /\ c.bases = {c.source.id} /\ "PROCESS_VARIANT" \notin c.steps
    BY <1>4, <1>5, <2>1
  <2>3. QED
    BY <1>4, <2>2 DEF Sound
<1>6. Sound(r, d)
  <2>1. /\ parses(d.unit) /\ parses(d.source.unit)
        /\ denominator(d.source.unit).dimension = denominator(d.unit).dimension
    BY <1>4 DEF Sound
  <2>2. d.source.id \in d.bases
    BY <1>4
  <2>3. QED
    BY <1>4, <1>5, <2>1, <2>2 DEF Sound
<1>7. Amount(r, d) = Amount(r, c)
  BY <1>4 DEF Amount
<1>8. Measured(r, d)
  BY <1>4, <1>7 DEF Measured
<1>9. Aligned(r, d)
  BY <1>2, <1>4, <1>8 DEF Aligned
<1>10. QED
  BY <1>4, <1>6, <1>9

\* With a gap closed.
LEMMA ClosedIsAligned ==
    ASSUME NEW r \in Requests, NEW c \in Candidates, Sound(r, c), Aligned(r, c), NEW gap
    PROVE  \E d \in Candidates :
              /\ d = Closed(c, gap) /\ Sound(r, d) /\ Aligned(r, d)
              /\ d.source = c.source /\ d.unit = c.unit /\ d.value = c.value /\ d.kind = c.kind
              /\ d.bases = c.bases /\ d.steps = c.steps /\ d.flow = c.flow
<1>1. PICK d : d = Closed(c, gap)
  OBVIOUS
<1>2. /\ d \in Candidates /\ d.gaps = c.gaps \ {gap}
      /\ d.source = c.source /\ d.value = c.value /\ d.unit = c.unit /\ d.activity = c.activity
      /\ d.activity_unit = c.activity_unit /\ d.kg = c.kg /\ d.flow = c.flow
      /\ d.steps = c.steps /\ d.bases = c.bases /\ d.kind = c.kind /\ d.total = c.total
  BY <1>1 DEF Closed, Candidates
<1>3. Sound(r, d)
  BY <1>2 DEF Sound
<1>4. Amount(r, d) = Amount(r, c)
  BY <1>2 DEF Amount
<1>5. Measured(r, d)
  BY <1>2, <1>4 DEF Aligned, Measured
<1>6. Aligned(r, d)
  BY <1>2, <1>5 DEF Aligned
<1>7. QED
  BY <1>1, <1>2, <1>3, <1>6

\* What resolve_unit_scale records.
Scaled(c) ==
    [derive_candidate(c, "UNIT_CONVERTED", c.value, {"UNIT_SCALE"}, {}) EXCEPT !.total = c.total]


\* The scale is recorded, and the total stays.
LEMMA ScaledIsAligned ==
    ASSUME NEW r \in Requests, NEW c, Sound(r, c), Aligned(r, c)
    PROVE  \E d \in Candidates :
              /\ d = Scaled(c)
              /\ Sound(r, d) /\ Aligned(r, d)
              /\ d.source = c.source /\ d.flow = c.flow /\ d.kind = "UNIT_CONVERTED"
              /\ d.bases = c.bases \cup {c.source.id}
<1>1. /\ c \in Candidates /\ c.value \in Fractions /\ Measured(r, c)
      /\ c.total \in Fractions \cup {NoValue}
  BY DEF Sound, Aligned, Candidates
<1>2. "UNIT_CONVERTED" \in Kinds /\ {"UNIT_SCALE"} \in StepSets /\ {} \in IdSets
  BY DEF Kinds, StepSets, IdSets
<1>3. PICK f \in Candidates :
              /\ f = derive_candidate(c, "UNIT_CONVERTED", c.value, {"UNIT_SCALE"}, {})
              /\ Sound(r, f) /\ Aligned(r, f)
              /\ f.source = c.source /\ f.unit = c.unit /\ f.flow = c.flow /\ f.gaps = c.gaps
              /\ f.kind = "UNIT_CONVERTED" /\ f.value = c.value
              /\ f.steps = c.steps \cup {"UNIT_SCALE"}
              /\ f.bases = c.bases \cup {c.source.id} \cup {}
  BY <1>1, <1>2, DerivedIsAligned
<1>4. f.activity = c.activity
  BY <1>1, <1>3 DEF derive_candidate, Candidates
<1>5. f.total = c.total
  BY <1>3, <1>4 DEF Aligned
<1>6. PICK d : d = [f EXCEPT !.total = c.total]
  OBVIOUS
<1>7. /\ d \in Candidates /\ d.gaps = f.gaps
      /\ d.source = f.source /\ d.value = f.value /\ d.unit = f.unit /\ d.activity = f.activity
      /\ d.activity_unit = f.activity_unit /\ d.kg = f.kg /\ d.flow = f.flow
      /\ d.steps = f.steps /\ d.bases = f.bases /\ d.kind = f.kind /\ d.total = f.total
  BY <1>1, <1>5, <1>6 DEF Candidates
<1>8. Sound(r, d)
  BY <1>3, <1>7 DEF Sound
<1>9. Amount(r, d) = Amount(r, f)
  BY <1>7 DEF Amount
<1>10. Measured(r, d)
  BY <1>3, <1>7, <1>9 DEF Aligned, Measured
<1>11. Aligned(r, d)
  BY <1>3, <1>7, <1>10 DEF Aligned
<1>12. d = Scaled(c)
  BY <1>3, <1>6, Zenon DEF Scaled
<1>13. QED
  BY <1>3, <1>7, <1>8, <1>11, <1>12

\* The requested amount becomes a mass.
LEMMA FlowIsAligned ==
    ASSUME NEW r \in Requests, NEW c, Sound(r, c), Waiting(c), NEW f \in Flows,
           r = request, record_is_compatible(f)
    PROVE  \E d \in Candidates :
              /\ d = Closed(WithMass(c, f), "REFERENCE_FLOW") /\ Sound(r, d) /\ Aligned(r, d)
              /\ d.source = c.source /\ d.kind = "REFERENCE_FLOW_CONVERTED"
              /\ d.bases = c.bases \cup {c.source.id}
<1>1. /\ c \in Candidates /\ c.value \in Fractions /\ parses(c.unit) /\ r.quantity \in Fractions
      /\ f.mass \in Fractions /\ denominator(c.unit).dimension = "MASS" /\ r.evidence \in Evidences
  BY RequestType, InputAssumption DEF Sound, Waiting, Candidates
<1>2. PICK mass \in Fractions : mass = Times(r.quantity, f.mass)
  BY <1>1, TimesType
<1>3. PICK u \in DOMAIN Activity : u = denominator(c.unit).canonical
  BY <1>1, TableAssumption DEF parses, denominator, parse_activity_unit
<1>4. PICK a \in Fractions :
         /\ a = Convert(mass, plan_activity_conversion("kg", u, NoEvidence))
         /\ Times(a, Measure(c.unit.activity, r.evidence)) = mass
  BY <1>1, <1>3, MassInKg
<1>5. PICK x \in Fractions :
         /\ x = convert_factor(c.value, c.unit, PerKg) /\ x = Times(c.value, Rate(c.unit, r.evidence))
  BY <1>1, FactorPerKg
<1>6. PICK t \in Fractions : t = Times(mass, x)
  BY TimesType
<1>7. t = application_total(c.value, c.unit, a)
  <2>1. application_total(c.value, c.unit, a) = Times(x, mass)
    BY <1>1, <1>4, <1>5, ApplicationTotal
  <2>2. Times(mass, x) = Times(x, mass)
    BY TimesCommutes
  <2>3. QED
    BY <1>6, <2>1, <2>2, Zenon
<1>9. PICK k \in Candidates :
      /\ k = derive_candidate(c, "REFERENCE_FLOW_CONVERTED", c.value, {"REFERENCE_FLOW"}, {})
      /\ k.source = c.source /\ k.unit = c.unit /\ k.gaps = c.gaps /\ k.value = c.value
      /\ k.kind = "REFERENCE_FLOW_CONVERTED" /\ k.steps = c.steps \cup {"REFERENCE_FLOW"}
      /\ k.bases = c.bases \cup {c.source.id} \cup {}
  <2>1. effective_total(c, c.value) = NoValue
    BY DEF Waiting, effective_total
  <2>2. /\ "REFERENCE_FLOW_CONVERTED" \in Kinds
        /\ {"REFERENCE_FLOW"} \in StepSets /\ {} \in IdSets
    BY DEF Kinds, Gaps, StepSets, IdSets
  <2>3. effective_total(c, c.value) \in Fractions \cup {NoValue}
    BY <2>1
  <2>4. QED
    BY <1>1, <2>2, <2>3, Derived
<1>10. PICK w : w = WithMass(c, f)
  OBVIOUS
<1>11. w = [k EXCEPT !.activity = a, !.activity_unit = u, !.kg = mass, !.flow = f, !.total = t]
  BY <1>2, <1>3, <1>4, <1>5, <1>6, <1>9, <1>10, Zenon DEF WithMass
<1>12. PICK d : d = [w EXCEPT !.gaps = w.gaps \ {"REFERENCE_FLOW"}]
  OBVIOUS
<1>13. d = Closed(WithMass(c, f), "REFERENCE_FLOW")
  BY <1>10, <1>12 DEF Closed
<1>14. /\ d \in Candidates
       /\ d.source = c.source /\ d.unit = c.unit /\ d.value = c.value
       /\ d.kind = "REFERENCE_FLOW_CONVERTED" /\ d.steps = c.steps \cup {"REFERENCE_FLOW"}
       /\ d.bases = c.bases \cup {c.source.id}
       /\ d.activity = a /\ d.activity_unit = u /\ d.kg = mass /\ d.flow = f /\ d.total = t
       /\ d.gaps = c.gaps \ {"REFERENCE_FLOW"}
  <2>1. /\ w \in Candidates
        /\ w.source = k.source /\ w.unit = k.unit /\ w.value = k.value /\ w.kind = k.kind
        /\ w.steps = k.steps /\ w.bases = k.bases /\ w.gaps = k.gaps
        /\ w.activity = a /\ w.activity_unit = u /\ w.kg = mass /\ w.flow = f /\ w.total = t
    BY <1>9, <1>11 DEF Candidates
  <2>2. /\ d \in Candidates
        /\ d.source = w.source /\ d.unit = w.unit /\ d.value = w.value /\ d.kind = w.kind
        /\ d.steps = w.steps /\ d.bases = w.bases /\ d.gaps = w.gaps \ {"REFERENCE_FLOW"}
        /\ d.activity = w.activity /\ d.activity_unit = w.activity_unit /\ d.kg = w.kg
        /\ d.flow = w.flow /\ d.total = w.total
    BY <1>12, <2>1 DEF Candidates
  <2>3. QED
    BY <1>9, <2>1, <2>2
<1>15. Sound(r, d)
  <2>1. c.source.id \in c.bases
    BY DEF Sound
  <2>2. d.bases = c.bases
    BY <1>14, <2>1
  <2>3. "PROCESS_VARIANT" \in c.steps => "PROCESS_VARIANT" \in d.steps
    BY <1>14
  <2>4. QED
    BY <1>14, <2>1, <2>2, <2>3 DEF Sound
<1>16. f # NoValue
  BY InputAssumption
<1>17. Amount(r, d) = mass
  BY <1>2, <1>14, <1>16 DEF Amount
<1>18. /\ {f.unit, r.unit} \subseteq DOMAIN Activity
       /\ Activity[f.unit] = Activity[r.unit]
       /\ Activity[r.unit].dimension = "COUNT" => f.unit = r.unit
  <2>1. /\ {f.unit, r.unit} \subseteq DOMAIN Activity
        /\ Activity[f.unit].canonical = Activity[r.unit].canonical
        /\ Activity[f.unit].dimension = "COUNT" => f.unit = r.unit
    BY DEF record_is_compatible, parse_activity_unit
  <2>2. Activity[f.unit] = Activity[r.unit]
    BY <2>1, TableAssumption
  <2>3. QED
    BY <2>1, <2>2
<1>19. Measured(r, d)
  BY <1>1, <1>3, <1>4, <1>14, <1>16, <1>17, <1>18 DEF Measured
<1>20. QED
  BY <1>7, <1>13, <1>14, <1>15, <1>19 DEF Aligned

-----------------------------------------------------------------------------
(* The adjustment to a process.                                            *)

\* Emissions are given per t.
LEMMA Thousand == <<1000, 1>> \in Positive
<1>1. Reduced(1000, 1) = <<1000, 1>>
  BY Units
<1>2. QED
  BY <1>1 DEF Positive, Fractions

\* The mass of CO2 per mass of carbon.
LEMMA CarbonToDioxide == <<11, 3>> \in Fractions
<1>1. ASSUME NEW a \in Nat, NEW b \in Nat, NEW r \in Nat, b # 0, r = a % b
      PROVE  gcd[<<a, b>>] = gcd[<<b, r>>]
  BY <1>1, GcdStep
<1>2. 2 = 11 % 3 /\ 1 = 3 % 2 /\ 0 = 2 % 1
  OBVIOUS
<1>3. gcd[<<11, 3>>] = gcd[<<3, 2>>]
  BY <1>1, <1>2
<1>4. gcd[<<3, 2>>] = gcd[<<2, 1>>]
  BY <1>1, <1>2
<1>5. gcd[<<2, 1>>] = 1
  BY GcdOne
<1>6. gcd[<<11, 3>>] = 1
  BY <1>3, <1>4, <1>5, Zenon
<1>7. Reduced(11, 3) = <<11, 3>>
  BY <1>6 DEF Reduced
<1>8. QED
  BY <1>7 DEF Fractions

\* The emissions of a carrier are a number.
LEMMA CarrierType ==
    ASSUME NEW t \in Fractions, NEW share \in Fractions, NEW kgce \in Positive, NEW ef \in Fractions
    PROVE  Carrier(t, share, kgce, ef) \in Fractions
<1>1. PICK x \in Fractions : x = Times(t, share)
  BY TimesType
<1>2. PICK y \in Fractions : y = Over(x, kgce)
  BY OverType
<1>3. PICK z \in Fractions : z = Times(y, ef)
  BY TimesType
<1>4. Over(z, <<1000, 1>>) \in Fractions
  BY Thousand, OverType
<1>5. QED
  BY <1>1, <1>2, <1>3, <1>4 DEF Carrier, Per1000

\* So are those of a consumable.
LEMMA AdditionalType ==
    ASSUME NEW side \in Sides
    PROVE  additional_process_value(side) \in Fractions \cup {NoValue}
<1>1. CASE side.consumable = NoValue
  BY <1>1 DEF Sides, additional_process_value
<1>2. CASE side.consumable # NoValue
  <2>1. PICK m \in Fractions, k \in Fractions, o \in Fractions :
           m = side.consumable.mass /\ k = side.consumable.carbon /\ o = side.consumable.oxidation
    BY <1>2 DEF Sides
  <2>2. PICK x \in Fractions : x = Times(m, k)
    BY TimesType
  <2>3. PICK y \in Fractions : y = Times(x, o)
    BY TimesType
  <2>4. PICK z \in Fractions : z = Times(y, <<11, 3>>)
    BY CarbonToDioxide, TimesType
  <2>5. Over(z, <<1000, 1>>) \in Fractions
    BY Thousand, OverType
  <2>6. QED
    BY <1>2, <2>1, <2>2, <2>3, <2>4, <2>5
       DEF additional_process_value, stoichiometric_carbon_emission, Per1000
<1>3. QED
  BY <1>1, <1>2

\* So are those of a process.
LEMMA EmissionsType ==
    ASSUME NEW p, NEW side \in Sides,
           p.kwh_kgce \in Positive, p.kwh_ef \in Fractions,
           p.nm3_kgce \in Positive, p.nm3_ef \in Fractions
    PROVE  process_emissions(p, side) \in Fractions
<1>1. side.total \in Fractions /\ side.electricity \in Fractions /\ side.gas \in Fractions
  BY DEF Sides
<1>2. PICK x \in Fractions : x = Carrier(side.total, side.electricity, p.kwh_kgce, p.kwh_ef)
  BY <1>1, CarrierType
<1>3. PICK y \in Fractions : y = Carrier(side.total, side.gas, p.nm3_kgce, p.nm3_ef)
  BY <1>1, CarrierType
<1>4. PICK z \in Fractions : z = OrZero(additional_process_value(side))
  BY AdditionalType, Units DEF OrZero
<1>5. PICK s \in Fractions : s = Plus(x, y)
  BY PlusType
<1>6. Plus(s, z) \in Fractions
  BY PlusType
<1>7. QED
  BY <1>2, <1>3, <1>4, <1>5, <1>6 DEF process_emissions

\* So are the factors a sound answer stands for.
LEMMA ParametersType ==
    ASSUME NEW p \in SoundParameters
    PROVE  Added(p) \in Fractions /\ Removed(p) \in Fractions /\ Other(p) \in Fractions
<1>1. CASE p.mode = "full"
  <2>1. /\ p.reference \in Sides /\ p.target \in Sides
        /\ p.kwh_kgce \in Positive /\ p.kwh_ef \in Fractions
        /\ p.nm3_kgce \in Positive /\ p.nm3_ef \in Fractions
    BY <1>1 DEF SoundParameters
  <2>2. process_emissions(p, p.reference) \in Fractions /\ process_emissions(p, p.target) \in Fractions
    BY <2>1, EmissionsType
  <2>3. QED
    BY <1>1, <2>2, Units DEF Added, Removed, Other
<1>2. CASE p.mode # "full"
  <2>1. p.added \in Fractions /\ p.removed \in Fractions /\ p.other \in Fractions
    BY <1>2 DEF SoundParameters
  <2>2. QED
    BY <1>2, <2>1 DEF Added, Removed, Other
<1>3. QED
  BY <1>1, <1>2

\* The adjusted factor differs by the emissions of the processes: nothing is clamped.
LEMMA AdjustedDifference ==
    ASSUME NEW c, c.value \in Fractions, NEW p \in Parameters \cup {NoParameters}, Adjusts(c, p)
    PROVE  /\ AdjustedFactor(c, p) \in Fractions
           /\ Minus(convert_factor(AdjustedFactor(c, p), c.unit, PerKg),
                    convert_factor(c.value, c.unit, PerKg))
              = Plus(Minus(Added(p), Removed(p)), Other(p))
<1>1. p \in SoundParameters
  BY InputAssumption DEF Adjusts
<1>2. PICK added \in Fractions, removed \in Fractions, other \in Fractions :
         added = Added(p) /\ removed = Removed(p) /\ other = Other(p)
  BY <1>1, ParametersType
<1>3. NoEvidence \in Evidences /\ factor_converts(c.unit, PerKg)
  BY DEF Evidences, Adjusts
<1>4. PICK v \in Fractions : v = convert_factor(c.value, c.unit, PerKg)
  BY <1>3, ConvertedFactor
<1>5. PICK upstream \in Fractions : upstream = Minus(v, removed)
  BY MinusType
<1>6. upstream = Upstream(c, p) /\ AtMost(Zero, upstream)
  BY <1>2, <1>4, <1>5 DEF Upstream, Adjusts, DecomposesTo
<1>7. PICK s \in Fractions : s = Plus(upstream, added)
  BY PlusType
<1>8. PICK x \in Fractions : x = Plus(s, other)
  BY PlusType
<1>9. AdjustedFactor(c, p) = convert_factor(x, PerKg, c.unit)
  BY <1>2, <1>6, <1>7, <1>8 DEF AdjustedFactor
<1>10. /\ convert_factor(x, PerKg, c.unit) \in Fractions
       /\ convert_factor(convert_factor(x, PerKg, c.unit), c.unit, PerKg) = x
  BY <1>3, FactorFromKg
<1>11. Minus(Plus(Plus(Minus(v, removed), added), other), v) = Plus(Minus(added, removed), other)
  BY DifferenceOfSum
<1>12. QED
  BY <1>2, <1>4, <1>5, <1>7, <1>8, <1>9, <1>10, <1>11, Zenon

-----------------------------------------------------------------------------
(* The grade.                                                              *)

\* What the grade step takes for an anchor of a reference record.
Anchor(reference, a) ==
    /\ a \in {reference} \cup Anchors
    /\ a.id \in Nat /\ a.value \in Fractions /\ a.unit \in FactorUnits /\ a.grade \in Int
    /\ a.grade # NoGrade
    /\ factor_converts(a.unit, reference.unit)

\* The anchors of the grade step.
LEMMA AnchorsAreRecords ==
    ASSUME candidate.source \in Records, NEW records \in SUBSET Anchors,
           NEW a \in GradeAnchors(records)
    PROVE  Anchor(candidate.source, a)
<1>1. /\ a \in {candidate.source} \cup Anchors /\ a.grade # NoGrade
      /\ factor_converts(a.unit, candidate.source.unit)
  BY DEF GradeAnchors, IsAnchor
<1>2. a.id \in Nat /\ a.value \in Fractions /\ a.unit \in FactorUnits /\ a.grade \in Grades
  BY <1>1, InputAssumption DEF Records
<1>3. QED
  BY <1>1, <1>2 DEF Anchor, Grades

\* The first of some records is one of them.
LEMMA FirstIsOne ==
    ASSUME NEW S, S # {}, \A a \in S : a.id \in Nat
    PROVE  First(S) \in S
<1> DEFINE T == {a.id : a \in S}
<1>1. T \in SUBSET Nat /\ T # {}
  OBVIOUS
<1>2. PICK x \in T : \A y \in T : x <= y
  BY <1>1, LeastNat
<1>3. PICK a \in S : a.id = x
  OBVIOUS
<1>4. \A b \in S : a.id <= b.id
  BY <1>2, <1>3
<1>5. QED
  BY <1>4 DEF First

\* So is the nearest.
LEMMA NearestIsOne ==
    ASSUME NEW S, S # {}, \A a \in S : a.id \in Nat /\ a.grade \in Int, request.grade \in Int
    PROVE  Nearest(S) \in S
<1> DEFINE T == {Distance(a) : a \in S}
<1>1. \A a \in S : Distance(a) \in Nat
  BY DEF Distance
<1>2. T \in SUBSET Nat /\ T # {}
  BY <1>1
<1>3. PICK x \in T : \A y \in T : x <= y
  BY <1>2, LeastNat
<1>4. PICK a \in S : Distance(a) = x
  OBVIOUS
<1>5. PICK N : N = {b \in S : \A d \in S : Distance(b) <= Distance(d)}
  OBVIOUS
<1>6. a \in N
  BY <1>3, <1>4, <1>5
<1>7. N # {} /\ \A b \in N : b.id \in Nat
  BY <1>5, <1>6
<1>8. First(N) \in N
  BY <1>7, FirstIsOne
<1>9. QED
  BY <1>5, <1>8 DEF Nearest

\* Another record of the series in the place of the source.
LEMMA ReplacedIsSound ==
    ASSUME NEW r \in Requests, NEW c, Sound(r, c), Measured(r, c), NEW a,
           Anchor(c.source, a), factor_converts(a.unit, c.unit)
    PROVE  \E d \in Candidates :
              /\ d = Replaced(c, a) /\ Sound(r, d) /\ Measured(r, d)
              /\ d.source.id = a.id /\ d.flow = c.flow /\ d.unit = c.unit /\ d.value \in Fractions
<1>1. /\ c \in Candidates /\ c.source \in Records /\ r.evidence \in Evidences /\ NoEvidence \in Evidences
      /\ a.id \in Nat /\ a.value \in Fractions /\ a.unit \in FactorUnits /\ a.grade \in Grades
  BY RequestType DEF Sound, Anchor, Candidates, Grades, Evidences
<1>2. PICK v \in Fractions :
         /\ v = convert_factor(a.value, a.unit, c.unit)
         /\ Times(v, Rate(c.unit, r.evidence)) = Times(a.value, Rate(a.unit, r.evidence))
  BY <1>1, ConvertedFactor
<1>3. /\ parses(a.unit) /\ denominator(a.unit).dimension = denominator(c.unit).dimension
      /\ denominator(a.unit).conditioned = denominator(c.unit).conditioned
  BY <1>1, FactorPlanUnits DEF factor_converts
<1>4. PICK s : s = [c.source EXCEPT !.id = a.id, !.value = a.value, !.unit = a.unit, !.grade = a.grade]
  OBVIOUS
<1>5. s \in Records /\ s.id = a.id /\ s.value = a.value /\ s.unit = a.unit
  BY <1>1, <1>4 DEF Records
<1>6. PICK d : d = [c EXCEPT !.source = s, !.value = v, !.bases = {a.id}]
  OBVIOUS
<1>7. /\ d \in Candidates /\ d.source = s /\ d.value = v /\ d.bases = {a.id}
      /\ d.unit = c.unit /\ d.gaps = c.gaps /\ d.activity = c.activity
      /\ d.activity_unit = c.activity_unit /\ d.kg = c.kg /\ d.flow = c.flow
  BY <1>1, <1>5, <1>6 DEF Candidates
<1>8. d = Replaced(c, a)
  BY <1>2, <1>4, <1>6, Zenon DEF Replaced
<1>9. Sound(r, d)
  BY <1>2, <1>3, <1>5, <1>7 DEF Sound
<1>10. Amount(r, d) = Amount(r, c)
  BY <1>7 DEF Amount
<1>11. Measured(r, d)
  BY <1>3, <1>5, <1>7, <1>10 DEF Measured
<1>12. QED
  BY <1>5, <1>7, <1>8, <1>9, <1>11

\* Between a lower and a higher grade.
LEMMA InterpolatedIsBetween ==
    ASSUME NEW unit, NEW low, NEW high,
           low.value \in Fractions, high.value \in Fractions,
           low.grade \in Int, high.grade \in Int, request.grade \in Int,
           factor_converts(low.unit, unit), factor_converts(high.unit, unit),
           low.grade < request.grade, request.grade < high.grade
    PROVE  LET f == convert_factor(low.value, low.unit, unit)
               g == convert_factor(high.value, high.unit, unit)
               v == Interpolated(low, high, unit)
           IN  /\ v \in Fractions
               /\ \/ AtMost(f, v) /\ AtMost(v, g)
                  \/ AtMost(g, v) /\ AtMost(v, f)
<1>1. NoEvidence \in Evidences
  BY DEF Evidences
<1>2. PICK f \in Fractions : f = convert_factor(low.value, low.unit, unit)
  BY <1>1, ConvertedFactor
<1>3. PICK g \in Fractions : g = convert_factor(high.value, high.unit, unit)
  BY <1>1, ConvertedFactor
<1>4. PICK p \in Nat \ {0}, q \in Nat \ {0} :
         p = request.grade - low.grade /\ q = high.grade - low.grade /\ p < q
  OBVIOUS
<1>5. PICK t \in Fractions : t = Times(Reduced(p, q), Minus(g, f))
  BY ReducedIsFraction, MinusType, TimesType
<1>6. PICK v \in Fractions : v = Plus(f, t)
  BY PlusType
<1>7. v = Interpolated(low, high, unit)
  BY <1>2, <1>3, <1>4, <1>5, <1>6 DEF Interpolated
<1>8. \/ AtMost(f, v) /\ AtMost(v, g)
      \/ AtMost(g, v) /\ AtMost(v, f)
  BY <1>4, <1>5, <1>6, ShareIsBetween
<1>9. QED
  BY <1>2, <1>3, <1>6, <1>7, <1>8

\* An anchor that does not convert shows a conditioned volume.
LEMMA RaiseIsConditioned ==
    ASSUME NEW r \in Requests, NEW c, Sound(r, c), NEW a,
           Anchor(c.source, a), ~factor_converts(a.unit, c.unit)
    PROVE  denominator(c.source.unit).conditioned # denominator(c.unit).conditioned
<1>1. /\ parses(a.unit)
      /\ denominator(a.unit).dimension = denominator(c.source.unit).dimension
      /\ denominator(a.unit).conditioned = denominator(c.source.unit).conditioned
  BY FactorPlanUnits DEF Anchor, factor_converts, Evidences
<1>2. parses(c.unit) /\ denominator(c.source.unit).dimension = denominator(c.unit).dimension
  BY DEF Sound
<1>3. QED
  BY <1>1, <1>2, FactorConvertsPlainly

-----------------------------------------------------------------------------
(* The invariant.                                                          *)

ScalePlans ==
    {<<"unit_scale", "reference_flow", "process", "grade">>,
     <<"unit_scale", "reference_flow", "grade", "process">>}

FlowPlans == {<<"reference_flow", "process", "grade">>, <<"reference_flow", "grade", "process">>}

OrderPlans == {<<"process", "grade">>, <<"grade", "process">>}

\* The steps ahead.
Plans == ScalePlans \cup FlowPlans \cup OrderPlans
         \cup {<<"evaluate">>, <<"process">>, <<"grade">>, <<>>}

\* The reference flow is ahead, the grade is ahead.
FlowIsAhead(t) == t \in ScalePlans \cup FlowPlans

GradeIsAhead(t) == t \in ScalePlans \cup FlowPlans \cup OrderPlans \cup {<<"grade">>}

\* The bound of InterpolationIsBounded.
Bounded(r, c) ==
    \E a, b \in Basis(c) :
        LET low == FactorIn(c, a)
            high == FactorIn(c, b)
        IN  /\ a.grade # NoGrade /\ b.grade # NoGrade
            /\ a.grade < r.grade /\ r.grade < b.grade
            /\ \/ AtMost(low, c.value) /\ AtMost(c.value, high)
               \/ AtMost(high, c.value) /\ AtMost(c.value, low)

\* A candidate with the steps t ahead.
Working(r, c, t) ==
    /\ Sound(r, c)
    /\ Aligned(r, c) \/ (FlowIsAhead(t) /\ Waiting(c))
    /\ FlowIsAhead(t) => c.flow = NoValue
    /\ GradeIsAhead(t) => c.source \in Sources
    /\ c.kind = "GRADE_INTERPOLATED" => Bounded(r, c)

ArithmeticInv ==
    /\ request \in Requests /\ raised \in BOOLEAN
    /\ parameters \in Parameters \cup {NoParameters}
    /\ todo \in Plans
    /\ todo = <<"evaluate">> => ~Exists
    /\ raised => todo = <<>> /\ RaisesAreConditioned
    /\ Exists \/ todo \notin {<<>>, <<"evaluate">>} => Working(request, candidate, todo)

\* The step at the head tells what is left.
LEMMA PlanAhead ==
    ASSUME todo \in Plans, todo # <<>>
    PROVE  /\ Head(todo) = "evaluate" => todo = <<"evaluate">>
           /\ Head(todo) = "unit_scale" => todo \in ScalePlans /\ Tail(todo) \in FlowPlans
           /\ Head(todo) = "reference_flow" => todo \in FlowPlans /\ Tail(todo) \in OrderPlans
           /\ Head(todo) = "process" =>
                 \/ todo = <<"process", "grade">> /\ Tail(todo) = <<"grade">>
                 \/ todo = <<"process">> /\ Tail(todo) = <<>>
           /\ Head(todo) = "grade" =>
                 \/ todo = <<"grade", "process">> /\ Tail(todo) = <<"process">>
                 \/ todo = <<"grade">> /\ Tail(todo) = <<>>
<1>1. CASE todo = <<"unit_scale", "reference_flow", "process", "grade">>
  BY <1>1 DEF ScalePlans, FlowPlans
<1>2. CASE todo = <<"unit_scale", "reference_flow", "grade", "process">>
  BY <1>2 DEF ScalePlans, FlowPlans
<1>3. CASE todo = <<"reference_flow", "process", "grade">>
  BY <1>3 DEF FlowPlans, OrderPlans
<1>4. CASE todo = <<"reference_flow", "grade", "process">>
  BY <1>4 DEF FlowPlans, OrderPlans
<1>5. CASE todo = <<"process", "grade">>
  BY <1>5
<1>6. CASE todo = <<"grade", "process">>
  BY <1>6
<1>7. CASE todo = <<"evaluate">>
  BY <1>7
<1>8. CASE todo = <<"process">>
  BY <1>8
<1>9. CASE todo = <<"grade">>
  BY <1>9
<1>10. QED
  BY <1>1, <1>2, <1>3, <1>4, <1>5, <1>6, <1>7, <1>8, <1>9, Zenon DEF Plans, ScalePlans, FlowPlans, OrderPlans

\* Different plans are different.
LEMMA PlansDiffer ==
    /\ \A t \in ScalePlans : FlowIsAhead(t) /\ GradeIsAhead(t) /\ t \in Plans
                             /\ t # <<>> /\ t # <<"evaluate">>
    /\ \A t \in FlowPlans : FlowIsAhead(t) /\ GradeIsAhead(t) /\ t \in Plans
                            /\ t # <<>> /\ t # <<"evaluate">>
    /\ \A t \in OrderPlans : ~FlowIsAhead(t) /\ GradeIsAhead(t) /\ t \in Plans
                             /\ t # <<>> /\ t # <<"evaluate">>
    /\ ~FlowIsAhead(<<"grade">>) /\ GradeIsAhead(<<"grade">>) /\ <<"grade">> \in Plans
    /\ ~FlowIsAhead(<<"process">>) /\ ~GradeIsAhead(<<"process">>) /\ <<"process">> \in Plans
    /\ ~FlowIsAhead(<<>>) /\ ~GradeIsAhead(<<>>) /\ <<>> \in Plans
    /\ <<"evaluate">> \notin {<<>>, <<"process">>, <<"grade">>} /\ <<"evaluate">> \in Plans
    /\ <<>> \notin {<<"process">>, <<"grade">>}
<1>1. \A t \in ScalePlans : Len(t) = 4 /\ t[1] = "unit_scale"
  BY DEF ScalePlans
<1>2. \A t \in FlowPlans : Len(t) = 3
  BY DEF FlowPlans
<1>3. \A t \in OrderPlans : Len(t) = 2
  BY DEF OrderPlans
<1>4. Len(<<"grade">>) = 1 /\ Len(<<"process">>) = 1 /\ Len(<<"evaluate">>) = 1 /\ Len(<<>>) = 0
  OBVIOUS
<1>5. <<"grade">> # <<"process">> /\ <<"evaluate">> # <<"process">> /\ <<"evaluate">> # <<"grade">>
  OBVIOUS
<1>6. /\ \A t \in ScalePlans : t # <<>> /\ t # <<"evaluate">>
      /\ \A t \in FlowPlans : t # <<>> /\ t # <<"evaluate">>
      /\ \A t \in OrderPlans : t # <<>> /\ t # <<"evaluate">> /\ t \notin ScalePlans /\ t \notin FlowPlans
  BY <1>1, <1>2, <1>3, <1>4
<1>7. /\ {<<"grade">>, <<"process">>, <<>>} \cap (ScalePlans \cup FlowPlans \cup OrderPlans) = {}
      /\ <<"evaluate">> # <<>> /\ <<>> # <<"process">> /\ <<>> # <<"grade">>
  BY <1>1, <1>2, <1>3, <1>4
<1>8. QED
  BY <1>5, <1>6, <1>7, Zenon DEF Plans, FlowIsAhead, GradeIsAhead

\* A step that goes on with a candidate.
LEMMA GoesOn ==
    ASSUME ArithmeticInv, todo # <<>>, request' = request, raised' = raised,
           parameters' \in Parameters \cup {NoParameters},
           Tail(todo) \in Plans \ {<<"evaluate">>},
           NEW c, candidate' = c, todo' = Tail(todo), Working(request, c, Tail(todo))
    PROVE  ArithmeticInv'
<1>1. ~raised
  BY DEF ArithmeticInv
<1>2. todo' # <<"evaluate">> /\ ~raised'
  BY <1>1
<1>3. Working(request', candidate', todo')
  OBVIOUS
<1>4. QED
  BY <1>2, <1>3 DEF ArithmeticInv

\* The invariant holds initially.
LEMMA InitArithmetic == Init => ArithmeticInv
BY PlansDiffer DEF Init, ArithmeticInv, Exists

\* A new candidate has all steps ahead.
LEMMA AllSteps ==
    ASSUME NEW s
    PROVE  Routers(s) \in ScalePlans
<1>1. CASE s.order = "grade_first"
  BY <1>1 DEF Routers, technical_order, ScalePlans
<1>2. CASE s.order # "grade_first"
  BY <1>2 DEF Routers, technical_order, ScalePlans
<1>3. QED
  BY <1>1, <1>2

\* A record is evaluated.
LEMMA EvaluateKeeps ==
    ASSUME ArithmeticInv, NEW s \in Sources, Evaluate(s)
    PROVE  ArithmeticInv'
<1>1. /\ todo = <<"evaluate">> /\ request' = request /\ request \in Requests
      /\ parameters' = parameters /\ raised' = raised /\ raised = FALSE /\ ~Exists
      /\ parameters \in Parameters \cup {NoParameters}
  BY PlansDiffer DEF Evaluate, ArithmeticInv
<1>2. CASE ~Admitted(request, s.unit)
  <2>1. todo' = <<>> /\ candidate' = candidate
    BY <1>2 DEF Evaluate
  <2>2. ~Exists'
    BY <1>1, <2>1 DEF Exists
  <2>3. QED
    BY <1>1, <2>1, <2>2, PlansDiffer DEF ArithmeticInv
<1>3. CASE Admitted(request, s.unit)
  <2>1. PICK c :
           /\ c = [_candidate(request, s) EXCEPT
                     !.gaps = analyze_candidate_gaps(request, _candidate(request, s))]
           /\ Sound(request, c) /\ (Aligned(request, c) \/ Waiting(c))
           /\ c.source = s /\ c.flow = NoValue /\ c.kind \in {"DIRECT", "UNIT_CONVERTED"}
    <3>1. CASE reference_flow_bridge(request, s.unit)
      BY <1>1, <3>1, FreshThroughBridge
    <3>2. CASE ~reference_flow_bridge(request, s.unit)
      BY <1>1, <1>3, <3>2, FreshByPlans DEF Admitted
    <3>3. QED
      BY <3>1, <3>2
  <2>3. candidate' = c /\ todo' = Routers(s)
    BY <1>3, <2>1 DEF Evaluate
  <2>4. todo' \in ScalePlans
    BY <2>3, AllSteps
  <2>6. /\ FlowIsAhead(todo') /\ GradeIsAhead(todo') /\ todo' \in Plans
        /\ todo' # <<>> /\ todo' # <<"evaluate">>
    BY <2>4, PlansDiffer
  <2>7. c.kind # "GRADE_INTERPOLATED"
    BY <2>1
  <2>8. Working(request', candidate', todo')
    BY <1>1, <2>1, <2>3, <2>6, <2>7 DEF Working
  <2>9. QED
    BY <1>1, <2>6, <2>8 DEF ArithmeticInv
<1>4. QED
  BY <1>2, <1>3

\* What holds before a step of a router.
LEMMA BeforeStep ==
    ASSUME ArithmeticInv, NEW name, Step(name)
    PROVE  /\ todo \in Plans /\ todo # <<>> /\ Head(todo) = name
           /\ request' = request /\ request \in Requests /\ raised = FALSE
           /\ parameters \in Parameters \cup {NoParameters}
           /\ name # "evaluate" => todo # <<"evaluate">> /\ Working(request, candidate, todo)
<1>1. /\ todo \in Plans /\ todo # <<>> /\ Head(todo) = name
      /\ request' = request /\ request \in Requests /\ raised = FALSE
      /\ parameters \in Parameters \cup {NoParameters}
  BY DEF Step, ArithmeticInv
<1>2. Head(<<"evaluate">>) = "evaluate"
  OBVIOUS
<1>3. QED
  BY <1>1, <1>2 DEF ArithmeticInv

\* The scale is recorded.
LEMMA ScaleKeeps ==
    ASSUME ArithmeticInv, resolve_unit_scale
    PROVE  ArithmeticInv'
<1>1. Step("unit_scale") /\ parameters' = parameters /\ raised' = raised
  BY DEF resolve_unit_scale
<1>0. "unit_scale" # "evaluate"
  OBVIOUS
<1>2. /\ todo \in Plans /\ todo # <<>> /\ Head(todo) = "unit_scale"
      /\ request' = request /\ request \in Requests
      /\ parameters \in Parameters \cup {NoParameters}
      /\ Working(request, candidate, todo)
  BY <1>0, <1>1, BeforeStep, Zenon
<1>3. todo \in ScalePlans /\ Tail(todo) \in FlowPlans
  BY <1>2, PlanAhead
<1>4. /\ FlowIsAhead(todo) /\ GradeIsAhead(todo)
      /\ FlowIsAhead(Tail(todo)) /\ GradeIsAhead(Tail(todo)) /\ Tail(todo) \in Plans \ {<<"evaluate">>}
  BY <1>3, PlansDiffer
<1>5. CASE candidate' = candidate /\ todo' = Tail(todo)
  <2>1. Working(request, candidate, Tail(todo))
    BY <1>2, <1>4 DEF Working
  <2>2. QED
    BY <1>1, <1>2, <1>4, <1>5, <2>1, GoesOn
<1>6. CASE candidate.activity # NoValue /\ todo' = Tail(todo) /\ candidate' = Scaled(candidate)
  <2>1. /\ Sound(request, candidate) /\ Aligned(request, candidate)
        /\ candidate.source \in Sources /\ candidate.flow = NoValue
    BY <1>2, <1>4, <1>6 DEF Working, Waiting
  <2>2. PICK d \in Candidates :
           /\ d = Scaled(candidate) /\ Sound(request, d) /\ Aligned(request, d)
           /\ d.source = candidate.source /\ d.flow = candidate.flow /\ d.kind = "UNIT_CONVERTED"
    BY <1>2, <2>1, ScaledIsAligned
  <2>3. Working(request, d, Tail(todo))
    BY <1>4, <2>1, <2>2 DEF Working
  <2>4. candidate' = d /\ todo' = Tail(todo)
    BY <1>6, <2>2
  <2>5. QED
    BY <1>1, <1>2, <1>4, <2>3, <2>4, GoesOn
<1>7. QED
  BY <1>5, <1>6 DEF resolve_unit_scale, Continue, Scaled

\* The amount becomes a mass, or the candidate is dropped.
LEMMA FlowKeeps ==
    ASSUME ArithmeticInv, NEW records \in SUBSET Flows, resolve_reference_flow(records)
    PROVE  ArithmeticInv'
<1>1. /\ Step("reference_flow") /\ parameters' = parameters /\ raised' = raised
      /\ "REFERENCE_FLOW" \in candidate.gaps
  BY DEF resolve_reference_flow
<1>0. "reference_flow" # "evaluate"
  OBVIOUS
<1>2. /\ todo \in Plans /\ todo # <<>> /\ Head(todo) = "reference_flow"
      /\ request' = request /\ request \in Requests /\ raised = FALSE
      /\ parameters \in Parameters \cup {NoParameters}
      /\ Working(request, candidate, todo)
  BY <1>0, <1>1, BeforeStep, Zenon
<1>3. todo \in FlowPlans /\ Tail(todo) \in OrderPlans
  BY <1>2, PlanAhead
<1>4. /\ FlowIsAhead(todo) /\ GradeIsAhead(todo)
      /\ ~FlowIsAhead(Tail(todo)) /\ Tail(todo) \in Plans \ {<<"evaluate">>}
  BY <1>3, PlansDiffer
<1>5. /\ Sound(request, candidate) /\ Waiting(candidate) /\ candidate.source \in Sources
  BY <1>1, <1>2, <1>4 DEF Working, Aligned, Measured
<1>6. ASSUME NEW f \in Flows, record_is_compatible(f), todo' = Tail(todo),
             candidate' = Closed(WithMass(candidate, f), "REFERENCE_FLOW")
      PROVE  ArithmeticInv'
  <2>1. PICK d \in Candidates :
           /\ d = Closed(WithMass(candidate, f), "REFERENCE_FLOW")
           /\ Sound(request, d) /\ Aligned(request, d)
           /\ d.source = candidate.source /\ d.kind = "REFERENCE_FLOW_CONVERTED"
    BY <1>2, <1>5, <1>6, FlowIsAligned
  <2>2. Working(request, d, Tail(todo))
    BY <1>4, <1>5, <2>1 DEF Working
  <2>3. candidate' = d /\ todo' = Tail(todo)
    BY <1>6, <2>1
  <2>4. QED
    BY <1>1, <1>2, <1>4, <2>2, <2>3, GoesOn
<1>7. CASE candidate' = NoCandidate /\ todo' = <<>>
  BY <1>1, <1>2, <1>7, PlansDiffer DEF ArithmeticInv, Exists
<1>8. CASE \E f \in records :
              record_is_compatible(f) /\ Continue(Closed(WithMass(candidate, f), "REFERENCE_FLOW"))
  <2>1. PICK f \in records :
           record_is_compatible(f) /\ Continue(Closed(WithMass(candidate, f), "REFERENCE_FLOW"))
    BY <1>8
  <2>2. f \in Flows
    OBVIOUS
  <2>3. QED
    BY <1>6, <2>1, <2>2 DEF Continue
<1>9. QED
  BY <1>7, <1>8 DEF resolve_reference_flow

\* A process or grade step works on an aligned candidate.
LEMMA TechnicalPlan ==
    ASSUME todo \in Plans, todo # <<>>, Head(todo) \in {"process", "grade"}
    PROVE  /\ Tail(todo) \in Plans \ {<<"evaluate">>}
           /\ ~FlowIsAhead(todo) /\ ~FlowIsAhead(Tail(todo))
           /\ GradeIsAhead(Tail(todo)) => GradeIsAhead(todo)
           /\ Head(todo) = "grade" => GradeIsAhead(todo) /\ ~GradeIsAhead(Tail(todo))
<1>1. CASE Head(todo) = "process"
  <2>1. \/ todo = <<"process", "grade">> /\ Tail(todo) = <<"grade">>
        \/ todo = <<"process">> /\ Tail(todo) = <<>>
    BY <1>1, PlanAhead
  <2>2. todo = <<"process", "grade">> => todo \in OrderPlans
    BY DEF OrderPlans
  <2>3. "process" # "grade"
    OBVIOUS
  <2>4. QED
    BY <1>1, <2>1, <2>2, <2>3, PlansDiffer
<1>2. CASE Head(todo) = "grade"
  <2>1. \/ todo = <<"grade", "process">> /\ Tail(todo) = <<"process">>
        \/ todo = <<"grade">> /\ Tail(todo) = <<>>
    BY <1>2, PlanAhead
  <2>2. todo = <<"grade", "process">> => todo \in OrderPlans
    BY DEF OrderPlans
  <2>3. QED
    BY <2>1, <2>2, PlansDiffer
<1>3. QED
  BY <1>1, <1>2

\* The factor is adjusted to the process, or stays as a proxy.
LEMMA ProcessKeeps ==
    ASSUME ArithmeticInv, NEW p \in Parameters \cup {NoParameters}, resolve_process_variant(p)
    PROVE  ArithmeticInv'
<1>0. "process" # "evaluate"
  OBVIOUS
<1>1. Step("process") /\ parameters' = p /\ raised' = raised
  BY DEF resolve_process_variant
<1>2. /\ todo \in Plans /\ todo # <<>> /\ Head(todo) = "process"
      /\ request' = request /\ request \in Requests /\ raised = FALSE
      /\ parameters' \in Parameters \cup {NoParameters}
      /\ Working(request, candidate, todo)
  BY <1>0, <1>1, BeforeStep, Zenon
<1>3. /\ Tail(todo) \in Plans \ {<<"evaluate">>}
      /\ ~FlowIsAhead(todo) /\ ~FlowIsAhead(Tail(todo))
      /\ GradeIsAhead(Tail(todo)) => GradeIsAhead(todo)
  BY <1>2, TechnicalPlan
<1>4. /\ Sound(request, candidate) /\ Aligned(request, candidate)
      /\ GradeIsAhead(Tail(todo)) => candidate.source \in Sources
  BY <1>2, <1>3 DEF Working
<1>5. Measured(request, candidate) /\ candidate.value \in Fractions
  BY <1>4 DEF Sound, Aligned, Candidates
<1>6. {} \in IdSets /\ {"PROCESS_VARIANT"} \in StepSets /\ {} \in StepSets
      /\ "PROCESS_ADJUSTED" \in Kinds /\ "UNADJUSTED_PROCESS_PROXY" \in Kinds
  BY DEF IdSets, StepSets, Gaps, Kinds
<1>7. CASE Adjusts(candidate, p)
  <2>1. PICK v \in Fractions : v = AdjustedFactor(candidate, p)
    BY <1>5, <1>7, AdjustedDifference
  <2>2. PICK k \in Candidates :
           /\ k = derive_candidate(candidate, "PROCESS_ADJUSTED", v, {"PROCESS_VARIANT"}, {})
           /\ Sound(request, k) /\ Aligned(request, k)
           /\ k.source = candidate.source /\ k.kind = "PROCESS_ADJUSTED"
    <3>1. "PROCESS_VARIANT" \in {"PROCESS_VARIANT"}
      OBVIOUS
    <3>2. QED
      BY <1>2, <1>4, <1>5, <1>6, <3>1, DerivedIsAligned
  <2>3. PICK d \in Candidates :
           /\ d = Closed(k, "PROCESS_VARIANT") /\ Sound(request, d) /\ Aligned(request, d)
           /\ d.source = k.source /\ d.kind = k.kind
    BY <1>2, <2>2, ClosedIsAligned
  <2>4. candidate' = d /\ todo' = Tail(todo)
    BY <1>7, <2>1, <2>2, <2>3 DEF resolve_process_variant, Continue
  <2>5. Working(request, d, Tail(todo))
    BY <1>3, <1>4, <2>2, <2>3 DEF Working
  <2>6. QED
    BY <1>1, <1>2, <1>3, <2>4, <2>5, GoesOn
<1>8. CASE ~Adjusts(candidate, p)
  <2>1. PICK d \in Candidates :
           /\ d = derive_candidate(candidate, "UNADJUSTED_PROCESS_PROXY", candidate.value, {}, {})
           /\ Sound(request, d) /\ Aligned(request, d)
           /\ d.source = candidate.source /\ d.kind = "UNADJUSTED_PROCESS_PROXY"
    BY <1>2, <1>4, <1>5, <1>6, DerivedIsAligned
  <2>2. candidate' = d /\ todo' = Tail(todo)
    BY <1>8, <2>1 DEF resolve_process_variant, Continue
  <2>3. Working(request, d, Tail(todo))
    BY <1>3, <1>4, <2>1 DEF Working
  <2>4. QED
    BY <1>1, <1>2, <1>3, <2>2, <2>3, GoesOn
<1>9. QED
  BY <1>7, <1>8

\* A step without its gap changes nothing.
LEMMA SkipKeeps ==
    ASSUME ArithmeticInv, Skip
    PROVE  ArithmeticInv'
<1>0. "reference_flow" # "evaluate" /\ "process" # "evaluate" /\ "grade" # "evaluate"
  OBVIOUS
<1>1. CASE Step("reference_flow") /\ "REFERENCE_FLOW" \notin candidate.gaps /\ Pass
  <2>1. /\ todo \in Plans /\ todo # <<>> /\ Head(todo) = "reference_flow"
        /\ request' = request /\ request \in Requests
        /\ parameters \in Parameters \cup {NoParameters}
        /\ Working(request, candidate, todo)
    BY <1>0, <1>1, BeforeStep, Zenon
  <2>2. todo \in FlowPlans /\ Tail(todo) \in OrderPlans
    BY <2>1, PlanAhead
  <2>3. /\ FlowIsAhead(todo) /\ GradeIsAhead(todo)
        /\ ~FlowIsAhead(Tail(todo)) /\ Tail(todo) \in Plans \ {<<"evaluate">>}
    BY <2>2, PlansDiffer
  <2>4. Working(request, candidate, Tail(todo))
    BY <1>1, <2>1, <2>3 DEF Working, Waiting
  <2>5. /\ candidate' = candidate /\ todo' = Tail(todo)
        /\ parameters' = parameters /\ raised' = raised
    BY <1>1 DEF Pass, Continue
  <2>6. QED
    BY <2>1, <2>3, <2>4, <2>5, GoesOn
<1>2. ASSUME NEW name \in {"process", "grade"}, Step(name), Pass
      PROVE  ArithmeticInv'
  <2>1. /\ todo \in Plans /\ todo # <<>> /\ Head(todo) = name
        /\ request' = request /\ request \in Requests
        /\ parameters \in Parameters \cup {NoParameters}
        /\ Working(request, candidate, todo)
    BY <1>0, <1>2, BeforeStep
  <2>2. /\ Tail(todo) \in Plans \ {<<"evaluate">>}
        /\ ~FlowIsAhead(todo) /\ ~FlowIsAhead(Tail(todo))
        /\ GradeIsAhead(Tail(todo)) => GradeIsAhead(todo)
    BY <1>2, <2>1, TechnicalPlan
  <2>3. Working(request, candidate, Tail(todo))
    BY <2>1, <2>2 DEF Working
  <2>4. /\ candidate' = candidate /\ todo' = Tail(todo)
        /\ parameters' = parameters /\ raised' = raised
    BY <1>2 DEF Pass, Continue
  <2>5. QED
    BY <2>1, <2>2, <2>3, <2>4, GoesOn
<1>3. QED
  BY <1>1, <1>2 DEF Skip

\* The grade step raises or goes on.
LEMMA GradeFromKeeps ==
    ASSUME ArithmeticInv, Step("grade"), NEW S, \A a \in S : Anchor(candidate.source, a),
           NEW c, GradeFrom(S, c),
           (\A a \in S : factor_converts(a.unit, candidate.unit))
           => /\ Sound(request, c) /\ Aligned(request, c)
              /\ c.kind = "GRADE_INTERPOLATED" => Bounded(request, c)
    PROVE  ArithmeticInv'
<1>0. "grade" # "evaluate"
  OBVIOUS
<1>1. /\ todo \in Plans /\ todo # <<>> /\ Head(todo) = "grade"
      /\ request' = request /\ request \in Requests /\ raised = FALSE
      /\ parameters \in Parameters \cup {NoParameters}
      /\ Working(request, candidate, todo)
  BY <1>0, BeforeStep, Zenon
<1>2. /\ Tail(todo) \in Plans \ {<<"evaluate">>}
      /\ ~FlowIsAhead(todo) /\ ~FlowIsAhead(Tail(todo)) /\ ~GradeIsAhead(Tail(todo))
  BY <1>1, TechnicalPlan
<1>3. Sound(request, candidate) /\ Aligned(request, candidate)
  BY <1>1, <1>2 DEF Working
<1>4. CASE RaisesOn(S)
  <2>1. PICK a \in S : ~factor_converts(a.unit, candidate.unit)
    BY <1>4 DEF RaisesOn
  <2>2. denominator(candidate.source.unit).conditioned # denominator(candidate.unit).conditioned
    BY <1>1, <1>3, <2>1, RaiseIsConditioned
  <2>3. /\ raised' = TRUE /\ todo' = <<>> /\ candidate' = candidate /\ parameters' = parameters
    BY <1>4 DEF GradeFrom, Raise
  <2>4. RaisesAreConditioned'
    BY <2>2, <2>3 DEF RaisesAreConditioned
  <2>5. Working(request, candidate, <<>>)
    BY <1>1, <1>3, PlansDiffer DEF Working
  <2>6. <<>> # <<"evaluate">> /\ <<>> \in Plans
    BY PlansDiffer
  <2>7. QED
    BY <1>1, <2>3, <2>4, <2>5, <2>6 DEF ArithmeticInv
<1>5. CASE ~RaisesOn(S)
  <2>1. Sound(request, c) /\ Aligned(request, c) /\ (c.kind = "GRADE_INTERPOLATED" => Bounded(request, c))
    BY <1>5 DEF RaisesOn
  <2>2. Working(request, c, Tail(todo))
    BY <1>2, <2>1 DEF Working
  <2>3. candidate' = c /\ todo' = Tail(todo) /\ parameters' = parameters /\ raised' = raised
    BY <1>5 DEF GradeFrom, Continue
  <2>4. QED
    BY <1>1, <1>2, <2>2, <2>3, GoesOn
<1>6. QED
  BY <1>4, <1>5

\* What the grade step starts from.
LEMMA BeforeGrade ==
    ASSUME ArithmeticInv, Step("grade"), NEW records \in SUBSET Anchors
    PROVE  /\ request \in Requests
           /\ Sound(request, candidate) /\ Aligned(request, candidate) /\ Measured(request, candidate)
           /\ candidate \in Candidates /\ candidate.value \in Fractions
           /\ candidate.source \in Sources
           /\ \A a \in GradeAnchors(records) : Anchor(candidate.source, a)
<1>0. "grade" # "evaluate"
  OBVIOUS
<1>1. /\ todo \in Plans /\ todo # <<>> /\ Head(todo) = "grade"
      /\ request \in Requests /\ Working(request, candidate, todo)
  BY <1>0, BeforeStep, Zenon
<1>2. ~FlowIsAhead(todo) /\ GradeIsAhead(todo)
  BY <1>1, TechnicalPlan
<1>3. /\ Sound(request, candidate) /\ Aligned(request, candidate) /\ candidate.source \in Sources
  BY <1>1, <1>2 DEF Working
<1>4. candidate \in Candidates /\ candidate.value \in Fractions /\ candidate.source \in Records
  BY <1>3 DEF Sound, Candidates
<1>5. QED
  BY <1>1, <1>3, <1>4, AnchorsAreRecords DEF Aligned

\* What the grade step adds.
LEMMA NoSteps ==
    /\ {} \in IdSets /\ {} \in StepSets
    /\ {"GRADE_EXACT_ANCHOR", "GRADE_INTERPOLATED", "GRADE_PROXY"} \subseteq Kinds
    /\ {"GRADE_COMPOSITION"} \in StepSets
BY DEF IdSets, StepSets, Kinds, Gaps

\* An anchor of the requested grade takes the place of the source.
LEMMA ExactKeeps ==
    ASSUME ArithmeticInv, Step("grade"), NEW records \in SUBSET Anchors,
           GradeExact(GradeAnchors(records))
    PROVE  ArithmeticInv'
<1>1. /\ request \in Requests
      /\ Sound(request, candidate) /\ Measured(request, candidate)
      /\ \A a \in GradeAnchors(records) : Anchor(candidate.source, a)
  BY BeforeGrade
<1>2. PICK exact : exact = {a \in GradeAnchors(records) : a.grade = request.grade}
  OBVIOUS
<1>3. exact # {} /\ \A a \in exact : a.id \in Nat
  BY <1>1, <1>2 DEF GradeExact, Anchor
<1>4. PICK a \in exact : a = First(exact)
  BY <1>3, FirstIsOne
<1>5. Anchor(candidate.source, a)
  BY <1>1, <1>2
<1>6. PICK c : c = Replaced(candidate, a)
  OBVIOUS
<1>7. PICK d : d = Closed(derive_candidate(c, "GRADE_EXACT_ANCHOR", c.value, {}, {}), "GRADE_COMPOSITION")
  OBVIOUS
<1>8. GradeFrom({a}, d)
  BY <1>2, <1>4, <1>6, <1>7, Zenon DEF GradeExact
<1>9. ASSUME factor_converts(a.unit, candidate.unit)
      PROVE  Sound(request, d) /\ Aligned(request, d) /\ d.kind = "GRADE_EXACT_ANCHOR"
  <2>1. Sound(request, c) /\ Measured(request, c) /\ c.value \in Fractions
    BY <1>1, <1>5, <1>6, <1>9, ReplacedIsSound
  <2>2. PICK k \in Candidates :
           /\ k = derive_candidate(c, "GRADE_EXACT_ANCHOR", c.value, {}, {})
           /\ Sound(request, k) /\ Aligned(request, k) /\ k.kind = "GRADE_EXACT_ANCHOR"
    BY <1>1, <2>1, NoSteps, DerivedIsAligned
  <2>3. PICK e \in Candidates : /\ e = Closed(k, "GRADE_COMPOSITION")
                                /\ Sound(request, e) /\ Aligned(request, e) /\ e.kind = k.kind
    BY <1>1, <2>2, ClosedIsAligned
  <2>4. QED
    BY <1>7, <2>2, <2>3
<1>10. "GRADE_EXACT_ANCHOR" # "GRADE_INTERPOLATED"
  OBVIOUS
<1>11. QED
  BY <1>5, <1>8, <1>9, <1>10, GradeFromKeeps

\* Two anchors around the requested grade are interpolated.
LEMMA InterpolatedKeeps ==
    ASSUME ArithmeticInv, Step("grade"), NEW records \in SUBSET Anchors,
           GradeInterpolated(GradeAnchors(records))
    PROVE  ArithmeticInv'
<1>1. /\ request \in Requests
      /\ Sound(request, candidate) /\ Measured(request, candidate)
      /\ candidate.source \in Sources
      /\ \A a \in GradeAnchors(records) : Anchor(candidate.source, a)
  BY BeforeGrade
<1>2. PICK low \in LowerAnchors(GradeAnchors(records)), high \in UpperAnchors(GradeAnchors(records)) :
         GradeFrom({low, high},
            Closed(derive_candidate(candidate, "GRADE_INTERPOLATED",
                       Interpolated(low, high, candidate.unit),
                       {"GRADE_COMPOSITION"}, {low.id, high.id}),
                   "GRADE_COMPOSITION"))
  BY DEF GradeInterpolated
<1>3. /\ request.grade \in Int
      /\ low \in GradeAnchors(records) /\ high \in GradeAnchors(records)
      /\ low.grade <= request.grade /\ low.grade # request.grade
      /\ high.grade >= request.grade /\ high.grade # request.grade
  BY <1>1, <1>2, RequestType DEF GradeInterpolated, LowerAnchors, UpperAnchors, Grades
<1>4. Anchor(candidate.source, low) /\ Anchor(candidate.source, high)
  BY <1>1, <1>3
<1>5. low.grade < request.grade /\ request.grade < high.grade
  BY <1>3, <1>4 DEF Anchor
<1>6. PICK d : d = Closed(derive_candidate(candidate, "GRADE_INTERPOLATED",
                              Interpolated(low, high, candidate.unit),
                              {"GRADE_COMPOSITION"}, {low.id, high.id}),
                          "GRADE_COMPOSITION")
  OBVIOUS
<1>7. /\ {low.id, high.id} \in IdSets
      /\ low.id # candidate.source.id \/ high.id # candidate.source.id
  <2>1. low # high
    BY <1>3, <1>4, <1>5 DEF Anchor
  <2>2. low \in Anchors \/ high \in Anchors
    BY <1>4, <2>1 DEF Anchor
  <2>3. \A a \in Anchors : a.id # candidate.source.id
    BY <1>1, InputAssumption
  <2>4. QED
    BY <1>4, <2>2, <2>3 DEF Anchor, IdSets
<1>8. ASSUME factor_converts(low.unit, candidate.unit), factor_converts(high.unit, candidate.unit)
      PROVE  Sound(request, d) /\ Aligned(request, d) /\ Bounded(request, d)
  <2>1. PICK v \in Fractions :
           /\ v = Interpolated(low, high, candidate.unit)
           /\ \/ /\ AtMost(convert_factor(low.value, low.unit, candidate.unit), v)
                 /\ AtMost(v, convert_factor(high.value, high.unit, candidate.unit))
              \/ /\ AtMost(convert_factor(high.value, high.unit, candidate.unit), v)
                 /\ AtMost(v, convert_factor(low.value, low.unit, candidate.unit))
    <3>1. /\ low.value \in Fractions /\ high.value \in Fractions
          /\ low.grade \in Int /\ high.grade \in Int
      BY <1>4 DEF Anchor
    <3>2. QED
      BY <1>3, <1>5, <1>8, <3>1, InterpolatedIsBetween
  <2>2. \E b \in {low.id, high.id} : b # candidate.source.id
    BY <1>7
  <2>3. {low.id, high.id} \in IdSets
    BY <1>4 DEF Anchor, IdSets
  <2>4. PICK k \in Candidates :
           /\ k = derive_candidate(candidate, "GRADE_INTERPOLATED", v,
                                   {"GRADE_COMPOSITION"}, {low.id, high.id})
           /\ Sound(request, k) /\ Aligned(request, k)
           /\ k.source = candidate.source /\ k.unit = candidate.unit /\ k.value = v
           /\ k.bases = candidate.bases \cup {candidate.source.id} \cup {low.id, high.id}
    BY <1>1, <2>2, <2>3, NoSteps, DerivedIsAligned
  <2>5. PICK e \in Candidates :
           /\ e = Closed(k, "GRADE_COMPOSITION") /\ Sound(request, e) /\ Aligned(request, e)
           /\ e.source = k.source /\ e.unit = k.unit /\ e.value = k.value /\ e.bases = k.bases
    BY <1>1, <2>4, ClosedIsAligned
  <2>6. d = e
    BY <1>6, <2>1, <2>4, <2>5, Zenon
  <2>7. low \in Basis(d) /\ high \in Basis(d)
    BY <1>4, <2>4, <2>5, <2>6 DEF Basis, Anchor
  <2>8. /\ FactorIn(d, low) = convert_factor(low.value, low.unit, candidate.unit)
        /\ FactorIn(d, high) = convert_factor(high.value, high.unit, candidate.unit)
        /\ d.value = v
    BY <2>4, <2>5, <2>6 DEF FactorIn
  <2>9. Bounded(request, d)
    BY <1>4, <1>5, <2>1, <2>7, <2>8 DEF Bounded, Anchor
  <2>10. QED
    BY <2>5, <2>6, <2>9
<1>9. GradeFrom({low, high}, d)
  BY <1>2, <1>6, Zenon
<1>10. QED
  BY <1>4, <1>8, <1>9, GradeFromKeeps

\* The nearest anchor takes the place of the source, or the source stays.
LEMMA ProxyKeeps ==
    ASSUME ArithmeticInv, Step("grade"), NEW records \in SUBSET Anchors,
           GradeProxy(GradeAnchors(records))
    PROVE  ArithmeticInv'
<1>0. "GRADE_PROXY" # "GRADE_INTERPOLATED"
  OBVIOUS
<1>1. /\ request \in Requests
      /\ Sound(request, candidate) /\ Measured(request, candidate)
      /\ candidate.value \in Fractions
      /\ \A a \in GradeAnchors(records) : Anchor(candidate.source, a)
  BY BeforeGrade
<1>2. PICK d \in Candidates :
         /\ d = derive_candidate(candidate, "GRADE_PROXY", candidate.value, {}, {})
         /\ Sound(request, d) /\ Aligned(request, d) /\ d.kind = "GRADE_PROXY"
  BY <1>1, NoSteps, DerivedIsAligned
<1>3. CASE GradeFrom({}, derive_candidate(candidate, "GRADE_PROXY", candidate.value, {}, {}))
  <2>1. GradeFrom({}, d)
    BY <1>2, <1>3, Zenon
  <2>2. \A a \in {} : Anchor(candidate.source, a)
    OBVIOUS
  <2>3. d.kind # "GRADE_INTERPOLATED"
    BY <1>0, <1>2
  <2>4. QED
    BY <1>2, <2>1, <2>2, <2>3, GradeFromKeeps
<1>4. ASSUME request.grade # NoGrade, GradeAnchors(records) # {},
             NEW a, a = Nearest(GradeAnchors(records)), NEW c, c = Replaced(candidate, a),
             GradeFrom({a}, derive_candidate(c, "GRADE_PROXY", c.value, {}, {}))
      PROVE  ArithmeticInv'
  <2>1. a \in GradeAnchors(records)
    <3>1. request.grade \in Int
      BY <1>1, <1>4, RequestType DEF Grades
    <3>2. \A b \in GradeAnchors(records) : b.id \in Nat /\ b.grade \in Int
      BY <1>1 DEF Anchor
    <3>3. QED
      BY <1>4, <3>1, <3>2, NearestIsOne
  <2>2. Anchor(candidate.source, a)
    BY <1>1, <2>1
  <2>3. PICK k : k = derive_candidate(c, "GRADE_PROXY", c.value, {}, {})
    OBVIOUS
  <2>4. ASSUME factor_converts(a.unit, candidate.unit)
        PROVE  Sound(request, k) /\ Aligned(request, k) /\ k.kind = "GRADE_PROXY"
    <3>1. Sound(request, c) /\ Measured(request, c) /\ c.value \in Fractions
      BY <1>1, <1>4, <2>2, <2>4, ReplacedIsSound
    <3>2. QED
      BY <1>1, <2>3, <3>1, NoSteps, DerivedIsAligned
  <2>5. GradeFrom({a}, k)
    BY <1>4, <2>3, Zenon
  <2>6. QED
    BY <1>0, <2>2, <2>4, <2>5, GradeFromKeeps
<1>5. QED
  BY <1>3, <1>4 DEF GradeProxy

\* The three outcomes of the grade step.
LEMMA GradeKeeps ==
    ASSUME ArithmeticInv, NEW records \in SUBSET Anchors, resolve_grade(records)
    PROVE  ArithmeticInv'
BY ExactKeeps, InterpolatedKeeps, ProxyKeeps DEF resolve_grade

\* Every step keeps the invariant.
LEMMA ArithmeticStep ==
    ASSUME ArithmeticInv, [Next]_vars
    PROVE  ArithmeticInv'
<1>1. CASE \E s \in Sources : Evaluate(s)
  BY <1>1, EvaluateKeeps
<1>2. CASE resolve_unit_scale
  BY <1>2, ScaleKeeps
<1>3. CASE \E records \in SUBSET Flows : resolve_reference_flow(records)
  BY <1>3, FlowKeeps
<1>4. CASE \E p \in Parameters \cup {NoParameters} : resolve_process_variant(p)
  BY <1>4, ProcessKeeps
<1>5. CASE \E records \in SUBSET Anchors : resolve_grade(records)
  BY <1>5, GradeKeeps
<1>6. CASE Skip
  BY <1>6, SkipKeeps
<1>7. CASE UNCHANGED vars
  BY <1>7 DEF vars, ArithmeticInv, Exists, RaisesAreConditioned
<1>8. QED
  BY <1>1, <1>2, <1>3, <1>4, <1>5, <1>6, <1>7 DEF Next

-----------------------------------------------------------------------------
(* What the invariant says.                                                *)

\* Plans are sequences of step names.
LEMMA PlansAreSequences ==
    ASSUME NEW t \in Plans
    PROVE  t \in Seq({"evaluate", "unit_scale", "reference_flow", "process", "grade"})
<1>0. PICK S : S = {"evaluate", "unit_scale", "reference_flow", "process", "grade"}
  OBVIOUS
<1>1. \A a, b, c, d \in S :
         <<a, b, c, d>> \in Seq(S) /\ <<a, b, c>> \in Seq(S) /\ <<a, b>> \in Seq(S) /\ <<a>> \in Seq(S)
  OBVIOUS
<1>2. <<>> \in Seq(S)
  OBVIOUS
<1>3. /\ "evaluate" \in S /\ "unit_scale" \in S /\ "reference_flow" \in S
      /\ "process" \in S /\ "grade" \in S
  BY <1>0
<1>4. ASSUME t \in ScalePlans PROVE t \in Seq(S)
  BY <1>1, <1>3, <1>4 DEF ScalePlans
<1>5. ASSUME t \in FlowPlans PROVE t \in Seq(S)
  BY <1>1, <1>3, <1>5 DEF FlowPlans
<1>6. ASSUME t \in OrderPlans PROVE t \in Seq(S)
  BY <1>1, <1>3, <1>6 DEF OrderPlans
<1>7. ASSUME t \in {<<"evaluate">>, <<"process">>, <<"grade">>, <<>>} PROVE t \in Seq(S)
  BY <1>1, <1>2, <1>3, <1>7
<1>8. t \in Seq(S)
  BY <1>4, <1>5, <1>6, <1>7 DEF Plans
<1>9. QED
  BY <1>0, <1>8, Zenon

\* What the invariant says of a candidate.
LEMMA WorkingCandidate ==
    ASSUME ArithmeticInv, Exists
    PROVE  /\ request \in Requests /\ Working(request, candidate, todo)
           /\ Aligned(request, candidate) \/ Waiting(candidate)
  BY DEF ArithmeticInv, Working

\* A measured amount confuses no units.
LEMMA UnitsHold == ArithmeticInv => UnitsAreNotConfused
<1> SUFFICES ASSUME ArithmeticInv PROVE UnitsAreNotConfused
  OBVIOUS
<1>1. ASSUME Exists, Aligned(request, candidate)
      PROVE  /\ candidate.activity # NoValue /\ candidate.activity_unit # NoUnit
             /\ candidate.flow # NoValue =>
                   /\ Parsed(request) /\ Parsed(candidate.flow)
                   /\ Measure(candidate.flow.unit, request.evidence)
                        = Measure(request.unit, request.evidence)
                   /\ activity_dimension(request) = "COUNT" => candidate.flow.unit = request.unit
             /\ candidate.flow = NoValue
                /\ parse_activity_unit(request.unit).conditioned
                     # denominator(candidate.source.unit).conditioned
                => request.evidence # NoEvidence
  <2>1. Measured(request, candidate) /\ Sound(request, candidate)
    BY <1>1, WorkingCandidate DEF Aligned, Working
  <2>2. candidate.activity # NoValue
    BY <2>1, InputAssumption DEF Measured
  <2>3. candidate.activity_unit # NoUnit
    <3>1. candidate.activity_unit \in DOMAIN Activity
      BY <2>1, TableAssumption DEF Measured, Sound, parses, denominator, parse_activity_unit
    <3>2. QED
      BY <3>1, InputAssumption
  <2>4. ASSUME candidate.flow # NoValue
        PROVE  /\ Parsed(request) /\ Parsed(candidate.flow)
               /\ Measure(candidate.flow.unit, request.evidence)
                    = Measure(request.unit, request.evidence)
               /\ activity_dimension(request) = "COUNT" => candidate.flow.unit = request.unit
    <3>1. /\ {candidate.flow.unit, request.unit} \subseteq DOMAIN Activity
          /\ Activity[candidate.flow.unit] = Activity[request.unit]
          /\ Activity[request.unit].dimension = "COUNT" => candidate.flow.unit = request.unit
      BY <2>1, <2>4 DEF Measured
    <3>2. QED
      BY <3>1, SameUnitSameMeasure DEF Parsed, activity_dimension, parse_activity_unit
  <2>5. candidate.flow = NoValue /\ request.evidence = NoEvidence =>
            Activity[request.unit].conditioned = denominator(candidate.source.unit).conditioned
    BY <2>1 DEF Measured
  <2>6. QED
    BY <2>2, <2>3, <2>4, <2>5 DEF parse_activity_unit
<1>2. ASSUME Exists, Waiting(candidate)
      PROVE  /\ candidate.activity = NoValue /\ candidate.activity_unit = NoUnit
             /\ candidate.flow = NoValue
  BY <1>2 DEF Waiting
<1>3. TypeOK
  <2>1. Exists => candidate \in Candidates
    BY WorkingCandidate DEF Working, Sound
  <2>2. Exists => (candidate.activity = NoValue <=> candidate.activity_unit = NoUnit)
    BY <1>1, <1>2, WorkingCandidate
  <2>3. QED
    BY <2>1, <2>2, PlansAreSequences DEF ArithmeticInv, TypeOK
<1>4. MassIsOfTheUnit
  BY <1>1, <1>2, WorkingCandidate DEF MassIsOfTheUnit
<1>5. ConditionedNeedsEvidence
  BY <1>1, <1>2, WorkingCandidate DEF ConditionedNeedsEvidence
<1>6. QED
  BY <1>3, <1>4, <1>5 DEF UnitsAreNotConfused

\* An aligned candidate that rests on its record has the physical total.
LEMMA PhysicalHolds == ArithmeticInv => TotalIsPhysical
<1> SUFFICES ASSUME ArithmeticInv, Exists, candidate.total # NoValue,
                    candidate.bases = {candidate.source.id}, "PROCESS_VARIANT" \notin candidate.steps
             PROVE  candidate.total = PhysicalTotal(request, candidate)
  BY DEF TotalIsPhysical
<1>1. /\ request \in Requests /\ Sound(request, candidate) /\ Aligned(request, candidate)
  BY WorkingCandidate DEF Working, Waiting
<1>2. QED
  BY <1>1, AlignedIsPhysical

\* At the end of its steps a candidate is aligned.
LEMMA TotalsHold == ArithmeticInv => TotalsAgree
<1> SUFFICES ASSUME ArithmeticInv, Finished
             PROVE  candidate.total # NoValue /\ TotalIsExpected(candidate)
  BY DEF TotalsAgree
<1>1. /\ request \in Requests /\ Sound(request, candidate) /\ Aligned(request, candidate)
  BY WorkingCandidate, PlansDiffer DEF Finished, Working
<1>2. QED
  BY <1>1, AlignedIsExpected

\* Bounds and raises are part of the invariant.
LEMMA GradesHold == ArithmeticInv => GradesAreSound
<1> SUFFICES ASSUME ArithmeticInv PROVE GradesAreSound
  OBVIOUS
<1>1. RaisesAreConditioned
  BY DEF ArithmeticInv, RaisesAreConditioned
<1>2. InterpolationIsBounded
  <2>1. ASSUME Exists, candidate.kind = "GRADE_INTERPOLATED" PROVE Bounded(request, candidate)
    BY <2>1, WorkingCandidate DEF Working
  <2>2. QED
    BY <2>1 DEF Bounded, InterpolationIsBounded
<1>3. QED
  BY <1>1, <1>2 DEF GradesAreSound


\* Only an adjusting process step makes an adjusted candidate.
LEMMA DifferenceHolds ==
    ASSUME ArithmeticInv, [Next]_vars, Exists, todo # <<>>, Head(todo) = "process",
           "PROCESS_VARIANT" \in candidate.gaps, candidate'.kind = "PROCESS_ADJUSTED",
           ~UNCHANGED vars
    PROVE  Minus(convert_factor(candidate'.value, candidate.unit, PerKg),
                 convert_factor(candidate.value, candidate.unit, PerKg))
           = Plus(Minus(Added(parameters'), Removed(parameters')), Other(parameters'))
<1>1. PICK p \in Parameters \cup {NoParameters} : resolve_process_variant(p)
  <2>1. \A s : ~Evaluate(s)
    <3>1. Head(<<"evaluate">>) = "evaluate" /\ "evaluate" # "process"
      OBVIOUS
    <3>2. QED
      BY <3>1, Zenon DEF Evaluate
  <2>2. ~resolve_unit_scale /\ ~Skip
    BY DEF resolve_unit_scale, Skip, Step
  <2>3. \A records : ~resolve_reference_flow(records) /\ ~resolve_grade(records)
    BY DEF resolve_reference_flow, resolve_grade, Step
  <2>4. QED
    BY <2>1, <2>2, <2>3 DEF Next
<1>2. /\ request \in Requests /\ Sound(request, candidate) /\ Measured(request, candidate)
      /\ candidate.value \in Fractions /\ parameters' = p
  <2>1. todo \in Plans /\ Working(request, candidate, todo) /\ request \in Requests
    BY WorkingCandidate DEF ArithmeticInv
  <2>2. ~FlowIsAhead(todo)
    BY <2>1, TechnicalPlan
  <2>3. QED
    BY <1>1, <2>1, <2>2 DEF Working, Aligned, Sound, Candidates, resolve_process_variant
<1>3. /\ "PROCESS_ADJUSTED" \in Kinds /\ "UNADJUSTED_PROCESS_PROXY" \in Kinds
      /\ {} \in StepSets /\ {} \in IdSets /\ {"PROCESS_VARIANT"} \in StepSets
      /\ "UNADJUSTED_PROCESS_PROXY" # "PROCESS_ADJUSTED" /\ "PROCESS_VARIANT" \in {"PROCESS_VARIANT"}
  BY DEF Kinds, StepSets, IdSets, Gaps
<1>4. CASE ~Adjusts(candidate, p)
  <2>1. candidate' = derive_candidate(candidate, "UNADJUSTED_PROCESS_PROXY", candidate.value, {}, {})
    BY <1>1, <1>4 DEF resolve_process_variant, Continue
  <2>2. PICK d \in Candidates :
           /\ d = derive_candidate(candidate, "UNADJUSTED_PROCESS_PROXY", candidate.value, {}, {})
           /\ d.kind = "UNADJUSTED_PROCESS_PROXY"
    BY <1>2, <1>3, DerivedIsAligned
  <2>3. QED
    BY <1>3, <2>1, <2>2
<1>5. CASE Adjusts(candidate, p)
  <2>1. PICK v \in Fractions :
           /\ v = AdjustedFactor(candidate, p)
           /\ Minus(convert_factor(v, candidate.unit, PerKg),
                    convert_factor(candidate.value, candidate.unit, PerKg))
                = Plus(Minus(Added(p), Removed(p)), Other(p))
    BY <1>2, <1>5, AdjustedDifference
  <2>2. PICK k \in Candidates :
           /\ k = derive_candidate(candidate, "PROCESS_ADJUSTED", v, {"PROCESS_VARIANT"}, {})
           /\ Sound(request, k) /\ Aligned(request, k) /\ k.value = v
    BY <1>2, <1>3, DerivedIsAligned
  <2>3. PICK d \in Candidates : d = Closed(k, "PROCESS_VARIANT") /\ d.value = k.value
    BY <1>2, <2>2, ClosedIsAligned
  <2>4. candidate' = d
    BY <1>1, <1>5, <2>1, <2>2, <2>3 DEF resolve_process_variant, Continue
  <2>5. Added(parameters') = Added(p) /\ Removed(parameters') = Removed(p) /\ Other(parameters') = Other(p)
    BY <1>2
  <2>6. QED
    BY <2>1, <2>2, <2>3, <2>4, <2>5
<1>6. QED
  BY <1>4, <1>5

\* In every state the candidate's factor, activity, mass and total fit each other and the request,
\* whatever the unit tables, the records and the answers of the repositories are.
THEOREM ArithmeticIsInvariant == Spec => []ArithmeticInv
<1>1. Init => ArithmeticInv
  BY InitArithmetic
<1>2. ArithmeticInv /\ [Next]_vars => ArithmeticInv'
  BY ArithmeticStep
<1>3. QED
  BY <1>1, <1>2, PTL DEF Spec

\* A mass per bag is used for bags only, and a standard volume is set equal to an actual one only
\* by evidence (_record_is_compatible, plan_activity_conversion).
THEOREM UnitsAreKept == Spec => []UnitsAreNotConfused
BY ArithmeticIsInvariant, UnitsHold, PTL

\* The total of a candidate that rests on one record is that record's factor times the requested
\* quantity, however often factor and activity were converted (_candidate, derive_candidate).
THEOREM TotalsArePhysical == Spec => []TotalIsPhysical
BY ArithmeticIsInvariant, PhysicalHolds, PTL

\* At the end of its steps every candidate has a total that the lock recomputes from factor,
\* activity and mass (expected_total_emissions, validate_mass_quantity_kg).
THEOREM LockAcceptsTotals == Spec => []TotalsAgree
BY ArithmeticIsInvariant, TotalsHold, PTL

\* An interpolated factor lies between its anchors, and the grade step raises only where a
\* conditioned volume is converted without evidence (resolve_grade).
THEOREM GradesStayBounded == Spec => []GradesAreSound
BY ArithmeticIsInvariant, GradesHold, PTL

\* An adjusting process step changes the factor by the target's emissions less the reference's:
\* the clamp to zero never takes effect (resolve_process_variant).
THEOREM AdjustmentsAreDifferences == Spec => AdjustmentIsTheDifference
<1>1. ArithmeticInv /\ [Next]_vars =>
         [ Exists /\ todo # <<>> /\ Head(todo) = "process" /\ "PROCESS_VARIANT" \in candidate.gaps
           /\ candidate'.kind = "PROCESS_ADJUSTED"
           => Minus(convert_factor(candidate'.value, candidate.unit, PerKg),
                    convert_factor(candidate.value, candidate.unit, PerKg))
              = Plus(Minus(Added(parameters'), Removed(parameters')), Other(parameters')) ]_vars
  BY DifferenceHolds
<1>2. QED
  BY <1>1, ArithmeticIsInvariant, PTL DEF Spec, AdjustmentIsTheDifference

-----------------------------------------------------------------------------
(* Reason codes.                                                           *)

\* The steps after _candidate are taken only for requests without a reason code.
UnitInv ==
    Exists \/ todo \notin {<<>>, <<"evaluate">>} => unit_reason_codes(request) = {}

-----------------------------------------------------------------------------
\* A planned conversion of an activity stays in its dimension.
LEMMA ActivityPlanKeepsDimension ==
    ASSUME NEW source, NEW target, NEW e,
           plan_activity_conversion(source, target, e).code = "ok"
    PROVE  /\ source \in DOMAIN Activity /\ target \in DOMAIN Activity
           /\ Activity[source].dimension = Activity[target].dimension
<1>1. source \in DOMAIN Activity /\ target \in DOMAIN Activity
  BY DEF plan_activity_conversion, NotPlanned
<1>2. plan_activity(Activity[source], Activity[target], e).code = "ok"
  BY <1>1 DEF plan_activity_conversion, parse_activity_unit
<1>3. Activity[source].dimension = Activity[target].dimension
  BY <1>2 DEF plan_activity, NotPlanned
<1>. QED  BY <1>1, <1>3

\* The canonical unit of a key is a key, and the same unit.
LEMMA CanonicalUnit ==
    ASSUME NEW u \in DOMAIN Activity
    PROVE  Activity[u].canonical \in DOMAIN Activity /\ Activity[Activity[u].canonical] = Activity[u]
BY TableAssumption

\* A candidate is made only for a request without a reason code: through the bridge the
\* target is derived from the activity, otherwise the activity converts to it.
LEMMA AdmittedHasNoCode ==
    ASSUME NEW r, NEW unit, Admitted(r, unit)
    PROVE  unit_reason_codes(r) = {}
<1>1. CASE reference_flow_bridge(r, unit)
  <2>1. parses(effective_target(r))
    BY <1>1, FactorPlanParses DEF reference_flow_bridge
  <2>2. Parsed(r)
    BY <1>1 DEF reference_flow_bridge, activity_dimension
  <2>3. denominator(effective_target(r)) = Activity[Activity[r.unit].canonical]
    BY <1>1, <2>2 DEF reference_flow_bridge, effective_target, denominator, parse_activity_unit
  <2>4. denominator(effective_target(r)).dimension = activity_dimension(r)
    BY <2>2, <2>3, CanonicalUnit DEF Parsed, activity_dimension, parse_activity_unit
  <2>. QED  BY <2>1, <2>2, <2>4 DEF unit_reason_codes
<1>2. CASE FactorPlan(r, unit).code = "ok" /\ ActivityPlan(r).code = "ok"
  <2>1. parses(effective_target(r))
    BY <1>2, FactorPlanParses
  <2> DEFINE t == denominator(effective_target(r))
  <2>2. t = Activity[effective_target(r).activity] /\ effective_target(r).activity \in DOMAIN Activity
    BY <2>1 DEF parses, denominator, parse_activity_unit
  <2>3. Activity[t.canonical] = t
    BY <2>2, CanonicalUnit
  <2>4. r.unit \in DOMAIN Activity /\ Activity[r.unit].dimension = Activity[t.canonical].dimension
    BY <1>2, ActivityPlanKeepsDimension DEF ActivityPlan
  <2>5. Parsed(r) /\ activity_dimension(r) = t.dimension
    BY <2>3, <2>4 DEF Parsed, activity_dimension, parse_activity_unit
  <2>. QED  BY <2>1, <2>5 DEF unit_reason_codes
<1>. QED  BY <1>1, <1>2 DEF Admitted

-----------------------------------------------------------------------------
\* A step of a router has a candidate's steps ahead of it, and leaves the request alone.
LEMMA RouterStep ==
    ASSUME UnitInv, NEW name, name # "evaluate", Step(name)
    PROVE  UnitInv'
<1>1. todo # <<>> /\ todo # <<"evaluate">>
  BY DEF Step
<1>2. unit_reason_codes(request) = {} /\ request' = request
  BY <1>1 DEF UnitInv, Step
<1>3. unit_reason_codes(request') = {}
  BY <1>2
<1>. QED  BY <1>3 DEF UnitInv

\* Every step keeps it.
LEMMA UnitInvStep ==
    ASSUME UnitInv, [Next]_vars
    PROVE  UnitInv'
<1>1. CASE \E s \in Sources : Evaluate(s)
  <2>1. PICK s \in Sources : Evaluate(s)
    BY <1>1
  <2>2. request' = request
    BY <2>1 DEF Evaluate
  <2>3. CASE Admitted(request, s.unit)
    <3>1. unit_reason_codes(request) = {}
      BY <2>3, AdmittedHasNoCode
    <3>. QED  BY <3>1, <2>2 DEF UnitInv
  <2>4. CASE ~Admitted(request, s.unit)
    <3>1. todo' = <<>> /\ candidate' = candidate
      BY <2>1, <2>4 DEF Evaluate
    <3>2. CASE Exists
      <4>1. unit_reason_codes(request) = {}
        BY <3>2 DEF UnitInv
      <4>. QED  BY <4>1, <2>2 DEF UnitInv
    <3>3. CASE ~Exists
      BY <3>1, <3>3 DEF UnitInv, Exists
    <3>. QED  BY <3>2, <3>3
  <2>. QED  BY <2>3, <2>4
<1>2. CASE resolve_unit_scale
  BY <1>2, RouterStep, "unit_scale" # "evaluate" DEF resolve_unit_scale
<1>3. CASE \E records \in SUBSET Flows : resolve_reference_flow(records)
  BY <1>3, RouterStep, "reference_flow" # "evaluate" DEF resolve_reference_flow
<1>4. CASE \E p \in Parameters \cup {NoParameters} : resolve_process_variant(p)
  BY <1>4, RouterStep, "process" # "evaluate" DEF resolve_process_variant
<1>5. CASE \E records \in SUBSET Anchors : resolve_grade(records)
  BY <1>5, RouterStep, "grade" # "evaluate" DEF resolve_grade
<1>6. CASE Skip
  BY <1>6, RouterStep DEF Skip
<1>7. CASE UNCHANGED vars
  BY <1>7 DEF UnitInv, Exists, vars
<1>. QED  BY <1>1, <1>2, <1>3, <1>4, <1>5, <1>6, <1>7 DEF Next

\* A request whose units have a reason code never gets a candidate, whatever the unit
\* tables, the records and the evidence are (NormalizeNode.run, _candidate).
THEOREM UnitSafety == Spec => []UnitDefectsStopCandidates
<1>1. Init => UnitInv
  BY DEF Init, UnitInv, Exists
<1>2. UnitInv /\ [Next]_vars => UnitInv'
  BY UnitInvStep
<1>3. UnitInv => UnitDefectsStopCandidates
  BY DEF UnitInv, UnitDefectsStopCandidates
<1>. QED  BY <1>1, <1>2, <1>3, PTL DEF Spec

=============================================================================
