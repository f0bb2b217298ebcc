---------------------------- MODULE BinaryProofs ----------------------------
(***************************************************************************)
(* Induction and recursion on natural numbers without operator parameters, *)
(* and what follows from them about Binary: the powers of two, and that    *)
(* or'ing a small number into the zeros of an aligned one adds it.         *)
(***************************************************************************)
EXTENDS Binary, WellFoundedInduction, TLAPS

\* A set of natural numbers has a least element.
LEMMA Least ==
  ASSUME NEW T \in SUBSET Nat, T # {}
  PROVE  \E x \in T : \A y \in T : x <= y
  <1> DEFINE R == OpToRel(<, Nat)
  <1>1. IsWellFoundedOn(R, Nat)
    BY NatLessThanWellFounded, Zenon
  <1>2. R = {ss \in Nat \X Nat : ss[1] < ss[2]}
    BY Zenon DEF OpToRel
  <1> HIDE DEF R
  <1>3. PICK x \in T : \A y \in T : ~(<<y, x>> \in R)
    BY <1>1, WFMin, Zenon
  <1>4. \A y \in T : <<y, x>> \in Nat \X Nat /\ <<y, x>>[1] = y /\ <<y, x>>[2] = x
    OBVIOUS
  <1>5. \A y \in T : ~(y < x)
    BY <1>2, <1>3, <1>4
  <1>6. QED
    BY <1>5

\* Induction: a set with 0 that is closed under successors has them all.
LEMMA Induction ==
  ASSUME NEW T, 0 \in T, \A n \in Nat : n \in T => n + 1 \in T
  PROVE  Nat \subseteq T
  <1> DEFINE U == {n \in Nat : n \notin T}
  <1>1. SUFFICES ASSUME U # {} PROVE FALSE
    OBVIOUS
  <1>2. PICK x \in U : \A y \in U : x <= y
    BY <1>1, Least
  <1>3. x - 1 \in Nat /\ x - 1 \in T
    BY <1>2
  <1>4. QED
    BY <1>2, <1>3

\* The function f on D, 0 to N or all natural numbers, begins with a and goes
\* on from each value to the next by a step.
Recursive(f, D, S, a, step) ==
  /\ f \in [D -> S]
  /\ f[0] = a
  /\ \A n \in D \ {0} : f[n] = step[n][f[n - 1]]

\* Recursion: there is such a function.
LEMMA Recursion ==
  ASSUME NEW S, NEW a \in S, NEW step \in [Nat -> [S -> S]]
  PROVE  \E f : Recursive(f, Nat, S, a, step)
  <1> DEFINE Starts(g, n) == /\ g \in [0..n -> S] /\ g[0] = a
                             /\ \A k \in 0..(n - 1) : g[k + 1] = step[k + 1][g[k]]
             T == {n \in Nat : \E g \in [0..n -> S] : Starts(g, n)}
  <1>1. \A n \in Nat : \E g \in [0..n -> S] : Starts(g, n)
    <2>1. 0 \in T
      <3> DEFINE g == [k \in 0..0 |-> a]
      <3>1. g \in [0..0 -> S] /\ Starts(g, 0)
        OBVIOUS
      <3>2. QED
        BY <3>1
    <2>2. ASSUME NEW n \in Nat, n \in T PROVE n + 1 \in T
      <3>1. PICK g \in [0..n -> S] : Starts(g, n)
        BY <2>2
      <3> DEFINE h == [k \in 0..(n + 1) |-> IF k = n + 1 THEN step[n + 1][g[n]] ELSE g[k]]
      <3>2. step[n + 1][g[n]] \in S
        OBVIOUS
      <3>3. h \in [0..(n + 1) -> S]
        BY <3>2
      <3>4. h[0] = a
        BY <3>1
      <3>5. ASSUME NEW k \in 0..n PROVE h[k + 1] = step[k + 1][h[k]]
        <4>1. CASE k = n
          <5>1. n + 1 \in 0..(n + 1) /\ n \in 0..(n + 1) /\ n # n + 1
            OBVIOUS
          <5>2. h[n + 1] = step[n + 1][g[n]] /\ h[n] = g[n]
            BY <5>1
          <5>3. QED
            BY <4>1, <5>2
        <4>2. CASE k # n
          <5>1. k \in 0..(n - 1) /\ k + 1 \in 0..(n + 1) /\ k + 1 # n + 1 /\ k # n + 1
            BY <4>2
          <5>2. h[k + 1] = g[k + 1] /\ h[k] = g[k]
            BY <5>1
          <5>3. QED
            BY <5>1, <5>2, <3>1
        <4>3. QED
          BY <4>1, <4>2
      <3>6. Starts(h, n + 1)
        <4> HIDE DEF h
        <4>1. 0..((n + 1) - 1) = 0..n
          OBVIOUS
        <4>2. QED
          BY <3>3, <3>4, <3>5, <4>1
      <3> HIDE DEF h, Starts
      <3>7. QED
        BY <3>3, <3>6
    <2> HIDE DEF T
    <2>3. Nat \subseteq T
      BY <2>1, <2>2, Induction
    <2>4. QED
      BY <2>3 DEF T
  <1>2. ASSUME NEW m \in Nat, NEW n \in Nat, NEW g, NEW h, Starts(g, m), Starts(h, n)
        PROVE  \A k \in Nat : k \in 0..m /\ k \in 0..n => g[k] = h[k]
    <2> DEFINE U == {k \in Nat : k \in 0..m /\ k \in 0..n => g[k] = h[k]}
    <2>1. 0 \in U
      BY <1>2
    <2>2. ASSUME NEW k \in Nat, k \in U PROVE k + 1 \in U
      <3>1. SUFFICES ASSUME k + 1 \in 0..m, k + 1 \in 0..n PROVE g[k + 1] = h[k + 1]
        OBVIOUS
      <3>2. k \in 0..(m - 1) /\ k \in 0..(n - 1) /\ k \in 0..m /\ k \in 0..n
        BY <3>1
      <3>3. g[k] = h[k]
        BY <2>2, <3>2
      <3>4. QED
        BY <1>2, <3>2, <3>3
    <2> HIDE DEF U
    <2>3. Nat \subseteq U
      BY <2>1, <2>2, Induction
    <2>4. QED
      BY <2>3 DEF U
  <1> DEFINE G(n) == CHOOSE g \in [0..n -> S] : Starts(g, n)
             f == [n \in Nat |-> G(n)[n]]
  <1>3. ASSUME NEW n \in Nat PROVE Starts(G(n), n)
    BY <1>1
  <1> HIDE DEF G
  <1>4. f \in [Nat -> S] /\ f[0] = a
    BY <1>3
  <1>5. ASSUME NEW n \in Nat PROVE f[n + 1] = step[n + 1][f[n]]
    <2>1. Starts(G(n), n) /\ Starts(G(n + 1), n + 1)
      BY <1>3
    <2>2. G(n + 1)[n] = G(n)[n]
      <3> HIDE DEF Starts
      <3>1. n \in 0..n /\ n \in 0..(n + 1) /\ n + 1 \in Nat
        OBVIOUS
      <3>2. QED
        BY <2>1, <3>1, <1>2
    <2>3. G(n + 1)[n + 1] = step[n + 1][G(n + 1)[n]]
      <3>1. n \in 0..((n + 1) - 1)
        OBVIOUS
      <3>2. QED
        BY <2>1, <3>1
    <2>4. QED
      BY <2>2, <2>3
  <1> HIDE DEF f
  <1>6. ASSUME NEW n \in Nat \ {0} PROVE f[n] = step[n][f[n - 1]]
    <2>1. n - 1 \in Nat /\ (n - 1) + 1 = n
      OBVIOUS
    <2>2. QED
      BY <1>5, <2>1
  <1>7. Recursive(f, Nat, S, a, step)
    BY <1>4, <1>6 DEF Recursive
  <1>8. QED
    BY <1>7

\* The same up to a bound.
LEMMA BoundedRecursion ==
  ASSUME NEW S, NEW a \in S, NEW step \in [Nat -> [S -> S]], NEW N \in Nat
  PROVE  \E f : Recursive(f, 0..N, S, a, step)
  <1>0. PICK f : Recursive(f, Nat, S, a, step)
    BY Recursion
  <1>1. f \in [Nat -> S] /\ f[0] = a /\ \A n \in Nat \ {0} : f[n] = step[n][f[n - 1]]
    BY <1>0 DEF Recursive
  <1> DEFINE g == [n \in 0..N |-> f[n]]
  <1>2. g \in [0..N -> S]
    BY <1>1
  <1>3. g[0] = a
    BY <1>1
  <1>4. ASSUME NEW n \in (0..N) \ {0} PROVE g[n] = step[n][g[n - 1]]
    <2>1. n \in Nat \ {0} /\ n \in 0..N /\ n - 1 \in 0..N
      OBVIOUS
    <2>2. QED
      BY <1>1, <2>1
  <1> HIDE DEF g
  <1>5. Recursive(g, 0..N, S, a, step)
    BY <1>2, <1>3, <1>4 DEF Recursive
  <1>6. QED
    BY <1>5
-----------------------------------------------------------------------------
(***************************************************************************)
(* Multiplication and division.                                            *)
(***************************************************************************)
LEMMA Products ==
  ASSUME NEW a \in Int, NEW b \in Int, NEW c \in Int
  PROVE  /\ a * b \in Int /\ a * b = b * a /\ a * (b * c) = (a * b) * c
         /\ a * (b + c) = a * b + a * c /\ a * (b - c) = a * b - a * c
         /\ a \in Nat /\ b <= c => a * b <= a * c
         /\ a \in Nat /\ b \in Nat => a * b \in Nat
  OBVIOUS

LEMMA Division ==
  ASSUME NEW n \in Nat, NEW h \in Nat \ {0}
  PROVE  n = h * (n \div h) + (n % h) /\ n % h \in 0..(h - 1) /\ n \div h \in Nat
  OBVIOUS

\* The quotient and the remainder are the only ones.
LEMMA Quotient ==
  ASSUME NEW q \in Nat, NEW r \in Nat, NEW h \in Nat \ {0}, r < h
  PROVE  (h * q + r) \div h = q /\ (h * q + r) % h = r
  OBVIOUS

\* Dividing twice is dividing by the product.
LEMMA TwoDivisions ==
  \A n \in Nat : \A a, b \in Nat \ {0} :
    n \div (a * b) = (n \div a) \div b /\ n % (a * b) = a * ((n \div a) % b) + (n % a)
  <1> SUFFICES ASSUME NEW n \in Nat, NEW a \in Nat \ {0}, NEW b \in Nat \ {0}
               PROVE  /\ n \div (a * b) = (n \div a) \div b
                      /\ n % (a * b) = a * ((n \div a) % b) + (n % a)
    OBVIOUS
  <1> DEFINE x == n \div a
             q == x \div b
             r == a * (x % b) + (n % a)
  <1>1. n = a * x + (n % a) /\ n % a \in 0..(a - 1) /\ x \in Nat
    BY Division
  <1>2. x = b * q + (x % b) /\ x % b \in 0..(b - 1) /\ q \in Nat
    BY <1>1, Division
  <1> HIDE DEF x, q
  <1>3. a * b \in Nat \ {0}
    OBVIOUS
  <1>4. n = (a * b) * q + r
    BY <1>1, <1>2
  <1>5. r \in Nat /\ r < a * b
    <2>1. a * (x % b) <= a * (b - 1) /\ a * (b - 1) = a * b - a
      BY <1>2
    <2>2. QED
      BY <1>1, <1>2, <2>1
  <1> HIDE DEF r
  <1>6. n \div (a * b) = q /\ n % (a * b) = r
    BY <1>2, <1>3, <1>4, <1>5, Quotient
  <1>7. QED
    BY <1>6 DEF x, q, r

LEMMA DivideTwice ==
  \A n \in Nat : \A a, b \in Nat \ {0} : n \div (a * b) = (n \div a) \div b
  BY TwoDivisions, Zenon

LEMMA RemainderTwice ==
  \A n \in Nat : \A a, b \in Nat \ {0} : n % (a * b) = a * ((n \div a) % b) + (n % a)
  BY TwoDivisions, Zenon
-----------------------------------------------------------------------------
(***************************************************************************)
(* Powers of two.                                                          *)
(***************************************************************************)
LEMMA Pow2Step ==
  /\ pow2 \in [Nat -> Nat \ {0}]
  /\ pow2[0] = 1
  /\ \A n \in Nat : pow2[n + 1] = 2 * pow2[n]
  <1> DEFINE Pos == Nat \ {0}
             step == [n \in Nat |-> [x \in Pos |-> 2 * x]]
             Def(f) == f = [n \in Nat |-> IF n = 0 THEN 1 ELSE 2 * f[n - 1]]
  <1>1. 1 \in Pos /\ step \in [Nat -> [Pos -> Pos]] /\ \A n \in Nat, x \in Pos : step[n][x] = 2 * x
    OBVIOUS
  <1> HIDE DEF step, Pos
  <1>0. PICK f : Recursive(f, Nat, Pos, 1, step)
    BY <1>1, Recursion
  <1>2. f \in [Nat -> Pos] /\ f[0] = 1 /\ \A n \in Nat \ {0} : f[n] = step[n][f[n - 1]]
    BY <1>0 DEF Recursive
  <1>3. Def(f)
    <2>1. \A n \in Nat \ {0} : n \in Nat /\ n - 1 \in Nat
      OBVIOUS
    <2>2. \A n \in Nat \ {0} : f[n] = 2 * f[n - 1]
      BY <1>1, <1>2, <2>1
    <2>3. QED
      BY <1>2, <2>2
  <1>4. Def(pow2)
    <2>1. pow2 = CHOOSE g : Def(g)
      BY DEF pow2
    <2> HIDE DEF Def
    <2>2. QED
      BY <1>3, <2>1
  <1>5. pow2[0] = 1 /\ DOMAIN pow2 = Nat
    BY <1>4
  <1>6. \A n \in Nat : pow2[n + 1] = 2 * pow2[n]
    <2>1. \A n \in Nat : n + 1 \in Nat /\ n + 1 # 0 /\ (n + 1) - 1 = n
      OBVIOUS
    <2>2. QED
      BY <1>4, <2>1
  <1>7. \A n \in Nat : pow2[n] \in Nat \ {0}
    <2> DEFINE T == {n \in Nat : pow2[n] \in Nat \ {0}}
    <2>1. 0 \in T /\ \A n \in Nat : n \in T => n + 1 \in T
      BY <1>5, <1>6
    <2> HIDE DEF T
    <2>2. Nat \subseteq T
      BY <2>1, Induction
    <2>3. QED
      BY <2>2 DEF T
  <1>8. QED
    BY <1>4, <1>5, <1>6, <1>7

LEMMA Pow2Sum ==
  ASSUME NEW a \in Nat, NEW b \in Nat
  PROVE  pow2[a + b] = pow2[a] * pow2[b]
  <1> DEFINE T == {n \in Nat : pow2[a + n] = pow2[a] * pow2[n]}
  <1>1. 0 \in T
    BY Pow2Step
  <1>2. ASSUME NEW n \in Nat, n \in T PROVE n + 1 \in T
    <2>1. pow2[a + (n + 1)] = 2 * pow2[a + n]
      <3>1. a + (n + 1) = (a + n) + 1 /\ a + n \in Nat
        OBVIOUS
      <3>2. QED
        BY <3>1, Pow2Step
    <2>2. pow2[n + 1] = 2 * pow2[n] /\ pow2[a] \in Nat /\ pow2[n] \in Nat
      BY Pow2Step
    <2>3. 2 * (pow2[a] * pow2[n]) = pow2[a] * (2 * pow2[n])
      BY <2>2
    <2>4. QED
      BY <1>2, <2>1, <2>2, <2>3
  <1> HIDE DEF T
  <1>3. Nat \subseteq T
    BY <1>1, <1>2, Induction
  <1>4. QED
    BY <1>3 DEF T

\* A smaller power divides a larger one.
LEMMA Pow2Divides ==
  ASSUME NEW n \in Nat, NEW k \in 0..n
  PROVE  /\ pow2[k] \in Nat \ {0} /\ pow2[n - k] \in Nat \ {0}
         /\ pow2[n] = pow2[k] * pow2[n - k] /\ pow2[k] <= pow2[n]
         /\ k < n => 2 * pow2[k] <= pow2[n]
  <1>1. n - k \in Nat /\ k + (n - k) = n
    OBVIOUS
  <1>2. pow2[n] = pow2[k] * pow2[n - k]
    BY <1>1, Pow2Sum
  <1>3. pow2[k] \in Nat \ {0} /\ pow2[n - k] \in Nat \ {0}
    BY <1>1, Pow2Step
  <1>4. pow2[k] <= pow2[n]
    BY <1>2, <1>3
  <1>5. ASSUME k < n PROVE 2 * pow2[k] <= pow2[n]
    <2>1. (n - k) - 1 \in Nat /\ ((n - k) - 1) + 1 = n - k
      BY <1>5
    <2>2. pow2[n - k] = 2 * pow2[(n - k) - 1] /\ pow2[(n - k) - 1] \in Nat \ {0}
      BY <2>1, Pow2Step
    <2>3. pow2[n - k] >= 2
      BY <2>2
    <2>4. QED
      BY <1>2, <1>3, <2>3
  <1>6. QED
    BY <1>2, <1>3, <1>4, <1>5
-----------------------------------------------------------------------------
(***************************************************************************)
(* Bits.                                                                   *)
(***************************************************************************)
LEMMA BitSplits ==
  ASSUME NEW x \in Nat, NEW k \in Nat
  PROVE  /\ Bit(x, k) \in {0, 1}
         /\ x % pow2[k] \in Nat
         /\ x % pow2[k + 1] = pow2[k] * Bit(x, k) + (x % pow2[k])
  <1> DEFINE p == pow2[k]  q == x \div p
  <1>1. p \in Nat \ {0} /\ 2 \in Nat \ {0} /\ pow2[k + 1] = p * 2
    BY Pow2Step
  <1> HIDE DEF p
  <1>2. q \in Nat /\ x % p \in Nat
    BY <1>1
  <1>3. x % (p * 2) = p * (q % 2) + (x % p)
    BY <1>1, RemainderTwice
  <1> HIDE DEF q
  <1>4. q % 2 \in {0, 1}
    BY <1>2
  <1>5. Bit(x, k) = q % 2
    BY DEF Bit, p, q
  <1>6. QED
    BY <1>1, <1>2, <1>3, <1>4, <1>5 DEF p

\* The zeros of an aligned number, and those in front of a small one.
LEMMA BitsOfParts ==
  ASSUME NEW a \in Nat, NEW b \in Nat, NEW k \in Nat, NEW j \in Nat,
         a % pow2[k] = 0, b < pow2[k]
  PROVE  Bit(a, j) = 0 \/ Bit(b, j) = 0
  <1>1. CASE j < k
    <2>1. j \in 0..k /\ k - j - 1 \in Nat /\ (k - j - 1) + 1 = k - j
      BY <1>1
    <2> DEFINE p == pow2[j]  c == pow2[k - j - 1]  q == a \div pow2[k]
    <2>2. p \in Nat \ {0} /\ c \in Nat \ {0} /\ pow2[k] = p * (2 * c)
      <3>1. pow2[k - j] = 2 * c
        BY <2>1, Pow2Step
      <3>2. QED
        BY <2>1, <3>1, Pow2Step, Pow2Divides
    <2>3. q \in Nat /\ a = pow2[k] * q
      <3>1. pow2[k] \in Nat \ {0}
        BY Pow2Step
      <3>2. a = pow2[k] * (a \div pow2[k]) + (a % pow2[k]) /\ a \div pow2[k] \in Nat
        BY <3>1, Division
      <3>3. QED
        BY <3>1, <3>2
    <2> HIDE DEF p, c, q
    <2>4. c * q \in Nat /\ a = p * (2 * (c * q)) + 0
      BY <2>2, <2>3
    <2>5. a \div p = 2 * (c * q)
      BY <2>2, <2>4, Quotient
    <2>6. (2 * (c * q)) % 2 = 0
      BY <2>4
    <2>7. QED
      BY <2>5, <2>6 DEF Bit, p
  <1>2. CASE j >= k
    <2>1. pow2[k] <= pow2[j] /\ pow2[j] \in Nat \ {0}
      BY <1>2, Pow2Divides
    <2>2. b < pow2[j] /\ b = pow2[j] * 0 + b
      BY <2>1, Pow2Step
    <2>3. b \div pow2[j] = 0
      BY <2>1, <2>2, Quotient
    <2>4. QED
      BY <2>3 DEF Bit
  <1>3. QED
    BY <1>1, <1>2

\* Or'ing a number below pow2[k] into one whose lowest k bits are zero adds it.
LEMMA OrAdds ==
  ASSUME NEW x \in Nat, NEW y \in Nat, NEW width \in Nat, x < pow2[width], y < pow2[width],
         \A j \in Nat : Bit(x, j) = 0 \/ Bit(y, j) = 0
  PROVE  Or(x, y, width) = x + y
  <1> DEFINE add(k) == IF Bit(x, k - 1) = 1 \/ Bit(y, k - 1) = 1 THEN pow2[k - 1] ELSE 0
             step == [k \in Nat |-> [z \in Nat |-> IF k = 0 THEN z ELSE z + add(k)]]
             Def(f) == f = [k \in 0..width |-> IF k = 0 THEN 0 ELSE f[k - 1] + add(k)]
             or == CHOOSE f : Def(f)
  <1>1. Or(x, y, width) = or[width]
    BY DEF Or
  <1>2. \A k \in Nat \ {0} : add(k) \in Nat
    BY Pow2Step
  <1> HIDE DEF add
  <1>3. step \in [Nat -> [Nat -> Nat]] /\ \A k \in Nat \ {0}, z \in Nat : step[k][z] = z + add(k)
    BY <1>2
  <1> HIDE DEF step
  <1>4. PICK f : Recursive(f, 0..width, Nat, 0, step)
    BY <1>3, BoundedRecursion
  <1>5. f \in [0..width -> Nat] /\ f[0] = 0 /\ \A k \in (0..width) \ {0} : f[k] = step[k][f[k - 1]]
    BY <1>4 DEF Recursive
  <1>6. Def(f)
    <2>1. \A k \in (0..width) \ {0} : k \in Nat \ {0} /\ k - 1 \in 0..width
      OBVIOUS
    <2>2. \A k \in (0..width) \ {0} : f[k] = f[k - 1] + add(k)
      BY <1>3, <1>5, <2>1
    <2>3. QED
      BY <1>5, <2>2
  <1>7. Def(or)
    <2> HIDE DEF Def
    <2>1. QED
      BY <1>6
  <1> HIDE DEF or
  <1>8. or[0] = 0 /\ \A k \in (0..width) \ {0} : or[k] = or[k - 1] + add(k)
    BY <1>7
  <1> DEFINE T == {k \in Nat : k <= width => or[k] = (x % pow2[k]) + (y % pow2[k])}
  <1>9. Nat \subseteq T
    <2>1. 0 \in T
      <3>1. pow2[0] = 1 /\ x % 1 = 0 /\ y % 1 = 0
        BY Pow2Step
      <3>2. QED
        BY <1>8, <3>1
    <2>2. ASSUME NEW k \in Nat, k \in T PROVE k + 1 \in T
      <3>1. SUFFICES ASSUME k + 1 <= width
                     PROVE  or[k + 1] = (x % pow2[k + 1]) + (y % pow2[k + 1])
        OBVIOUS
      <3>2. or[k + 1] = or[k] + add(k + 1) /\ or[k] = (x % pow2[k]) + (y % pow2[k])
        <4>1. k + 1 \in (0..width) \ {0} /\ (k + 1) - 1 = k /\ k <= width
          BY <3>1
        <4>2. QED
          BY <1>8, <2>2, <4>1
      <3>3. add(k + 1) = pow2[k] * Bit(x, k) + pow2[k] * Bit(y, k)
        <4>1. (k + 1) - 1 = k
          OBVIOUS
        <4>2. add(k + 1) = IF Bit(x, k) = 1 \/ Bit(y, k) = 1 THEN pow2[k] ELSE 0
          BY <4>1 DEF add
        <4>3. Bit(x, k) \in {0, 1} /\ Bit(y, k) \in {0, 1} /\ pow2[k] \in Nat
          BY BitSplits, Pow2Step
        <4>4. QED
          BY <4>2, <4>3
      <3>4. /\ x % pow2[k] \in Nat /\ x % pow2[k + 1] = pow2[k] * Bit(x, k) + (x % pow2[k])
            /\ y % pow2[k] \in Nat /\ y % pow2[k + 1] = pow2[k] * Bit(y, k) + (y % pow2[k])
            /\ Bit(x, k) \in {0, 1} /\ Bit(y, k) \in {0, 1}
        BY BitSplits
      <3>5. pow2[k] \in Nat
        BY Pow2Step
      <3>6. QED
        BY <3>2, <3>3, <3>4, <3>5
    <2> HIDE DEF T
    <2>3. QED
      BY <2>1, <2>2, Induction
  <1>10. or[width] = (x % pow2[width]) + (y % pow2[width])
    BY <1>9
  <1>11. x % pow2[width] = x /\ y % pow2[width] = y
    <2>1. x = pow2[width] * 0 + x /\ y = pow2[width] * 0 + y /\ pow2[width] \in Nat \ {0}
      BY Pow2Step
    <2>2. QED
      BY <2>1, Quotient
  <1>12. QED
    BY <1>1, <1>10, <1>11

LEMMA OrOfParts ==
  ASSUME NEW a \in Nat, NEW b \in Nat, NEW width \in Nat, NEW k \in 0..width,
         a % pow2[k] = 0, a < pow2[width], b < pow2[k]
  PROVE  Or(a, b, width) = a + b /\ Or(b, a, width) = a + b
  <1>1. \A j \in Nat : Bit(a, j) = 0 \/ Bit(b, j) = 0
    BY BitsOfParts
  <1>2. b < pow2[width]
    BY Pow2Divides, Pow2Step
  <1>3. Or(a, b, width) = a + b /\ Or(b, a, width) = b + a
    BY <1>1, <1>2, OrAdds
  <1>4. QED
    BY <1>3
-----------------------------------------------------------------------------
(***************************************************************************)
(* Multiples.                                                              *)
(***************************************************************************)
\* The multiple of h at or below n.
LEMMA MultipleBelow ==
  ASSUME NEW n \in Nat, NEW h \in Nat \ {0}
  PROVE  /\ (n \div h) * h \in Nat /\ (n \div h) * h <= n /\ n < (n \div h) * h + h
         /\ ((n \div h) * h) % h = 0
         /\ n % h = 0 => (n \div h) * h = n
  <1> DEFINE q == n \div h  r == n % h
  <1>1. n = h * q + r /\ r \in 0..(h - 1) /\ q \in Nat
    BY Division
  <1> HIDE DEF q, r
  <1>2. q * h = h * q /\ h * q \in Nat /\ h * q = h * q + 0
    BY <1>1
  <1>3. (h * q + 0) % h = 0
    BY <1>1, Quotient
  <1>4. q * h \in Nat /\ q * h <= n /\ n < q * h + h /\ (q * h) % h = 0 /\ (r = 0 => q * h = n)
    BY <1>1, <1>2, <1>3
  <1>5. QED
    BY <1>4 DEF q, r

\* Multiples of h are at least h apart.
LEMMA MultiplesApart ==
  ASSUME NEW h \in Nat \ {0}, NEW a \in Nat, NEW b \in Nat, a % h = 0, b % h = 0, a < b
  PROVE  a + h <= b
  <1> DEFINE p == a \div h  q == b \div h
  <1>1. a = h * p /\ p \in Nat /\ b = h * q /\ q \in Nat
    <2>1. /\ a = h * (a \div h) + (a % h) /\ a \div h \in Nat
          /\ b = h * (b \div h) + (b % h) /\ b \div h \in Nat
      BY Division
    <2>2. QED
      BY <2>1
  <1> HIDE DEF p, q
  <1>2. p < q
    BY <1>1
  <1>3. h * (p + 1) <= h * q /\ h * (p + 1) = h * p + h
    BY <1>1, <1>2
  <1>4. QED
    BY <1>1, <1>3

\* A multiple of a product is a multiple of each factor.
LEMMA MultipleOfProduct ==
  ASSUME NEW a \in Nat \ {0}, NEW b \in Nat \ {0}, NEW n \in Nat
  PROVE  /\ (a * b) % a = 0
         /\ n % (a * b) = 0 => n % a = 0
  <1>1. a * b \in Nat \ {0} /\ a * b = a * b + 0
    OBVIOUS
  <1>2. (a * b) % a = 0
    BY <1>1, Quotient
  <1>3. ASSUME n % (a * b) = 0 PROVE n % a = 0
    <2> DEFINE m == a * b  q == n \div m
    <2>1. m \in Nat \ {0} /\ n % m = 0
      BY <1>1, <1>3
    <2> HIDE DEF m
    <2>2. n = m * q + (n % m) /\ q \in Nat
      BY <2>1, Division
    <2> HIDE DEF q
    <2> DEFINE c == b * q
    <2>3. n = m * q
      BY <2>1, <2>2
    <2>4. c \in Nat /\ n = a * c + 0
      <3>1. c \in Nat
        BY <2>2
      <3>2. (a * b) * q = a * (b * q)
        BY <2>2
      <3>3. QED
        BY <2>3, <3>1, <3>2 DEF m
    <2> HIDE DEF c
    <2>5. (a * c + 0) % a = 0
      BY <2>4, Quotient
    <2>6. QED
      BY <2>4, <2>5
  <1>4. QED
    BY <1>2, <1>3
-----------------------------------------------------------------------------
(***************************************************************************)
(* Carries.                                                                *)
(***************************************************************************)
\* A number of two digits is the largest, or 0, if both digits are.
LEMMA TwoDigits ==
  ASSUME NEW w \in Nat \ {0}, NEW R \in Nat \ {0}, NEW d \in 0..(R - 1), NEW r \in 0..(w - 1)
  PROVE  /\ w * d + r = w * R - 1 <=> d = R - 1 /\ r = w - 1
         /\ w * d + r = 0 <=> d = 0 /\ r = 0
  <1>1. w * (R - 1) = w * R - w
    OBVIOUS
  <1>2. ASSUME d < R - 1 PROVE w * d + r < w * R - w
    <2>1. w * (d + 1) <= w * (R - 1) /\ w * (d + 1) = w * d + w
      BY <1>2
    <2>2. QED
      BY <1>1, <2>1
  <1>3. ASSUME d > 0 PROVE w * d >= w
    <2>1. w * d >= w * 1
      BY <1>3
    <2>2. QED
      BY <2>1
  <1>4. w * 0 = 0 /\ w * d \in Nat
    OBVIOUS
  <1>5. QED
    BY <1>1, <1>2, <1>3, <1>4

\* Counting a digit up, and down again.
LEMMA DigitUp ==
  ASSUME NEW q \in Nat, NEW R \in Nat \ {0}
  PROVE  /\ (q + 1) % R = ((q % R) + 1) % R
         /\ ((((q % R) + 1) % R) - 1) % R = q % R
  <1> DEFINE s == q \div R  t == q % R
  <1>1. q = R * s + t /\ s \in Nat /\ t \in 0..(R - 1)
    BY Division
  <1> HIDE DEF s, t
  <1>2. CASE t + 1 < R
    <2>1. q + 1 = R * s + (t + 1) /\ t + 1 = R * 0 + (t + 1) /\ t + 1 \in Nat
          /\ t = R * 0 + t
      BY <1>1
    <2>2. (q + 1) % R = t + 1 /\ (t + 1) % R = t + 1 /\ t % R = t
      BY <1>1, <1>2, <2>1, Quotient
    <2>3. QED
      BY <1>1, <2>2 DEF t
  <1>3. CASE t + 1 = R
    <2>1. q + 1 = R * (s + 1) + 0 /\ t + 1 = R * 1 + 0
      BY <1>1, <1>3
    <2>2. (q + 1) % R = 0 /\ (t + 1) % R = 0
      <3>1. s + 1 \in Nat
        BY <1>1
      <3>2. QED
        BY <2>1, <3>1, Quotient
    <2>3. (0 - 1) % R = R - 1
      OBVIOUS
    <2>4. QED
      BY <1>1, <1>3, <2>2, <2>3 DEF t
  <1>4. QED
    BY <1>1, <1>2, <1>3

\* Counting a number up counts its digit at w up exactly if the digits behind
\* it are at their end; they are 0 then.
LEMMA CountUp ==
  ASSUME NEW n \in Nat, NEW w \in Nat \ {0}, NEW R \in Nat \ {0}
  PROVE  /\ ((n + 1) \div w) % R = IF n % w = w - 1 THEN (((n \div w) % R) + 1) % R
                                   ELSE (n \div w) % R
         /\ (n + 1) % w = 0 <=> n % w = w - 1
  <1> DEFINE q == n \div w  r == n % w
  <1>1. n = w * q + r /\ q \in Nat /\ r \in 0..(w - 1)
    BY Division
  <1> HIDE DEF q, r
  <1>2. CASE r = w - 1
    <2> DEFINE p == q + 1
    <2>1. n + 1 = w * p + 0 /\ p \in Nat
      BY <1>1, <1>2
    <2> HIDE DEF p
    <2>2. (n + 1) \div w = p /\ (n + 1) % w = 0
      BY <2>1, Quotient
    <2>3. (q + 1) % R = ((q % R) + 1) % R
      BY <1>1, DigitUp
    <2>4. QED
      BY <1>2, <2>2, <2>3 DEF p, q, r
  <1>3. CASE r # w - 1
    <2>1. n + 1 = w * q + (r + 1) /\ r + 1 \in Nat /\ r + 1 < w
      BY <1>1, <1>3
    <2>2. (n + 1) \div w = q /\ (n + 1) % w = r + 1
      BY <1>1, <2>1, Quotient
    <2>3. QED
      BY <1>1, <1>3, <2>2 DEF q, r
  <1>4. QED
    BY <1>2, <1>3

\* The same when the number starts over at 0 behind its last value.
LEMMA CountAround ==
  \A w, R, c \in Nat \ {0} : \A n \in Nat :
    n + 1 = (w * R) * c => n % w = w - 1 /\ (n \div w) % R = R - 1
  <1> SUFFICES ASSUME NEW w \in Nat \ {0}, NEW R \in Nat \ {0}, NEW c \in Nat \ {0},
                      NEW n \in Nat, n + 1 = (w * R) * c
               PROVE  n % w = w - 1 /\ (n \div w) % R = R - 1
    OBVIOUS
  <1> DEFINE b == c - 1  q == R * b + (R - 1)
  <1>1. b \in Nat /\ c = b + 1 /\ R * b \in Nat /\ q \in Nat
    OBVIOUS
  <1>2. R * c = R * b + R /\ R * c \in Nat
    BY <1>1
  <1>3. (w * R) * c = w * (R * c)
    BY <1>2
  <1>4. w * (q + 1) = w * q + w /\ w * q \in Nat
    BY <1>1
  <1>5. R * c = q + 1
    BY <1>1, <1>2
  <1>6. q % R = R - 1
    BY <1>1, Quotient
  <1> HIDE DEF q
  <1>7. n = w * q + (w - 1)
    BY <1>3, <1>4, <1>5
  <1>8. n % w = w - 1 /\ n \div w = q
    BY <1>1, <1>7, Quotient
  <1>9. QED
    BY <1>6, <1>8
LEMMA ProductIsMultiple ==
  \A h \in Nat \ {0} : \A q \in Nat : (h * q) % h = 0
  <1> SUFFICES ASSUME NEW h \in Nat \ {0}, NEW q \in Nat PROVE (h * q) % h = 0
    OBVIOUS
  <1>1. h * q = h * q + 0
    OBVIOUS
  <1>2. QED
    BY <1>1, Quotient

\* A multiple of p * h and one of h make one of h.
LEMMA SumOfMultiples ==
  \A h, p \in Nat \ {0} : \A a, q \in Nat : a % (p * h) = 0 => (a + q * h) % h = 0
  <1> SUFFICES ASSUME NEW h \in Nat \ {0}, NEW p \in Nat \ {0}, NEW a \in Nat, NEW q \in Nat,
                      a % (p * h) = 0
               PROVE  (a + q * h) % h = 0
    OBVIOUS
  <1>1. p * h = h * p
    OBVIOUS
  <1>2. a % h = 0
    BY <1>1, MultipleOfProduct
  <1> DEFINE f == a \div h  g == f + q
  <1>3. a = h * f + (a % h) /\ f \in Nat
    BY Division
  <1> HIDE DEF f
  <1>4. g \in Nat /\ a + q * h = h * g
    <2>1. h * g = h * f + h * q /\ h * q = q * h
      BY <1>3
    <2>2. QED
      BY <1>2, <1>3, <2>1
  <1> HIDE DEF g
  <1>5. (h * g) % h = 0
    BY <1>4, ProductIsMultiple
  <1>6. QED
    BY <1>4, <1>5
=============================================================================
