------------------------------ MODULE Numbers -------------------------------
(***************************************************************************)
(* Facts about integers that the proofs of several modules need, and that  *)
(* recursive definitions over them define functions.  The induction is     *)
(* over sets of numbers, which a prover can instantiate, not over          *)
(* predicates.                                                             *)
(***************************************************************************)
EXTENDS Integers, TLAPS, WellFoundedInduction

\* A non-empty set of numbers has a least element.
LEMMA LeastElement ==
    ASSUME NEW S \in SUBSET Nat, S # {}
    PROVE  \E x \in S : \A y \in S : x <= y
<1> DEFINE Less == {p \in Nat \X Nat : p[1] < p[2]}
<1>1. OpToRel(<, Nat) = Less
  BY DEF OpToRel
<1>2. \E x \in S : \A y \in S : ~(<<y, x>> \in Less)
  BY <1>1, WFMin, NatLessThanWellFounded
<1>3. ASSUME NEW x \in S, NEW y \in S, ~(<<y, x>> \in Less)
      PROVE  x <= y
  BY <1>3
<1>4. QED
  BY <1>2, <1>3

\* Division with remainder.
LEMMA Division ==
    ASSUME NEW n \in Int, NEW k \in Nat \ {0}
    PROVE  /\ n \div k \in Int
           /\ n % k \in 0 .. k - 1
           /\ n = k * (n \div k) + (n % k)
  BY SMTT(30)

\* Quotient and remainder are the only numbers with their property.
LEMMA DivisionUnique ==
    ASSUME NEW n \in Int, NEW k \in Nat \ {0}, NEW q \in Int,
           NEW r \in 0 .. k - 1, n = k * q + r
    PROVE  n \div k = q /\ n % k = r
  BY SMTT(30)

\* Multiplication by a positive number keeps and reflects the order.
LEMMA TimesMonotone ==
    ASSUME NEW k \in Nat \ {0}, NEW p \in Int, NEW q \in Int
    PROVE  /\ k * p \in Int
           /\ p < q => k * p + k <= k * q
           /\ p <= q => k * p <= k * q
<1>1. k * p \in Int /\ k * q \in Int
  OBVIOUS
<1>2. PICK d \in Int : q = p + d
  <2>1. q - p \in Int /\ q = p + (q - p)
    OBVIOUS
  <2>2. QED
    BY <2>1
<1>3. k * q = k * p + k * d /\ k * d \in Int
  BY <1>2, SMTT(30)
<1>4. d >= 1 => k * d >= k
  BY <1>2, SMTT(30)
<1>5. d >= 0 => k * d >= 0
  BY <1>2, SMTT(30)
<1>6. p < q => d >= 1
  BY <1>2
<1>7. p <= q => d >= 0
  BY <1>2
<1>8. QED
  <2> DEFINE a == k * p
             b == k * q
             c == k * d
  <2>1. a \in Int /\ b \in Int /\ c \in Int /\ b = a + c
    BY <1>1, <1>3
  <2>2. (p < q => c >= k) /\ (p <= q => c >= 0)
    BY <1>4, <1>5, <1>6, <1>7
  <2> HIDE DEF a, b, c
  <2>3. a \in Int /\ (p < q => a + k <= b) /\ (p <= q => a <= b)
    BY <2>1, <2>2
  <2>4. QED
    BY <2>3 DEF a, b

\* Multiplication of natural numbers is associative.
LEMMA Associate ==
    ASSUME NEW p \in Nat, NEW q \in Nat, NEW r \in Nat
    PROVE  (p * q) * r = p * (q * r) /\ q * r \in Nat
  BY SMTT(30)

\* Division by a positive number keeps the order.
LEMMA DivisionMonotone ==
    ASSUME NEW m \in Int, NEW n \in Int, NEW k \in Nat \ {0}, m <= n
    PROVE  m \div k <= n \div k
<1> DEFINE p == m \div k
           q == n \div k
<1>1. /\ p \in Int /\ m % k \in 0 .. k - 1 /\ m = k * p + (m % k)
      /\ q \in Int /\ n % k \in 0 .. k - 1 /\ n = k * q + (n % k)
  BY Division
<1>2. q < p => k * q + k <= k * p /\ k * q \in Int /\ k * p \in Int
  BY <1>1, TimesMonotone
<1>3. ~(q < p)
  <2> SUFFICES ASSUME q < p PROVE FALSE
    OBVIOUS
  <2> DEFINE a == k * p
             b == k * q
  <2>1. b + k <= a /\ a \in Int /\ b \in Int
    BY <1>2, <1>1
  <2>2. m = a + (m % k) /\ n = b + (n % k)
    BY <1>1
  <2> HIDE DEF a, b, p, q
  <2>3. QED
    BY <2>1, <2>2, <1>1
<1>4. QED
  BY <1>1, <1>3
-----------------------------------------------------------------------------
(* Induction and recursion.                                                *)

\* A set that holds 0 and with every number the next one holds them all.
LEMMA SetInduction ==
    ASSUME NEW S, 0 \in S, \A n \in Nat : n \in S => n + 1 \in S
    PROVE  Nat \subseteq S
<1> SUFFICES ASSUME Nat \ S # {} PROVE FALSE
    OBVIOUS
<1>1. PICK m \in Nat \ S : \A n \in Nat \ S : m <= n
    BY LeastElement
<1>2. m # 0
    OBVIOUS
<1>3. m - 1 \in Nat /\ (m - 1) + 1 = m /\ ~(m <= m - 1)
    BY <1>2
<1>4. m - 1 \in S
    BY <1>1, <1>3
<1> QED
    BY <1>3, <1>4

\* g follows the steps from base up to n.
Follows(g, base, step, n) ==
    g[0] = base /\ \A k \in 0 .. n - 1 : g[k + 1] = step[<<k, g[k]>>]

\* Functions that follow the same steps are the same as far as they go.
LEMMA FollowUnique ==
    ASSUME NEW base, NEW step, NEW m \in Nat, NEW n \in Nat, NEW g, NEW h,
           Follows(g, base, step, m), Follows(h, base, step, n)
    PROVE  \A k \in 0 .. m : k <= n => g[k] = h[k]
<1> DEFINE S == {k \in Nat : k <= m /\ k <= n => g[k] = h[k]}
<1>1. 0 \in S
    BY DEF Follows
<1>2. ASSUME NEW k \in Nat, k \in S PROVE k + 1 \in S
    <2> SUFFICES ASSUME k + 1 <= m, k + 1 <= n PROVE g[k + 1] = h[k + 1]
        OBVIOUS
    <2>1. k \in 0 .. m - 1 /\ k \in 0 .. n - 1 /\ g[k] = h[k]
        BY <1>2
    <2> QED
        BY <2>1 DEF Follows
<1> HIDE DEF S
<1>3. Nat \subseteq S
    BY <1>1, <1>2, SetInduction
<1> QED
    BY <1>3 DEF S

\* Those that follow them all.
Followers(V, base, step) ==
    {f \in [Nat -> V] : f[0] = base /\ \A n \in Nat : f[n + 1] = step[<<n, f[n]>>]}

\* Recursion: whatever the steps on V are, some function follows them all.
LEMMA Recursion ==
    ASSUME NEW V, NEW base \in V, NEW step \in [Nat \X V -> V]
    PROVE  Followers(V, base, step) # {}
<1> DEFINE Upto(n) == {g \in [0 .. n -> V] : Follows(g, base, step, n)}
           S == {n \in Nat : Upto(n) # {}}
<1>1. 0 \in S
    <2> DEFINE g == [k \in 0 .. 0 |-> base]
    <2>1. g \in Upto(0)
        BY DEF Follows
    <2> QED
        BY <2>1
<1>2. ASSUME NEW n \in Nat, n \in S PROVE n + 1 \in S
    <2>1. PICK g \in [0 .. n -> V] : Follows(g, base, step, n)
        BY <1>2
    <2> DEFINE h == [k \in 0 .. n + 1 |-> IF k <= n THEN g[k] ELSE step[<<n, g[n]>>]]
    <2>2. n + 1 \in Nat /\ n \in 0 .. n /\ g[n] \in V /\ step[<<n, g[n]>>] \in V
        BY <2>1
    <2>3. h \in [0 .. n + 1 -> V]
        BY <2>2
    <2>4. ASSUME NEW k \in 0 .. (n + 1) - 1 PROVE h[k + 1] = step[<<k, h[k]>>]
        <3>1. k \in 0 .. n + 1 /\ k + 1 \in 0 .. n + 1 /\ k <= n /\ k \in Nat
            OBVIOUS
        <3>2. h[k] = g[k]
            BY <3>1
        <3>3. CASE k = n
            <4>1. h[k + 1] = step[<<n, g[n]>>]
                BY <3>1, <3>3
            <4> QED
                BY <4>1, <3>2, <3>3
        <3>4. CASE k # n
            <4>1. k \in 0 .. n - 1 /\ k + 1 <= n
                BY <3>1, <3>4
            <4>2. h[k + 1] = g[k + 1]
                BY <3>1, <4>1
            <4>3. g[k + 1] = step[<<k, g[k]>>]
                BY <2>1, <4>1 DEF Follows
            <4> QED
                BY <4>2, <4>3, <3>2
        <3> QED
            BY <3>3, <3>4
    <2>5. h[0] = base
        BY <2>1 DEF Follows
    <2>6. h \in Upto(n + 1)
        BY <2>3, <2>4, <2>5 DEF Follows
    <2> QED
        BY <2>2, <2>6
<1> HIDE DEF S
<1>3. Nat \subseteq S
    BY <1>1, <1>2, SetInduction
<1> DEFINE G(n) == CHOOSE g \in [0 .. n -> V] : Follows(g, base, step, n)
           f == [n \in Nat |-> G(n)[n]]
<1>4. ASSUME NEW n \in Nat PROVE G(n) \in [0 .. n -> V] /\ Follows(G(n), base, step, n)
    <2>1. \E g \in [0 .. n -> V] : Follows(g, base, step, n)
        BY <1>3 DEF S
    <2> QED
        BY <2>1
<1> HIDE DEF G
<1>5. f \in [Nat -> V]
    BY <1>4
<1>6. f[0] = base
    BY <1>4 DEF Follows
<1>7. ASSUME NEW n \in Nat PROVE f[n + 1] = step[<<n, f[n]>>]
    <2>1. n + 1 \in Nat /\ n \in 0 .. n /\ n <= n + 1 /\ n \in 0 .. (n + 1) - 1
        OBVIOUS
    <2>2. G(n)[n] = G(n + 1)[n]
        BY <2>1, <1>4, FollowUnique
    <2>3. G(n + 1)[n + 1] = step[<<n, G(n + 1)[n]>>]
        BY <1>4, <2>1 DEF Follows
    <2> QED
        BY <2>1, <2>2, <2>3
<1> QED
    BY <1>5, <1>6, <1>7 DEF Followers

\* Functions on 0 .. n a recursive definition may stand for.
Solutions(V, base, step, n) ==
    {f \in [0 .. n -> V] :
        f = [i \in 0 .. n |-> IF i = 0 THEN base ELSE step[<<i - 1, f[i - 1]>>]]}

\* There is one.
LEMMA RecursiveFunction ==
    ASSUME NEW V, NEW base \in V, NEW step \in [Nat \X V -> V], NEW n \in Nat
    PROVE  Solutions(V, base, step, n) # {}
<1>1. PICK f \in Followers(V, base, step) : TRUE
    BY Recursion
<1>2. f \in [Nat -> V] /\ f[0] = base /\ \A k \in Nat : f[k + 1] = step[<<k, f[k]>>]
    BY <1>1 DEF Followers
<1> DEFINE g == [i \in 0 .. n |-> f[i]]
<1>3. g \in [0 .. n -> V]
    BY <1>2
<1>4. ASSUME NEW i \in 0 .. n
      PROVE  g[i] = IF i = 0 THEN base ELSE step[<<i - 1, g[i - 1]>>]
    <2>1. CASE i = 0
        BY <2>1, <1>2
    <2>2. CASE i # 0
        <3>1. i - 1 \in Nat /\ (i - 1) + 1 = i /\ i - 1 \in 0 .. n
            BY <2>2
        <3>2. f[(i - 1) + 1] = step[<<i - 1, f[i - 1]>>]
            BY <1>2, <3>1
        <3>3. f[i] = step[<<i - 1, f[i - 1]>>]
            BY <3>1, <3>2
        <3>4. g[i] = f[i] /\ g[i - 1] = f[i - 1]
            BY <3>1
        <3> QED
            BY <3>3, <3>4, <2>2
    <2> QED
        BY <2>1, <2>2
<1>5. g = [i \in 0 .. n |-> g[i]]
    OBVIOUS
<1> HIDE DEF g
<1>6. g = [i \in 0 .. n |-> IF i = 0 THEN base ELSE step[<<i - 1, g[i - 1]>>]]
    BY <1>4, <1>5, Zenon
<1> QED
    BY <1>3, <1>6 DEF Solutions

\* f[i] is the sum of the first i numbers of a, by a recursive definition.
IsSums(f, a, n) == f = [i \in 0 .. n |-> IF i = 0 THEN 0 ELSE f[i - 1] + a[i]]

\* There is such a function.
LEMMA Sums ==
    ASSUME NEW n \in Nat, NEW a \in [1 .. n -> Nat]
    PROVE  \E f : IsSums(f, a, n)
<1> DEFINE step == [p \in Nat \X Nat |-> p[2] + IF p[1] + 1 <= n THEN a[p[1] + 1] ELSE 0]
<1>1. step \in [Nat \X Nat -> Nat] /\ 0 \in Nat
    OBVIOUS
<1>2. ASSUME NEW i \in 1 .. n, NEW v \in Nat PROVE step[<<i - 1, v>>] = v + a[i]
    <2>1. i - 1 \in Nat /\ (i - 1) + 1 = i
        OBVIOUS
    <2> QED
        BY <2>1
<1> HIDE DEF step
<1>3. PICK f \in Solutions(Nat, 0, step, n) : TRUE
    BY <1>1, RecursiveFunction
<1>4. f \in [0 .. n -> Nat]
    BY <1>3, Zenon DEF Solutions
<1>5. f = [i \in 0 .. n |-> IF i = 0 THEN 0 ELSE step[<<i - 1, f[i - 1]>>]]
    BY <1>3, Zenon DEF Solutions
<1>6. ASSUME NEW i \in 0 .. n PROVE f[i] = IF i = 0 THEN 0 ELSE f[i - 1] + a[i]
    <2>1. f[i] = IF i = 0 THEN 0 ELSE step[<<i - 1, f[i - 1]>>]
        BY <1>5, <1>4
    <2>2. i # 0 => i \in 1 .. n /\ f[i - 1] \in Nat
        BY <1>4
    <2> QED
        BY <2>1, <2>2, <1>2
<1>7. f = [i \in 0 .. n |-> f[i]]
    BY <1>4
<1> QED
    BY <1>6, <1>7, Zenon DEF IsSums

\* It adds up, and never falls.
LEMMA SumsOf ==
    ASSUME NEW n \in Nat, NEW a \in [1 .. n -> Nat], NEW f, IsSums(f, a, n)
    PROVE  /\ f \in [0 .. n -> Nat]
           /\ f[0] = 0
           /\ \A i \in 1 .. n : f[i] = f[i - 1] + a[i]
           /\ \A i, j \in 0 .. n : i <= j => f[i] <= f[j]
<1>1. \A i \in 0 .. n : f[i] = IF i = 0 THEN 0 ELSE f[i - 1] + a[i]
    BY Zenon DEF IsSums
<1>2. f[0] = 0
    BY <1>1
<1>3. ASSUME NEW i \in 1 .. n PROVE f[i] = f[i - 1] + a[i]
    BY <1>1
<1> DEFINE S == {i \in Nat : i <= n => f[i] \in Nat /\ \A j \in 0 .. i : f[j] \in Nat /\ f[j] <= f[i]}
<1>4. 0 \in S
    BY <1>2
<1>5. ASSUME NEW i \in Nat, i \in S PROVE i + 1 \in S
    <2> SUFFICES ASSUME i + 1 <= n
                 PROVE  f[i + 1] \in Nat /\ \A j \in 0 .. i + 1 : f[j] \in Nat /\ f[j] <= f[i + 1]
        OBVIOUS
    <2>1. i + 1 \in 1 .. n /\ (i + 1) - 1 = i /\ a[i + 1] \in Nat
        OBVIOUS
    <2>2. f[i + 1] = f[i] + a[i + 1]
        BY <1>3, <2>1
    <2>3. f[i] \in Nat /\ \A j \in 0 .. i : f[j] \in Nat /\ f[j] <= f[i]
        BY <1>5
    <2>4. ASSUME NEW j \in 0 .. i PROVE f[j] \in Nat /\ f[j] <= f[i + 1]
        BY <2>1, <2>2, <2>3
    <2>5. f[i + 1] \in Nat /\ f[i + 1] <= f[i + 1]
        BY <2>1, <2>2, <2>3
    <2>6. \A j \in 0 .. i + 1 : j = i + 1 \/ j \in 0 .. i
        OBVIOUS
    <2> QED
        BY <2>4, <2>5, <2>6
<1> HIDE DEF S
<1>6. Nat \subseteq S
    BY <1>4, <1>5, SetInduction
<1>7. \A i \in 0 .. n : f[i] \in Nat /\ \A j \in 0 .. i : f[j] <= f[i]
    BY <1>6 DEF S
<1>8. f = [i \in 0 .. n |-> f[i]]
    BY Zenon DEF IsSums
<1>9. f \in [0 .. n -> Nat]
    BY <1>7, <1>8
<1>10. ASSUME NEW i \in 0 .. n, NEW j \in 0 .. n, i <= j PROVE f[i] <= f[j]
    BY <1>7, <1>10
<1> QED
    BY <1>2, <1>3, <1>9, <1>10, Zenon

Divides(d, n) == \E k \in Nat : n = d * k

\* f[i] is the product of the first i numbers of a, by a recursive definition.
IsProducts(f, a, n) == f = [i \in 0 .. n |-> IF i = 0 THEN 1 ELSE f[i - 1] * a[i]]

\* There is such a function.
LEMMA Products ==
    ASSUME NEW n \in Nat, NEW a \in [1 .. n -> Nat]
    PROVE  \E f : IsProducts(f, a, n)
<1> DEFINE step == [p \in Nat \X Nat |-> p[2] * IF p[1] + 1 <= n THEN a[p[1] + 1] ELSE 0]
<1>1. step \in [Nat \X Nat -> Nat] /\ 1 \in Nat
    OBVIOUS
<1>2. ASSUME NEW i \in 1 .. n, NEW v \in Nat PROVE step[<<i - 1, v>>] = v * a[i]
    <2>1. i - 1 \in Nat /\ (i - 1) + 1 = i
        OBVIOUS
    <2> QED
        BY <2>1
<1> HIDE DEF step
<1>3. PICK f \in Solutions(Nat, 1, step, n) : TRUE
    BY <1>1, RecursiveFunction
<1>4. f \in [0 .. n -> Nat]
    BY <1>3, Zenon DEF Solutions
<1>5. f = [i \in 0 .. n |-> IF i = 0 THEN 1 ELSE step[<<i - 1, f[i - 1]>>]]
    BY <1>3, Zenon DEF Solutions
<1>6. ASSUME NEW i \in 0 .. n PROVE f[i] = IF i = 0 THEN 1 ELSE f[i - 1] * a[i]
    <2>1. f[i] = IF i = 0 THEN 1 ELSE step[<<i - 1, f[i - 1]>>]
        BY <1>5, <1>4
    <2>2. i # 0 => i \in 1 .. n /\ f[i - 1] \in Nat
        BY <1>4
    <2> QED
        BY <2>1, <2>2, <1>2
<1>7. f = [i \in 0 .. n |-> f[i]]
    BY <1>4
<1> QED
    BY <1>6, <1>7, Zenon DEF IsProducts

\* It multiplies up; from the first number on, the first number divides it.
LEMMA ProductsOf ==
    ASSUME NEW n \in Nat, NEW a \in [1 .. n -> Nat], NEW f, IsProducts(f, a, n)
    PROVE  /\ f \in [0 .. n -> Nat]
           /\ f[0] = 1
           /\ \A i \in 1 .. n : f[i] = f[i - 1] * a[i]
           /\ \A i \in 1 .. n : Divides(a[1], f[i])
<1>1. \A i \in 0 .. n : f[i] = IF i = 0 THEN 1 ELSE f[i - 1] * a[i]
    BY Zenon DEF IsProducts
<1>2. f[0] = 1
    BY <1>1
<1>3. ASSUME NEW i \in 1 .. n PROVE f[i] = f[i - 1] * a[i]
    BY <1>1
<1> DEFINE S == {i \in Nat : i <= n =>
                   f[i] \in Nat /\ (i >= 1 => \E k \in Nat : f[i] = a[1] * k)}
<1>4. 0 \in S
    BY <1>2
<1>5. ASSUME NEW i \in Nat, i \in S PROVE i + 1 \in S
    <2> SUFFICES ASSUME i + 1 <= n
                 PROVE  f[i + 1] \in Nat /\ \E k \in Nat : f[i + 1] = a[1] * k
        OBVIOUS
    <2>1. i + 1 \in 1 .. n /\ (i + 1) - 1 = i /\ a[i + 1] \in Nat /\ a[1] \in Nat
        OBVIOUS
    <2>2. f[i + 1] = f[i] * a[i + 1]
        BY <1>3, <2>1
    <2>3. f[i] \in Nat
        BY <1>5
    <2>4. f[i + 1] \in Nat
        BY <2>1, <2>2, <2>3
    <2>5. CASE i = 0
        <3>1. f[i + 1] = a[1] * 1
            BY <2>1, <2>2, <2>5, <1>2
        <3> QED
            BY <3>1, <2>4
    <2>6. CASE i # 0
        <3>1. PICK k \in Nat : f[i] = a[1] * k
            BY <1>5, <2>6
        <3>2. f[i + 1] = a[1] * (k * a[i + 1]) /\ k * a[i + 1] \in Nat
            BY <2>1, <2>2, <3>1, Associate
        <3> QED
            BY <3>2, <2>4
    <2> QED
        BY <2>5, <2>6
<1> HIDE DEF S
<1>6. Nat \subseteq S
    BY <1>4, <1>5, SetInduction
<1>7. f = [i \in 0 .. n |-> f[i]]
    BY Zenon DEF IsProducts
<1>8. \A i \in 0 .. n : f[i] \in Nat
    BY <1>6 DEF S
<1>9. \A i \in 1 .. n : Divides(a[1], f[i])
    BY <1>6 DEF S, Divides
<1>10. f \in [0 .. n -> Nat]
    BY <1>7, <1>8
<1> QED
    BY <1>2, <1>3, <1>9, <1>10, Zenon
=============================================================================
