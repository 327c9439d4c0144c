------------------------------- MODULE Induction -------------------------------
(***************************************************************************)
(* Induction over the naturals, stated of sets, and what it says of        *)
(* definitions by recursion, stated of functions: in this form the lemmas  *)
(* are of first order and can be cited wherever a definition recurs.       *)
(***************************************************************************)
EXTENDS Integers, FiniteSetTheorems, WellFoundedInduction, TLAPS

\* A set of numbers has a least one.
LEMMA LeastNumber ==
    ASSUME NEW s \in SUBSET Nat, s # {}
    PROVE  \E n \in s : \A m \in s : n <= m
<1> DEFINE below == {ss \in Nat \X Nat : ss[1] < ss[2]}
<1>1. PICK n \in s : \A m \in s : ~ (<<m, n>> \in below)
  BY NatLessThanWellFounded, WFMin DEF OpToRel
<1>2. ASSUME NEW m \in s PROVE n <= m
  <2>1. <<m, n>> \in Nat \X Nat /\ m \in Nat /\ n \in Nat
    OBVIOUS
  <2>2. ~ (m < n)
    BY <1>1, <2>1
  <2>3. QED
    BY <2>1, <2>2
<1>3. QED
  BY <1>2

\* A bounded set of numbers has a greatest one.
LEMMA GreatestNumber ==
    ASSUME NEW s \in SUBSET Nat, s # {}, NEW b \in Nat, \A n \in s : n <= b
    PROVE  \E n \in s : \A m \in s : m <= n
<1> DEFINE t == {b - n : n \in s}
<1>1. t \in SUBSET Nat /\ t # {}
  <2>1. \A n \in s : n \in Nat /\ b - n \in Nat
    OBVIOUS
  <2>2. QED
    BY <2>1
<1>2. PICK k \in t : \A l \in t : k <= l
  BY <1>1, LeastNumber
<1>3. PICK n \in s : k = b - n
  OBVIOUS
<1>4. ASSUME NEW m \in s PROVE m <= n
  <2>1. b - n <= b - m
    BY <1>2, <1>3
  <2>2. QED
    BY <2>1
<1>5. QED
  BY <1>4

\* A set that has 0, and with each number below b the next one, has all to b.
LEMMA UpTo ==
    ASSUME NEW b \in Nat, NEW s, 0 \in s, \A n \in 0..(b - 1) : n \in s => n + 1 \in s
    PROVE  \A n \in 0..b : n \in s
<1> DEFINE t == {n \in 0..b : n \notin s}
<1>1. SUFFICES ASSUME t # {} PROVE FALSE
  OBVIOUS
<1>2. PICK n \in t : \A m \in t : n <= m
  <2>1. t \in SUBSET Nat
    OBVIOUS
  <2>2. QED
    BY <1>1, <2>1, LeastNumber
<1>3. n # 0 /\ n \in 0..b
  OBVIOUS
<1>4. n - 1 \in 0..(b - 1) /\ ~ (n - 1 \in t)
  BY <1>2, <1>3
<1>5. n - 1 \in s /\ n = (n - 1) + 1
  BY <1>3, <1>4
<1>6. QED
  BY <1>4, <1>5

\* f starts from a, and goes on by step up to b.
Recurs(f, b, A, a, step) ==
    /\ f \in [0..b -> A]
    /\ f[0] = a
    /\ \A n \in 1..b : f[n] = step[<<n, f[n - 1]>>]

\* A step that is given for every place and every value defines a function.
LEMMA Recursion ==
    ASSUME NEW A, NEW a \in A, NEW b \in Nat, NEW step \in [Nat \X A -> A]
    PROVE  \E f : Recurs(f, b, A, a, step)
<1> DEFINE s == {n \in 0..b : \E f : Recurs(f, n, A, a, step)}
<1>1. 0 \in s
  <2> DEFINE f == [n \in 0..0 |-> a]
  <2>1. f \in [0..0 -> A] /\ f[0] = a /\ 1..0 = {}
    OBVIOUS
  <2>2. Recurs(f, 0, A, a, step)
    BY <2>1 DEF Recurs
  <2> HIDE DEF f
  <2>3. QED
    BY <2>2
<1>2. ASSUME NEW n \in 0..(b - 1), n \in s PROVE n + 1 \in s
  <2>1. PICK f : Recurs(f, n, A, a, step)
    BY <1>2
  <2>2. /\ f \in [0..n -> A] /\ f[0] = a
        /\ \A m \in 1..n : f[m] = step[<<m, f[m - 1]>>]
    BY <2>1 DEF Recurs
  <2> DEFINE g == [m \in 0..(n + 1) |-> IF m = n + 1 THEN step[<<n + 1, f[n]>>] ELSE f[m]]
  <2>3. step[<<n + 1, f[n]>>] \in A /\ n + 1 \in 0..b
    BY <2>2
  <2>4. g \in [0..(n + 1) -> A] /\ g[0] = a
    BY <2>2, <2>3
  <2>5. ASSUME NEW m \in 1..(n + 1) PROVE g[m] = step[<<m, g[m - 1]>>]
    <3>1. CASE m = n + 1
      <4>1. m - 1 = n /\ n # n + 1 /\ n \in 0..(n + 1) /\ m \in 0..(n + 1)
        BY <3>1
      <4>2. g[m - 1] = f[n] /\ g[m] = step[<<n + 1, f[n]>>]
        BY <3>1, <4>1
      <4>3. QED
        BY <3>1, <4>2
    <3>2. CASE m # n + 1
      BY <2>2, <3>2
    <3>3. QED
      BY <3>1, <3>2
  <2> HIDE DEF g
  <2>6. Recurs(g, n + 1, A, a, step)
    BY <2>4, <2>5 DEF Recurs
  <2>7. QED
    BY <2>3, <2>6
<1> HIDE DEF s
<1>3. \A n \in 0..b : n \in s
  BY <1>1, <1>2, UpTo
<1>4. QED
  BY <1>3 DEF s

\* Two functions that start and go on alike agree.
LEMMA RecursAlike ==
    ASSUME NEW A, NEW a, NEW step, NEW b \in Nat, NEW c \in Nat, NEW f, NEW g,
           Recurs(f, b, A, a, step), Recurs(g, c, A, a, step)
    PROVE  \A n \in 0..b : n <= c => f[n] = g[n]
<1> DEFINE s == {n \in 0..b : n <= c => f[n] = g[n]}
<1>1. /\ f[0] = a /\ \A n \in 1..b : f[n] = step[<<n, f[n - 1]>>]
      /\ g[0] = a /\ \A n \in 1..c : g[n] = step[<<n, g[n - 1]>>]
  BY DEF Recurs
<1>2. 0 \in s
  BY <1>1
<1>3. ASSUME NEW n \in 0..(b - 1), n \in s PROVE n + 1 \in s
  <2>1. n + 1 \in 1..b /\ n + 1 \in 0..b /\ (n + 1) - 1 = n
    BY <1>3
  <2>2. ASSUME n + 1 <= c PROVE f[n + 1] = g[n + 1]
    <3>1. n + 1 \in 1..c /\ n <= c
      BY <2>1, <2>2
    <3>2. f[n] = g[n]
      BY <1>3, <3>1
    <3>3. QED
      BY <1>1, <2>1, <3>1, <3>2
  <2>3. QED
    BY <2>1, <2>2
<1> HIDE DEF s
<1>4. \A n \in 0..b : n \in s
  BY <1>2, <1>3, UpTo
<1>5. QED
  BY <1>4 DEF s

\* The same over all numbers.
RecursOnNat(f, A, a, step) ==
    /\ f \in [Nat -> A]
    /\ f[0] = a
    /\ \A n \in Nat \ {0} : f[n] = step[<<n, f[n - 1]>>]

\* And a step defines a function of all numbers.
LEMMA RecursionOnNat ==
    ASSUME NEW A, NEW a \in A, NEW step \in [Nat \X A -> A]
    PROVE  \E f : RecursOnNat(f, A, a, step)
<1> DEFINE upTo(b) == CHOOSE g : Recurs(g, b, A, a, step)
           f == [n \in Nat |-> upTo(n)[n]]
<1>1. ASSUME NEW b \in Nat PROVE Recurs(upTo(b), b, A, a, step)
  <2>1. \E g : Recurs(g, b, A, a, step)
    BY Recursion
  <2>2. QED
    BY <2>1
<1> HIDE DEF upTo
<1>2. f \in [Nat -> A]
  <2>1. ASSUME NEW n \in Nat PROVE upTo(n)[n] \in A
    <3>1. upTo(n) \in [0..n -> A]
      BY <1>1 DEF Recurs
    <3>2. QED
      BY <3>1
  <2>2. QED
    BY <2>1
<1>3. f[0] = a
  BY <1>1 DEF Recurs
<1>4. ASSUME NEW n \in Nat \ {0} PROVE f[n] = step[<<n, f[n - 1]>>]
  <2>1. n - 1 \in Nat /\ n - 1 \in 0..(n - 1) /\ n - 1 <= n /\ n \in 1..n
    OBVIOUS
  <2>2. Recurs(upTo(n), n, A, a, step) /\ Recurs(upTo(n - 1), n - 1, A, a, step)
    BY <1>1, <2>1
  <2>3. upTo(n - 1)[n - 1] = upTo(n)[n - 1]
    BY <2>1, <2>2, RecursAlike
  <2>4. upTo(n)[n] = step[<<n, upTo(n)[n - 1]>>]
    BY <2>1, <2>2 DEF Recurs
  <2>5. QED
    BY <2>1, <2>3, <2>4
<1> HIDE DEF f
<1>5. RecursOnNat(f, A, a, step)
  BY <1>2, <1>3, <1>4 DEF RecursOnNat
<1>6. QED
  BY <1>5

\* f lists the numbers of s in order.
Ascends(f, s) == /\ f \in [1..Cardinality(s) -> s]
                 /\ \A k, j \in 1..Cardinality(s) : k < j => f[k] < f[j]

\* A finite set of numbers can be listed in order.
LEMMA Ascending ==
    ASSUME NEW b \in Nat, NEW s \in SUBSET (1..b)
    PROVE  \E f : Ascends(f, s)
<1> DEFINE upTo(n) == {m \in s : m <= n}
           t == {n \in 0..b : \E f : Ascends(f, upTo(n))}
<1>s. \A m \in s : m \in Nat /\ 1 <= m /\ m <= b
  OBVIOUS
<1>0. \A n \in Nat : IsFiniteSet(upTo(n)) /\ Cardinality(upTo(n)) \in Nat
  <2>1. IsFiniteSet(1..b)
    BY FS_Interval
  <2>2. IsFiniteSet(s)
    BY <2>1, FS_Subset
  <2>3. QED
    BY <2>2, FS_Subset, FS_CardinalityType
<1>1. 0 \in t
  <2>1. upTo(0) = {}
    <3>1. \A m \in s : ~ (m <= 0)
      BY <1>s
    <3>2. QED
      BY <3>1
  <2>2. Cardinality(upTo(0)) = 0 /\ 1..0 = {}
    BY <2>1, FS_EmptySet
  <2> DEFINE f == [k \in 1..0 |-> k]
  <2>3. Ascends(f, upTo(0))
    BY <2>2 DEF Ascends
  <2> HIDE DEF f
  <2>4. QED
    BY <2>3
<1>2. ASSUME NEW n \in 0..(b - 1), n \in t PROVE n + 1 \in t
  <2>1. PICK f : Ascends(f, upTo(n))
    BY <1>2
  <2>2. n \in Nat /\ n + 1 \in 0..b
    OBVIOUS
  <2>a. /\ \A m \in s : m <= n + 1 <=> m <= n \/ m = n + 1
        /\ ~ (n + 1 <= n)
    BY <1>s, <2>2
  <2>3. CASE n + 1 \notin s
    <3>1. upTo(n + 1) = upTo(n)
      BY <2>a, <2>3
    <3>2. QED
      BY <2>1, <2>2, <3>1
  <2>4. CASE n + 1 \in s
    <3>1. upTo(n + 1) = upTo(n) \cup {n + 1} /\ n + 1 \notin upTo(n)
      BY <2>a, <2>4
    <3>2. PICK c \in Nat : c = Cardinality(upTo(n))
      BY <1>0, <2>2
    <3>3. Cardinality(upTo(n + 1)) = c + 1
      BY <1>0, <2>2, <3>1, <3>2, FS_AddElement
    <3> DEFINE g == [k \in 1..(c + 1) |-> IF k = c + 1 THEN n + 1 ELSE f[k]]
    <3>4. /\ f \in [1..c -> upTo(n)]
          /\ \A k, j \in 1..c : k < j => f[k] < f[j]
      BY <2>1, <3>2 DEF Ascends
    <3> HIDE DEF t
    <3>5. ASSUME NEW k \in 1..c PROVE f[k] \in upTo(n) /\ f[k] < n + 1 /\ f[k] \in Nat
      <4>1. f[k] \in upTo(n)
        BY <3>4
      <4>2. f[k] <= n /\ f[k] \in Nat
        BY <1>s, <4>1
      <4>3. QED
        BY <2>2, <4>1, <4>2
    <3> HIDE DEF upTo
    <3>6. g \in [1..(c + 1) -> upTo(n + 1)]
      BY <3>1, <3>5
    <3>7. ASSUME NEW k \in 1..(c + 1), NEW j \in 1..(c + 1), k < j PROVE g[k] < g[j]
      BY <3>4, <3>5, <3>7
    <3> HIDE DEF g
    <3>8. Ascends(g, upTo(n + 1))
      BY <3>3, <3>6, <3>7 DEF Ascends
    <3>9. QED
      BY <2>2, <3>8 DEF t
  <2>5. QED
    BY <2>3, <2>4
<1>3. b \in t
  <2>1. b \in 0..b
    OBVIOUS
  <2> HIDE DEF t
  <2>2. QED
    BY <1>1, <1>2, <2>1, UpTo
<1>4. upTo(b) = s
  BY <1>s
<1>5. QED
  BY <1>3, <1>4

\* Such a list has each number once.
LEMMA AscendingIsOnto ==
    ASSUME NEW b \in Nat, NEW s \in SUBSET (1..b), NEW f, Ascends(f, s)
    PROVE  /\ Cardinality(s) \in 0..b
           /\ \A k, j \in 1..Cardinality(s) : f[k] = f[j] => k = j
           /\ \A x \in s : \E k \in 1..Cardinality(s) : f[k] = x
<1>1. IsFiniteSet(1..b) /\ Cardinality(1..b) = b
  BY FS_Interval
<1>2. IsFiniteSet(s) /\ Cardinality(s) \in Nat /\ Cardinality(s) <= b
  BY <1>1, FS_Subset, FS_CardinalityType
<1>3. PICK c \in Nat : c = Cardinality(s)
  BY <1>2
<1>4. f \in [1..c -> s] /\ \A k, j \in 1..c : k < j => f[k] < f[j]
  BY <1>3 DEF Ascends
<1>s. \A m \in s : m \in Int
  OBVIOUS
<1>5. ASSUME NEW k \in 1..c, NEW j \in 1..c, f[k] = f[j] PROVE k = j
  <2>1. f[k] \in Int /\ f[j] \in Int
    BY <1>s, <1>4
  <2>2. ~ (k < j) /\ ~ (j < k)
    BY <1>4, <1>5, <2>1
  <2>3. QED
    BY <2>2
<1>6. f \in Injection(1..c, s)
  BY <1>4, <1>5 DEF Injection, IsInjective
<1>7. Cardinality(1..c) = c
  BY FS_Interval
<1>8. f \in Surjection(1..c, s)
  BY <1>2, <1>3, <1>6, <1>7, FS_Injection
<1>9. \A x \in s : \E k \in 1..c : f[k] = x
  BY <1>8 DEF Surjection
<1>10. QED
  BY <1>2, <1>3, <1>5, <1>9

\* A set that has no two elements.
LEMMA AtMostOne ==
    ASSUME NEW s, \A x, y \in s : x = y
    PROVE  Cardinality(s) <= 1
<1>1. CASE s = {}
  BY <1>1, FS_EmptySet
<1>2. CASE s # {}
  <2>1. PICK x : x \in s
    BY <1>2
  <2>2. s = {x}
    BY <2>1
  <2>3. Cardinality({x}) = 1
    BY FS_Singleton
  <2>4. QED
    BY <2>2, <2>3
<1>3. QED
  BY <1>1, <1>2
=============================================================================
